---------------------------- MODULE WebAuth_proofs ----------------------------
(***************************************************************************)
(* Proofs about WebAuth, for any sets of goroutines, nonces, signatures    *)
(* and signer sets, any durations and any number of restarts.              *)
(***************************************************************************)
EXTENDS WebAuth, FiniteSetTheorems, WellFoundedInduction, TLAPS

-----------------------------------------------------------------------------
(* Whole seconds. *)

LEMMA UnixType == ASSUME NEW t \in Nat PROVE Unix(t) \in Nat
BY ConstantsAssumption DEF Unix

LEMMA UnixMonotone ==
    ASSUME NEW t \in Nat, NEW u \in Nat, t <= u
    PROVE  Unix(t) <= Unix(u)
BY ConstantsAssumption DEF Unix

LEMMA UnixNext ==
    ASSUME NEW t \in Nat
    PROVE  Unix(t + TicksPerSecond) = Unix(t) + 1
BY ConstantsAssumption DEF Unix

-----------------------------------------------------------------------------
(* Types, and which nonces are about. *)

\* Whatever a call, a client or a JWT holds was drawn before.
DrawnOK ==
    /\ \A c \in Caller :
          /\ call[c].nonce \in drawn \cup {NoNonce}
          /\ call[c].pc \notin {"idle", "consume"} => call[c].nonce \in drawn
    /\ \A ch \in challenges : ch.nonce \in drawn
    /\ \A i \in DOMAIN jwts : jwts[i].nonce \in drawn

BasicInv == TypeOK /\ DrawnOK

LEMMA EntryTime == ASSUME NEW e \in Entry PROVE e.expiresAt \in Nat
<1>1. e.expiresAt \in Times
  BY DEF Entry
<1> QED
  BY <1>1, ConstantsAssumption DEF Times

LEMMA CleanedType == TypeOK => Cleaned \in [Nonce -> Entry \cup {Missing}]
BY DEF TypeOK, Cleaned

LEMMA IdleType == Idle \in CallRecord
BY DEF Idle, CallRecord

LEMMA TypeStep == BasicInv /\ [Next]_vars => TypeOK'
<1> SUFFICES ASSUME BasicInv, [Next]_vars PROVE TypeOK'
  OBVIOUS
<1>0. /\ TypeOK /\ DrawnOK
      /\ now \in Nat /\ now \in 0..MaxTime /\ MaxTime \in Nat
      /\ ChallengeTimeout \in Nat /\ JWTExpiry \in Nat
      /\ call \in [Caller -> CallRecord]
      /\ \A c \in Caller : call[c] \in CallRecord
  BY ConstantsAssumption DEF BasicInv, TypeOK
<1> USE DEF TypeOK
<1>1. ASSUME NEW c \in Caller, AddNonce(c) PROVE TypeOK'
  <2>1. PICK n \in Nonce \ drawn :
           /\ drawn' = drawn \cup {n}
           /\ nonces' = [nonces EXCEPT ![n] =
                 [expiresAt |-> ExpiresAt(now), consumed |-> FALSE, stored |-> TRUE]]
           /\ call' = [call EXCEPT ![c] = [Idle EXCEPT !.pc = "build", !.nonce = n]]
    BY <1>1 DEF AddNonce
  <2>2. [expiresAt |-> ExpiresAt(now), consumed |-> FALSE, stored |-> TRUE] \in Entry
    BY <1>0 DEF Entry, ExpiresAt, Times
  <2>3. [Idle EXCEPT !.pc = "build", !.nonce = n] \in CallRecord
    BY DEF Idle, CallRecord
  <2> QED
    BY <1>0, <1>1, <2>1, <2>2, <2>3 DEF AddNonce
<1>2. ASSUME NEW c \in Caller, BuildChallenge(c) PROVE TypeOK'
  <2>1. MaxTimeAt(now) \in Nat
    BY <1>0, UnixType DEF MaxTimeAt
  <2>2. call' \in [Caller -> CallRecord]
    BY <1>0, <1>2, <2>1 DEF BuildChallenge, CallRecord
  <2> QED
    BY <1>0, <1>2, <2>2 DEF BuildChallenge
<1>3. ASSUME NEW c \in Caller, SignChallenge(c) PROVE TypeOK'
  <2>1. [nonce |-> call[c].nonce, maxTime |-> call[c].maxTime] \in Challenge
    BY <1>0, <1>3 DEF SignChallenge, DrawnOK, Challenge, CallRecord
  <2> QED
    BY <1>0, <1>3, <2>1, IdleType DEF SignChallenge
<1>4. ASSUME NEW c \in Caller, CreateFails(c) PROVE TypeOK'
  BY <1>0, <1>4, IdleType DEF CreateFails
<1>5. ASSUME NEW c \in Caller, Present(c) PROVE TypeOK'
  <2>1. PICK ch \in challenges \cup {Foreign} :
           call' = [call EXCEPT ![c] = [Idle EXCEPT
              !.pc = "consume", !.nonce = ch.nonce, !.maxTime = ch.maxTime]]
    BY <1>5 DEF Present
  <2>2. ch.nonce \in Nonce \cup {NoNonce} /\ ch.maxTime \in Nat
    BY <1>0, <2>1 DEF Challenge, Foreign
  <2>3. [Idle EXCEPT !.pc = "consume", !.nonce = ch.nonce, !.maxTime = ch.maxTime]
          \in CallRecord
    BY <2>2 DEF Idle, CallRecord
  <2> QED
    BY <1>0, <1>5, <2>1, <2>3 DEF Present
<1>6. ASSUME NEW c \in Caller, Consume(c) PROVE TypeOK'
  <2>1. call' \in [Caller -> CallRecord]
    BY <1>0, <1>6 DEF Consume, CallRecord
  <2>2. Cleaned[call[c].nonce] \in Entry /\ call[c].nonce \in Nonce
    BY <1>0, <1>6, CleanedType DEF Consume, Consumable, Missing
  <2>3. [Cleaned[call[c].nonce] EXCEPT !.consumed = TRUE] \in Entry
    BY <2>2 DEF Entry
  <2>4. nonces' \in [Nonce -> Entry \cup {Missing}]
    BY <1>0, <1>6, <2>2, <2>3, CleanedType DEF Consume
  <2> QED
    BY <1>0, <1>6, <2>1, <2>4 DEF Consume
<1>7. ASSUME NEW c \in Caller, ConsumeRefused(c) PROVE TypeOK'
  BY <1>0, <1>7, IdleType, CleanedType DEF ConsumeRefused
<1>8. ASSUME NEW c \in Caller, CheckSignatures(c) PROVE TypeOK'
  <2>1. PICK sigs \in Signature, signers \in Fetched \cup {MasterOnly} :
           call' = [call EXCEPT ![c].pc = "issue", ![c].sigs = sigs,
                                ![c].signers = signers]
    BY <1>8 DEF CheckSignatures
  <2>2. [call[c] EXCEPT !.pc = "issue", !.sigs = sigs, !.signers = signers]
          \in CallRecord
    <3>1. call[c] \in CallRecord
      BY <1>0
    <3> QED
      BY <3>1, <2>1 DEF CallRecord
  <2>3. call' = [call EXCEPT ![c] =
          [call[c] EXCEPT !.pc = "issue", !.sigs = sigs, !.signers = signers]]
    BY <1>0, <2>1
  <2> QED
    BY <1>0, <1>8, <2>2, <2>3 DEF CheckSignatures
<1>9. ASSUME NEW c \in Caller, Refuse(c) PROVE TypeOK'
  BY <1>0, <1>9, IdleType DEF Refuse
<1>10. ASSUME NEW c \in Caller, Issue(c) PROVE TypeOK'
  <2>1. [nonce |-> call[c].nonce, issuedAt |-> now, exp |-> Unix(now + JWTExpiry)] \in JWT
    <3>1. call[c].nonce \in Nonce
      BY <1>0, <1>10 DEF Issue, DrawnOK
    <3>2. Unix(now + JWTExpiry) \in Nat
      BY <1>0, UnixType
    <3> QED
      BY <1>0, <3>1, <3>2 DEF JWT
  <2> QED
    BY <1>0, <1>10, <2>1, IdleType DEF Issue
<1>11. CASE Tick
  BY <1>0, <1>11 DEF Tick
<1>12. CASE Crash
  BY <1>0, <1>12, IdleType, ConstantsAssumption DEF Crash
<1>13. CASE UNCHANGED vars
  BY <1>0, <1>13 DEF vars
<1> QED
  BY <1>1, <1>2, <1>3, <1>4, <1>5, <1>6, <1>7, <1>8, <1>9, <1>10, <1>11, <1>12,
     <1>13 DEF Next, Create, VerifyChallenge

LEMMA DrawnStep == BasicInv /\ [Next]_vars => DrawnOK'
<1> SUFFICES ASSUME BasicInv, [Next]_vars PROVE DrawnOK'
  OBVIOUS
<1>0. /\ TypeOK /\ DrawnOK
      /\ call \in [Caller -> CallRecord]
      /\ \A c \in Caller : call[c] \in CallRecord
      /\ jwts \in Seq(JWT)
      /\ Idle.nonce = NoNonce /\ Idle.pc = "idle"
  BY DEF BasicInv, TypeOK, Idle
<1>1. ASSUME NEW c \in Caller, AddNonce(c) PROVE DrawnOK'
  <2>1. PICK n \in Nonce \ drawn :
           /\ drawn' = drawn \cup {n}
           /\ call' = [call EXCEPT ![c] = [Idle EXCEPT !.pc = "build", !.nonce = n]]
    BY <1>1 DEF AddNonce
  <2> QED
    BY <1>0, <1>1, <2>1 DEF AddNonce, DrawnOK, Idle
<1>2. ASSUME NEW c \in Caller, BuildChallenge(c) PROVE DrawnOK'
  BY <1>0, <1>2 DEF BuildChallenge, DrawnOK, CallRecord
<1>3. ASSUME NEW c \in Caller, SignChallenge(c) PROVE DrawnOK'
  BY <1>0, <1>3 DEF SignChallenge, DrawnOK
<1>4. ASSUME NEW c \in Caller, CreateFails(c) PROVE DrawnOK'
  BY <1>0, <1>4 DEF CreateFails, DrawnOK
<1>5. ASSUME NEW c \in Caller, Present(c) PROVE DrawnOK'
  <2>1. PICK ch \in challenges \cup {Foreign} :
           call' = [call EXCEPT ![c] = [Idle EXCEPT
              !.pc = "consume", !.nonce = ch.nonce, !.maxTime = ch.maxTime]]
    BY <1>5 DEF Present
  <2>2. ch.nonce \in drawn \cup {NoNonce}
    BY <1>0, <2>1 DEF DrawnOK, Foreign
  <2> QED
    BY <1>0, <1>5, <2>1, <2>2 DEF Present, DrawnOK, Idle
<1>6. ASSUME NEW c \in Caller, Consume(c) PROVE DrawnOK'
  <2>1. call[c].nonce \in drawn
    BY <1>0, <1>6, ConstantsAssumption DEF Consume, Consumable, DrawnOK
  <2> QED
    BY <1>0, <1>6, <2>1 DEF Consume, DrawnOK, CallRecord
<1>7. ASSUME NEW c \in Caller, ConsumeRefused(c) PROVE DrawnOK'
  BY <1>0, <1>7 DEF ConsumeRefused, DrawnOK
<1>8. ASSUME NEW c \in Caller, CheckSignatures(c) PROVE DrawnOK'
  BY <1>0, <1>8 DEF CheckSignatures, DrawnOK, CallRecord
<1>9. ASSUME NEW c \in Caller, Refuse(c) PROVE DrawnOK'
  BY <1>0, <1>9 DEF Refuse, DrawnOK
<1>10. ASSUME NEW c \in Caller, Issue(c) PROVE DrawnOK'
  <2>1. \A i \in DOMAIN jwts' : jwts'[i].nonce \in drawn
    BY <1>0, <1>10 DEF Issue, DrawnOK
  <2> QED
    BY <1>0, <1>10, <2>1 DEF Issue, DrawnOK
<1>11. CASE Tick
  BY <1>0, <1>11 DEF Tick, DrawnOK
<1>12. CASE Crash
  BY <1>0, <1>12 DEF Crash, DrawnOK
<1>13. CASE UNCHANGED vars
  BY <1>0, <1>13 DEF vars, DrawnOK
<1> QED
  BY <1>1, <1>2, <1>3, <1>4, <1>5, <1>6, <1>7, <1>8, <1>9, <1>10, <1>11, <1>12,
     <1>13 DEF Next, Create, VerifyChallenge

LEMMA InitBasic == Init => BasicInv
BY ConstantsAssumption, IdleType DEF Init, BasicInv, TypeOK, DrawnOK, Idle

\* Every variable keeps its type, and nothing holds a nonce that was not drawn.
THEOREM BasicCorrect == Spec => []BasicInv
<1>1. BasicInv /\ [Next]_vars => BasicInv'
  BY TypeStep, DrawnStep DEF BasicInv
<1> QED
  BY <1>1, InitBasic, PTL DEF Spec

\* The type invariant of the model of AuthIssuer and its stores.
THEOREM TypeCorrect == Spec => []TypeOK
<1>1. BasicInv => TypeOK
  BY DEF BasicInv
<1> QED
  BY <1>1, BasicCorrect, PTL

-----------------------------------------------------------------------------
(* One JWT per challenge. *)

\* A spent nonce stays spent: its entry is marked or gone, and it is not drawn
\* again.
Spent(n) == n \in drawn /\ nonces[n].consumed

\* The strengthening: what a call is using or a JWT was issued for is spent,
\* and belongs to that call or that JWT alone.
SpentOK ==
    /\ \A i \in DOMAIN jwts : Spent(jwts[i].nonce)
    /\ \A c \in Caller : Using(c) => Spent(call[c].nonce) /\ ~Granted(call[c].nonce)
    /\ \A c, d \in Caller :
          Using(c) /\ Using(d) /\ call[c].nonce = call[d].nonce => c = d
    /\ ChallengeGrantsOnce

SpentInv == BasicInv /\ SpentOK

\* A step that spends no nonce, starts no use and issues nothing keeps SpentOK.
LEMMA SpentKept ==
    ASSUME SpentOK, UNCHANGED jwts,
           \A n : Spent(n) => Spent(n)',
           \A c \in Caller : Using(c)' => Using(c) /\ call'[c].nonce = call[c].nonce
    PROVE  SpentOK'
<1>1. (\A i \in DOMAIN jwts : Spent(jwts[i].nonce))'
  BY DEF SpentOK
<1>2. ASSUME NEW c \in Caller, Using(c)'
      PROVE  Spent(call[c].nonce)' /\ ~Granted(call[c].nonce)'
  <2>1. Using(c) /\ call'[c].nonce = call[c].nonce
    BY <1>2
  <2>2. Spent(call[c].nonce) /\ ~Granted(call[c].nonce)
    BY <2>1 DEF SpentOK
  <2>3. (\A n : Granted(n)' = Granted(n))
    BY DEF Granted
  <2>4. Spent(call[c].nonce)'
    BY <2>1, <2>2 DEF Spent
  <2>5. ~Granted(call[c].nonce)'
    BY <2>1, <2>2 DEF Granted
  <2> QED
    BY <2>4, <2>5
<1>3. ASSUME NEW c \in Caller, NEW d \in Caller,
             Using(c)', Using(d)', call'[c].nonce = call'[d].nonce
      PROVE  c = d
  BY <1>3 DEF SpentOK
<1>4. ChallengeGrantsOnce'
  BY DEF SpentOK, ChallengeGrantsOnce
<1> QED
  BY <1>1, <1>2, <1>3, <1>4 DEF SpentOK

LEMMA SpentCleaned == \A n \in Nonce : nonces[n].consumed => Cleaned[n].consumed
BY DEF Cleaned, Missing

LEMMA SpentStep == SpentInv /\ [Next]_vars => SpentOK'
<1> SUFFICES ASSUME SpentInv, [Next]_vars PROVE SpentOK'
  OBVIOUS
<1>0. /\ TypeOK /\ DrawnOK /\ SpentOK
      /\ call \in [Caller -> CallRecord]
      /\ drawn \subseteq Nonce
      /\ nonces \in [Nonce -> Entry \cup {Missing}]
      /\ jwts \in Seq(JWT)
      /\ Idle.pc = "idle"
  BY DEF SpentInv, BasicInv, TypeOK, Idle
<1>1. ASSUME NEW c \in Caller, AddNonce(c) PROVE SpentOK'
  <2>1. PICK n \in Nonce \ drawn :
           /\ drawn' = drawn \cup {n}
           /\ nonces' = [nonces EXCEPT ![n] =
                 [expiresAt |-> ExpiresAt(now), consumed |-> FALSE, stored |-> TRUE]]
           /\ call' = [call EXCEPT ![c] = [Idle EXCEPT !.pc = "build", !.nonce = n]]
    BY <1>1 DEF AddNonce
  <2>2. \A m : Spent(m) => Spent(m)'
    BY <1>0, <2>1 DEF Spent
  <2>3. \A d \in Caller : Using(d)' => Using(d) /\ call'[d].nonce = call[d].nonce
    BY <1>0, <2>1 DEF Using, Idle
  <2> QED
    BY <1>0, <1>1, <2>2, <2>3, SpentKept DEF AddNonce
<1>2. ASSUME NEW c \in Caller,
             BuildChallenge(c) \/ SignChallenge(c) \/ CreateFails(c) \/ Present(c)
               \/ CheckSignatures(c) \/ Refuse(c)
      PROVE  SpentOK'
  <2>1. UNCHANGED <<drawn, nonces, jwts>>
    BY <1>2 DEF BuildChallenge, SignChallenge, CreateFails, Present, CheckSignatures, Refuse
  <2>2. \A d \in Caller : Using(d)' => Using(d) /\ call'[d].nonce = call[d].nonce
    <3>1. CASE BuildChallenge(c)
      BY <1>0, <3>1 DEF BuildChallenge, Using, CallRecord
    <3>2. CASE SignChallenge(c) \/ CreateFails(c) \/ Refuse(c)
      BY <1>0, <3>2 DEF SignChallenge, CreateFails, Refuse, Using
    <3>3. CASE Present(c)
      BY <1>0, <3>3 DEF Present, Using, Idle
    <3>4. CASE CheckSignatures(c)
      <4>1. /\ call'[c].nonce = call[c].nonce
            /\ \A d \in Caller \ {c} : call'[d] = call[d]
        BY <1>0, <3>4 DEF CheckSignatures, CallRecord
      <4>2. Using(c)
        BY <3>4 DEF CheckSignatures, Using
      <4> QED
        BY <4>1, <4>2 DEF Using
    <3> QED
      BY <1>2, <3>1, <3>2, <3>3, <3>4
  <2>3. \A m : Spent(m) => Spent(m)'
    BY <2>1 DEF Spent
  <2> QED
    BY <1>0, <2>1, <2>2, <2>3, SpentKept
<1>3. ASSUME NEW c \in Caller, Consume(c) PROVE SpentOK'
  <2> DEFINE n == call[c].nonce
  <2>1. n \in Nonce /\ n \in drawn /\ ~nonces[n].consumed /\ ~Using(c)
    BY <1>0, <1>3, ConstantsAssumption
       DEF Consume, Consumable, Cleaned, Missing, DrawnOK, Using
  <2>2. /\ UNCHANGED <<drawn, jwts>>
        /\ nonces' = [Cleaned EXCEPT ![n].consumed = TRUE]
        /\ call' = [call EXCEPT ![c].pc = "check"]
    BY <1>3 DEF Consume
  <2>3. \A m : Spent(m) => Spent(m)'
    BY <1>0, <2>1, <2>2, SpentCleaned, CleanedType DEF Spent
  <2>4. Spent(n)'
    BY <1>0, <2>1, <2>2, CleanedType DEF Spent, Consumable, Entry, Missing
  <2>5. call'[c].nonce = n /\ \A d \in Caller \ {c} : call'[d] = call[d]
    BY <1>0, <2>2 DEF CallRecord
  <2>6. ~Spent(n)
    BY <2>1 DEF Spent
  <2>7. (\A i \in DOMAIN jwts : Spent(jwts[i].nonce))'
    BY <1>0, <2>2, <2>3 DEF SpentOK
  <2>8. ASSUME NEW d \in Caller, Using(d)'
        PROVE  Spent(call[d].nonce)' /\ ~Granted(call[d].nonce)'
    <3>1. CASE d = c
      <4>1. ~Granted(n)
        BY <1>0, <2>6 DEF SpentOK, Granted
      <4>2. Spent(call[d].nonce)'
        BY <2>4, <2>5, <3>1 DEF Spent
      <4>3. ~Granted(call[d].nonce)'
        BY <2>2, <2>5, <3>1, <4>1 DEF Granted
      <4> QED
        BY <4>2, <4>3
    <3>2. CASE d # c
      <4>1. call'[d] = call[d] /\ Using(d)
        BY <2>5, <2>8, <3>2 DEF Using
      <4>2. Spent(call[d].nonce) /\ ~Granted(call[d].nonce)
        BY <1>0, <4>1 DEF SpentOK
      <4>3. Spent(call[d].nonce)'
        BY <2>3, <4>1, <4>2 DEF Spent
      <4>4. ~Granted(call[d].nonce)'
        BY <2>2, <4>1, <4>2 DEF Granted
      <4> QED
        BY <4>3, <4>4
    <3> QED
      BY <3>1, <3>2
  <2>9. ASSUME NEW d \in Caller, NEW e \in Caller,
               Using(d)', Using(e)', call'[d].nonce = call'[e].nonce
        PROVE  d = e
    BY <1>0, <2>5, <2>6, <2>9 DEF SpentOK, Using
  <2>10. ChallengeGrantsOnce'
    BY <1>0, <2>2 DEF SpentOK, ChallengeGrantsOnce
  <2> QED
    BY <2>7, <2>8, <2>9, <2>10 DEF SpentOK
<1>4. ASSUME NEW c \in Caller, ConsumeRefused(c) PROVE SpentOK'
  <2>1. \A m : Spent(m) => Spent(m)'
    BY <1>0, <1>4, SpentCleaned DEF ConsumeRefused, Spent
  <2>2. \A d \in Caller : Using(d)' => Using(d) /\ call'[d].nonce = call[d].nonce
    BY <1>0, <1>4 DEF ConsumeRefused, Using
  <2> QED
    BY <1>0, <1>4, <2>1, <2>2, SpentKept DEF ConsumeRefused
<1>5. ASSUME NEW c \in Caller, Issue(c) PROVE SpentOK'
  <2> DEFINE n == call[c].nonce
  <2>1. /\ UNCHANGED <<drawn, nonces>>
        /\ call' = [call EXCEPT ![c] = Idle]
        /\ Len(jwts') = Len(jwts) + 1
        /\ \A i \in DOMAIN jwts : jwts'[i] = jwts[i]
        /\ jwts'[Len(jwts) + 1].nonce = n
        /\ DOMAIN jwts' = DOMAIN jwts \cup {Len(jwts) + 1}
    BY <1>0, <1>5 DEF Issue
  <2>2. Using(c) /\ Spent(n) /\ ~Granted(n)
    BY <1>0, <1>5 DEF Issue, Using, SpentOK
  <2>3. \A d \in Caller : Using(d)' => d # c /\ Using(d) /\ call'[d] = call[d]
    BY <1>0, <2>1 DEF Using, Idle
  <2>4. (\A i \in DOMAIN jwts : Spent(jwts[i].nonce))'
    BY <1>0, <2>1, <2>2 DEF SpentOK, Spent
  <2>5. ASSUME NEW d \in Caller, Using(d)'
        PROVE  Spent(call[d].nonce)' /\ ~Granted(call[d].nonce)'
    <3>1. Using(d) /\ call[d].nonce # n
      BY <1>0, <2>2, <2>3, <2>5 DEF SpentOK
    <3>2. Spent(call[d].nonce) /\ ~Granted(call[d].nonce)
      BY <1>0, <3>1 DEF SpentOK
    <3>3. Spent(call[d].nonce)'
      BY <2>1, <2>3, <2>5, <3>2 DEF Spent
    <3>4. ~Granted(call[d].nonce)'
      BY <2>1, <2>3, <2>5, <3>1, <3>2 DEF Granted
    <3> QED
      BY <3>3, <3>4
  <2>6. ASSUME NEW d \in Caller, NEW e \in Caller,
               Using(d)', Using(e)', call'[d].nonce = call'[e].nonce
        PROVE  d = e
    BY <1>0, <2>3, <2>6 DEF SpentOK
  <2>7. ChallengeGrantsOnce'
    BY <1>0, <2>1, <2>2 DEF SpentOK, ChallengeGrantsOnce, Granted
  <2> QED
    BY <2>4, <2>5, <2>6, <2>7 DEF SpentOK
<1>6. CASE Tick \/ UNCHANGED vars
  <2>1. UNCHANGED <<drawn, nonces, jwts, call>>
    BY <1>6 DEF Tick, vars
  <2> QED
    BY <1>0, <2>1, SpentKept DEF Spent, Using
<1>7. CASE Crash
  <2>1. \A m : Spent(m) => Spent(m)'
    BY <1>0, <1>7 DEF Crash, Spent, Missing
  <2>2. \A d \in Caller : ~Using(d)'
    BY <1>0, <1>7 DEF Crash, Using
  <2> QED
    BY <1>0, <1>7, <2>1, <2>2, SpentKept DEF Crash
<1> QED
  BY <1>1, <1>2, <1>3, <1>4, <1>5, <1>6, <1>7 DEF Next, Create, VerifyChallenge

LEMMA InitSpent == Init => SpentInv
<1> SUFFICES ASSUME Init PROVE SpentOK
  BY InitBasic DEF SpentInv
<1>1. \A c \in Caller : ~Using(c)
  BY DEF Init, Using, Idle
<1>2. DOMAIN jwts = {}
  BY DEF Init
<1> QED
  BY <1>1, <1>2 DEF SpentOK, ChallengeGrantsOnce

\* A challenge pays for at most one JWT, however many copies of it are
\* presented, whenever the clock advances and the server restarts.
THEOREM ChallengesAreOneTime == Spec => []ChallengeGrantsOnce
<1>1. SpentInv /\ [Next]_vars => SpentInv'
  BY TypeStep, DrawnStep, SpentStep DEF SpentInv, BasicInv
<1>2. SpentInv => ChallengeGrantsOnce
  BY DEF SpentInv, SpentOK
<1> QED
  BY <1>1, <1>2, InitSpent, PTL DEF Spec

-----------------------------------------------------------------------------
(* Expiry. *)

\* The nonce does not outlive the time bounds m, in whole seconds.
Covers(n, m) == nonces[n].stored => Unix(nonces[n].expiresAt) <= m

\* The strengthening: expiries are taken from a reading of the clock that is
\* in the past, so that every challenge built later covers its nonce.
BoundsOK ==
    /\ \A n \in Nonce : nonces[n].stored => nonces[n].expiresAt <= now + ChallengeTimeout
    /\ \A ch \in challenges : Covers(ch.nonce, ch.maxTime)
    /\ \A c \in Caller :
          call[c].pc \in {"sign", "consume"} /\ call[c].nonce \in Nonce =>
             Covers(call[c].nonce, call[c].maxTime)

BoundsInv == BasicInv /\ BoundsOK

LEMMA BoundsStep == BoundsInv /\ [Next]_vars => BoundsOK'
<1> SUFFICES ASSUME BoundsInv, [Next]_vars PROVE BoundsOK'
  OBVIOUS
<1>0. /\ TypeOK /\ DrawnOK /\ BoundsOK
      /\ call \in [Caller -> CallRecord]
      /\ drawn \subseteq Nonce
      /\ nonces \in [Nonce -> Entry \cup {Missing}]
      /\ \A ch \in challenges : ch.nonce \in drawn
      /\ now \in Nat /\ ChallengeTimeout \in Nat
      /\ Idle.pc = "idle"
  BY ConstantsAssumption DEF BoundsInv, BasicInv, TypeOK, Idle, DrawnOK
<1>a. \A n \in Nonce : nonces[n].stored => nonces[n].expiresAt \in Nat
  <2> SUFFICES ASSUME NEW n \in Nonce, nonces[n].stored PROVE nonces[n] \in Entry
    BY EntryTime
  <2> QED
    BY <1>0 DEF Missing
\* Entries of drawn nonces only disappear or keep their expiry.
<1>b. ASSUME \A n \in drawn : nonces'[n].stored =>
                nonces[n].stored /\ nonces'[n].expiresAt = nonces[n].expiresAt
      PROVE  \A n \in drawn : \A m : Covers(n, m) => Covers(n, m)'
  BY <1>b DEF Covers
<1>1. ASSUME NEW c \in Caller, AddNonce(c) PROVE BoundsOK'
  <2>1. PICK n \in Nonce \ drawn :
           /\ drawn' = drawn \cup {n}
           /\ nonces' = [nonces EXCEPT ![n] =
                 [expiresAt |-> ExpiresAt(now), consumed |-> FALSE, stored |-> TRUE]]
           /\ call' = [call EXCEPT ![c] = [Idle EXCEPT !.pc = "build", !.nonce = n]]
    BY <1>1 DEF AddNonce
  <2>2. \A m \in Nonce : nonces'[m].stored => nonces'[m].expiresAt <= now + ChallengeTimeout
    BY <1>0, <2>1 DEF BoundsOK, ExpiresAt
  <2>3. \A m \in drawn : \A b : Covers(m, b) => Covers(m, b)'
    BY <1>0, <1>b, <2>1
  <2>4. (\A ch \in challenges : Covers(ch.nonce, ch.maxTime))'
    BY <1>0, <1>1, <2>3 DEF AddNonce, BoundsOK, Covers
  <2>5. ASSUME NEW d \in Caller, call'[d].pc \in {"sign", "consume"},
               call'[d].nonce \in Nonce
        PROVE  Covers(call[d].nonce, call[d].maxTime)'
    <3>1. d # c /\ call'[d] = call[d]
      BY <1>0, <2>1, <2>5 DEF Idle
    <3>2. call[d].nonce \in drawn /\ Covers(call[d].nonce, call[d].maxTime)
      BY <1>0, <2>5, <3>1, ConstantsAssumption DEF BoundsOK, DrawnOK
    <3> QED
      BY <2>3, <3>1, <3>2 DEF Covers
  <2>6. UNCHANGED <<now, challenges>>
    BY <1>1 DEF AddNonce
  <2> QED
    BY <2>2, <2>4, <2>5, <2>6 DEF BoundsOK
<1>2. ASSUME NEW c \in Caller, BuildChallenge(c) PROVE BoundsOK'
  <2>1. UNCHANGED <<now, nonces, challenges>>
    BY <1>2 DEF BuildChallenge
  <2>2. ASSUME nonces[call[c].nonce].stored, call[c].nonce \in Nonce
        PROVE  Unix(nonces[call[c].nonce].expiresAt) <= MaxTimeAt(now)
    BY <1>0, <1>a, <2>2, UnixMonotone DEF BoundsOK, MaxTimeAt
  <2>3. /\ call'[c].nonce = call[c].nonce /\ call'[c].maxTime = MaxTimeAt(now)
        /\ \A d \in Caller \ {c} : call'[d] = call[d]
    BY <1>0, <1>2 DEF BuildChallenge, CallRecord
  <2> QED
    BY <1>0, <2>1, <2>2, <2>3 DEF BoundsOK, Covers
<1>3. ASSUME NEW c \in Caller, SignChallenge(c) PROVE BoundsOK'
  <2>1. Covers(call[c].nonce, call[c].maxTime)
    BY <1>0, <1>3 DEF SignChallenge, BoundsOK, DrawnOK
  <2> QED
    BY <1>0, <1>3, <2>1 DEF SignChallenge, BoundsOK, Covers
<1>4. ASSUME NEW c \in Caller, CreateFails(c) \/ Refuse(c) \/ Issue(c) PROVE BoundsOK'
  BY <1>0, <1>4 DEF CreateFails, Refuse, Issue, BoundsOK, Covers
<1>5. ASSUME NEW c \in Caller, CheckSignatures(c) PROVE BoundsOK'
  <2>1. call'[c].pc = "issue" /\ \A d \in Caller \ {c} : call'[d] = call[d]
    BY <1>0, <1>5 DEF CheckSignatures, CallRecord
  <2>2. UNCHANGED <<now, nonces, challenges>>
    BY <1>5 DEF CheckSignatures
  <2> QED
    BY <1>0, <2>1, <2>2 DEF BoundsOK, Covers
<1>6. ASSUME NEW c \in Caller, Present(c) PROVE BoundsOK'
  <2>1. PICK ch \in challenges \cup {Foreign} :
           call' = [call EXCEPT ![c] = [Idle EXCEPT
              !.pc = "consume", !.nonce = ch.nonce, !.maxTime = ch.maxTime]]
    BY <1>6 DEF Present
  <2>2. ch.nonce \in Nonce => Covers(ch.nonce, ch.maxTime)
    BY <1>0, <2>1, ConstantsAssumption DEF BoundsOK, Foreign
  <2>3. /\ call'[c].nonce = ch.nonce /\ call'[c].maxTime = ch.maxTime
        /\ \A d \in Caller \ {c} : call'[d] = call[d]
    BY <1>0, <2>1 DEF Idle
  <2>4. UNCHANGED <<now, nonces, challenges>>
    BY <1>6 DEF Present
  <2> QED
    BY <1>0, <2>2, <2>3, <2>4 DEF BoundsOK, Covers
<1>7. ASSUME NEW c \in Caller, Consume(c) \/ ConsumeRefused(c) PROVE BoundsOK'
  <2>1. \A n \in Nonce : nonces'[n].stored =>
           nonces[n].stored /\ nonces'[n].expiresAt = nonces[n].expiresAt
    <3>1. \A n \in Nonce : Cleaned[n].stored => Cleaned[n] = nonces[n]
      BY DEF Cleaned, Missing
    <3>2. CASE ConsumeRefused(c)
      BY <3>1, <3>2 DEF ConsumeRefused
    <3>3. CASE Consume(c)
      <4>1. Cleaned[call[c].nonce] \in Entry /\ call[c].nonce \in Nonce
        BY <1>0, <3>3, CleanedType DEF Consume, Consumable, Missing
      <4> QED
        BY <1>0, <3>1, <3>3, <4>1, CleanedType DEF Consume, Entry
    <3> QED
      BY <1>7, <3>2, <3>3
  <2>2. UNCHANGED <<now, challenges>>
    BY <1>7 DEF Consume, ConsumeRefused
  <2>3. \A n \in drawn : \A b : Covers(n, b) => Covers(n, b)'
    BY <1>0, <1>b, <2>1
  <2>4. \A d \in Caller : call'[d].pc \in {"sign", "consume"} => call'[d] = call[d]
    BY <1>0, <1>7 DEF Consume, ConsumeRefused, CallRecord
  <2>5. (\A n \in Nonce : nonces[n].stored => nonces[n].expiresAt <= now + ChallengeTimeout)'
    BY <1>0, <2>1, <2>2 DEF BoundsOK
  <2>6. (\A ch \in challenges : Covers(ch.nonce, ch.maxTime))'
    BY <1>0, <2>2, <2>3 DEF BoundsOK, Covers
  <2>7. ASSUME NEW d \in Caller, call'[d].pc \in {"sign", "consume"},
               call'[d].nonce \in Nonce
        PROVE  Covers(call[d].nonce, call[d].maxTime)'
    <3>1. call[d].nonce \in drawn /\ Covers(call[d].nonce, call[d].maxTime)
      BY <1>0, <2>4, <2>7, ConstantsAssumption DEF BoundsOK, DrawnOK
    <3> QED
      BY <2>3, <2>4, <2>7, <3>1 DEF Covers
  <2> QED
    BY <2>5, <2>6, <2>7 DEF BoundsOK
<1>8. CASE Tick
  BY <1>0, <1>a, <1>8 DEF Tick, BoundsOK, Covers
<1>9. CASE Crash
  BY <1>0, <1>9 DEF Crash, BoundsOK, Covers, Missing
<1>10. CASE UNCHANGED vars
  BY <1>0, <1>10 DEF vars, BoundsOK, Covers
<1> QED
  BY <1>1, <1>2, <1>3, <1>4, <1>5, <1>6, <1>7, <1>8, <1>9, <1>10
     DEF Next, Create, VerifyChallenge

\* No challenge is accepted after its time bounds, in the whole seconds they
\* are written in, although VerifyChallenge never reads them.
THEOREM NothingAcceptedLate == Spec => NoLateAcceptance
<1> DEFINE InTime(c) == call[c].pc = "consume" /\ call'[c].pc = "check" =>
                            Unix(now) <= call[c].maxTime
<1>1. Init => BoundsInv
  <2> SUFFICES ASSUME Init PROVE BoundsOK
    BY InitBasic DEF BoundsInv
  <2> QED
    BY DEF Init, BoundsOK, Covers, Missing, Idle
<1>2. BoundsInv /\ [Next]_vars => BoundsInv'
  BY TypeStep, DrawnStep, BoundsStep DEF BoundsInv, BasicInv
<1>3. BoundsInv /\ [Next]_vars => [\A c \in Caller : InTime(c)]_vars
  <2> SUFFICES ASSUME BoundsInv, Next, NEW c \in Caller,
                      call[c].pc = "consume", call'[c].pc = "check"
               PROVE  Unix(now) <= call[c].maxTime
    OBVIOUS
  <2>0. call \in [Caller -> CallRecord] /\ Idle.pc = "idle"
    BY DEF BoundsInv, BasicInv, TypeOK, Idle
  <2>1. Consume(c)
    <3>1. ASSUME NEW d \in Caller, Create(d) \/ VerifyChallenge(d) PROVE d = c
      <4> SUFFICES ASSUME d # c PROVE call'[c] = call[c]
        OBVIOUS
      <4> QED
        BY <2>0, <3>1 DEF Create, VerifyChallenge, AddNonce, BuildChallenge,
           SignChallenge, CreateFails, Present, Consume, ConsumeRefused,
           CheckSignatures, Refuse, Issue
    <3>2. ~Tick /\ ~Crash
      BY <2>0 DEF Tick, Crash
    <3>3. Create(c) \/ VerifyChallenge(c)
      BY <3>1, <3>2 DEF Next
    <3> QED
      BY <2>0, <3>3 DEF Create, VerifyChallenge, AddNonce, BuildChallenge,
         SignChallenge, CreateFails, Present, ConsumeRefused, CheckSignatures,
         Refuse, Issue
  <2>2. /\ call[c].nonce \in Nonce
        /\ nonces[call[c].nonce].stored
        /\ ~(now > nonces[call[c].nonce].expiresAt)
    BY <2>1 DEF Consume, Consumable, Cleaned, Expired, Missing
  <2>3. /\ now \in Nat /\ nonces[call[c].nonce].expiresAt \in Nat
        /\ call[c].maxTime \in Nat
    <3>1. call[c] \in CallRecord
      BY <2>0
    <3>2. nonces[call[c].nonce] \in Entry /\ now \in 0..MaxTime
      BY <2>2 DEF BoundsInv, BasicInv, TypeOK, Missing
    <3>3. call[c].maxTime \in Nat
      BY <3>1 DEF CallRecord
    <3>4. now \in Nat
      BY <3>2, ConstantsAssumption
    <3> QED
      BY <3>2, <3>3, <3>4, EntryTime
  <2>4. Unix(now) <= Unix(nonces[call[c].nonce].expiresAt)
    BY <2>2, <2>3, UnixMonotone
  <2>5. Unix(nonces[call[c].nonce].expiresAt) <= call[c].maxTime
    BY <2>2 DEF BoundsInv, BoundsOK, Covers
  <2> QED
    BY <2>3, <2>4, <2>5, UnixType
<1> QED
  BY <1>1, <1>2, <1>3, PTL DEF Spec, NoLateAcceptance

-----------------------------------------------------------------------------
(* The lifetime of a JWT. *)

\* The strengthening: what exp is made of.
ExpOK ==
    \A i \in DOMAIN jwts : jwts[i].exp = Unix(jwts[i].issuedAt + JWTExpiry)

ExpInv == BasicInv /\ ExpOK

LEMMA ExpStep == ExpInv /\ [Next]_vars => ExpOK'
<1> SUFFICES ASSUME ExpInv, [Next]_vars PROVE ExpOK'
  OBVIOUS
<1>0. jwts \in Seq(JWT) /\ ExpOK
  BY DEF ExpInv, BasicInv, TypeOK
<1>1. ASSUME NEW c \in Caller, Issue(c) PROVE ExpOK'
  BY <1>0, <1>1 DEF Issue, ExpOK
<1>2. ASSUME UNCHANGED jwts PROVE ExpOK'
  BY <1>0, <1>2 DEF ExpOK
<1> QED
  BY <1>1, <1>2 DEF Next, Create, VerifyChallenge, AddNonce, BuildChallenge,
     SignChallenge, CreateFails, Present, Consume, ConsumeRefused,
     CheckSignatures, Refuse, Tick, Crash, vars

\* A JWT is accepted for its whole configured lifetime but its last second,
\* and never longer, wherever in a second it was issued.
THEOREM TokensLast == Spec => []TokenLifetime
<1>1. Init => ExpInv
  BY InitBasic DEF Init, ExpInv, ExpOK
<1>2. ExpInv /\ [Next]_vars => ExpInv'
  BY TypeStep, DrawnStep, ExpStep DEF ExpInv, BasicInv
<1>3. ExpInv => TokenLifetime
  <2> SUFFICES ASSUME ExpInv, NEW i \in DOMAIN jwts
               PROVE  LET end == jwts[i].issuedAt + JWTExpiry
                      IN  /\ Verify(jwts[i]) => now < end
                          /\ now + TicksPerSecond <= end => Verify(jwts[i])
    BY DEF TokenLifetime
  <2> DEFINE end == jwts[i].issuedAt + JWTExpiry
  <2>1. jwts[i] \in JWT /\ now \in Nat /\ jwts[i].exp = Unix(end)
    BY DEF ExpInv, ExpOK, BasicInv, TypeOK
  <2>2. end \in Nat /\ TicksPerSecond \in Nat
    BY <2>1, ConstantsAssumption DEF JWT
  <2>3. Unix(end) \in Nat /\ Unix(now) \in Nat
    BY <2>1, <2>2, UnixType
  <2> HIDE DEF end
  <2>4. Verify(jwts[i]) => now < end
    BY <2>1, <2>2, <2>3, UnixMonotone DEF Verify
  <2>5. now + TicksPerSecond <= end => Verify(jwts[i])
    <3> SUFFICES ASSUME now + TicksPerSecond <= end PROVE Verify(jwts[i])
      OBVIOUS
    <3>1. Unix(now + TicksPerSecond) <= Unix(end)
      BY <2>1, <2>2, UnixMonotone
    <3>2. Unix(now + TicksPerSecond) = Unix(now) + 1
      BY <2>1, UnixNext
    <3> QED
      BY <2>1, <2>3, <3>1, <3>2 DEF Verify
  <2> QED
    BY <2>4, <2>5 DEF end
<1> QED
  BY <1>1, <1>2, <1>3, PTL DEF Spec

-----------------------------------------------------------------------------
(* Sums over finite sets. *)

\* Mathematical induction, for a set.
LEMMA Induction ==
    ASSUME NEW S, 0 \in S, \A n \in Nat : n \in S => n + 1 \in S
    PROVE  Nat \subseteq S
<1> DEFINE T == Nat \ S
<1> SUFFICES ASSUME T # {}  PROVE FALSE
  OBVIOUS
<1>1. IsWellFoundedOn(OpToRel(<, Nat), Nat)
  BY NatLessThanWellFounded
<1>2. T \subseteq Nat
  OBVIOUS
<1> HIDE DEF T
<1>3. PICK n \in T : \A m \in T : ~(<<m, n>> \in OpToRel(<, Nat))
  BY <1>1, <1>2, WFMin
<1>4. \A m \in T : ~(m < n)
  BY <1>2, <1>3 DEF OpToRel
<1>5. n \in Nat /\ n \notin S
  BY DEF T
<1>6. n # 0 /\ n - 1 \in Nat /\ n - 1 \notin T
  BY <1>4, <1>5
<1> QED
  BY <1>5, <1>6 DEF T

\* The function by which MapThenSumSet is defined: g[s] is the sum of w over s.
Sums(g, w, S) ==
    g = [s \in SUBSET S |->
           IF s = {} THEN 0 ELSE LET x == CHOOSE x \in s : TRUE IN w[x] + g[s \ {x}]]

\* The same, for the sets of at most n elements.
SumsUpTo(g, w, S, n) ==
    \A s \in SUBSET S : Cardinality(s) <= n =>
       g[s] = IF s = {} THEN 0 ELSE LET x == CHOOSE x \in s : TRUE IN w[x] + g[s \ {x}]

LEMMA SmallerSets ==
    ASSUME NEW S, IsFiniteSet(S), NEW s \in SUBSET S
    PROVE  /\ IsFiniteSet(s) /\ Cardinality(s) \in Nat /\ Cardinality(s) <= Cardinality(S)
           /\ \A x \in s : /\ s \ {x} \in SUBSET S
                           /\ Cardinality(s \ {x}) = Cardinality(s) - 1
           /\ Cardinality(s) = 0 <=> s = {}
           /\ s # {} => (CHOOSE x \in s : TRUE) \in s
<1>1. IsFiniteSet(s) /\ Cardinality(s) \in Nat /\ Cardinality(s) <= Cardinality(S)
  BY FS_Subset, FS_CardinalityType
<1>2. \A x \in s : Cardinality(s \ {x}) = Cardinality(s) - 1
  BY <1>1, FS_RemoveElement
<1>3. Cardinality(s) = 0 <=> s = {}
  BY <1>1, FS_EmptySet
<1> QED
  BY <1>1, <1>2, <1>3

LEMMA SumsExist ==
    ASSUME NEW S, IsFiniteSet(S), NEW w, \A x \in S : w[x] \in Nat
    PROVE  \E g \in [SUBSET S -> Nat] : Sums(g, w, S)
<1> DEFINE Good == {n \in Nat : \E g \in [SUBSET S -> Nat] : SumsUpTo(g, w, S, n)}
<1>1. 0 \in Good
  <2> DEFINE g == [s \in SUBSET S |-> 0]
  <2>1. g \in [SUBSET S -> Nat]
    OBVIOUS
  <2>2. SumsUpTo(g, w, S, 0)
    <3> SUFFICES ASSUME NEW s \in SUBSET S, Cardinality(s) <= 0
                 PROVE  g[s] = IF s = {} THEN 0
                               ELSE LET x == CHOOSE x \in s : TRUE IN w[x] + g[s \ {x}]
      BY DEF SumsUpTo
    <3>1. s = {}
      BY SmallerSets
    <3> QED
      BY <3>1
  <2> QED
    BY <2>1, <2>2
<1>2. ASSUME NEW n \in Nat, n \in Good  PROVE n + 1 \in Good
  <2>1. PICK g \in [SUBSET S -> Nat] : SumsUpTo(g, w, S, n)
    BY <1>2
  <2> DEFINE h == [s \in SUBSET S |->
                     IF s = {} THEN 0
                     ELSE LET x == CHOOSE x \in s : TRUE IN w[x] + g[s \ {x}]]
  <2>2. h \in [SUBSET S -> Nat]
    <3> SUFFICES ASSUME NEW s \in SUBSET S, s # {}
                 PROVE  LET x == CHOOSE x \in s : TRUE IN w[x] + g[s \ {x}] \in Nat
      OBVIOUS
    <3>1. (CHOOSE x \in s : TRUE) \in S /\ s \ {CHOOSE x \in s : TRUE} \in SUBSET S
      BY SmallerSets
    <3> QED
      BY <3>1
  <2>3. \A s \in SUBSET S : Cardinality(s) <= n => h[s] = g[s]
    BY <2>1 DEF SumsUpTo
  <2>4. SumsUpTo(h, w, S, n + 1)
    <3> SUFFICES ASSUME NEW s \in SUBSET S, Cardinality(s) <= n + 1, s # {}
                 PROVE  h[s] = LET x == CHOOSE x \in s : TRUE IN w[x] + h[s \ {x}]
      BY DEF SumsUpTo
    <3> DEFINE x == CHOOSE x \in s : TRUE
    <3>1. x \in s /\ s \ {x} \in SUBSET S /\ Cardinality(s \ {x}) <= n
      BY SmallerSets
    <3>2. h[s \ {x}] = g[s \ {x}]
      BY <2>3, <3>1
    <3>3. h[s] = w[x] + g[s \ {x}]
      OBVIOUS
    <3> QED
      BY <3>2, <3>3
  <2> HIDE DEF h
  <2> QED
    BY <2>2, <2>4
<1> HIDE DEF Good
<1>3. Nat \subseteq Good
  BY <1>1, <1>2, Induction
<1>4. Cardinality(S) \in Nat
  BY FS_CardinalityType
<1>5. PICK g \in [SUBSET S -> Nat] : SumsUpTo(g, w, S, Cardinality(S))
  BY <1>3, <1>4 DEF Good
<1>6. \A s \in SUBSET S : Cardinality(s) <= Cardinality(S)
  BY SmallerSets
<1>7. Sums(g, w, S)
  BY <1>5, <1>6 DEF Sums, SumsUpTo
<1> QED
  BY <1>7

LEMMA SumsType ==
    ASSUME NEW S, IsFiniteSet(S), NEW w, \A x \in S : w[x] \in Nat, NEW g, Sums(g, w, S)
    PROVE  g \in [SUBSET S -> Nat]
<1> DEFINE Good == {n \in Nat : \A s \in SUBSET S : Cardinality(s) = n => g[s] \in Nat}
<1>1. 0 \in Good
  <2> SUFFICES ASSUME NEW s \in SUBSET S, Cardinality(s) = 0  PROVE g[s] \in Nat
    OBVIOUS
  <2>1. s = {}
    BY SmallerSets
  <2> QED
    BY <2>1 DEF Sums
<1>2. ASSUME NEW n \in Nat, n \in Good  PROVE n + 1 \in Good
  <2> SUFFICES ASSUME NEW s \in SUBSET S, Cardinality(s) = n + 1  PROVE g[s] \in Nat
    OBVIOUS
  <2> DEFINE x == CHOOSE x \in s : TRUE
  <2>1. \A u \in s : s \ {u} \in SUBSET S /\ Cardinality(s \ {u}) = (n + 1) - 1
    BY SmallerSets
  <2>2. s # {} /\ x \in s
    BY SmallerSets
  <2>3. g[s] = w[x] + g[s \ {x}]
    BY <2>2 DEF Sums
  <2> HIDE DEF x
  <2>4. s \ {x} \in SUBSET S /\ Cardinality(s \ {x}) = n
    BY <2>1, <2>2
  <2>5. g[s \ {x}] \in Nat /\ w[x] \in Nat
    BY <1>2, <2>2, <2>4
  <2> QED
    BY <2>3, <2>5
<1> HIDE DEF Good
<1>3. Nat \subseteq Good
  BY <1>1, <1>2, Induction
<1>4. \A s \in SUBSET S : g[s] \in Nat
  <2> SUFFICES ASSUME NEW s \in SUBSET S  PROVE g[s] \in Nat
    OBVIOUS
  <2>1. Cardinality(s) \in Good
    BY <1>3, SmallerSets
  <2> QED
    BY <2>1 DEF Good
<1>5. g = [s \in SUBSET S |-> g[s]]
  BY DEF Sums
<1> QED
  BY <1>4, <1>5

\* It does not matter which element is taken first.
Unordered(g, w, S) == \A s \in SUBSET S : \A x \in s : g[s] = w[x] + g[s \ {x}]

LEMMA AnyFirst ==
    ASSUME NEW S, IsFiniteSet(S), NEW w, \A x \in S : w[x] \in Nat, NEW g, Sums(g, w, S)
    PROVE  Unordered(g, w, S)
<1>0. g \in [SUBSET S -> Nat]
  BY SumsType
<1> DEFINE Good == {n \in Nat : \A s \in SUBSET S : Cardinality(s) = n =>
                                   \A x \in s : g[s] = w[x] + g[s \ {x}]}
<1>1. 0 \in Good
  BY SmallerSets
<1>2. ASSUME NEW n \in Nat, n \in Good  PROVE n + 1 \in Good
  <2> SUFFICES ASSUME NEW s \in SUBSET S, Cardinality(s) = n + 1, NEW x \in s
               PROVE  g[s] = w[x] + g[s \ {x}]
    OBVIOUS
  <2> DEFINE y == CHOOSE y \in s : TRUE
  <2>1. y \in s
    OBVIOUS
  <2>2. g[s] = w[y] + g[s \ {y}]
    BY <2>1 DEF Sums
  <2> HIDE DEF y
  <2>3. CASE x = y
    BY <2>2, <2>3
  <2>4. CASE x # y
    <3>0. \A u \in s : s \ {u} \in SUBSET S /\ Cardinality(s \ {u}) = (n + 1) - 1
      BY SmallerSets
    <3>1. /\ s \ {x} \in SUBSET S /\ Cardinality(s \ {x}) = n
          /\ s \ {y} \in SUBSET S /\ Cardinality(s \ {y}) = n
      BY <2>1, <3>0
    <3>2. x \in s \ {y} /\ y \in s \ {x}
      BY <2>1, <2>4
    <3>3. /\ g[s \ {y}] = w[x] + g[(s \ {y}) \ {x}]
          /\ g[s \ {x}] = w[y] + g[(s \ {x}) \ {y}]
      BY <1>2, <3>1, <3>2
    <3>4. (s \ {y}) \ {x} = (s \ {x}) \ {y}
      OBVIOUS
    <3> DEFINE both == g[(s \ {x}) \ {y}]
    <3>5. w[x] \in Nat /\ w[y] \in Nat /\ both \in Nat
      BY <1>0, <2>1
    <3>6. g[s] = w[y] + (w[x] + both) /\ g[s \ {x}] = w[y] + both
      BY <2>2, <3>3, <3>4
    <3> HIDE DEF both
    <3> QED
      BY <3>5, <3>6
  <2> QED
    BY <2>3, <2>4
<1> HIDE DEF Good
<1>3. Nat \subseteq Good
  BY <1>1, <1>2, Induction
<1> SUFFICES ASSUME NEW s \in SUBSET S  PROVE \A x \in s : g[s] = w[x] + g[s \ {x}]
  BY DEF Unordered
<1>4. Cardinality(s) \in Good
  BY <1>3, SmallerSets
<1> QED
  BY <1>4 DEF Good

\* The keys at these positions, and their weights.
KeysAt(key, I) == {key[i] : i \in I}

Weights(w, key, I) == [i \in I |-> w[key[i]]]

\* The sum over positions that hold different keys is the sum over the keys.
LEMMA SumOfKeys ==
    ASSUME NEW I, IsFiniteSet(I), NEW key, NEW w,
           \A i, j \in I : i # j => key[i] # key[j],
           \A i \in I : w[key[i]] \in Nat,
           NEW g, Sums(g, Weights(w, key, I), I),
           NEW keys, keys = KeysAt(key, I),
           NEW h, Sums(h, w, keys)
    PROVE  g[I] = h[keys]
<1> USE DEF KeysAt
<1> DEFINE Keys(s) == {key[i] : i \in s}
           Good == {n \in Nat : \A s \in SUBSET I : Cardinality(s) = n => g[s] = h[Keys(s)]}
<1>1. IsFiniteSet(keys)
  <2> DEFINE f == [i \in I |-> key[i]]
  <2>1. f \in Surjection(I, keys)
    BY DEF Surjection
  <2> QED
    BY <2>1, FS_Surjection
<1>2. Unordered(h, w, keys)
  <2>1. \A x \in keys : w[x] \in Nat
    OBVIOUS
  <2> QED
    BY <1>1, <2>1, AnyFirst
<1>3. 0 \in Good
  <2> SUFFICES ASSUME NEW s \in SUBSET I, Cardinality(s) = 0  PROVE g[s] = h[Keys(s)]
    OBVIOUS
  <2>1. s = {} /\ Keys(s) = {}
    BY SmallerSets
  <2>2. g[{}] = 0 /\ h[{}] = 0
    BY DEF Sums
  <2> QED
    BY <2>1, <2>2
<1>4. ASSUME NEW n \in Nat, n \in Good  PROVE n + 1 \in Good
  <2> SUFFICES ASSUME NEW s \in SUBSET I, Cardinality(s) = n + 1
               PROVE  g[s] = h[Keys(s)]
    OBVIOUS
  <2> DEFINE x == CHOOSE x \in s : TRUE
  <2>0. \A u \in s : s \ {u} \in SUBSET I /\ Cardinality(s \ {u}) = (n + 1) - 1
    BY SmallerSets
  <2>7. s # {} /\ x \in s
    BY SmallerSets
  <2>1. s \ {x} \in SUBSET I /\ Cardinality(s \ {x}) = n
    <3> HIDE DEF x
    <3> QED
      BY <2>0, <2>7
  <2>2. g[s] = w[key[x]] + g[s \ {x}]
    BY <2>7 DEF Sums, Weights
  <2> HIDE DEF x
  <2>3. g[s \ {x}] = h[Keys(s \ {x})]
    BY <1>4, <2>1
  <2>4. Keys(s \ {x}) = Keys(s) \ {key[x]} /\ key[x] \in Keys(s) /\ Keys(s) \in SUBSET keys
    BY <2>7
  <2>5. h[Keys(s)] = w[key[x]] + h[Keys(s) \ {key[x]}]
    BY <1>2, <2>4 DEF Unordered
  <2> QED
    BY <2>2, <2>3, <2>4, <2>5
<1> HIDE DEF Good
<1>5. Nat \subseteq Good
  BY <1>3, <1>4, Induction
<1>6. Cardinality(I) \in Good
  BY <1>5, FS_CardinalityType
<1> QED
  BY <1>6 DEF Good

Total(w, S) == MapThenSumSet(LAMBDA x : w[x], S)

LEMMA SumOverSet ==
    ASSUME NEW S, IsFiniteSet(S), NEW w, \A x \in S : w[x] \in Nat
    PROVE  \E g \in [SUBSET S -> Nat] :
              Sums(g, w, S) /\ Total(w, S) = g[S]
<1> DEFINE iter == CHOOSE g : Sums(g, w, S)
<1>1. Sums(iter, w, S)
  BY SumsExist
<1>2. Total(w, S) = iter[S]
  BY DEF Total, MapThenSumSet, MapThenFoldSet, Sums
<1> HIDE DEF iter
<1>3. iter \in [SUBSET S -> Nat]
  BY <1>1, SumsType
<1> QED
  BY <1>1, <1>2, <1>3

\* The keys of the signatures at positions I.
KeyOf(sigs, I) == [i \in I |-> sigs[i].key]

LEMMA WeightIsSum ==
    ASSUME NEW sigs, NEW signers, NEW I, IsFiniteSet(I),
           \A i \in I : signers.weight[sigs[i].key] \in Nat
    PROVE  \E g \in [SUBSET I -> Nat] :
              /\ Sums(g, Weights(signers.weight, KeyOf(sigs, I), I), I)
              /\ WeightOf(sigs, signers, I) = g[I]
<1> DEFINE w == Weights(signers.weight, KeyOf(sigs, I), I)
<1>0. \A i \in I : w[i] = signers.weight[sigs[i].key] /\ w[i] \in Nat
  BY DEF Weights, KeyOf
<1> DEFINE Adds(g) == g = [s \in SUBSET I |->
                             IF s = {} THEN 0
                             ELSE LET x == CHOOSE x \in s : TRUE
                                  IN signers.weight[sigs[x].key] + g[s \ {x}]]
           iter == CHOOSE g : Adds(g)
<1>1. \A g : Adds(g) <=> Sums(g, w, I)
  <2> TAKE g
  <2>1. ASSUME NEW s \in SUBSET I, s # {}
        PROVE  (CHOOSE x \in s : TRUE) \in I
    BY <2>1
  <2>2. [s \in SUBSET I |-> IF s = {} THEN 0
                             ELSE LET x == CHOOSE x \in s : TRUE
                                  IN signers.weight[sigs[x].key] + g[s \ {x}]]
         = [s \in SUBSET I |-> IF s = {} THEN 0
                                ELSE LET x == CHOOSE x \in s : TRUE
                                     IN w[x] + g[s \ {x}]]
    BY <1>0, <2>1
  <2> QED
    BY <2>2 DEF Sums
<1>2. Adds(iter)
  <2> HIDE DEF w, Adds
  <2>2. \E g : Adds(g)
    BY <1>0, <1>1, SumsExist
  <2> QED
    BY <2>2
<1>3. WeightOf(sigs, signers, I) = iter[I]
  BY DEF WeightOf, MapThenSumSet, MapThenFoldSet
<1>4. Sums(iter, w, I)
  BY <1>1, <1>2
<1> HIDE DEF iter
<1>5. iter \in [SUBSET I -> Nat]
  <2> HIDE DEF w
  <2> QED
    BY <1>0, <1>4, SumsType
<1> QED
  BY <1>3, <1>4, <1>5

-----------------------------------------------------------------------------
(* The quorum. *)

\* A request about to get its JWT has signatures that were accepted, of the
\* signers that were fetched for it.
SignedOK ==
    \A c \in Caller :
        call[c].pc = "issue" =>
            /\ call[c].sigs \in Signature
            /\ call[c].signers \in Fetched \cup {MasterOnly}
            /\ VerifyChallengeSignatures(call[c].sigs, call[c].signers)

SignedInv == BasicInv /\ SignedOK

\* What VerifyChallengeSignatures accepts are signers, and a quorum when every key came
\* under one hint.
LEMMA QuorumReached ==
    ASSUME NEW sigs \in Signature, NEW signers \in Fetched \cup {MasterOnly},
           VerifyChallengeSignatures(sigs, signers),
           NEW keys, keys = ClientKeys(sigs)
    PROVE  /\ keys # {}
           /\ keys \subseteq DOMAIN signers.weight
           /\ OneHintEach(sigs) => Total(signers.weight, keys) >= signers.medium
<1> DEFINE client == {i \in DOMAIN sigs : sigs[i].key # Server}
           key == KeyOf(sigs, client)
<1>1. /\ \A i, j \in DOMAIN sigs : i # j => sigs[i].hint # sigs[j].hint
      /\ \A i \in client : sigs[i].key \in DOMAIN signers.weight
      /\ WeightOf(sigs, signers, client) >= signers.medium
      /\ signers.medium = 0 => WeightOf(sigs, signers, client) # 0
  BY DEF VerifyChallengeSignatures
<1>2. signers.weight \in [DOMAIN signers.weight -> Nat] /\ signers.medium \in Nat
  BY SignersAssumption DEF MasterOnly
<1>3. IsFiniteSet(client)
  BY SignersAssumption, FS_Subset
<1>4. keys = {sigs[i].key : i \in client} /\ client \subseteq DOMAIN sigs
  BY DEF ClientKeys
<1>5. key \in Surjection(client, keys) /\ \A i \in client : key[i] = sigs[i].key
  BY <1>4 DEF Surjection, KeyOf
<1> HIDE DEF client
<1>6. IsFiniteSet(keys) /\ keys \subseteq DOMAIN signers.weight
  <2> HIDE DEF key
  <2> QED
    BY <1>1, <1>3, <1>4, <1>5, FS_Surjection
<1>7. /\ \A i \in client : signers.weight[sigs[i].key] \in Nat
      /\ \A k \in keys : signers.weight[k] \in Nat
  BY <1>1, <1>2, <1>6
<1>8. PICK g \in [SUBSET client -> Nat] :
        /\ Sums(g, Weights(signers.weight, key, client), client)
        /\ WeightOf(sigs, signers, client) = g[client]
  BY <1>3, <1>7, WeightIsSum
<1>9. PICK h \in [SUBSET keys -> Nat] :
        Sums(h, signers.weight, keys) /\ Total(signers.weight, keys) = h[keys]
  BY <1>6, <1>7, SumOverSet
<1> HIDE DEF key
<1>10. ASSUME OneHintEach(sigs)  PROVE g[client] = h[keys]
  <2>1. \A i, j \in client : i # j => key[i] # key[j]
    BY <1>1, <1>4, <1>5, <1>10 DEF OneHintEach
  <2> DEFINE w == signers.weight
  <2>2. /\ \A i \in client : w[key[i]] \in Nat
        /\ Sums(g, Weights(w, key, client), client) /\ Sums(h, w, keys)
        /\ keys = KeysAt(key, client)
    BY <1>4, <1>5, <1>7, <1>8, <1>9 DEF KeysAt
  <2> HIDE DEF w
  <2> QED
    BY ONLY <1>3, <2>1, <2>2, SumOfKeys
\* With no client signature at all nothing is added up.
<1>11. keys # {}
  <2> SUFFICES ASSUME keys = {}  PROVE FALSE
    OBVIOUS
  <2>1. client = {}
    BY <1>4
  <2>2. g[client] = 0
    BY <1>8, <2>1 DEF Sums
  <2> QED
    BY <2>2, <1>1, <1>2, <1>8
<1> QED
  BY <1>1, <1>6, <1>8, <1>9, <1>10, <1>11

LEMMA SignedStep == SignedInv /\ [Next]_vars => SignedOK'
<1> SUFFICES ASSUME SignedInv, [Next]_vars  PROVE SignedOK'
  OBVIOUS
<1>0. call \in [Caller -> CallRecord] /\ \A c \in Caller : call[c] \in CallRecord
  BY DEF SignedInv, BasicInv, TypeOK
<1>1. ASSUME NEW c \in Caller, CheckSignatures(c)  PROVE SignedOK'
  <2>1. PICK sigs \in Signature, signers \in Fetched \cup {MasterOnly} :
          /\ VerifyChallengeSignatures(sigs, signers)
          /\ call' = [call EXCEPT ![c].pc = "issue", ![c].sigs = sigs,
                                  ![c].signers = signers]
    BY <1>1 DEF CheckSignatures
  <2>2. call'[c].sigs = sigs /\ call'[c].signers = signers
    BY <1>0, <2>1 DEF CallRecord
  <2>3. \A d \in Caller \ {c} : call'[d] = call[d]
    BY <1>0, <2>1
  <2> QED
    BY <2>1, <2>2, <2>3 DEF SignedInv, SignedOK
<1>2. ASSUME NEW c \in Caller, NEW r, call' = [call EXCEPT ![c] = r], r.pc # "issue"
      PROVE  SignedOK'
  BY <1>0, <1>2 DEF SignedInv, SignedOK
<1>3. ASSUME NEW c \in Caller,
             SignChallenge(c) \/ CreateFails(c) \/ ConsumeRefused(c) \/ Refuse(c) \/ Issue(c)
      PROVE  SignedOK'
  <2>1. call' = [call EXCEPT ![c] = Idle] /\ Idle.pc # "issue"
    BY <1>3 DEF SignChallenge, CreateFails, ConsumeRefused, Refuse, Issue, Idle
  <2> QED
    BY <1>2, <2>1
<1>4. ASSUME NEW c \in Caller, AddNonce(c)  PROVE SignedOK'
  <2>1. PICK n : call' = [call EXCEPT ![c] = [Idle EXCEPT !.pc = "build", !.nonce = n]]
    BY <1>4 DEF AddNonce
  <2>2. [Idle EXCEPT !.pc = "build", !.nonce = n].pc # "issue"
    BY DEF Idle
  <2> QED
    BY <1>2, <2>1, <2>2
<1>5. ASSUME NEW c \in Caller, BuildChallenge(c)  PROVE SignedOK'
  BY <1>0, <1>5 DEF BuildChallenge, SignedInv, SignedOK, CallRecord
<1>6. ASSUME NEW c \in Caller, Present(c)  PROVE SignedOK'
  <2>1. PICK ch \in challenges \cup {Foreign} :
          call' = [call EXCEPT ![c] = [Idle EXCEPT
             !.pc = "consume", !.nonce = ch.nonce, !.maxTime = ch.maxTime]]
    BY <1>6 DEF Present
  <2>2. [Idle EXCEPT !.pc = "consume", !.nonce = ch.nonce, !.maxTime = ch.maxTime].pc
           # "issue"
    BY DEF Idle
  <2> QED
    BY <1>2, <2>1, <2>2
<1>7. ASSUME NEW c \in Caller, Consume(c)  PROVE SignedOK'
  BY <1>0, <1>7 DEF Consume, SignedInv, SignedOK, CallRecord
<1>8. CASE Tick \/ UNCHANGED vars
  BY <1>8 DEF Tick, vars, SignedInv, SignedOK
<1>9. CASE Crash
  BY <1>9 DEF Crash, Idle, SignedOK
<1> QED
  BY <1>1, <1>3, <1>4, <1>5, <1>6, <1>7, <1>8, <1>9 DEF Next, Create, VerifyChallenge

\* Whatever signatures a request sends, in whatever order, however often and under
\* whatever hints, and whatever signers the account turns out to have, a JWT is issued
\* only for signers of it, at least one; and for keys that together reach its medium
\* threshold, each counted once, if none signed under two hints (auth.go:311-352).
THEOREM QuorumSigned == Spec => []QuorumOfSigners
<1>1. Init => SignedInv
  BY InitBasic DEF Init, Idle, SignedInv, SignedOK
<1>2. SignedInv /\ [Next]_vars => SignedInv'
  BY SignedStep, TypeStep, DrawnStep DEF SignedInv, BasicInv
<1>3. SignedInv => QuorumOfSigners
  <2> SUFFICES ASSUME SignedInv, NEW c \in Caller, call[c].pc = "issue",
                      NEW keys, keys = ClientKeys(call[c].sigs)
               PROVE  /\ keys # {}
                      /\ keys \subseteq DOMAIN call[c].signers.weight
                      /\ OneHintEach(call[c].sigs) =>
                            Total(call[c].signers.weight, keys) >= call[c].signers.medium
    BY DEF QuorumOfSigners, ReachesThreshold, Total
  <2>1. /\ call[c].sigs \in Signature /\ call[c].signers \in Fetched \cup {MasterOnly}
        /\ VerifyChallengeSignatures(call[c].sigs, call[c].signers)
    BY DEF SignedInv, SignedOK
  <2> QED
    BY <2>1, QuorumReached
<1> QED
  BY <1>1, <1>2, <1>3, PTL DEF Spec

-----------------------------------------------------------------------------
(* The refinement of OneTimeChallenge. *)

LEMMA StageKept ==
    ASSUME NEW n,
           Granted(n)' <=> Granted(n),
           Presented(n)' <=> Presented(n),
           Open(n)' <=> Open(n),
           n \in drawn' <=> n \in drawn
    PROVE  StageOf(n)' = StageOf(n)
BY DEF StageOf

LEMMA StageValues ==
    ASSUME NEW n
    PROVE  /\ Granted(n) => StageOf(n) = "granted"
           /\ ~Granted(n) /\ Presented(n) => StageOf(n) = "presented"
           /\ ~Granted(n) /\ ~Presented(n) /\ Open(n) => StageOf(n) = "open"
           /\ ~Granted(n) /\ ~Presented(n) /\ ~Open(n) /\ n \in drawn
                 => StageOf(n) = "void"
           /\ ~Granted(n) /\ ~Presented(n) /\ ~Open(n) /\ n \notin drawn
                 => StageOf(n) = "unissued"
BY DEF StageOf

LEMMA StageValuesAfter ==
    ASSUME NEW n
    PROVE  /\ Granted(n)' => StageOf(n)' = "granted"
           /\ ~Granted(n)' /\ Presented(n)' => StageOf(n)' = "presented"
           /\ ~Granted(n)' /\ ~Presented(n)' /\ Open(n)' => StageOf(n)' = "open"
           /\ ~Granted(n)' /\ ~Presented(n)' /\ ~Open(n)' /\ n \in drawn'
                 => StageOf(n)' = "void"
           /\ ~Granted(n)' /\ ~Presented(n)' /\ ~Open(n)' /\ n \notin drawn'
                 => StageOf(n)' = "unissued"
BY DEF StageOf

LEMMA StageStep == SpentInv /\ [Next]_vars =>
                     [Challenges!Next]_([n \in Nonce |-> StageOf(n)])
<1> DEFINE stage == [n \in Nonce |-> StageOf(n)]
<1> SUFFICES ASSUME SpentInv, [Next]_vars
             PROVE  \/ \E n \in Nonce : Challenges!Issue(n) \/ Challenges!Present(n)
                                          \/ Challenges!Grant(n)
                    \/ \E S \in SUBSET Nonce : Challenges!Void(S)
                    \/ stage' = stage
  BY DEF Challenges!Next
<1>0. /\ TypeOK /\ DrawnOK /\ SpentOK
      /\ call \in [Caller -> CallRecord]
      /\ drawn \subseteq Nonce
      /\ nonces \in [Nonce -> Entry \cup {Missing}]
      /\ jwts \in Seq(JWT)
      /\ now \in Nat /\ ChallengeTimeout \in Nat
      /\ Idle.pc = "idle"
  BY ConstantsAssumption DEF SpentInv, BasicInv, TypeOK, Idle
<1>1. ASSUME NEW c \in Caller, AddNonce(c)
      PROVE  \E n \in Nonce : Challenges!Issue(n)
  <2>1. PICK n \in Nonce \ drawn :
           /\ drawn' = drawn \cup {n}
           /\ nonces' = [nonces EXCEPT ![n] =
                 [expiresAt |-> ExpiresAt(now), consumed |-> FALSE, stored |-> TRUE]]
           /\ call' = [call EXCEPT ![c] = [Idle EXCEPT !.pc = "build", !.nonce = n]]
    BY <1>1 DEF AddNonce
  <2>2. now' = now /\ jwts' = jwts /\ ~Using(c) /\ ~Using(c)'
        /\ \A d \in Caller \ {c} : call'[d] = call[d]
    BY <1>0, <1>1, <2>1 DEF AddNonce, Using, Idle
  <2>3. \A m : (Granted(m)' <=> Granted(m)) /\ (Presented(m)' <=> Presented(m))
    BY <2>2 DEF Granted, Presented, Using
  <2>4. \A m \in Nonce \ {n} : Open(m)' <=> Open(m)
    BY <1>0, <2>1, <2>2 DEF Open, Expired
  <2>5. \A m \in Nonce \ {n} : StageOf(m)' = StageOf(m)
    BY <2>1, <2>3, <2>4, StageKept
  <2>6. ~Granted(n) /\ ~Presented(n) /\ ~Open(n)
    BY <1>0, <2>1 DEF DrawnOK, Granted, Presented, Open, Using
  <2>7. Open(n)'
    BY <1>0, <2>1, <2>2 DEF Open, Expired, ExpiresAt
  <2>8. StageOf(n) = "unissued" /\ StageOf(n)' = "open"
    BY <2>1, <2>3, <2>6, <2>7, StageValues, StageValuesAfter
  <2>9. Challenges!Issue(n)
    BY <2>5, <2>8 DEF Challenges!Issue
  <2> QED
    BY <2>9
<1>2. ASSUME NEW c \in Caller,
             BuildChallenge(c) \/ SignChallenge(c) \/ CreateFails(c) \/ Present(c)
               \/ CheckSignatures(c) \/ ConsumeRefused(c)
      PROVE  stage' = stage
  <2>1. UNCHANGED <<now, drawn, jwts>>
    BY <1>2 DEF BuildChallenge, SignChallenge, CreateFails, Present,
       CheckSignatures, ConsumeRefused
  <2>2. nonces' = nonces \/ nonces' = Cleaned
    BY <1>2 DEF BuildChallenge, SignChallenge, CreateFails, Present,
       CheckSignatures, ConsumeRefused
  <2>3. /\ Using(c)' <=> Using(c)
        /\ Using(c) => call'[c].nonce = call[c].nonce
        /\ \A d \in Caller \ {c} : call'[d] = call[d]
    <3>1. CASE BuildChallenge(c)
      BY <1>0, <3>1 DEF BuildChallenge, Using, CallRecord
    <3>2. CASE SignChallenge(c) \/ CreateFails(c) \/ ConsumeRefused(c)
      BY <1>0, <3>2 DEF SignChallenge, CreateFails, ConsumeRefused, Using
    <3>3. CASE Present(c)
      BY <1>0, <3>3 DEF Present, Using, Idle
    <3>4. CASE CheckSignatures(c)
      <4>1. /\ call[c].pc = "check" /\ call'[c].pc = "issue"
            /\ call'[c].nonce = call[c].nonce
            /\ \A d \in Caller \ {c} : call'[d] = call[d]
        BY <1>0, <3>4 DEF CheckSignatures, CallRecord
      <4> QED
        BY <4>1 DEF Using
    <3> QED
      BY <1>2, <3>1, <3>2, <3>3, <3>4
  <2>4. \A m : (Granted(m)' <=> Granted(m)) /\ (Presented(m)' <=> Presented(m))
    BY <2>1, <2>3 DEF Granted, Presented, Using
  <2>5. \A m \in Nonce : Open(m)' <=> Open(m)
    BY <1>0, <2>1, <2>2 DEF Open, Expired, Cleaned, Missing
  <2> QED
    BY <2>1, <2>4, <2>5, StageKept
<1>3. ASSUME NEW c \in Caller, Consume(c)
      PROVE  \E n \in Nonce : Challenges!Present(n)
  <2>1. PICK n \in Nonce : n = call[c].nonce
    BY <1>3 DEF Consume, Consumable
  <2>2. /\ UNCHANGED <<now, drawn, jwts>>
        /\ nonces' = [Cleaned EXCEPT ![n].consumed = TRUE]
        /\ call'[c].nonce = n /\ call'[c].pc = "check" /\ call[c].pc = "consume"
        /\ \A d \in Caller \ {c} : call'[d] = call[d]
    BY <1>0, <1>3, <2>1 DEF Consume, CallRecord
  <2>3. ~Using(c) /\ Using(c)'
    BY <2>2 DEF Using
  <2>4. \A m : Granted(m)' <=> Granted(m)
    BY <2>2 DEF Granted
  <2>5. \A m \in Nonce \ {n} : Presented(m)' <=> Presented(m)
    BY <2>2, <2>3 DEF Presented, Using
  <2>6. \A m \in Nonce \ {n} : Open(m)' <=> Open(m)
    BY <1>0, <2>2, CleanedType DEF Open, Expired, Cleaned, Missing
  <2>7. \A m \in Nonce \ {n} : StageOf(m)' = StageOf(m)
    BY <2>2, <2>4, <2>5, <2>6, StageKept
  <2>8. Open(n) /\ n \in drawn /\ ~nonces[n].consumed
    <3>1. n \in drawn
      BY <1>0, <2>1, ConstantsAssumption DEF DrawnOK
    <3>2. Cleaned[n].stored /\ ~Cleaned[n].consumed
      BY <1>3, <2>1 DEF Consume, Consumable
    <3> QED
      BY <3>1, <3>2 DEF Open, Cleaned, Missing
  <2>9. ~Granted(n) /\ ~Presented(n)
    BY <1>0, <2>8 DEF SpentOK, Spent, Granted, Presented
  <2>10. Presented(n)'
    BY <2>2, <2>3 DEF Presented
  <2>11. StageOf(n) = "open" /\ StageOf(n)' = "presented"
    BY <2>4, <2>8, <2>9, <2>10, StageValues, StageValuesAfter
  <2>12. Challenges!Present(n)
    BY <2>7, <2>11 DEF Challenges!Present
  <2> QED
    BY <2>12
\* A call that leaves its use of n: nobody else has n in use.
<1>a. ASSUME NEW c \in Caller, Using(c), call' = [call EXCEPT ![c] = Idle]
      PROVE  /\ call[c].nonce \in Nonce
             /\ Presented(call[c].nonce) /\ ~Granted(call[c].nonce)
             /\ ~Open(call[c].nonce) /\ call[c].nonce \in drawn
             /\ \A m : Presented(m)' <=> Presented(m) /\ m # call[c].nonce
  <2>1. Spent(call[c].nonce) /\ ~Granted(call[c].nonce)
    BY <1>0, <1>a DEF SpentOK
  <2>2. \A d \in Caller : Using(d)' <=> Using(d) /\ d # c
    BY <1>0, <1>a DEF Using
  <2>3. \A d \in Caller \ {c} : call'[d] = call[d]
    BY <1>0, <1>a
  <2>4. \A m : Presented(m)' <=> Presented(m) /\ m # call[c].nonce
    BY <1>0, <1>a, <2>2, <2>3 DEF Presented, SpentOK
  <2> QED
    BY <1>0, <1>a, <2>1, <2>4 DEF Spent, Open, Presented
<1>4. ASSUME NEW c \in Caller, Refuse(c)
      PROVE  \E S \in SUBSET Nonce : Challenges!Void(S)
  <2> DEFINE n == call[c].nonce
  <2>1. /\ UNCHANGED <<now, drawn, nonces, jwts>>
        /\ Using(c) /\ call' = [call EXCEPT ![c] = Idle]
    BY <1>4 DEF Refuse, Using
  <2>2. \A m : (Granted(m)' <=> Granted(m)) /\ (Open(m)' <=> Open(m))
    BY <2>1 DEF Granted, Open, Expired
  <2>3. \A m \in Nonce \ {n} : StageOf(m)' = StageOf(m)
    BY <1>a, <2>1, <2>2, StageKept
  <2>4. ~Granted(n) /\ Presented(n) /\ ~Open(n) /\ n \in drawn /\ n \in Nonce
    BY <1>a, <2>1
  <2>5. PICK m \in Nonce : m = n
    BY <2>4
  <2>6. StageOf(m) = "presented" /\ StageOf(m)' = "void"
    <3>1. ~Granted(m)' /\ ~Presented(m)' /\ ~Open(m)' /\ m \in drawn'
      BY <1>a, <2>1, <2>2, <2>4, <2>5
    <3> QED
      BY <2>4, <2>5, <3>1, StageValues, StageValuesAfter
  <2>7. Challenges!Void({m})
    BY <2>3, <2>5, <2>6 DEF Challenges!Void
  <2> QED
    BY <2>7
<1>5. ASSUME NEW c \in Caller, Issue(c)
      PROVE  \E n \in Nonce : Challenges!Grant(n)
  <2>1. PICK n \in Nonce : n = call[c].nonce
    BY <1>0, <1>5 DEF Issue, DrawnOK
  <2>2. /\ UNCHANGED <<now, drawn, nonces>>
        /\ Using(c) /\ call' = [call EXCEPT ![c] = Idle]
        /\ \A i \in DOMAIN jwts : jwts'[i] = jwts[i]
        /\ jwts'[Len(jwts) + 1].nonce = n
        /\ DOMAIN jwts' = DOMAIN jwts \cup {Len(jwts) + 1}
    BY <1>0, <1>5, <2>1 DEF Issue, Using
  <2>3. \A m : Granted(m)' <=> Granted(m) \/ m = n
    BY <2>2 DEF Granted
  <2>4. \A m : Open(m)' <=> Open(m)
    BY <2>2 DEF Open, Expired
  <2>5. \A m \in Nonce \ {n} : StageOf(m)' = StageOf(m)
    BY <1>a, <2>1, <2>2, <2>3, <2>4, StageKept
  <2>6. StageOf(n) = "presented" /\ StageOf(n)' = "granted"
    BY <1>a, <2>1, <2>2, <2>3, StageValues, StageValuesAfter
  <2>7. Challenges!Grant(n)
    BY <2>5, <2>6 DEF Challenges!Grant
  <2> QED
    BY <2>7
<1>6. CASE Tick
  <2> DEFINE S == {m \in Nonce : StageOf(m) = "open" /\ ~Open(m)'}
  <2>1. now' = now + 1 /\ UNCHANGED <<drawn, nonces, jwts, call>>
    BY <1>6 DEF Tick
  <2>2. \A m : (Granted(m)' <=> Granted(m)) /\ (Presented(m)' <=> Presented(m))
    BY <2>1 DEF Granted, Presented, Using
  <2>3. \A m \in Nonce : Open(m)' => Open(m)
    <3> SUFFICES ASSUME NEW m \in Nonce, Open(m)' PROVE Open(m)
      OBVIOUS
    <3>1. nonces[m] \in Entry
      BY <1>0, <2>1 DEF Open, Missing
    <3>2. nonces[m].expiresAt \in Nat
      BY <3>1, EntryTime
    <3> QED
      BY <1>0, <2>1, <3>2 DEF Open, Expired
  <2>4. ASSUME NEW m \in Nonce
        PROVE  StageOf(m)' = IF m \in S THEN "void" ELSE StageOf(m)
    <3>1. CASE m \in S
      <4>1. ~Granted(m) /\ ~Presented(m) /\ Open(m)
        BY <3>1, StageValues
      <4> QED
        BY <2>1, <2>2, <3>1, <4>1, StageValuesAfter DEF Open
    <3>2. CASE m \notin S
      <4>1. CASE Open(m)' <=> Open(m)
        BY <2>1, <2>2, <3>2, <4>1, StageKept
      <4>2. CASE Open(m) /\ ~Open(m)'
        <5>1. Granted(m) \/ Presented(m)
          BY <3>2, <4>2, StageValues
        <5> QED
          BY <2>2, <3>2, <5>1, StageValues, StageValuesAfter
      <4> QED
        BY <2>3, <4>1, <4>2
    <3> QED
      BY <3>1, <3>2
  <2>5. S \in SUBSET Nonce /\ \A m \in S : StageOf(m) = "open"
    OBVIOUS
  <2> HIDE DEF S
  <2>6. Challenges!Void(S)
    BY <2>4, <2>5 DEF Challenges!Void
  <2> QED
    BY <2>5, <2>6
<1>7. CASE Crash
  <2> DEFINE S == {m \in Nonce : StageOf(m) \in {"open", "presented"}}
  <2>1. /\ UNCHANGED <<now, drawn, jwts>>
        /\ \A m \in Nonce : ~nonces'[m].stored
        /\ \A d \in Caller : ~Using(d)'
    BY <1>0, <1>7 DEF Crash, Missing, Using
  <2>2. \A m \in Nonce : (Granted(m)' <=> Granted(m)) /\ ~Presented(m)' /\ ~Open(m)'
    BY <2>1 DEF Granted, Presented, Open
  <2>3. ASSUME NEW m \in Nonce
        PROVE  StageOf(m)' = IF m \in S THEN "void" ELSE StageOf(m)
    <3>1. Open(m) \/ Presented(m) => m \in drawn
      BY <1>0 DEF Open, Presented, Using, DrawnOK
    <3>2. CASE Granted(m)
      BY <2>2, <3>2, StageValues, StageValuesAfter
    <3>3. CASE ~Granted(m) /\ m \in drawn
      <4>1. StageOf(m)' = "void"
        BY <2>1, <2>2, <3>3, StageValuesAfter
      <4>2. StageOf(m) \in {"open", "presented", "void"}
        BY <3>3, StageValues
      <4> QED
        BY <4>1, <4>2
    <3>4. CASE ~Granted(m) /\ m \notin drawn
      BY <2>1, <2>2, <3>1, <3>4, StageValues, StageValuesAfter
    <3> QED
      BY <3>2, <3>3, <3>4
  <2>4. S \in SUBSET Nonce /\ \A m \in S : StageOf(m) \in {"open", "presented"}
    OBVIOUS
  <2> HIDE DEF S
  <2>5. Challenges!Void(S)
    BY <2>3, <2>4 DEF Challenges!Void
  <2> QED
    BY <2>4, <2>5
<1>8. CASE UNCHANGED vars
  <2>1. \A m \in Nonce : StageOf(m)' = StageOf(m)
    BY <1>8, StageKept DEF vars, Granted, Presented, Open, Using, Expired
  <2> QED
    BY <2>1
<1> QED
  BY <1>1, <1>2, <1>3, <1>4, <1>5, <1>6, <1>7, <1>8 DEF Next, Create, VerifyChallenge

\* AuthIssuer with its nonce store implements one-time challenges: whatever is
\* refused, expires or is lost in a restart is never accepted afterwards.
THEOREM AuthImplementsOneTime == Spec => ImplementsOneTime
<1>1. Init => SpentInv /\ Challenges!Init
  <2>1. ASSUME Init, NEW n \in Nonce PROVE StageOf(n) = "unissued"
    <3>1. ~Granted(n) /\ ~Presented(n) /\ ~Open(n) /\ n \notin drawn
      BY <2>1 DEF Init, Granted, Presented, Using, Open, Idle
    <3> QED
      BY <3>1, StageValues
  <2> QED
    BY <2>1, InitSpent DEF Challenges!Init
<1>2. SpentInv /\ [Next]_vars =>
        SpentInv' /\ [Challenges!Next]_([n \in Nonce |-> StageOf(n)])
  BY TypeStep, DrawnStep, SpentStep, StageStep DEF SpentInv, BasicInv
<1> QED
  BY <1>1, <1>2, PTL DEF Spec, ImplementsOneTime, Challenges!Spec
=============================================================================

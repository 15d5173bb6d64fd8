------------------------------- MODULE WebAuth -------------------------------
(***************************************************************************)
(* SEP-10 web authentication on the anchor's side: anchor.AuthIssuer over  *)
(* the in-memory nonce store and the HMAC JWT issuer.  Request goroutines  *)
(* (Caller) create and verify challenges concurrently while time passes.   *)
(*                                                                         *)
(*   CreateChallenge   add -> build -> sign -> idle                        *)
(*   VerifyChallenge   consume -> check -> issue -> idle                   *)
(*                                                                         *)
(* Time is counted in ticks, finer than the whole seconds that time bounds *)
(* and JWTs are cut to.  A challenge is named by its nonce.  A signature   *)
(* is the key that made it and the hint that it came with, four bytes of   *)
(* the envelope that are not signed: nothing ties the one to the other.    *)
(* What the server did not build lacks its signature, which stands for the *)
(* checks of the transaction's shape that follow Consume.  Requests that   *)
(* fail to parse, refused before anything happens, are not modelled.       *)
(***************************************************************************)
EXTENDS Naturals, Sequences, FiniteSetsExt

CONSTANTS Caller,           \* goroutines
          Nonce,            \* nonces that GenerateNonce draws
          NoNonce,          \* a nonce of no challenge of this server
          Server, Master,   \* the server's key, the client account's own key
          Signature,        \* the sequences of signatures a client may send
          Fetched,          \* what FetchSigners may answer
          TicksPerSecond,
          ChallengeTimeout, \* in ticks
          JWTExpiry,        \* in ticks
          MaxTime,          \* bound: the clock stops there
          MaxCrashes        \* bound: restarts in a run

ASSUME ConstantsAssumption ==
    /\ NoNonce \notin Nonce
    /\ Server # Master
    /\ TicksPerSecond \in Nat \ {0}
    /\ ChallengeTimeout \in Nat
    /\ JWTExpiry \in Nat
    /\ MaxTime \in Nat
    /\ MaxCrashes \in Nat

\* A request has finitely many signatures; weights and thresholds are bytes of the
\* ledger, of which no sum overflows.
ASSUME SignersAssumption ==
    /\ \A sigs \in Signature : IsFiniteSet(DOMAIN sigs)
    /\ \A signers \in Fetched : /\ signers.weight \in [DOMAIN signers.weight -> Nat]
                                /\ signers.medium \in Nat

VARIABLES now,         \* the clock
          drawn,       \* nonces drawn so far
          nonces,      \* the store: nonce -> entry
          challenges,  \* signed challenges that clients have
          jwts,        \* the JWTs issued, in order
          call,        \* what each goroutine is doing
          crashes      \* how often the server has restarted

vars == <<now, drawn, nonces, challenges, jwts, call, crashes>>

\* time.Time to Unix seconds.
Unix(t) == t \div TicksPerSecond

Missing == [expiresAt |-> 0, consumed |-> TRUE, stored |-> FALSE]

Times == 0..MaxTime + ChallengeTimeout

Entry == [expiresAt: Times, consumed: BOOLEAN, stored: {TRUE}]

Challenge == [nonce: Nonce, maxTime: Nat]

\* A challenge of another server, or of none.
Foreign == [nonce |-> NoNonce, maxTime |-> 0]

JWT == [nonce: Nonce, issuedAt: 0..MaxTime, exp: Nat]

\* The signers of an account that is not found: its master key.
MasterOnly == [weight |-> [k \in {Master} |-> 1], medium |-> 0]

NoSigners == [weight |-> <<>>, medium |-> 0]

Idle == [pc |-> "idle", nonce |-> NoNonce, maxTime |-> 0,
         sigs |-> <<>>, signers |-> NoSigners]

CallRecord ==
    [pc: {"idle", "build", "sign", "consume", "check", "issue"},
     nonce: Nonce \cup {NoNonce}, maxTime: Nat,
     sigs: Signature \cup {<<>>},
     signers: Fetched \cup {MasterOnly, NoSigners}]

Init ==
    /\ now = 0
    /\ drawn = {}
    /\ nonces = [n \in Nonce |-> Missing]
    /\ challenges = {}
    /\ jwts = <<>>
    /\ call = [c \in Caller |-> Idle]
    /\ crashes = 0

-----------------------------------------------------------------------------
(* CreateChallenge. *)

ExpiresAt(t) == t + ChallengeTimeout

\* A fresh nonce enters the store with its expiry, before its challenge is
\* built: the clock is read again for the time bounds.
AddNonce(c) ==
    /\ call[c].pc = "idle"
    /\ \E n \in Nonce \ drawn :
         /\ drawn' = drawn \cup {n}
         /\ nonces' = [nonces EXCEPT ![n] =
               [expiresAt |-> ExpiresAt(now), consumed |-> FALSE, stored |-> TRUE]]
         /\ call' = [call EXCEPT ![c] = [Idle EXCEPT !.pc = "build", !.nonce = n]]
    /\ UNCHANGED <<now, challenges, jwts, crashes>>

MaxTimeAt(t) == Unix(t + ChallengeTimeout)

BuildChallenge(c) ==
    /\ call[c].pc = "build"
    /\ call' = [call EXCEPT ![c].pc = "sign", ![c].maxTime = MaxTimeAt(now)]
    /\ UNCHANGED <<now, drawn, nonces, challenges, jwts, crashes>>

SignChallenge(c) ==
    /\ call[c].pc = "sign"
    /\ challenges' = challenges \cup
          {[nonce |-> call[c].nonce, maxTime |-> call[c].maxTime]}
    /\ call' = [call EXCEPT ![c] = Idle]
    /\ UNCHANGED <<now, drawn, nonces, jwts, crashes>>

\* The signer fails, or the transaction cannot be built: the nonce stays in
\* the store, and no client has its challenge.
CreateFails(c) ==
    /\ call[c].pc \in {"build", "sign"}
    /\ call' = [call EXCEPT ![c] = Idle]
    /\ UNCHANGED <<now, drawn, nonces, challenges, jwts, crashes>>

-----------------------------------------------------------------------------
(* VerifyChallenge. *)

Present(c) ==
    /\ call[c].pc = "idle"
    /\ \E ch \in challenges \cup {Foreign} :
         call' = [call EXCEPT ![c] = [Idle EXCEPT
            !.pc = "consume", !.nonce = ch.nonce, !.maxTime = ch.maxTime]]
    /\ UNCHANGED <<now, drawn, nonces, challenges, jwts, crashes>>

\* The lazy cleanup that each Consume starts with.
Expired(n) == nonces[n].stored /\ now > nonces[n].expiresAt

\* MUTANT: nothing looks at the expiry.
CleanedNothing == nonces

Cleaned == [n \in Nonce |-> IF Expired(n) THEN Missing ELSE nonces[n]]

\* What Consume returns.
Consumable(n) ==
    n \in Nonce /\ Cleaned[n].stored /\ ~Cleaned[n].consumed

\* MUTANT: the entry is looked up and never marked.
ConsumeUnmarked(c) ==
    /\ call[c].pc = "consume"
    /\ Consumable(call[c].nonce)
    /\ nonces' = Cleaned
    /\ call' = [call EXCEPT ![c].pc = "check"]
    /\ UNCHANGED <<now, drawn, challenges, jwts, crashes>>

Consume(c) ==
    /\ call[c].pc = "consume"
    /\ Consumable(call[c].nonce)
    /\ nonces' = [Cleaned EXCEPT ![call[c].nonce].consumed = TRUE]
    /\ call' = [call EXCEPT ![c].pc = "check"]
    /\ UNCHANGED <<now, drawn, challenges, jwts, crashes>>

ConsumeRefused(c) ==
    /\ call[c].pc = "consume"
    /\ ~Consumable(call[c].nonce)
    /\ nonces' = Cleaned
    /\ call' = [call EXCEPT ![c] = Idle]
    /\ UNCHANGED <<now, drawn, challenges, jwts, crashes>>

\* The weight of the signatures at positions I: of each, that of its key.
WeightOf(sigs, signers, I) ==
    MapThenSumSet(LAMBDA i : signers.weight[sigs[i].key], I)

\* MUTANT: a signature sent twice counts twice.
SignaturesCountedTwice(sigs, signers) ==
    LET client == {i \in DOMAIN sigs : sigs[i].key # Server}
    IN /\ \E i \in DOMAIN sigs : sigs[i].key = Server
       /\ \A i \in client : sigs[i].key \in DOMAIN signers.weight
       /\ WeightOf(sigs, signers, client) >= signers.medium
       /\ signers.medium = 0 => WeightOf(sigs, signers, client) # 0

\* The server's signature and, no two under one hint and none of a stranger,
\* signatures of the account's signers that reach its medium threshold: at least
\* one where that is 0. What counts as a duplicate is told by the hint alone.
VerifyChallengeSignatures(sigs, signers) ==
    LET client == {i \in DOMAIN sigs : sigs[i].key # Server}
    IN /\ \A i, j \in DOMAIN sigs : i # j => sigs[i].hint # sigs[j].hint
       /\ \E i \in DOMAIN sigs : sigs[i].key = Server
       /\ \A i \in client : sigs[i].key \in DOMAIN signers.weight
       /\ WeightOf(sigs, signers, client) >= signers.medium
       /\ signers.medium = 0 => WeightOf(sigs, signers, client) # 0

\* FetchSigners answers or fails; on failure, and without a fetcher, the master
\* key stands alone. The signatures came with the request: nothing has looked
\* at them until now, so they are chosen here.
CheckSignatures(c) ==
    /\ call[c].pc = "check"
    /\ \E sigs \in Signature, signers \in Fetched \cup {MasterOnly} :
         /\ VerifyChallengeSignatures(sigs, signers)
         /\ call' = [call EXCEPT ![c].pc = "issue", ![c].sigs = sigs,
                                 ![c].signers = signers]
    /\ UNCHANGED <<now, drawn, nonces, challenges, jwts, crashes>>

\* MUTANT: a refused challenge may be tried again.
RefuseReleased(c) ==
    /\ call[c].pc = "check"
    /\ \E sigs \in Signature, signers \in Fetched \cup {MasterOnly} :
         ~VerifyChallengeSignatures(sigs, signers)
    /\ nonces' = [nonces EXCEPT ![call[c].nonce].consumed = FALSE]
    /\ call' = [call EXCEPT ![c] = Idle]
    /\ UNCHANGED <<now, drawn, challenges, jwts, crashes>>

\* The nonce is spent all the same.
Refuse(c) ==
    /\ call[c].pc = "check"
    /\ \E sigs \in Signature, signers \in Fetched \cup {MasterOnly} :
         ~VerifyChallengeSignatures(sigs, signers)
    /\ call' = [call EXCEPT ![c] = Idle]
    /\ UNCHANGED <<now, drawn, nonces, challenges, jwts, crashes>>

Issue(c) ==
    /\ call[c].pc = "issue"
    /\ jwts' = Append(jwts, [nonce |-> call[c].nonce, issuedAt |-> now,
                             exp |-> Unix(now + JWTExpiry)])
    /\ call' = [call EXCEPT ![c] = Idle]
    /\ UNCHANGED <<now, drawn, nonces, challenges, crashes>>

\* MUTANT: a token is still good in the second it expires.
VerifyInclusive(jwt) == jwt.exp >= Unix(now)

\* What RequireAuth accepts, of the tokens this server signed.
Verify(jwt) == jwt.exp > Unix(now)

-----------------------------------------------------------------------------
Tick ==
    /\ now < MaxTime
    /\ now' = now + 1
    /\ UNCHANGED <<drawn, nonces, challenges, jwts, call, crashes>>

\* A restart: nonces are in memory, challenges and JWTs are with the clients.
Crash ==
    /\ crashes < MaxCrashes
    /\ crashes' = crashes + 1
    /\ nonces' = [n \in Nonce |-> Missing]
    /\ call' = [c \in Caller |-> Idle]
    /\ UNCHANGED <<now, drawn, challenges, jwts>>

Create(c) == AddNonce(c) \/ BuildChallenge(c) \/ SignChallenge(c) \/ CreateFails(c)

VerifyChallenge(c) ==
    \/ Present(c) \/ Consume(c) \/ ConsumeRefused(c)
    \/ CheckSignatures(c) \/ Refuse(c) \/ Issue(c)

Next == (\E c \in Caller : Create(c) \/ VerifyChallenge(c)) \/ Tick \/ Crash

Spec == Init /\ [][Next]_vars
-----------------------------------------------------------------------------
(* Properties. *)

TypeOK ==
    /\ now \in 0..MaxTime
    /\ drawn \subseteq Nonce
    /\ nonces \in [Nonce -> Entry \cup {Missing}]
    /\ challenges \subseteq Challenge
    /\ jwts \in Seq(JWT)
    /\ call \in [Caller -> CallRecord]
    /\ crashes \in 0..MaxCrashes

\* A challenge pays for at most one JWT, whatever copies of it are presented,
\* at once or later, after its entry was cleaned up or the server restarted
\* (memory/nonce.go, auth.go:162).
ChallengeGrantsOnce ==
    \A i, j \in DOMAIN jwts : i # j => jwts[i].nonce # jwts[j].nonce

\* A challenge is never accepted after its own time bounds. VerifyChallenge
\* does not look at them: it relies on the nonce's expiry, taken from an
\* earlier reading of the clock and in finer units (auth.go:93, 98-99).
NoLateAcceptance ==
    [][\A c \in Caller :
          call[c].pc = "consume" /\ call'[c].pc = "check" =>
             Unix(now) <= call[c].maxTime]_vars

\* The keys that signed, but for the server's.
ClientKeys(sigs) == {sigs[i].key : i \in DOMAIN sigs} \ {Server}

\* Every key came under a single hint, as it does when the hints are the keys' own.
OneHintEach(sigs) ==
    \A i, j \in DOMAIN sigs : sigs[i].key = sigs[j].key => sigs[i].hint = sigs[j].hint

\* The weights of different keys reach the medium threshold.
ReachesThreshold(keys, signers) ==
    MapThenSumSet(LAMBDA k : signers.weight[k], keys) >= signers.medium

\* A JWT is issued only for signers of the account as it was last fetched, at least one
\* and no stranger among them; and if each of them signed under one hint, they reach
\* the medium threshold with every key counted once, however often its signature was sent
\* (auth.go:311-352). Without OneHintEach they need not: the code tells duplicates by
\* their hints, so a key whose signature comes under two counts twice.
QuorumOfSigners ==
    \A c \in Caller :
        call[c].pc = "issue" =>
          LET keys == ClientKeys(call[c].sigs)
          IN /\ keys # {}
             /\ keys \subseteq DOMAIN call[c].signers.weight
             /\ OneHintEach(call[c].sigs) => ReachesThreshold(keys, call[c].signers)


\* With its times cut to whole seconds a JWT never outlives its configured
\* lifetime, and falls short of it by less than a second (jwt.go:69, 125).
TokenLifetime ==
    \A i \in DOMAIN jwts :
        LET end == jwts[i].issuedAt + JWTExpiry
        IN /\ Verify(jwts[i]) => now < end
           /\ now + TicksPerSecond <= end => Verify(jwts[i])

\* How far a challenge has come.
Granted(n) == \E i \in DOMAIN jwts : jwts[i].nonce = n
Using(c) == call[c].pc \in {"check", "issue"}
Presented(n) == \E c \in Caller : Using(c) /\ call[c].nonce = n
Open(n) == n \in drawn /\ nonces[n].stored /\ ~nonces[n].consumed /\ ~Expired(n)

StageOf(n) ==
    CASE Granted(n) -> "granted"
      [] ~Granted(n) /\ Presented(n) -> "presented"
      [] ~Granted(n) /\ ~Presented(n) /\ Open(n) -> "open"
      [] ~Granted(n) /\ ~Presented(n) /\ ~Open(n) ->
             IF n \in drawn THEN "void" ELSE "unissued"

Challenges == INSTANCE OneTimeChallenge WITH stage <- [n \in Nonce |-> StageOf(n)]

\* AuthIssuer over the memory store implements one-time challenges: nothing
\* that was refused, expired or lost is ever accepted later.
ImplementsOneTime == Challenges!Spec
=============================================================================

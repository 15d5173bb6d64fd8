-------------------------- MODULE WalletLogin_proofs --------------------------
(***************************************************************************)
(* Proofs about StellarToml, TomlResolver and WalletLogin, for any number  *)
(* of goroutines, files, currencies, challenges, retries and late          *)
(* attempts, and any times.                                                *)
(***************************************************************************)
EXTENDS WalletLogin, SequenceTheorems, WellFoundedInduction, TLAPS

-----------------------------------------------------------------------------
(* The resolver. *)

\* An answer under way is of a file that was the published one when it was served,
\* and no more ticks have passed since than have been used up.
AnswersFresh ==
    \A c \in Caller :
        resolve[c].pc = "read" =>
          /\ resolve[c].info \in Info
          /\ gone[resolve[c].info] <= MaxFetch - resolve[c].left

ResolverInv ==
    /\ ResolverTypeOK
    /\ gone[published] = 0
    /\ AnswersFresh
    /\ StaleAtMost

LEMMA ResolverStarts == ResolverInit => ResolverInv
<1> SUFFICES ASSUME ResolverInit PROVE ResolverInv
  OBVIOUS
<1>1. MaxGone \in Nat
  BY ResolverAssumption DEF MaxGone
<1> QED
  BY <1>1, ResolverAssumption
  DEF ResolverInit, ResolverInv, ResolverTypeOK, AnswersFresh, StaleAtMost, Empty, NoCall

Call == [pc: {"idle", "ask", "fetch", "read", "done"},
         info: Info \cup {NoInfo}, left: 0..MaxFetch]

\* A call may move to any record that holds no older answer than it should.
LEMMA CallMoves ==
    ASSUME ResolverInv, NEW c \in Caller, NEW new \in Call,
           new.pc = "read" => new.info \in Info /\ gone[new.info] <= MaxFetch - new.left,
           resolve' = [resolve EXCEPT ![c] = new], UNCHANGED <<published, gone>>,
           cache' \in [info: Info \cup {NoInfo}, age: 0..CacheTTL], StaleAtMost'
    PROVE  ResolverInv'
<1>1. resolve \in [Caller -> Call]
  BY DEF ResolverInv, ResolverTypeOK, Call
<1>2. resolve' \in [Caller -> Call]
  BY <1>1
<1>3. ResolverTypeOK'
  BY <1>2 DEF ResolverInv, ResolverTypeOK, Call
<1>4. AnswersFresh'
  BY <1>1 DEF ResolverInv, AnswersFresh
<1> QED
  BY <1>3, <1>4 DEF ResolverInv

LEMMA CallKeeps ==
    ASSUME ResolverInv, NEW c \in Caller, Ask(c) \/ Resolves(c)
    PROVE  ResolverInv'
<1> USE ResolverAssumption
<1>1. /\ resolve[c] \in Call
      /\ cache \in [info: Info \cup {NoInfo}, age: 0..CacheTTL]
      /\ published \in Info /\ gone[published] = 0
      /\ NoCall \in Call /\ 0 \in 0..MaxFetch /\ MaxFetch \in 0..MaxFetch
  BY DEF ResolverInv, ResolverTypeOK, Call, NoCall
<1>2. UNCHANGED <<published, gone, cache>> => StaleAtMost'
  BY DEF ResolverInv, StaleAtMost
<1>3. CASE Ask(c)
  <2> DEFINE new == [NoCall EXCEPT !.pc = "ask"]
  <2>1. new \in Call /\ new.pc # "read"
    BY <1>1 DEF Call, NoCall
  <2>2. resolve' = [resolve EXCEPT ![c] = new] /\ UNCHANGED <<published, gone, cache>>
    BY <1>3 DEF Ask
  <2> HIDE DEF new
  <2> QED
    BY <1>1, <1>2, <2>1, <2>2, CallMoves
<1>4. ASSUME NEW info \in Info \cup {NoInfo}, Finish(c, info),
             UNCHANGED <<published, gone>>,
             cache' \in [info: Info \cup {NoInfo}, age: 0..CacheTTL], StaleAtMost'
      PROVE  ResolverInv'
  <2> DEFINE new == [NoCall EXCEPT !.pc = "done", !.info = info]
  <2>1. new \in Call /\ new.pc # "read"
    BY <1>1 DEF Call, NoCall
  <2>2. resolve' = [resolve EXCEPT ![c] = new]
    BY <1>4 DEF Finish
  <2> HIDE DEF new
  <2> QED
    BY <1>4, <2>1, <2>2, CallMoves
<1>5. CASE Hit(c)
  BY <1>1, <1>2, <1>4, <1>5 DEF Hit
<1>6. CASE Miss(c)
  <2> DEFINE new == [resolve[c] EXCEPT !.pc = "fetch", !.left = MaxFetch]
  <2>1. new \in Call /\ new.pc # "read"
    BY <1>1 DEF Call
  <2>2. resolve' = [resolve EXCEPT ![c] = new] /\ UNCHANGED <<published, gone, cache>>
    BY <1>6 DEF Miss, ResolverInv, ResolverTypeOK
  <2> HIDE DEF new
  <2> QED
    BY <1>1, <1>2, <2>1, <2>2, CallMoves
<1>7. CASE ServeFile(c)
  <2> DEFINE new == [resolve[c] EXCEPT !.pc = "read", !.info = published]
  <2>1. new \in Call /\ new.info = published /\ new.left \in 0..MaxFetch
    BY <1>1 DEF Call
  <2>2. new.info \in Info /\ gone[new.info] <= MaxFetch - new.left
    BY <1>1, <2>1
  <2>3. resolve' = [resolve EXCEPT ![c] = new] /\ UNCHANGED <<published, gone, cache>>
    BY <1>7 DEF ServeFile, ResolverInv, ResolverTypeOK
  <2> HIDE DEF new
  <2> QED
    BY <1>1, <1>2, <2>1, <2>2, <2>3, CallMoves
<1>8. CASE FetchFails(c)
  BY <1>1, <1>2, <1>4, <1>8 DEF FetchFails
<1>9. CASE Store(c)
  <2>1. /\ resolve[c].info \in Info
        /\ gone[resolve[c].info] <= MaxFetch - resolve[c].left
        /\ cache' = [info |-> resolve[c].info, age |-> 0]
        /\ Finish(c, resolve[c].info) /\ UNCHANGED <<published, gone>>
    BY <1>9 DEF Store, ResolverInv, AnswersFresh
  <2>2. gone[resolve[c].info] \in Nat /\ resolve[c].left \in 0..MaxFetch
    BY <1>1, <2>1 DEF ResolverInv, ResolverTypeOK, Call, MaxGone
  <2>3. gone'[cache'.info] <= cache'.age + MaxFetch
    BY <2>1, <2>2
  <2>4. StaleAtMost' /\ cache' \in [info: Info \cup {NoInfo}, age: 0..CacheTTL]
    BY <2>1, <2>3 DEF StaleAtMost
  <2> QED
    BY <1>4, <2>1, <2>4
<1> QED
  BY <1>3, <1>5, <1>6, <1>7, <1>8, <1>9 DEF Resolves

LEMMA PublishKeeps == ResolverInv /\ Publish => ResolverInv'
<1> SUFFICES ASSUME ResolverInv, Publish PROVE ResolverInv'
  OBVIOUS
<1>1. PICK i \in Info : published' = i /\ gone' = [gone EXCEPT ![i] = 0]
  BY DEF Publish
<1>2. MaxGone \in Nat
  BY ResolverAssumption DEF MaxGone
<1>3. /\ gone' \in [Info -> 0..MaxGone]
      /\ \A j \in Info : gone'[j] <= gone[j]
  BY <1>1, <1>2 DEF ResolverInv, ResolverTypeOK
<1>4. cache' = cache /\ resolve' = resolve
  BY DEF Publish
<1>5. ResolverTypeOK' /\ (gone[published] = 0)'
  BY <1>1, <1>3, <1>4 DEF ResolverInv, ResolverTypeOK
<1>6. AnswersFresh'
  BY <1>2, <1>3, <1>4, ResolverAssumption DEF ResolverInv, ResolverTypeOK, AnswersFresh
<1>7. StaleAtMost'
  BY <1>2, <1>3, <1>4, ResolverAssumption DEF ResolverInv, ResolverTypeOK, StaleAtMost
<1> QED
  BY <1>5, <1>6, <1>7 DEF ResolverInv

LEMMA TickKeeps == ResolverInv /\ Tick => ResolverInv'
<1> SUFFICES ASSUME ResolverInv, Tick PROVE ResolverInv'
  OBVIOUS
<1> USE ResolverAssumption DEF ResolverInv, ResolverTypeOK
<1>1. MaxGone \in Nat
  BY DEF MaxGone
<1>2. /\ gone' \in [Info -> 0..MaxGone]
      /\ \A i \in Info : gone'[i] <= gone[i] + 1
      /\ gone'[published] = 0
  BY <1>1 DEF Tick
<1>3. published' = published
  BY DEF Tick
<1>4. /\ cache' \in [info: Info \cup {NoInfo}, age: 0..CacheTTL]
      /\ cache'.info = cache.info
      /\ cache.age < CacheTTL => cache'.age = cache.age + 1
      /\ cache'.age < CacheTTL => cache.age < CacheTTL
  BY DEF Tick
<1>5. \A c \in Caller :
        /\ resolve[c].pc \in {"fetch", "read"} =>
             /\ resolve[c].left \in 1..MaxFetch
             /\ resolve'[c] = [resolve[c] EXCEPT !.left = @ - 1]
        /\ resolve[c].pc \notin {"fetch", "read"} => resolve'[c] = resolve[c]
  <2> TAKE c \in Caller
  <2>1. resolve[c].left \in 0..MaxFetch
    BY DEF Call
  <2>2. resolve[c].pc \in {"fetch", "read"} => resolve[c].left # 0
    BY DEF Tick, Urgent
  <2>3. resolve'[c] = IF resolve[c].pc \in {"fetch", "read"}
                      THEN [resolve[c] EXCEPT !.left = @ - 1] ELSE resolve[c]
    BY DEF Tick
  <2> QED
    BY <2>1, <2>2, <2>3
<1>6. resolve' \in [Caller -> Call]
  <2>1. resolve' = [c \in Caller |-> resolve'[c]]
    BY DEF Tick
  <2>2. ASSUME NEW c \in Caller PROVE resolve'[c] \in Call
    <3>1. resolve[c] \in Call
      BY DEF Call
    <3>2. resolve[c].left \in 1..MaxFetch => [resolve[c] EXCEPT !.left = @ - 1] \in Call
      BY <3>1 DEF Call
    <3> QED
      BY <1>5, <3>1, <3>2
  <2> QED
    BY <2>1, <2>2
<1>7. AnswersFresh'
  <2> SUFFICES ASSUME NEW c \in Caller, resolve'[c].pc = "read"
               PROVE  /\ resolve'[c].info \in Info
                      /\ gone'[resolve'[c].info] <= MaxFetch - resolve'[c].left
    BY DEF AnswersFresh
  <2>1. resolve[c].pc = "read"
    BY <1>5
  <2>2. resolve'[c].info = resolve[c].info /\ resolve'[c].left = resolve[c].left - 1
    BY <1>5, <2>1
  <2>3. resolve[c].info \in Info /\ gone[resolve[c].info] <= MaxFetch - resolve[c].left
    BY <2>1 DEF AnswersFresh
  <2>4. /\ gone[resolve[c].info] \in Nat /\ gone'[resolve[c].info] \in Nat
        /\ gone'[resolve[c].info] <= gone[resolve[c].info] + 1
        /\ resolve[c].left \in Nat
    BY <1>1, <1>2, <2>3
  <2> QED
    BY <2>2, <2>3, <2>4
<1>8. StaleAtMost'
  <2> SUFFICES ASSUME cache'.age < CacheTTL
               PROVE  cache'.info \in Info /\ gone'[cache'.info] <= cache'.age + MaxFetch
    BY DEF StaleAtMost
  <2>1. cache.info \in Info /\ gone[cache.info] <= cache.age + MaxFetch
    BY <1>4 DEF StaleAtMost
  <2>2. /\ gone[cache.info] \in Nat /\ gone'[cache.info] \in Nat
        /\ gone'[cache.info] <= gone[cache.info] + 1
        /\ cache.age \in Nat
    BY <1>1, <1>2, <2>1
  <2> QED
    BY <1>4, <2>1, <2>2
<1> QED
  BY <1>2, <1>3, <1>4, <1>6, <1>7, <1>8 DEF Call

LEMMA ResolverInvHolds == ResolverSpec => []ResolverInv
<1>1. ResolverInv /\ [ResolverNext]_resolverVars => ResolverInv'
  <2> SUFFICES ASSUME ResolverInv, [ResolverNext]_resolverVars PROVE ResolverInv'
    OBVIOUS
  <2>1. CASE UNCHANGED resolverVars
    BY <2>1 DEF resolverVars, ResolverInv, ResolverTypeOK, AnswersFresh, StaleAtMost
  <2> QED
    BY <2>1, CallKeeps, PublishKeeps, TickKeeps DEF ResolverNext
<1> QED
  BY <1>1, ResolverStarts, PTL DEF ResolverSpec

\* Whatever goroutines resolve and publish in whatever order, a file that a hit
\* returns was published within the entry's age and one fetch (resolver.go:42-86).
THEOREM ResolverStaleness == ResolverSpec => []StaleAtMost
BY ResolverInvHolds, PTL DEF ResolverInv

-----------------------------------------------------------------------------
(* Login uses the resolver as it is, and so inherits what holds of it. *)

\* A wallet's logins resolve only by Ask, Resolves, Publish and Tick, however their
\* requests fail and are repeated (sdk/auth.go:52-68).
THEOREM LoginUsesResolver == LoginSpec => ResolverSpec
<1>1. LoginInit => ResolverInit
  BY DEF LoginInit
<1>2. [LoginNext]_loginVars => [ResolverNext]_resolverVars
  <2> SUFFICES ASSUME [LoginNext]_loginVars PROVE [ResolverNext]_resolverVars
    OBVIOUS
  <2>1. CASE UNCHANGED loginVars
    BY <2>1 DEF loginVars
  <2>2. ASSUME NEW c \in Caller, Login(c) PROVE ResolverNext
    BY <2>2 DEF Login, ResolverNext
  <2>3. ASSUME NEW c \in Caller, Proceed(c) PROVE [ResolverNext]_resolverVars
    BY <2>3 DEF Proceed, Discovered, Send, AttemptFails, GiveUp, Sign, SignFails, ResolverNext
  <2>4. ASSUME NEW r \in requests, Handles(r) PROVE UNCHANGED resolverVars
    BY <2>4 DEF Handles, Challenge, ChallengeRefused, Accept, Refuse, Grant, GrantFails
  <2>5. ASSUME NEW n \in Nonce, Expire(n) PROVE UNCHANGED resolverVars
    BY <2>5 DEF Expire
  <2>6. CASE Publish \/ Tick
    BY <2>6 DEF ResolverNext
  <2> QED
    BY <2>1, <2>2, <2>3, <2>4, <2>5, <2>6 DEF LoginNext
<1> QED
  BY <1>1, <1>2, PTL DEF LoginSpec, ResolverSpec

\* The same bound on what a login discovers.
THEOREM LoginStaleness == LoginSpec => []StaleAtMost
BY LoginUsesResolver, ResolverStaleness, PTL

-----------------------------------------------------------------------------
(* Login and the anchor's challenges. *)

\* A request under way is what its login waits for; a late one has been forgotten.
RequestsOK ==
    /\ \A r \in requests :
         /\ r.kind = "get" => r.live /\ ~r.accepted
         /\ r.kind = "post" => r.nonce # NoNonce /\ stage[r.nonce] # "unissued"
         /\ r.live => login[r.from].pc = r.kind /\ login[r.from].nonce = r.nonce
    /\ \A r, q \in requests : r.live /\ q.live /\ r.from = q.from => r = q

LoginsOK ==
    \A c \in Caller :
      /\ login[c].nonce # NoNonce => stage[login[c].nonce] # "unissued"
      /\ login[c].pc # "idle" => login[c].outcome = "none"
      /\ login[c].pc \in {"resolve", "get"} => login[c].nonce = NoNonce
      /\ login[c].pc \in {"sign", "post"} => login[c].nonce # NoNonce
      /\ login[c].outcome = "session" =>
           login[c].nonce # NoNonce /\ stage[login[c].nonce] = "granted"
      /\ login[c].outcome = "rejected" =>
           login[c].nonce # NoNonce /\ (login[c].lost \/ stage[login[c].nonce] = "void")

OwnChallenges ==
    \A c, d \in Caller :
        c # d /\ login[c].nonce # NoNonce => login[d].nonce # login[c].nonce

\* Until an attempt of its own is lost, nobody but the login itself can spend its challenge.
UnspentOK ==
    \A c \in Caller :
      login[c].pc \in {"sign", "post"} /\ ~login[c].lost =>
        /\ \A r \in requests : r.nonce = login[c].nonce => r.live /\ r.from = c
        /\ \/ stage[login[c].nonce] \in {"open", "void"}
           \/ \E r \in requests : r.nonce = login[c].nonce /\ r.accepted

LoginTypes ==
    /\ stage \in [Nonce -> Anchor!Stages]
    /\ login \in [Caller -> LoginRecord]
    /\ requests \subseteq Request

LoginRules == RequestsOK /\ LoginsOK /\ OwnChallenges /\ UnspentOK

LoginInv == LoginTypes /\ LoginRules

LEMMA LoginStarts == LoginInit => LoginInv
<1> SUFFICES ASSUME LoginInit PROVE LoginInv
  OBVIOUS
<1>1. /\ stage = [n \in Nonce |-> "unissued"]
      /\ login = [c \in Caller |-> NoLogin] /\ requests = {}
  BY DEF LoginInit, Anchor!Init
<1>2. NoLogin \in LoginRecord
  BY LoginAssumption DEF NoLogin, LoginRecord, Outcomes
<1>3. LoginTypes
  BY <1>1, <1>2 DEF LoginTypes, Anchor!Stages
<1> QED
  BY <1>1, <1>3 DEF LoginInv, LoginRules, RequestsOK, LoginsOK, OwnChallenges, UnspentOK, NoLogin

\* What an action does to the login of one goroutine.
Becomes(c, new) ==
    /\ new \in LoginRecord
    /\ login' = [login EXCEPT ![c] = new]

LEMMA LoginTyped ==
    ASSUME LoginTypes, NEW c \in Caller, NEW new, Becomes(c, new)
    PROVE  /\ login' \in [Caller -> LoginRecord]
           /\ login'[c] = new /\ \A d \in Caller \ {c} : login'[d] = login[d]
BY DEF LoginTypes, Becomes

\* A login that begins, fails or tries again: no request of it is under way any more,
\* it keeps its challenge only to try again, and it leaves the others alone.
LEMMA LoginMovesOn ==
    ASSUME LoginInv, NEW c \in Caller, NEW new, Becomes(c, new), UNCHANGED stage,
           new.nonce \in {NoNonce, login[c].nonce},
           new.pc \in {"resolve", "get"} => new.nonce = NoNonce,
           new.pc \in {"sign", "post"} => new.nonce # NoNonce /\ new.lost,
           new.outcome \notin {"session", "rejected"},
           new.pc # "idle" => new.outcome = "none",
           \A r \in requests' : r.from = c => ~r.live,
           \A r \in requests : r.from # c => r \in requests',
           requests' \subseteq Request,
           \A q \in requests' : \/ q \in requests
                                \/ \E p \in requests :
                                     /\ p.from = c /\ q.from = c /\ p.nonce = q.nonce
                                     /\ p.kind = "post" /\ q.kind = "post" /\ ~q.live
    PROVE  LoginInv'
<1>1. /\ login' \in [Caller -> LoginRecord]
      /\ login'[c] = new /\ \A d \in Caller \ {c} : login'[d] = login[d]
  BY LoginTyped DEF LoginInv
<1> HIDE DEF Becomes
<1>2. LoginTypes'
  BY <1>1 DEF LoginInv, LoginTypes
<1>3. LoginsOK'
  BY <1>1 DEF LoginInv, LoginRules, LoginsOK
<1>4. OwnChallenges'
  BY <1>1 DEF LoginInv, LoginRules, OwnChallenges
<1>5. RequestsOK'
  <2>0. \A q \in requests : q.from \in Caller
    BY DEF LoginInv, LoginTypes, Request
  <2>1. ASSUME NEW r \in requests'
        PROVE  /\ r.kind = "get" => r.live /\ ~r.accepted
               /\ r.kind = "post" => r.nonce # NoNonce /\ stage'[r.nonce] # "unissued"
               /\ r.live => login'[r.from].pc = r.kind /\ login'[r.from].nonce = r.nonce
    <3>1. CASE r \in requests
      BY <1>1, <2>0, <3>1 DEF LoginInv, LoginRules, RequestsOK
    <3>2. CASE r \notin requests
      BY <3>2 DEF LoginInv, LoginRules, RequestsOK
    <3> QED
      BY <3>1, <3>2
  <2>2. \A r, q \in requests' : r.live /\ q.live /\ r.from = q.from => r = q
    BY DEF LoginInv, LoginRules, RequestsOK
  <2> QED
    BY <2>1, <2>2 DEF RequestsOK
<1>6. UnspentOK'
  <2> SUFFICES ASSUME NEW d \in Caller, login'[d].pc \in {"sign", "post"}, ~login'[d].lost
               PROVE  /\ \A r \in requests' : r.nonce = login'[d].nonce => r.live /\ r.from = d
                      /\ \/ stage'[login'[d].nonce] \in {"open", "void"}
                         \/ \E r \in requests' : r.nonce = login'[d].nonce /\ r.accepted
    BY DEF UnspentOK
  <2>1. d # c /\ login'[d] = login[d]
    BY <1>1
  <2>2. /\ \A r \in requests : r.nonce = login[d].nonce => r.live /\ r.from = d
        /\ \/ stage[login[d].nonce] \in {"open", "void"}
           \/ \E r \in requests : r.nonce = login[d].nonce /\ r.accepted
    BY <2>1 DEF LoginInv, LoginRules, UnspentOK
  <2> QED
    BY <2>1, <2>2
<1> QED
  BY <1>2, <1>3, <1>4, <1>5, <1>6 DEF LoginInv, LoginRules

LEMMA FailureIsRecord ==
    ASSUME NEW o \in Outcomes
    PROVE  /\ [NoLogin EXCEPT !.outcome = o] \in LoginRecord
           /\ [NoLogin EXCEPT !.outcome = o].pc = "idle"
           /\ [NoLogin EXCEPT !.outcome = o].nonce = NoNonce
           /\ [NoLogin EXCEPT !.outcome = o].outcome = o
<1>1. NoLogin \in LoginRecord /\ NoLogin.pc = "idle" /\ NoLogin.nonce = NoNonce
  BY LoginAssumption DEF NoLogin, LoginRecord, Outcomes
<1> QED
  BY <1>1 DEF LoginRecord

LEMMA FailKeeps ==
    ASSUME LoginInv, NEW c \in Caller, Fail(c, "failed") \/ Fail(c, "unsupported"),
           UNCHANGED stage, requests' \subseteq Request,
           \A r \in requests' : r.from = c => ~r.live,
           \A r \in requests : r.from # c => r \in requests',
           \A q \in requests' : \/ q \in requests
                                \/ \E p \in requests :
                                     /\ p.from = c /\ q.from = c /\ p.nonce = q.nonce
                                     /\ p.kind = "post" /\ q.kind = "post" /\ ~q.live
    PROVE  LoginInv'
<1>1. PICK o \in {"failed", "unsupported"} :
        login' = [login EXCEPT ![c] = [NoLogin EXCEPT !.outcome = o]]
  BY DEF Fail
<1> DEFINE new == [NoLogin EXCEPT !.outcome = o]
<1>2. o \in Outcomes
  BY DEF Outcomes
<1>3. /\ Becomes(c, new) /\ new.pc = "idle" /\ new.nonce = NoNonce
      /\ new.outcome \notin {"session", "rejected"}
  BY <1>1, <1>2, FailureIsRecord DEF Becomes
<1> HIDE DEF new
<1> QED
  BY <1>3, LoginMovesOn

LEMMA NoRequest ==
    ASSUME LoginInv, NEW c \in Caller, login[c].pc \notin {"get", "post"}
    PROVE  \A r \in requests : r.from = c => ~r.live
<1>1. \A r \in requests : r.kind \in {"get", "post"}
  BY DEF LoginInv, LoginTypes, Request
<1> QED
  BY <1>1 DEF LoginInv, LoginRules, RequestsOK

LEMMA LoginKeeps ==
    ASSUME LoginInv, NEW c \in Caller, Login(c)
    PROVE  LoginInv'
<1> DEFINE new == [NoLogin EXCEPT !.pc = "resolve"]
<1>1. NoLogin \in LoginRecord /\ NoLogin.nonce = NoNonce /\ NoLogin.outcome = "none"
  BY LoginAssumption DEF NoLogin, LoginRecord, Outcomes
<1>2. /\ new \in LoginRecord /\ new.pc = "resolve" /\ new.nonce = NoNonce
      /\ new.outcome = "none"
  BY <1>1 DEF LoginRecord
<1>3. login' = [login EXCEPT ![c] = new] /\ UNCHANGED <<stage, requests>>
  BY DEF Login
<1>4. \A r \in requests : r.from = c => ~r.live
  BY NoRequest DEF Login
<1> HIDE DEF new
<1>5. Becomes(c, new)
  BY <1>2, <1>3 DEF Becomes
<1>6. requests \subseteq Request
  BY DEF LoginInv, LoginTypes
<1> QED
  BY <1>2, <1>3, <1>4, <1>5, <1>6, LoginMovesOn

LEMMA DiscoveredKeeps ==
    ASSUME LoginInv, NEW c \in Caller, Discovered(c)
    PROVE  LoginInv'
<1>1. \A r \in requests : r.from = c => ~r.live
  BY NoRequest DEF Discovered
<1>2. requests \subseteq Request /\ UNCHANGED <<stage, requests>>
  BY DEF LoginInv, LoginTypes, Discovered
<1>3. CASE Fail(c, "unsupported")
  BY <1>1, <1>2, <1>3, FailKeeps
<1>4. CASE login' = [login EXCEPT ![c].pc = "get"]
  <2> DEFINE new == [login[c] EXCEPT !.pc = "get"]
  <2>1. login \in [Caller -> LoginRecord]
    BY DEF LoginInv, LoginTypes
  <2>2. login[c].nonce = NoNonce /\ login[c].outcome = "none"
    BY DEF LoginInv, LoginRules, LoginsOK, Discovered
  <2>3. /\ new \in LoginRecord /\ new.pc = "get" /\ new.nonce = NoNonce
        /\ new.outcome = "none"
    BY <2>1, <2>2 DEF LoginRecord
  <2>4. login' = [login EXCEPT ![c] = new]
    BY <1>4
  <2> HIDE DEF new
  <2>5. Becomes(c, new)
    BY <2>3, <2>4 DEF Becomes
  <2> QED
    BY <1>1, <1>2, <2>3, <2>5, LoginMovesOn
<1> QED
  BY <1>3, <1>4 DEF Discovered

LEMMA GiveUpKeeps ==
    ASSUME LoginInv, NEW c \in Caller, GiveUp(c) \/ SignFails(c)
    PROVE  LoginInv'
<1>1. \A r \in requests : r.from = c => ~r.live
  BY NoRequest DEF GiveUp, SignFails
<1>2. requests \subseteq Request /\ UNCHANGED <<stage, requests>>
  BY DEF LoginInv, LoginTypes, GiveUp, SignFails
<1> QED
  BY <1>1, <1>2, FailKeeps DEF GiveUp, SignFails

LEMMA AttemptFailsKeeps ==
    ASSUME LoginInv, NEW c \in Caller, AttemptFails(c)
    PROVE  LoginInv'
<1>1. PICK r \in requests :
        /\ r.from = c /\ r.live
        /\ \/ requests' = requests \ {r}
           \/ /\ r.kind = "post"
              /\ requests' = (requests \ {r}) \cup {[r EXCEPT !.live = FALSE]}
  BY DEF AttemptFails
<1> DEFINE late == [r EXCEPT !.live = FALSE]
<1>2. r \in Request /\ requests \subseteq Request
  BY DEF LoginInv, LoginTypes
<1>3. /\ late \in Request /\ late.from = c /\ late.kind = r.kind
      /\ late.nonce = r.nonce /\ ~late.live
  BY <1>1, <1>2 DEF Request
<1> HIDE DEF late
<1>4. /\ login[c].pc = r.kind /\ login[c].outcome = "none"
      /\ \A q \in requests : q.from = c /\ q.live => q = r
  <2>1. login[c].pc = r.kind
    BY <1>1 DEF LoginInv, LoginRules, RequestsOK
  <2>2. login[c].pc # "idle"
    BY <1>2, <2>1 DEF Request
  <2>3. \A q \in requests : q.from = c /\ q.live => q = r
    BY <1>1 DEF LoginInv, LoginRules, RequestsOK
  <2> QED
    BY <2>1, <2>2, <2>3 DEF LoginInv, LoginRules, LoginsOK
<1>5. /\ requests' \subseteq Request
      /\ \A q \in requests' : q.from = c => ~q.live
      /\ \A q \in requests : q.from # c => q \in requests'
      /\ \A q \in requests' : \/ q \in requests
                              \/ \E p \in requests :
                                   /\ p.from = c /\ q.from = c /\ p.nonce = q.nonce
                                   /\ p.kind = "post" /\ q.kind = "post" /\ ~q.live
  <2>1. CASE requests' = requests \ {r}
    BY <1>1, <1>2, <1>4, <2>1
  <2>2. CASE r.kind = "post" /\ requests' = (requests \ {r}) \cup {late}
    BY <1>1, <1>2, <1>3, <1>4, <2>2
  <2> QED
    BY <1>1, <2>1, <2>2 DEF late
<1>6. UNCHANGED stage
  BY DEF AttemptFails
<1>7. CASE Fail(c, "failed")
  BY <1>5, <1>6, <1>7, FailKeeps
<1>8. CASE /\ login[c].attempt < MaxRetries
           /\ login' = [login EXCEPT ![c].attempt = @ + 1,
                                     ![c].lost = @ \/ login[c].pc = "post"]
  <2> DEFINE new == [login[c] EXCEPT !.attempt = @ + 1,
                                     !.lost = @ \/ login[c].pc = "post"]
  <2>1. login \in [Caller -> LoginRecord]
    BY DEF LoginInv, LoginTypes
  <2>2. new \in LoginRecord
    <3>1. ASSUME NEW a \in 0..MaxRetries, NEW b \in BOOLEAN
          PROVE  [login[c] EXCEPT !.attempt = a, !.lost = b] \in LoginRecord
      BY <2>1 DEF LoginRecord
    <3>2. login[c].attempt \in 0..MaxRetries
      BY <2>1 DEF LoginRecord
    <3>3. login[c].attempt + 1 \in 0..MaxRetries
      BY <1>8, <3>2, LoginAssumption
    <3>4. (login[c].lost \/ login[c].pc = "post") \in BOOLEAN
      OBVIOUS
    <3> QED
      BY <3>1, <3>3, <3>4
  <2>3. /\ new.pc = login[c].pc /\ new.nonce = login[c].nonce
        /\ new.outcome = login[c].outcome
        /\ new.pc = "post" => new.lost
    BY <2>1 DEF LoginRecord
  <2>4. login' = [login EXCEPT ![c] = new]
    BY <1>8, <2>1
  <2>5. /\ login[c].pc \in {"resolve", "get"} => login[c].nonce = NoNonce
        /\ login[c].pc = "post" => login[c].nonce # NoNonce
        /\ login[c].pc \in {"get", "post"}
    BY <1>2, <1>4 DEF LoginInv, LoginRules, LoginsOK, Request
  <2> HIDE DEF new
  <2>6. Becomes(c, new)
    BY <2>2, <2>4 DEF Becomes
  <2> QED
    BY <1>4, <1>5, <1>6, <2>3, <2>5, <2>6, LoginMovesOn
<1> QED
  BY <1>7, <1>8 DEF AttemptFails, Failed

LEMMA SignKeeps ==
    ASSUME LoginInv, NEW c \in Caller, Sign(c)
    PROVE  LoginInv'
<1> DEFINE new == [login[c] EXCEPT !.pc = "post"]
<1>1. login \in [Caller -> LoginRecord] /\ login[c].pc = "sign"
  BY DEF LoginInv, LoginTypes, Sign
<1>2. /\ new \in LoginRecord /\ new.pc = "post" /\ new.nonce = login[c].nonce
      /\ new.outcome = login[c].outcome /\ (new.lost <=> login[c].lost)
  BY <1>1 DEF LoginRecord
<1>3. login' = [login EXCEPT ![c] = new] /\ UNCHANGED <<stage, requests>>
  BY <1>1 DEF Sign
<1> HIDE DEF new
<1>4. Becomes(c, new)
  BY <1>2, <1>3 DEF Becomes
<1>5. /\ login' \in [Caller -> LoginRecord]
      /\ login'[c] = new /\ \A d \in Caller \ {c} : login'[d] = login[d]
  BY <1>4, LoginTyped DEF LoginInv
<1>6. \A r \in requests : r.from = c => ~r.live
  BY <1>1, NoRequest
<1>7. LoginTypes'
  BY <1>3, <1>5 DEF LoginInv, LoginTypes
<1>8. LoginsOK' /\ OwnChallenges'
  BY <1>1, <1>2, <1>3, <1>5 DEF LoginInv, LoginRules, LoginsOK, OwnChallenges
<1>9. RequestsOK'
  <2>1. \A r \in requests : r.live => r.from \in Caller \ {c}
    BY <1>6 DEF LoginInv, LoginTypes, Request
  <2> QED
    BY <1>3, <1>5, <2>1 DEF LoginInv, LoginRules, RequestsOK
<1>10. UnspentOK'
  BY <1>1, <1>2, <1>3, <1>5 DEF LoginInv, LoginRules, UnspentOK
<1> QED
  BY <1>7, <1>8, <1>9, <1>10 DEF LoginInv, LoginRules

LEMMA SendKeeps ==
    ASSUME LoginInv, NEW c \in Caller, Send(c)
    PROVE  LoginInv'
<1> DEFINE q == [from |-> c, kind |-> login[c].pc, nonce |-> login[c].nonce,
                 accepted |-> FALSE, live |-> TRUE]
<1>1. login \in [Caller -> LoginRecord] /\ login[c].pc \in {"get", "post"}
  BY DEF LoginInv, LoginTypes, Send
<1>2. /\ q \in Request /\ q.from = c /\ q.kind = login[c].pc /\ q.nonce = login[c].nonce
      /\ ~q.accepted /\ q.live
  BY <1>1 DEF Request, LoginRecord
<1>3. /\ requests' = requests \cup {q} /\ UNCHANGED <<stage, login>>
      /\ \A r \in requests : r.from = c => ~r.live
  BY DEF Send
<1> HIDE DEF q
<1>4. LoginTypes'
  BY <1>2, <1>3 DEF LoginInv, LoginTypes
<1>5. LoginsOK' /\ OwnChallenges'
  BY <1>3 DEF LoginInv, LoginRules, LoginsOK, OwnChallenges
<1>6. RequestsOK'
  <2>1. /\ login[c].pc = "post" => login[c].nonce # NoNonce /\ stage[login[c].nonce] # "unissued"
        /\ "get" # "post"
    BY DEF LoginInv, LoginRules, LoginsOK
  <2> QED
    BY <1>1, <1>2, <1>3, <2>1 DEF LoginInv, LoginRules, RequestsOK
<1>7. UnspentOK'
  BY <1>1, <1>2, <1>3 DEF LoginInv, LoginRules, UnspentOK, LoginsOK, OwnChallenges
<1> QED
  BY <1>4, <1>5, <1>6, <1>7 DEF LoginInv, LoginRules

LEMMA ChallengeKeeps ==
    ASSUME LoginInv, NEW r \in requests, Challenge(r)
    PROVE  LoginInv'
<1> DEFINE c == r.from
<1>1. /\ r \in Request /\ c \in Caller /\ r.live /\ ~r.accepted
      /\ login \in [Caller -> LoginRecord] /\ login[c].pc = "get" /\ r.nonce = NoNonce
      /\ login[c].nonce = NoNonce
  BY DEF LoginInv, LoginTypes, LoginRules, RequestsOK, LoginsOK, Request, Challenge
<1>2. PICK n \in Nonce : /\ Anchor!Issue(n)
                         /\ login' = [login EXCEPT ![c].pc = "sign", ![c].nonce = n,
                                                   ![c].attempt = 0]
  BY DEF Challenge
<1> DEFINE new == [login[c] EXCEPT !.pc = "sign", !.nonce = n, !.attempt = 0]
<1>3. 0 \in 0..MaxRetries /\ n # NoNonce
  BY LoginAssumption
<1>4. /\ new \in LoginRecord /\ new.pc = "sign" /\ new.nonce = n
      /\ new.outcome = login[c].outcome
  BY <1>1, <1>3 DEF LoginRecord
<1>5. login' = [login EXCEPT ![c] = new] /\ requests' = requests \ {r}
  BY <1>1, <1>2 DEF Challenge
<1> HIDE DEF new
<1>6. Becomes(c, new)
  BY <1>4, <1>5 DEF Becomes
<1>7. /\ login' \in [Caller -> LoginRecord]
      /\ login'[c] = new /\ \A d \in Caller \ {c} : login'[d] = login[d]
  BY <1>1, <1>6, LoginTyped DEF LoginInv
<1> HIDE DEF c
<1>8. /\ stage[n] = "unissued" /\ stage'[n] = "open"
      /\ stage' \in [Nonce -> Anchor!Stages]
      /\ \A m \in Nonce \ {n} : stage'[m] = stage[m]
  BY <1>2 DEF LoginInv, LoginTypes, Anchor!Issue, Anchor!Stages
<1>9. /\ \A d \in Caller : login[d].nonce \in Nonce \cup {NoNonce} /\ login[d].nonce # n
      /\ \A q \in requests : q.nonce \in Nonce \cup {NoNonce} /\ q.nonce # n
      /\ \A q \in requests : q.kind = "post" => q.nonce \in Nonce \ {n}
      /\ \A q \in requests : q.from \in Caller /\ q.kind \in {"get", "post"}
  <2>1. \A d \in Caller : login[d].nonce \in Nonce \cup {NoNonce}
    BY <1>1 DEF LoginRecord
  <2>2. \A q \in requests : /\ q.nonce \in Nonce \cup {NoNonce} /\ q.from \in Caller
                            /\ q.kind \in {"get", "post"}
    BY DEF LoginInv, LoginTypes, Request
  <2>3. \A d \in Caller : login[d].nonce # n
    BY <1>3, <1>8 DEF LoginInv, LoginRules, LoginsOK
  <2>4. \A q \in requests : q.kind = "post" => q.nonce # n /\ q.nonce # NoNonce
    BY <1>8 DEF LoginInv, LoginRules, RequestsOK
  <2>5. \A q \in requests : q.kind = "get" => q.nonce # n
    BY <2>2, <2>3 DEF LoginInv, LoginRules, RequestsOK
  <2> QED
    BY <2>1, <2>2, <2>3, <2>4, <2>5
<1>10. LoginTypes'
  BY <1>5, <1>7, <1>8 DEF LoginInv, LoginTypes
<1>11. LoginsOK'
  <2> SUFFICES ASSUME NEW d \in Caller
               PROVE  /\ login'[d].nonce # NoNonce => stage'[login'[d].nonce] # "unissued"
                      /\ login'[d].pc # "idle" => login'[d].outcome = "none"
                      /\ login'[d].pc \in {"resolve", "get"} => login'[d].nonce = NoNonce
                      /\ login'[d].pc \in {"sign", "post"} => login'[d].nonce # NoNonce
                      /\ login'[d].outcome = "session" =>
                           login'[d].nonce # NoNonce /\ stage'[login'[d].nonce] = "granted"
                      /\ login'[d].outcome = "rejected" =>
                           /\ login'[d].nonce # NoNonce
                           /\ login'[d].lost \/ stage'[login'[d].nonce] = "void"
    BY DEF LoginsOK
  <2>1. CASE d = c
    BY <1>1, <1>3, <1>4, <1>7, <1>8, <2>1 DEF LoginInv, LoginRules, LoginsOK
  <2>2. CASE d # c
    BY <1>7, <1>8, <1>9, <2>2 DEF LoginInv, LoginRules, LoginsOK
  <2> QED
    BY <2>1, <2>2
<1>12. OwnChallenges'
  BY <1>4, <1>7, <1>9 DEF LoginInv, LoginRules, OwnChallenges
<1>13. RequestsOK'
  <2>1. \A q \in requests' : q \in requests /\ (q.live => q.from \in Caller \ {c})
    BY <1>1, <1>5, <1>9 DEF LoginInv, LoginRules, RequestsOK, c
  <2> QED
    BY <1>5, <1>7, <1>8, <1>9, <2>1 DEF LoginInv, LoginRules, RequestsOK
<1>14. UnspentOK'
  <2> SUFFICES ASSUME NEW d \in Caller, login'[d].pc \in {"sign", "post"}, ~login'[d].lost
               PROVE  /\ \A q \in requests' : q.nonce = login'[d].nonce => q.live /\ q.from = d
                      /\ \/ stage'[login'[d].nonce] \in {"open", "void"}
                         \/ \E q \in requests' : q.nonce = login'[d].nonce /\ q.accepted
    BY DEF UnspentOK
  <2>1. CASE d = c
    BY <1>4, <1>5, <1>7, <1>8, <1>9, <2>1
  <2>2. CASE d # c
    <3>1. login'[d] = login[d] /\ login[d].nonce \in Nonce \ {n}
      BY <1>7, <1>9, <2>2 DEF LoginInv, LoginRules, LoginsOK
    <3>2. /\ \A q \in requests : q.nonce = login[d].nonce => q.live /\ q.from = d
          /\ \/ stage[login[d].nonce] \in {"open", "void"}
             \/ \E q \in requests : q.nonce = login[d].nonce /\ q.accepted
      BY <3>1 DEF LoginInv, LoginRules, UnspentOK
    <3> QED
      BY <1>1, <1>5, <1>8, <3>1, <3>2
  <2> QED
    BY <2>1, <2>2
<1> QED
  BY <1>10, <1>11, <1>12, <1>13, <1>14 DEF LoginInv, LoginRules

LEMMA ChallengeRefusedKeeps ==
    ASSUME LoginInv, NEW r \in requests, ChallengeRefused(r)
    PROVE  LoginInv'
<1>1. /\ r.from \in Caller /\ requests \subseteq Request /\ r.live
      /\ requests' = requests \ {r} /\ UNCHANGED stage
  BY DEF LoginInv, LoginTypes, LoginRules, RequestsOK, Request, ChallengeRefused
<1>2. \A q \in requests' : q.from = r.from => ~q.live
  BY <1>1 DEF LoginInv, LoginRules, RequestsOK
<1> QED
  BY <1>1, <1>2, FailKeeps DEF ChallengeRefused

LEMMA AcceptKeeps ==
    ASSUME LoginInv, NEW r \in requests, Accept(r)
    PROVE  LoginInv'
<1> DEFINE q == [r EXCEPT !.accepted = TRUE]
<1>1. r \in Request /\ r.kind = "post" /\ r.nonce \in Nonce /\ ~r.accepted
  BY DEF LoginInv, LoginTypes, LoginRules, RequestsOK, Request, Accept
<1>2. /\ q \in Request /\ q.from = r.from /\ q.kind = "post" /\ q.nonce = r.nonce
      /\ q.accepted /\ (q.live <=> r.live)
  BY <1>1 DEF Request
<1>3. requests' = (requests \ {r}) \cup {q} /\ UNCHANGED login
  BY DEF Accept
<1> HIDE DEF q
<1>4. /\ stage[r.nonce] = "open" /\ stage'[r.nonce] = "presented"
      /\ stage' \in [Nonce -> Anchor!Stages]
      /\ \A n \in Nonce \ {r.nonce} : stage'[n] = stage[n]
  BY <1>1 DEF LoginInv, LoginTypes, Accept, Anchor!Present, Anchor!Stages
<1>5. /\ \A d \in Caller : login[d].nonce \in Nonce \cup {NoNonce}
      /\ \A p \in requests : p.nonce \in Nonce \cup {NoNonce}
  BY DEF LoginInv, LoginTypes, LoginRecord, Request
<1>6. LoginTypes'
  BY <1>2, <1>3, <1>4 DEF LoginInv, LoginTypes
<1>7. LoginsOK'
  BY <1>3, <1>4, <1>5 DEF LoginInv, LoginRules, LoginsOK
<1>8. OwnChallenges'
  BY <1>3 DEF LoginInv, LoginRules, OwnChallenges
<1>9. RequestsOK'
  <2>1. \A p \in requests' :
          /\ p.kind = "get" => p.live /\ ~p.accepted
          /\ p.kind = "post" => p.nonce # NoNonce /\ stage'[p.nonce] # "unissued"
          /\ p.live => login'[p.from].pc = p.kind /\ login'[p.from].nonce = p.nonce
    BY <1>1, <1>2, <1>3, <1>4, <1>5 DEF LoginInv, LoginRules, RequestsOK
  <2>2. \A o, p \in requests' : o.live /\ p.live /\ o.from = p.from => o = p
    BY <1>2, <1>3 DEF LoginInv, LoginRules, RequestsOK
  <2> QED
    BY <2>1, <2>2 DEF RequestsOK
<1>10. UnspentOK'
  <2> SUFFICES ASSUME NEW d \in Caller, login[d].pc \in {"sign", "post"}, ~login[d].lost
               PROVE  /\ \A p \in requests' : p.nonce = login[d].nonce => p.live /\ p.from = d
                      /\ \/ stage'[login[d].nonce] \in {"open", "void"}
                         \/ \E p \in requests' : p.nonce = login[d].nonce /\ p.accepted
    BY <1>3 DEF UnspentOK
  <2>1. /\ \A p \in requests : p.nonce = login[d].nonce => p.live /\ p.from = d
        /\ \/ stage[login[d].nonce] \in {"open", "void"}
           \/ \E p \in requests : p.nonce = login[d].nonce /\ p.accepted
    BY DEF LoginInv, LoginRules, UnspentOK
  <2>2. login[d].nonce \in Nonce
    BY <1>5 DEF LoginInv, LoginRules, LoginsOK
  <2>3. \A p \in requests' : p.nonce = login[d].nonce => p.live /\ p.from = d
    BY <1>2, <1>3, <2>1
  <2>4. CASE login[d].nonce = r.nonce
    BY <1>2, <1>3, <2>3, <2>4
  <2>5. CASE login[d].nonce # r.nonce
    BY <1>1, <1>3, <1>4, <2>1, <2>2, <2>3, <2>5
  <2> QED
    BY <2>4, <2>5
<1> QED
  BY <1>6, <1>7, <1>8, <1>9, <1>10 DEF LoginInv, LoginRules

\* A request that is done with: a challenge only comes to its end, and a session is told
\* only of a granted one, a refusal only of a void one or after a lost attempt.
LEMMA AnswerKeeps ==
    ASSUME LoginInv, NEW r \in requests, r.kind = "post",
           NEW o \in {"session", "rejected", "failed"}, Answer(r, o),
           stage' \in [Nonce -> Anchor!Stages], stage'[r.nonce] # "unissued",
           stage[r.nonce] \in {"granted", "void"} => stage'[r.nonce] = stage[r.nonce],
           \A n \in Nonce \ {r.nonce} : stage'[n] = stage[n],
           o = "session" => stage'[r.nonce] = "granted",
           o = "rejected" /\ r.live => login[r.from].lost \/ stage'[r.nonce] = "void"
    PROVE  LoginInv'
<1>1. /\ r \in Request /\ r.nonce \in Nonce /\ requests' = requests \ {r}
      /\ login \in [Caller -> LoginRecord] /\ r.from \in Caller
  BY DEF LoginInv, LoginTypes, LoginRules, RequestsOK, Request, Answer
<1>2. /\ \A d \in Caller : login[d].nonce \in Nonce \cup {NoNonce}
      /\ \A q \in requests : q.nonce \in Nonce \cup {NoNonce} /\ q.from \in Caller
  BY DEF LoginInv, LoginTypes, LoginRecord, Request
<1>3. /\ login' \in [Caller -> LoginRecord]
      /\ \A d \in Caller : ~(r.live /\ d = r.from) => login'[d] = login[d]
      /\ r.live => /\ login'[r.from].pc = "idle" /\ login'[r.from].outcome = o
                   /\ login'[r.from].nonce = r.nonce
                   /\ login'[r.from].lost <=> login[r.from].lost
  <2>1. CASE r.live
    <3> DEFINE new == [login[r.from] EXCEPT !.pc = "idle", !.attempt = 0, !.outcome = o]
    <3>1. login' = [login EXCEPT ![r.from] = new]
      BY <1>1, <2>1 DEF Answer, Return
    <3>2. 0 \in 0..MaxRetries /\ o \in Outcomes
      BY LoginAssumption DEF Outcomes
    <3>3. /\ new \in LoginRecord /\ new.pc = "idle" /\ new.outcome = o
          /\ new.nonce = login[r.from].nonce /\ (new.lost <=> login[r.from].lost)
      BY <1>1, <3>2 DEF LoginRecord
    <3>4. login[r.from].nonce = r.nonce
      BY <2>1 DEF LoginInv, LoginRules, RequestsOK
    <3> HIDE DEF new
    <3>5. /\ login' \in [Caller -> LoginRecord]
          /\ login'[r.from] = new /\ \A d \in Caller \ {r.from} : login'[d] = login[d]
      BY <1>1, <3>1, <3>3
    <3> QED
      BY <2>1, <3>3, <3>4, <3>5
  <2>2. CASE ~r.live
    BY <1>1, <2>2 DEF Answer
  <2> QED
    BY <2>1, <2>2
<1>4. LoginTypes'
  BY <1>1, <1>3 DEF LoginInv, LoginTypes
<1>5. ASSUME NEW d \in Caller, ~(r.live /\ d = r.from)
      PROVE  /\ login'[d] = login[d]
             /\ login[d].nonce # NoNonce => stage'[login[d].nonce] # "unissued"
             /\ login[d].outcome = "session" => stage'[login[d].nonce] = "granted"
             /\ login[d].outcome = "rejected" /\ ~login[d].lost =>
                  stage'[login[d].nonce] = "void"
  <2>1. login'[d] = login[d]
    BY <1>3, <1>5
  <2>2. CASE login[d].nonce = r.nonce
    BY <2>1, <2>2 DEF LoginInv, LoginRules, LoginsOK
  <2>3. CASE login[d].nonce # r.nonce
    <3>1. login[d].nonce # NoNonce => stage'[login[d].nonce] = stage[login[d].nonce]
      BY <1>2, <2>3
    <3> QED
      BY <2>1, <3>1 DEF LoginInv, LoginRules, LoginsOK
  <2> QED
    BY <2>2, <2>3
<1>6. LoginsOK'
  <2> SUFFICES ASSUME NEW d \in Caller
               PROVE  /\ login'[d].nonce # NoNonce => stage'[login'[d].nonce] # "unissued"
                      /\ login'[d].pc # "idle" => login'[d].outcome = "none"
                      /\ login'[d].pc \in {"resolve", "get"} => login'[d].nonce = NoNonce
                      /\ login'[d].pc \in {"sign", "post"} => login'[d].nonce # NoNonce
                      /\ login'[d].outcome = "session" =>
                           login'[d].nonce # NoNonce /\ stage'[login'[d].nonce] = "granted"
                      /\ login'[d].outcome = "rejected" =>
                           /\ login'[d].nonce # NoNonce
                           /\ login'[d].lost \/ stage'[login'[d].nonce] = "void"
    BY DEF LoginsOK
  <2>1. CASE r.live /\ d = r.from
    <3>1. r.nonce # NoNonce
      BY <1>1, LoginAssumption
    <3> QED
      BY <1>3, <2>1, <3>1
  <2>2. CASE ~(r.live /\ d = r.from)
    BY <1>5, <2>2 DEF LoginInv, LoginRules, LoginsOK
  <2> QED
    BY <2>1, <2>2
<1>7. \A d \in Caller : login'[d].nonce = login[d].nonce
  BY <1>3 DEF LoginInv, LoginRules, RequestsOK
<1>8. OwnChallenges'
  BY <1>7 DEF LoginInv, LoginRules, OwnChallenges
<1>9. RequestsOK'
  <2>1. \A q \in requests' : q \in requests /\ (q.live => ~(r.live /\ q.from = r.from))
    BY <1>1 DEF LoginInv, LoginRules, RequestsOK
  <2>2. \A q \in requests' : q.kind = "post" => stage'[q.nonce] # "unissued"
    BY <1>2, <2>1 DEF LoginInv, LoginRules, RequestsOK
  <2> QED
    BY <1>2, <1>3, <2>1, <2>2 DEF LoginInv, LoginRules, RequestsOK
<1>10. UnspentOK'
  <2> SUFFICES ASSUME NEW d \in Caller, login'[d].pc \in {"sign", "post"}, ~login'[d].lost
               PROVE  /\ \A p \in requests' : p.nonce = login'[d].nonce => p.live /\ p.from = d
                      /\ \/ stage'[login'[d].nonce] \in {"open", "void"}
                         \/ \E p \in requests' : p.nonce = login'[d].nonce /\ p.accepted
    BY DEF UnspentOK
  <2>1. ~(r.live /\ d = r.from) /\ login'[d] = login[d]
    BY <1>3
  <2>2. /\ \A p \in requests : p.nonce = login[d].nonce => p.live /\ p.from = d
        /\ \/ stage[login[d].nonce] \in {"open", "void"}
           \/ \E p \in requests : p.nonce = login[d].nonce /\ p.accepted
    BY <2>1 DEF LoginInv, LoginRules, UnspentOK
  <2>3. login[d].nonce \in Nonce \ {r.nonce}
    BY <1>2, <2>1, <2>2 DEF LoginInv, LoginRules, LoginsOK
  <2> QED
    BY <1>1, <2>1, <2>2, <2>3
<1> QED
  BY <1>4, <1>6, <1>8, <1>9, <1>10 DEF LoginInv, LoginRules

LEMMA RefuseKeeps ==
    ASSUME LoginInv, NEW r \in requests, Refuse(r)
    PROVE  LoginInv'
<1>1. /\ r.kind = "post" /\ ~r.accepted /\ stage[r.nonce] # "open"
      /\ Answer(r, "rejected") /\ UNCHANGED stage
  BY DEF Refuse
<1>2. r.from \in Caller /\ stage[r.nonce] # "unissued" /\ stage \in [Nonce -> Anchor!Stages]
  BY <1>1 DEF LoginInv, LoginTypes, LoginRules, RequestsOK, Request
<1>3. ASSUME r.live, ~login[r.from].lost PROVE stage[r.nonce] = "void"
  <2>1. login[r.from].pc = "post" /\ login[r.from].nonce = r.nonce
    BY <1>1, <1>3 DEF LoginInv, LoginRules, RequestsOK
  <2>2. /\ \A q \in requests : q.nonce = r.nonce => q.live /\ q.from = r.from
        /\ \/ stage[r.nonce] \in {"open", "void"}
           \/ \E q \in requests : q.nonce = r.nonce /\ q.accepted
    BY <1>2, <1>3, <2>1 DEF LoginInv, LoginRules, UnspentOK
  <2>3. \A q \in requests : q.nonce = r.nonce => q = r
    BY <1>3, <2>2 DEF LoginInv, LoginRules, RequestsOK
  <2> QED
    BY <1>1, <2>2, <2>3
<1> QED
  BY <1>1, <1>2, <1>3, AnswerKeeps

LEMMA GrantKeeps ==
    ASSUME LoginInv, NEW r \in requests, Grant(r) \/ GrantFails(r)
    PROVE  LoginInv'
<1>1. r.accepted /\ r.kind = "post" /\ r.nonce \in Nonce /\ stage \in [Nonce -> Anchor!Stages]
  BY DEF LoginInv, LoginTypes, LoginRules, RequestsOK, Request, Grant, GrantFails
<1>2. CASE Grant(r)
  <2>1. /\ stage[r.nonce] = "presented" /\ stage'[r.nonce] = "granted"
        /\ stage' \in [Nonce -> Anchor!Stages]
        /\ \A n \in Nonce \ {r.nonce} : stage'[n] = stage[n]
    BY <1>1, <1>2 DEF Grant, Anchor!Grant, Anchor!Stages
  <2>2. PICK outcome \in {"session", "failed"} : Answer(r, outcome)
    BY <1>2 DEF Grant
  <2> QED
    BY <1>1, <2>1, <2>2, AnswerKeeps
<1>3. CASE GrantFails(r)
  <2>1. /\ stage[r.nonce] \in {"open", "presented"} /\ stage'[r.nonce] = "void"
        /\ stage' \in [Nonce -> Anchor!Stages]
        /\ \A n \in Nonce \ {r.nonce} : stage'[n] = stage[n]
    BY <1>1, <1>3 DEF GrantFails, Anchor!Void, Anchor!Stages
  <2>2. Answer(r, "rejected")
    BY <1>3 DEF GrantFails
  <2> QED
    BY <1>1, <2>1, <2>2, AnswerKeeps
<1> QED
  BY <1>2, <1>3

LEMMA ExpireKeeps ==
    ASSUME LoginInv, NEW n \in Nonce, Expire(n)
    PROVE  LoginInv'
<1>1. /\ stage[n] = "open" /\ stage'[n] = "void" /\ UNCHANGED <<login, requests>>
      /\ stage' \in [Nonce -> Anchor!Stages]
      /\ \A m \in Nonce \ {n} : stage'[m] = stage[m]
  BY DEF LoginInv, LoginTypes, Expire, Anchor!Void, Anchor!Stages
<1>2. /\ \A d \in Caller : login[d].nonce \in Nonce \cup {NoNonce}
      /\ \A q \in requests : q.nonce \in Nonce \cup {NoNonce}
  BY DEF LoginInv, LoginTypes, LoginRecord, Request
<1>3. LoginTypes'
  BY <1>1 DEF LoginInv, LoginTypes
<1>4. LoginsOK' /\ OwnChallenges'
  BY <1>1, <1>2 DEF LoginInv, LoginRules, LoginsOK, OwnChallenges
<1>5. RequestsOK'
  BY <1>1, <1>2 DEF LoginInv, LoginRules, RequestsOK
<1>6. UnspentOK'
  BY <1>1, <1>2 DEF LoginInv, LoginRules, UnspentOK, LoginsOK
<1> QED
  BY <1>3, <1>4, <1>5, <1>6 DEF LoginInv, LoginRules

LEMMA LoginInvHolds == LoginSpec => []LoginInv
<1>1. LoginInv /\ [LoginNext]_loginVars => LoginInv'
  <2> SUFFICES ASSUME LoginInv, [LoginNext]_loginVars PROVE LoginInv'
    OBVIOUS
  <2>1. ASSUME UNCHANGED <<stage, login, requests>> PROVE LoginInv'
    BY <2>1 DEF LoginInv, LoginTypes, LoginRules, RequestsOK, LoginsOK, OwnChallenges, UnspentOK
  <2>2. ASSUME NEW c \in Caller, Login(c) \/ Proceed(c) PROVE LoginInv'
    BY <2>1, <2>2, LoginKeeps, DiscoveredKeeps, SendKeeps, AttemptFailsKeeps, GiveUpKeeps,
       SignKeeps DEF Proceed
  <2>3. ASSUME NEW r \in requests, Handles(r) PROVE LoginInv'
    BY <2>3, ChallengeKeeps, ChallengeRefusedKeeps, AcceptKeeps, RefuseKeeps, GrantKeeps
    DEF Handles
  <2> QED
    BY <2>1, <2>2, <2>3, ExpireKeeps DEF LoginNext, loginVars
<1> QED
  BY <1>1, LoginStarts, PTL DEF LoginSpec

\* The state keeps its types (the attempts stay within the retries).
THEOREM LoginTypeHolds == LoginSpec => []LoginTypeOK
<1>1. ResolverInv /\ LoginInv => LoginTypeOK
  BY DEF ResolverInv, LoginInv, LoginTypes, LoginTypeOK
<1> QED
  BY <1>1, LoginInvHolds, LoginUsesResolver, ResolverInvHolds, PTL

\* No wallet gets a session but for a granted challenge of its own, whatever attempts of
\* it and of others are lost, repeated or late, and one that had no attempt lost is never
\* refused for a good challenge (sdk/auth.go:51-174, client.go:150-196).
THEOREM OutcomesHold == LoginSpec => []OutcomesAreEarned
<1>1. LoginInv => OutcomesAreEarned
  BY DEF LoginInv, LoginRules, LoginsOK, OwnChallenges, OutcomesAreEarned
<1> QED
  BY <1>1, LoginInvHolds, PTL

\* With any number of wallets, retries and late attempts the anchor's challenges still
\* go through their stages once (anchor/auth.go as WebAuth models it).
THEOREM LoginKeepsChallenges == LoginSpec => Anchor!Spec
<1>1. LoginInit => Anchor!Init
  BY DEF LoginInit
<1>2. LoginInv /\ [LoginNext]_loginVars => [Anchor!Next]_stage
  <2> SUFFICES ASSUME LoginInv, [LoginNext]_loginVars PROVE [Anchor!Next]_stage
    OBVIOUS
  <2>1. ASSUME NEW c \in Caller, Login(c) \/ Proceed(c) PROVE UNCHANGED stage
    BY <2>1 DEF Login, Proceed, Discovered, Send, AttemptFails, GiveUp, Sign, SignFails
  <2>2. ASSUME NEW r \in requests, Handles(r) PROVE [Anchor!Next]_stage
    <3>1. r.kind = "post" => r.nonce \in Nonce
      BY DEF LoginInv, LoginTypes, LoginRules, RequestsOK, Request
    <3>2. r.accepted => r.kind = "post"
      BY DEF LoginInv, LoginTypes, LoginRules, RequestsOK, Request
    <3>3. CASE ChallengeRefused(r) \/ Refuse(r)
      BY <3>3 DEF ChallengeRefused, Refuse
    <3>4. CASE Challenge(r) \/ Accept(r) \/ Grant(r)
      BY <3>1, <3>2, <3>4 DEF Challenge, Accept, Grant, Anchor!Next
    <3>5. CASE GrantFails(r)
      BY <3>1, <3>2, <3>5 DEF GrantFails, Anchor!Next
    <3> QED
      BY <2>2, <3>3, <3>4, <3>5 DEF Handles
  <2>3. ASSUME NEW n \in Nonce, Expire(n) PROVE Anchor!Next
    BY <2>3 DEF Expire, Anchor!Next
  <2> QED
    BY <2>1, <2>2, <2>3 DEF LoginNext, loginVars
<1> QED
  BY <1>1, <1>2, LoginInvHolds, PTL DEF LoginSpec, Anchor!Spec

-----------------------------------------------------------------------------
(* The files: recursion and induction over the lines and currencies of one. *)

\* Mathematical induction, for a set.
LEMMA Induction ==
    ASSUME NEW S, 0 \in S, \A n \in Nat : n \in S => n + 1 \in S
    PROVE  Nat \subseteq S
<1> DEFINE T == Nat \ S
<1> SUFFICES ASSUME T # {}  PROVE FALSE
  OBVIOUS
<1>1. IsWellFoundedOn(OpToRel(<, Nat), Nat)
  BY NatLessThanWellFounded
<1>2. T \subseteq Nat
  OBVIOUS
<1>3. \E n \in T : \A m \in T : ~(<<m, n>> \in OpToRel(<, Nat))
  <2> HIDE DEF T
  <2> QED
    BY <1>1, <1>2, WFMin
<1>4. PICK n \in T : \A m \in T : ~(<<m, n>> \in OpToRel(<, Nat))
  BY <1>3
<1>5. \A m \in T : ~(m < n)
  BY <1>2, <1>4 DEF OpToRel
<1>6. n \in Nat /\ n \notin S
  OBVIOUS
<1>7. n # 0 /\ n - 1 \in Nat /\ n - 1 \notin T
  <2> HIDE DEF T
  <2> QED
    BY <1>5, <1>6
<1> QED
  BY <1>6, <1>7

\* The first steps of a recursion over 1..N that starts at base.
Follows(g, k, base, step) ==
    g[0] = base /\ \A n \in 1..k : g[n] = step[<<n, g[n - 1]>>]

LEMMA Recursion ==
    ASSUME NEW N \in Nat, NEW S, NEW base \in S, NEW step \in [(1..N) \X S -> S]
    PROVE  \E g \in [0..N -> S] : Follows(g, N, base, step)
<1> DEFINE Good == {k \in Nat : k <= N => \E g \in [0..N -> S] : Follows(g, k, base, step)}
<1>1. 0 \in Good
  <2> DEFINE g == [n \in 0..N |-> base]
  <2>1. g \in [0..N -> S] /\ Follows(g, 0, base, step)
    BY DEF Follows
  <2> QED
    BY <2>1
<1>2. ASSUME NEW k \in Nat, k \in Good  PROVE k + 1 \in Good
  <2> SUFFICES ASSUME k + 1 <= N
               PROVE  \E g \in [0..N -> S] : Follows(g, k + 1, base, step)
    OBVIOUS
  <2>1. PICK g \in [0..N -> S] : Follows(g, k, base, step)
    BY <1>2
  <2> DEFINE next == step[<<k + 1, g[k]>>]
             h == [g EXCEPT ![k + 1] = next]
  <2>2. next \in S
    <3>1. <<k + 1, g[k]>> \in (1..N) \X S
      OBVIOUS
    <3> QED
      BY <3>1
  <2>3. h \in [0..N -> S]
    BY <2>2
  <2>4. h[k + 1] = next /\ \A n \in 0..k : h[n] = g[n]
    <3> HIDE DEF next
    <3> QED
      OBVIOUS
  <2>5. Follows(h, k + 1, base, step)
    <3> HIDE DEF h
    <3>1. h[0] = base
      BY <2>1, <2>4 DEF Follows
    <3>2. ASSUME NEW n \in 1..(k + 1)  PROVE h[n] = step[<<n, h[n - 1]>>]
      <4>1. CASE n = k + 1
        BY <2>4, <4>1
      <4>2. CASE n \in 1..k
        <5>1. h[n] = g[n] /\ h[n - 1] = g[n - 1]
          BY <2>4, <4>2
        <5> QED
          BY <2>1, <4>2, <5>1 DEF Follows
      <4> QED
        BY <4>1, <4>2
    <3> QED
      BY <3>1, <3>2 DEF Follows
  <2> QED
    <3> HIDE DEF h
    <3> QED
      BY <2>3, <2>5
<1>3. N \in Good
  <2> HIDE DEF Good
  <2> QED
    BY <1>1, <1>2, Induction
<1> QED
  BY <1>3

\* A function whose every value is in S if the one before is.
LEMMA StaysIn ==
    ASSUME NEW N \in Nat, NEW S, NEW f, f[0] \in S,
           \A n \in 1..N : f[n - 1] \in S => f[n] \in S
    PROVE  \A n \in 0..N : f[n] \in S
<1> DEFINE Good == {n \in Nat : n <= N => f[n] \in S}
<1>1. 0 \in Good
  OBVIOUS
<1>2. ASSUME NEW n \in Nat, n \in Good  PROVE n + 1 \in Good
  <2> SUFFICES ASSUME n + 1 <= N  PROVE f[n + 1] \in S
    OBVIOUS
  <2>1. f[n] \in S /\ n + 1 \in 1..N /\ (n + 1) - 1 = n
    BY <1>2
  <2> QED
    BY <2>1
<1>3. Nat \subseteq Good
  <2> HIDE DEF Good
  <2> QED
    BY <1>1, <1>2, Induction
<1> QED
  BY <1>3

-----------------------------------------------------------------------------
(* What is written, kept and read, one currency and one line at a time. *)

\* The provers know no element of STRING by name.
Text == STRING \cup {""}

Currency == [code: Text, issuer: Text, desc: Text]

Keys == {"SIGNING_KEY", "WEB_AUTH_ENDPOINT", "code", "issuer", "desc"}

Line == {Header} \cup [kind: {"pair"}, key: Keys, value: Text]

\* w[n] are the lines of the first n currencies.
Writing(w, cs) ==
    /\ w \in [0..Len(cs) -> Seq(Line)]
    /\ w[0] = <<>>
    /\ \A n \in 1..Len(cs) : w[n] = w[n - 1] \o RenderCurrency(cs[n])

\* A currency is kept if it has a code.
KeepCurrency(kept, c) ==
    IF c.code = "" THEN kept ELSE Append(kept, [c EXCEPT !.desc = ""])

\* k[n] is what is to be kept of the first n currencies.
Keeping(k, cs) ==
    /\ k \in [0..Len(cs) -> Seq(Currency)]
    /\ k[0] = <<>>
    /\ \A n \in 1..Len(cs) : k[n] = KeepCurrency(k[n - 1], cs[n])

\* The states of parse.
Infos == [signingKey: Text, webAuthEndpoint: Text, currencies: Seq(Currency)]

State == [info: Infos, inCurrencies: BOOLEAN, current: Currency, full: BOOLEAN]

\* r[n] is the state after n lines.
Reading(r, lines) ==
    /\ r \in [0..Len(lines) -> State]
    /\ r[0] = Start
    /\ \A n \in 1..Len(lines) : r[n] = ParseLine(r[n - 1], lines[n])

LEMMA OptionalLines ==
    ASSUME NEW key \in Keys, NEW value \in Text
    PROVE  Optional(key, value) \in Seq(Line)
<1>1. Pair(key, value) \in Line
  BY DEF Pair, Line
<1>2. <<Pair(key, value)>> \in Seq(Line) /\ <<>> \in Seq(Line)
  BY <1>1
<1> QED
  BY <1>2 DEF Optional

LEMMA CurrencyLines ==
    ASSUME NEW c \in Currency
    PROVE  RenderCurrency(c) \in Seq(Line)
<1>1. c.code \in Text /\ c.issuer \in Text /\ c.desc \in Text
  BY DEF Currency
<1>2. Optional("issuer", c.issuer) \in Seq(Line) /\ Optional("desc", c.desc) \in Seq(Line)
  <2>1. "issuer" \in Keys /\ "desc" \in Keys
    BY DEF Keys
  <2> QED
    BY <1>1, <2>1, OptionalLines
<1>3. Header \in Line /\ Pair("code", c.code) \in Line
  <2>1. Header \in Line
    BY DEF Line
  <2>2. Pair("code", c.code) \in [kind: {"pair"}, key: Keys, value: Text]
    BY <1>1 DEF Pair, Keys
  <2> QED
    BY <2>1, <2>2 DEF Line
<1>4. <<Header>> \in Seq(Line) /\ <<Pair("code", c.code)>> \in Seq(Line)
  BY <1>3
<1> QED
  BY <1>2, <1>4, ConcatProperties DEF RenderCurrency

LEMMA Written ==
    ASSUME NEW cs \in Seq(Currency)
    PROVE  \E w : Writing(w, cs) /\ RenderCurrencies(cs) = w[Len(cs)]
<1> DEFINE N == Len(cs)
           Grows(f) == f = [n \in 0..N |-> IF n = 0 THEN <<>>
                                           ELSE f[n - 1] \o RenderCurrency(cs[n])]
           step == [p \in (1..N) \X Seq(Line) |-> p[2] \o RenderCurrency(cs[p[1]])]
           w == CHOOSE f : Grows(f)
<1>1. N \in Nat
  BY LenProperties
<1>2. \A n \in 1..N : RenderCurrency(cs[n]) \in Seq(Line)
  BY CurrencyLines, ElementOfSeq
<1>3. step \in [(1..N) \X Seq(Line) -> Seq(Line)]
  BY <1>2, ConcatProperties
<1>4. PICK g \in [0..N -> Seq(Line)] : Follows(g, N, <<>>, step)
  <2> <<>> \in Seq(Line)
    OBVIOUS
  <2> HIDE DEF step, N
  <2> QED
    BY <1>1, <1>3, Recursion
<1>5. Grows(g)
  <2>1. \A n \in 1..N : g[n] = g[n - 1] \o RenderCurrency(cs[n])
    <3> SUFFICES ASSUME NEW n \in 1..N  PROVE g[n] = g[n - 1] \o RenderCurrency(cs[n])
      OBVIOUS
    <3>0. n - 1 \in 0..N
      BY <1>1
    <3>1. <<n, g[n - 1]>> \in (1..N) \X Seq(Line)
      BY <3>0
    <3>2. step[<<n, g[n - 1]>>] = g[n - 1] \o RenderCurrency(cs[n])
      BY <3>1
    <3> HIDE DEF step
    <3> QED
      BY <1>4, <3>2 DEF Follows
  <2>2. g[0] = <<>>
    BY <1>4 DEF Follows
  <2>3. \A n \in 0..N : g[n] = IF n = 0 THEN <<>> ELSE g[n - 1] \o RenderCurrency(cs[n])
    <3> SUFFICES ASSUME NEW n \in 0..N, n # 0  PROVE n \in 1..N
      BY <2>1, <2>2
    <3> QED
      BY <1>1
  <2>4. g = [n \in 0..N |-> g[n]]
    OBVIOUS
  <2> HIDE DEF step, N
  <2> QED
    BY <2>3, <2>4
<1>6. Grows(w)
  <2> HIDE DEF Grows
  <2> QED
    BY <1>5
<1>7. RenderCurrencies(cs) = w[N]
  BY DEF RenderCurrencies
<1> HIDE DEF w, step, N
<1>8. /\ w = [n \in 0..N |-> w[n]]
      /\ w[0] = <<>>
      /\ \A n \in 1..N : w[n] = w[n - 1] \o RenderCurrency(cs[n])
  <2>1. w = [n \in 0..N |-> IF n = 0 THEN <<>> ELSE w[n - 1] \o RenderCurrency(cs[n])]
    BY <1>6
  <2>2. \A n \in 0..N : w[n] = IF n = 0 THEN <<>> ELSE w[n - 1] \o RenderCurrency(cs[n])
    BY ONLY <2>1
  <2>3. 0 \in 0..N /\ 1..N \subseteq 0..N
    BY ONLY <1>1
  <2>4. w = [n \in 0..N |-> w[n]]
    BY ONLY <2>1
  <2>5. w[0] = <<>>
    BY ONLY <2>2, <2>3
  <2>6. ASSUME NEW n \in 1..N  PROVE w[n] = w[n - 1] \o RenderCurrency(cs[n])
    <3>1. n \in 0..N /\ n # 0
      BY ONLY <1>1, n \in 1..N
    <3> QED
      BY ONLY <2>2, <3>1
  <2> QED
    BY ONLY <2>4, <2>5, <2>6
<1>9. \A n \in 0..N : w[n] \in Seq(Line)
  <2>1. \A n \in 1..N : w[n - 1] \in Seq(Line) => w[n] \in Seq(Line)
    BY <1>2, <1>8, ConcatProperties
  <2>2. w[0] \in Seq(Line)
    <3>1. w[0] = <<>>
      BY <1>8
    <3> QED
      BY ONLY <3>1
  <2> QED
    BY ONLY <1>1, <2>1, <2>2, StaysIn
<1> QED
  BY <1>7, <1>8, <1>9 DEF Writing, N

LEMMA KeepsCurrencies ==
    ASSUME NEW kept \in Seq(Currency), NEW c \in Currency
    PROVE  KeepCurrency(kept, c) \in Seq(Currency)
<1>1. [c EXCEPT !.desc = ""] \in Currency
  BY DEF Currency, Text
<1> QED
  BY <1>1, AppendProperties DEF KeepCurrency

LEMMA KeptOnes ==
    ASSUME NEW cs \in Seq(Currency)
    PROVE  \E w : Keeping(w, cs) /\ KeptCurrencies(cs) = w[Len(cs)]
<1> DEFINE N == Len(cs)
           Grows(f) == f = [n \in 0..N |-> IF n = 0 THEN <<>>
                                           ELSE KeepCurrency(f[n - 1], cs[n])]
           step == [p \in (1..N) \X Seq(Currency) |-> KeepCurrency(p[2], cs[p[1]])]
           w == CHOOSE f : Grows(f)
<1>1. N \in Nat
  BY LenProperties
<1>2. \A n \in 1..N, kept \in Seq(Currency) : KeepCurrency(kept, cs[n]) \in Seq(Currency)
  BY KeepsCurrencies, ElementOfSeq
<1>3. step \in [(1..N) \X Seq(Currency) -> Seq(Currency)]
  BY <1>2
<1>4. PICK g \in [0..N -> Seq(Currency)] : Follows(g, N, <<>>, step)
  <2> <<>> \in Seq(Currency)
    OBVIOUS
  <2> HIDE DEF step, N
  <2> QED
    BY <1>1, <1>3, Recursion
<1>5. Grows(g)
  <2>1. \A n \in 1..N : g[n] = KeepCurrency(g[n - 1], cs[n])
    <3> SUFFICES ASSUME NEW n \in 1..N  PROVE g[n] = KeepCurrency(g[n - 1], cs[n])
      OBVIOUS
    <3>0. n - 1 \in 0..N
      BY <1>1
    <3>1. <<n, g[n - 1]>> \in (1..N) \X Seq(Currency)
      BY <3>0
    <3>2. step[<<n, g[n - 1]>>] = KeepCurrency(g[n - 1], cs[n])
      BY <3>1
    <3> HIDE DEF step
    <3> QED
      BY <1>4, <3>2 DEF Follows
  <2>2. g[0] = <<>>
    BY <1>4 DEF Follows
  <2>3. \A n \in 0..N : g[n] = IF n = 0 THEN <<>> ELSE KeepCurrency(g[n - 1], cs[n])
    <3> SUFFICES ASSUME NEW n \in 0..N, n # 0  PROVE n \in 1..N
      BY <2>1, <2>2
    <3> QED
      BY <1>1
  <2>4. g = [n \in 0..N |-> g[n]]
    OBVIOUS
  <2> HIDE DEF step, N
  <2> QED
    BY <2>3, <2>4
<1>6. Grows(w)
  <2> HIDE DEF Grows
  <2> QED
    BY <1>5
<1>7. KeptCurrencies(cs) = w[N]
  BY DEF KeptCurrencies, KeepCurrency
<1> HIDE DEF w, step, N
<1>8. /\ w = [n \in 0..N |-> w[n]]
      /\ w[0] = <<>>
      /\ \A n \in 1..N : w[n] = KeepCurrency(w[n - 1], cs[n])
  <2>1. w = [n \in 0..N |-> IF n = 0 THEN <<>> ELSE KeepCurrency(w[n - 1], cs[n])]
    BY <1>6
  <2>2. \A n \in 0..N : w[n] = IF n = 0 THEN <<>> ELSE KeepCurrency(w[n - 1], cs[n])
    BY ONLY <2>1
  <2>3. 0 \in 0..N /\ 1..N \subseteq 0..N
    BY ONLY <1>1
  <2>4. w = [n \in 0..N |-> w[n]]
    BY ONLY <2>1
  <2>5. w[0] = <<>>
    BY ONLY <2>2, <2>3
  <2>6. ASSUME NEW n \in 1..N  PROVE w[n] = KeepCurrency(w[n - 1], cs[n])
    <3>1. n \in 0..N /\ n # 0
      BY ONLY <1>1, n \in 1..N
    <3> QED
      BY ONLY <2>2, <3>1
  <2> QED
    BY ONLY <2>4, <2>5, <2>6
<1>9. \A n \in 0..N : w[n] \in Seq(Currency)
  <2>1. \A n \in 1..N : w[n - 1] \in Seq(Currency) => w[n] \in Seq(Currency)
    BY <1>2, <1>8
  <2>2. w[0] \in Seq(Currency)
    <3>1. w[0] = <<>>
      BY <1>8
    <3> QED
      BY ONLY <3>1
  <2> QED
    BY ONLY <1>1, <2>1, <2>2, StaysIn
<1> QED
  BY <1>7, <1>8, <1>9 DEF Keeping, N

LEMMA StartsThere == Start \in State
<1>1. <<>> \in Seq(Currency) /\ "" \in Text
  BY DEF Text
<1> QED
  BY <1>1 DEF Start, State, Infos, EmptyInfo, NoCurrency, Currency

LEMMA ClosedThere ==
    ASSUME NEW s \in State
    PROVE  Closed(s) \in State
BY DEF Closed, State, Infos

LEMMA LineParsed ==
    ASSUME NEW s \in State, NEW line \in Line
    PROVE  ParseLine(s, line) \in State
<1>1. Closed(s) \in State
  BY ClosedThere
<1>2. NoCurrency \in Currency
  BY DEF NoCurrency, Currency, Text
<1>3. CASE s.full
  BY <1>3 DEF ParseLine
<1>4. CASE ~s.full /\ line = Header
  <2>0. Header # Table
    BY DEF Header, Table
  <2>1. ParseLine(s, line) = ParseHeader(s)
    BY <1>4, <2>0 DEF ParseLine
  <2>2. ParseHeader(s) \in State
    <3> DEFINE t == Closed(s)
    <3>1. [t EXCEPT !.full = TRUE] \in State
      BY <1>1 DEF State, Infos
    <3>2. [t EXCEPT !.inCurrencies = TRUE, !.current = NoCurrency] \in State
      BY <1>1, <1>2 DEF State, Infos
    <3> HIDE DEF t
    <3>3. \/ ParseHeader(s) = [t EXCEPT !.full = TRUE]
          \/ ParseHeader(s) = [t EXCEPT !.inCurrencies = TRUE, !.current = NoCurrency]
      BY DEF ParseHeader, t
    <3> QED
      BY <3>1, <3>2, <3>3
  <2> QED
    BY <2>1, <2>2
<1>5. CASE ~s.full /\ line \in [kind: {"pair"}, key: Keys, value: Text]
  <2>1. line # Header /\ line # Table
    BY <1>5 DEF Header, Table
  <2>2. ParseLine(s, line) = ParsePair(s, line)
    BY <1>5, <2>1 DEF ParseLine
  <2>3. ParsePair(s, line) \in State
    <3>1. line.value \in Text
      BY <1>5
    <3>2. [s EXCEPT !.current.code = line.value] \in State
      BY <3>1 DEF State, Infos, Currency
    <3>3. [s EXCEPT !.current.issuer = line.value] \in State
      BY <3>1 DEF State, Infos, Currency
    <3>4. [s EXCEPT !.info.signingKey = line.value] \in State
      BY <3>1 DEF State, Infos
    <3>5. [s EXCEPT !.info.webAuthEndpoint = line.value] \in State
      BY <3>1 DEF State, Infos
    <3> QED
      BY <3>2, <3>3, <3>4, <3>5 DEF ParsePair
  <2> QED
    BY <2>2, <2>3
<1> QED
  BY <1>3, <1>4, <1>5 DEF Line

LEMMA ReadLines ==
    ASSUME NEW lines \in Seq(Line)
    PROVE  \E r : Reading(r, lines) /\ Parse(lines) = Closed(r[Len(lines)]).info
<1> DEFINE N == Len(lines)
           Grows(f) == f = [n \in 0..N |-> IF n = 0 THEN Start
                                           ELSE ParseLine(f[n - 1], lines[n])]
           step == [p \in (1..N) \X State |-> ParseLine(p[2], lines[p[1]])]
           r == CHOOSE f : Grows(f)
<1>1. N \in Nat
  BY LenProperties
<1>2. \A n \in 1..N, s \in State : ParseLine(s, lines[n]) \in State
  BY LineParsed, ElementOfSeq
<1>3. step \in [(1..N) \X State -> State]
  BY <1>2
<1>4. PICK g \in [0..N -> State] : Follows(g, N, Start, step)
  <2> Start \in State
    BY StartsThere
  <2> HIDE DEF step, N
  <2> QED
    BY <1>1, <1>3, Recursion
<1>5. Grows(g)
  <2>1. \A n \in 1..N : g[n] = ParseLine(g[n - 1], lines[n])
    <3> SUFFICES ASSUME NEW n \in 1..N  PROVE g[n] = ParseLine(g[n - 1], lines[n])
      OBVIOUS
    <3>0. n - 1 \in 0..N
      BY <1>1
    <3>1. <<n, g[n - 1]>> \in (1..N) \X State
      BY <3>0
    <3>2. step[<<n, g[n - 1]>>] = ParseLine(g[n - 1], lines[n])
      BY <3>1
    <3> HIDE DEF step
    <3> QED
      BY <1>4, <3>2 DEF Follows
  <2>2. g[0] = Start
    BY <1>4 DEF Follows
  <2>3. \A n \in 0..N : g[n] = IF n = 0 THEN Start ELSE ParseLine(g[n - 1], lines[n])
    <3> SUFFICES ASSUME NEW n \in 0..N, n # 0  PROVE n \in 1..N
      BY <2>1, <2>2
    <3> QED
      BY <1>1
  <2>4. g = [n \in 0..N |-> g[n]]
    OBVIOUS
  <2> HIDE DEF step, N
  <2> QED
    BY <2>3, <2>4
<1>6. Grows(r)
  <2> HIDE DEF Grows
  <2> QED
    BY <1>5
<1>7. Parse(lines) = Closed(r[N]).info
  BY DEF Parse
<1> HIDE DEF r, step, N
<1>8. /\ r = [n \in 0..N |-> r[n]]
      /\ r[0] = Start
      /\ \A n \in 1..N : r[n] = ParseLine(r[n - 1], lines[n])
  <2>1. r = [n \in 0..N |-> IF n = 0 THEN Start ELSE ParseLine(r[n - 1], lines[n])]
    BY <1>6
  <2>2. \A n \in 0..N : r[n] = IF n = 0 THEN Start ELSE ParseLine(r[n - 1], lines[n])
    BY ONLY <2>1
  <2>3. 0 \in 0..N /\ 1..N \subseteq 0..N
    BY ONLY <1>1
  <2>4. r = [n \in 0..N |-> r[n]]
    BY ONLY <2>1
  <2>5. r[0] = Start
    BY ONLY <2>2, <2>3
  <2>6. ASSUME NEW n \in 1..N  PROVE r[n] = ParseLine(r[n - 1], lines[n])
    <3>1. n \in 0..N /\ n # 0
      BY ONLY <1>1, n \in 1..N
    <3> QED
      BY ONLY <2>2, <3>1
  <2> QED
    BY ONLY <2>4, <2>5, <2>6
<1>9. \A n \in 0..N : r[n] \in State
  <2>1. \A n \in 1..N : r[n - 1] \in State => r[n] \in State
    BY <1>2, <1>8
  <2>2. r[0] \in State
    <3>1. r[0] = Start
      BY <1>8
    <3> QED
      BY ONLY <3>1, StartsThere
  <2> QED
    BY ONLY <1>1, <2>1, <2>2, StaysIn
<1> QED
  BY <1>7, <1>8, <1>9 DEF Reading, N

-----------------------------------------------------------------------------
(* Blocks of lines. *)

\* The lines after the first p are those of the block.
HasAt(lines, p, block) ==
    /\ p + Len(block) <= Len(lines)
    /\ \A i \in 1..Len(block) : lines[p + i] = block[i]

LEMMA HasBoth ==
    ASSUME NEW lines \in Seq(Line), NEW p \in Nat,
           NEW a \in Seq(Line), NEW b \in Seq(Line), HasAt(lines, p, a \o b)
    PROVE  HasAt(lines, p, a) /\ HasAt(lines, p + Len(a), b)
<1>1. /\ Len(a) \in Nat /\ Len(b) \in Nat /\ Len(lines) \in Nat
      /\ Len(a \o b) = Len(a) + Len(b)
  BY LenProperties, ConcatProperties
<1>2. \A i \in 1..Len(a) : (a \o b)[i] = a[i]
  BY <1>1, ConcatProperties
<1>3. \A i \in 1..Len(b) : (a \o b)[Len(a) + i] = b[i]
  BY <1>1, ConcatProperties
<1>4. HasAt(lines, p, a)
  BY <1>1, <1>2 DEF HasAt
<1>5. ASSUME NEW i \in 1..Len(b)  PROVE lines[(p + Len(a)) + i] = b[i]
  <2>1. Len(a) + i \in 1..Len(a \o b) /\ (p + Len(a)) + i = p + (Len(a) + i)
    BY <1>1
  <2> QED
    BY <1>3, <2>1 DEF HasAt
<1>6. HasAt(lines, p + Len(a), b)
  BY <1>1, <1>5 DEF HasAt
<1> QED
  BY <1>4, <1>6

LEMMA StillHas ==
    ASSUME NEW lines \in Seq(Line), NEW more \in Seq(Line), NEW p \in Nat,
           NEW block \in Seq(Line), HasAt(lines, p, block)
    PROVE  HasAt(lines \o more, p, block)
<1>1. /\ Len(lines) \in Nat /\ Len(more) \in Nat /\ Len(block) \in Nat
      /\ Len(lines \o more) = Len(lines) + Len(more)
  BY LenProperties, ConcatProperties
<1>2. \A i \in 1..Len(lines) : (lines \o more)[i] = lines[i]
  BY <1>1, ConcatProperties
<1>3. ASSUME NEW i \in 1..Len(block)  PROVE (lines \o more)[p + i] = block[i]
  <2>1. p + i \in 1..Len(lines)
    BY <1>1 DEF HasAt
  <2> QED
    BY <1>2, <2>1 DEF HasAt
<1> QED
  BY <1>1, <1>3 DEF HasAt

LEMMA HasLast ==
    ASSUME NEW lines \in Seq(Line), NEW p \in Nat,
           NEW block \in Seq(Line), NEW before \in Seq(Line), HasAt(lines, p, block)
    PROVE  HasAt(before \o lines, Len(before) + p, block)
<1>1. /\ Len(lines) \in Nat /\ Len(before) \in Nat /\ Len(block) \in Nat
      /\ Len(before \o lines) = Len(before) + Len(lines)
  BY LenProperties, ConcatProperties
<1>2. \A i \in 1..Len(lines) : (before \o lines)[Len(before) + i] = lines[i]
  BY <1>1, ConcatProperties
<1>3. ASSUME NEW i \in 1..Len(block)
      PROVE  (before \o lines)[(Len(before) + p) + i] = block[i]
  <2>1. p + i \in 1..Len(lines) /\ (Len(before) + p) + i = Len(before) + (p + i)
    BY <1>1 DEF HasAt
  <2> QED
    BY <1>2, <2>1 DEF HasAt
<1> QED
  BY <1>1, <1>3 DEF HasAt

LEMMA HasItself ==
    ASSUME NEW lines \in Seq(Line)
    PROVE  HasAt(lines, 0, lines)
BY LenProperties DEF HasAt

\* The lines of the n-th currency stand after those of the ones before it.
LEMMA CurrencyStands ==
    ASSUME NEW cs \in Seq(Currency), NEW w, Writing(w, cs), NEW n \in 1..Len(cs)
    PROVE  HasAt(w[Len(cs)], Len(w[n - 1]), RenderCurrency(cs[n]))
<1> DEFINE N == Len(cs)
           block == RenderCurrency(cs[n])
           p == Len(w[n - 1])
           Good == {m \in Nat : n <= m /\ m <= N => HasAt(w[m], p, block)}
<1>1. N \in Nat /\ n \in Nat /\ n - 1 \in 0..N
  BY LenProperties
<1>2. \A m \in 0..N : w[m] \in Seq(Line)
  BY DEF Writing
<1>3. \A m \in 1..N : RenderCurrency(cs[m]) \in Seq(Line)
  BY CurrencyLines, ElementOfSeq
<1>4. block \in Seq(Line) /\ p \in Nat
  BY <1>1, <1>2, <1>3, LenProperties
<1>5. 0 \in Good
  BY <1>1
<1>6. ASSUME NEW m \in Nat, m \in Good  PROVE m + 1 \in Good
  <2> SUFFICES ASSUME n <= m + 1, m + 1 <= N  PROVE HasAt(w[m + 1], p, block)
    OBVIOUS
  <2>1. m \in 0..N /\ m + 1 \in 1..N /\ (m + 1) - 1 = m
    BY <1>1
  <2>2. w[m + 1] = w[m] \o RenderCurrency(cs[m + 1])
    BY <2>1 DEF Writing
  <2>3. CASE n = m + 1
    <3>1. HasAt(block, 0, block)
      BY <1>4, HasItself
    <3>2. HasAt(w[m] \o block, Len(w[m]) + 0, block)
      BY <1>2, <1>4, <2>1, <3>1, HasLast
    <3>3. p = Len(w[m]) + 0
      BY <1>4, <2>1, <2>3
    <3> QED
      BY <2>2, <2>3, <3>2, <3>3
  <2>4. CASE n <= m
    <3>1. HasAt(w[m], p, block)
      BY <1>6, <2>1, <2>4
    <3> HIDE DEF p, block
    <3> QED
      BY <1>2, <1>3, <1>4, <2>1, <2>2, <3>1, StillHas
  <2> QED
    BY <1>1, <2>3, <2>4
<1>7. N \in Good
  <2> HIDE DEF Good, N
  <2> QED
    BY <1>1, <1>5, <1>6, Induction
<1> QED
  BY <1>1, <1>7

-----------------------------------------------------------------------------
(* What parse makes of a block. *)

\* The state in which the lines of a block leave parse.
Yields(r, p, block, s) == r[p + Len(block)] = s

LEMMA OneRead ==
    ASSUME NEW lines \in Seq(Line), NEW r, Reading(r, lines), NEW p \in Nat,
           NEW line, HasAt(lines, p, <<line>>)
    PROVE  Yields(r, p, <<line>>, ParseLine(r[p], line))
<1>1. Len(<<line>>) = 1 /\ <<line>>[1] = line /\ Len(lines) \in Nat
  BY LenProperties
<1>2. p + 1 \in 1..Len(lines) /\ (p + 1) - 1 = p /\ lines[p + 1] = line
  BY <1>1 DEF HasAt
<1>3. r[p + 1] = ParseLine(r[p], line)
  BY <1>2 DEF Reading
<1> QED
  BY <1>1, <1>3 DEF Yields

LEMMA OptionalRead ==
    ASSUME NEW lines \in Seq(Line), NEW r, Reading(r, lines), NEW p \in Nat,
           NEW key \in Keys, NEW value \in Text, HasAt(lines, p, Optional(key, value))
    PROVE  Yields(r, p, Optional(key, value),
                  IF value = "" THEN r[p] ELSE ParseLine(r[p], Pair(key, value)))
<1>1. CASE value = ""
  <2>1. p + Len(Optional(key, value)) = p
    <3>1. Optional(key, value) = <<>> /\ Len(<<>>) = 0
      BY <1>1 DEF Optional
    <3> QED
      BY <3>1
  <2> QED
    BY ONLY <1>1, <2>1 DEF Yields
<1>2. CASE value # ""
  <2>1. Optional(key, value) = <<Pair(key, value)>>
    BY <1>2 DEF Optional
  <2>2. Yields(r, p, <<Pair(key, value)>>, ParseLine(r[p], Pair(key, value)))
    BY <2>1, OneRead
  <2> QED
    BY <1>2, <2>1, <2>2
<1> QED
  BY <1>1, <1>2

\* In the table of a currency.
Within(info, code, issuer) ==
    [info |-> info, inCurrencies |-> TRUE,
     current |-> [code |-> code, issuer |-> issuer, desc |-> ""], full |-> FALSE]

LEMMA PairIsRead ==
    ASSUME NEW s, ~s.full, NEW key, NEW value
    PROVE  ParseLine(s, Pair(key, value)) = ParsePair(s, Pair(key, value))
<1>1. Pair(key, value) # Header /\ Pair(key, value) # Table
  BY DEF Pair, Header, Table
<1> QED
  BY <1>1 DEF ParseLine

LEMMA SameState ==
    ASSUME NEW s \in State, NEW t \in State,
           s.info = t.info, s.inCurrencies = t.inCurrencies,
           s.current.code = t.current.code, s.current.issuer = t.current.issuer,
           s.current.desc = t.current.desc, s.full = t.full
    PROVE  s = t
<1>1. s.current = t.current
  BY DEF State, Currency
<1> QED
  BY <1>1 DEF State

\* Field by field.
IsWithin(s, info, code, issuer) ==
    /\ s \in State
    /\ s.info = info /\ s.inCurrencies = TRUE /\ s.full = FALSE
    /\ s.current.code = code /\ s.current.issuer = issuer /\ s.current.desc = ""

LEMMA WithinIs ==
    ASSUME NEW info \in Infos, NEW code \in Text, NEW issuer \in Text
    PROVE  IsWithin(Within(info, code, issuer), info, code, issuer)
BY DEF IsWithin, Within, State, Currency, Text

LEMMA IsThatWithin ==
    ASSUME NEW info \in Infos, NEW code \in Text, NEW issuer \in Text,
           NEW s, IsWithin(s, info, code, issuer)
    PROVE  s = Within(info, code, issuer)
<1> DEFINE t == Within(info, code, issuer)
<1>1. IsWithin(t, info, code, issuer)
  BY WithinIs
<1> HIDE DEF t
<1>2. s = t
  BY <1>1, SameState DEF IsWithin
<1> QED
  BY <1>2 DEF t

LEMMA CurrencyPairRead ==
    ASSUME NEW info \in Infos, NEW code \in Text, NEW issuer \in Text, NEW value \in Text
    PROVE  /\ ParseLine(Within(info, code, issuer), Pair("code", value))
                = Within(info, value, issuer)
           /\ ParseLine(Within(info, code, issuer), Pair("issuer", value))
                = Within(info, code, value)
           /\ ParseLine(Within(info, code, issuer), Pair("desc", value))
                = Within(info, code, issuer)
<1> DEFINE s == Within(info, code, issuer)
<1>0. IsWithin(s, info, code, issuer)
  BY WithinIs
<1>1. ~s.full /\ s.inCurrencies
  <2> HIDE DEF s
  <2> QED
    BY <1>0 DEF IsWithin
<1>2. ParseLine(s, Pair("code", value)) = Within(info, value, issuer)
  <2>1. ParsePair(s, Pair("code", value)) = [s EXCEPT !.current.code = value]
    <3> HIDE DEF s
    <3> QED
      BY <1>1 DEF ParsePair, Pair
  <2>2. [s EXCEPT !.current.code = value] = Within(info, value, issuer)
    <3> DEFINE t == [s EXCEPT !.current.code = value]
    <3> HIDE DEF s
    <3>1. IsWithin(t, info, value, issuer)
      BY <1>0 DEF IsWithin, State, Currency
    <3> HIDE DEF t
    <3>2. t = Within(info, value, issuer)
      BY <3>1, IsThatWithin
    <3> QED
      BY <3>2 DEF t
  <2> HIDE DEF s
  <2> QED
    BY <1>1, <2>1, <2>2, PairIsRead
<1>3. ParseLine(s, Pair("issuer", value)) = Within(info, code, value)
  <2>1. ParsePair(s, Pair("issuer", value)) = [s EXCEPT !.current.issuer = value]
    <3> HIDE DEF s
    <3> QED
      BY <1>1 DEF ParsePair, Pair
  <2>2. [s EXCEPT !.current.issuer = value] = Within(info, code, value)
    <3> DEFINE t == [s EXCEPT !.current.issuer = value]
    <3> HIDE DEF s
    <3>1. IsWithin(t, info, code, value)
      BY <1>0 DEF IsWithin, State, Currency
    <3> HIDE DEF t
    <3>2. t = Within(info, code, value)
      BY <3>1, IsThatWithin
    <3> QED
      BY <3>2 DEF t
  <2> HIDE DEF s
  <2> QED
    BY <1>1, <2>1, <2>2, PairIsRead
<1>4. ParseLine(s, Pair("desc", value)) = s
  <2> HIDE DEF s
  <2>1. ParsePair(s, Pair("desc", value)) = s
    BY <1>1 DEF ParsePair, Pair
  <2> QED
    BY <1>1, <2>1, PairIsRead
<1> QED
  BY <1>2, <1>3, <1>4

LEMMA HeaderRead ==
    ASSUME NEW s \in State, ~s.full, Len(Closed(s).info.currencies) < MaxCurrencies
    PROVE  ParseLine(s, Header) = Within(Closed(s).info, "", "")
<1>1. Header # Table
  BY DEF Header, Table
<1>2. ParseLine(s, Header) = ParseHeader(s)
  BY <1>1 DEF ParseLine
<1>3. Closed(s) \in State /\ ~Closed(s).full
  <2>1. Closed(s).full = s.full
    BY DEF Closed, State, Infos
  <2> QED
    BY <2>1, ClosedThere
<1>4. Len(Closed(s).info.currencies) \in Nat
  BY <1>3, LenProperties DEF State, Infos
<1>5. ~(Len(Closed(s).info.currencies) >= MaxCurrencies)
  BY <1>4, TomlAssumption
<1>6. ParseHeader(s) = [Closed(s) EXCEPT !.inCurrencies = TRUE, !.current = NoCurrency]
  BY <1>5 DEF ParseHeader
<1>7. ASSUME NEW t \in State, ~t.full
      PROVE  [t EXCEPT !.inCurrencies = TRUE, !.current = NoCurrency] = Within(t.info, "", "")
  <2> DEFINE u == [t EXCEPT !.inCurrencies = TRUE, !.current = NoCurrency]
  <2>1. /\ NoCurrency \in Currency /\ "" \in Text /\ t.info \in Infos
        /\ NoCurrency.code = "" /\ NoCurrency.issuer = "" /\ NoCurrency.desc = ""
    BY DEF NoCurrency, Currency, Text, State
  <2>2. IsWithin(u, t.info, "", "")
    <3>1. /\ u \in State
          /\ u.info = t.info /\ u.inCurrencies = TRUE /\ u.full = FALSE
          /\ u.current = NoCurrency
      BY <1>7, <2>1 DEF State
    <3> HIDE DEF u
    <3> QED
      BY <2>1, <3>1 DEF IsWithin
  <2> HIDE DEF u
  <2>3. u = Within(t.info, "", "")
    BY <2>1, <2>2, IsThatWithin
  <2> QED
    BY <2>3 DEF u
<1> QED
  BY <1>2, <1>3, <1>6, <1>7

\* Reading the lines of a currency closes the one before and leaves this one open,
\* without what only the publisher knows.
LEMMA CurrencyRead ==
    ASSUME NEW lines \in Seq(Line), NEW r, Reading(r, lines), NEW p \in Nat,
           NEW c \in Currency, HasAt(lines, p, RenderCurrency(c)),
           ~r[p].full, Len(Closed(r[p]).info.currencies) < MaxCurrencies
    PROVE  Yields(r, p, RenderCurrency(c), Within(Closed(r[p]).info, c.code, c.issuer))
<1> DEFINE head == <<Header>>
           code == <<Pair("code", c.code)>>
           issuer == Optional("issuer", c.issuer)
           desc == Optional("desc", c.desc)
           i == Closed(r[p]).info
<1>1. c.code \in Text /\ c.issuer \in Text /\ c.desc \in Text
  BY DEF Currency
<1>2. "code" \in Keys /\ "issuer" \in Keys /\ "desc" \in Keys
  BY DEF Keys
<1>3. /\ head \in Seq(Line) /\ code \in Seq(Line)
      /\ issuer \in Seq(Line) /\ desc \in Seq(Line)
  <2>1. Header \in Line /\ Pair("code", c.code) \in Line
    BY <1>1, <1>2 DEF Pair, Line
  <2> QED
    BY <1>1, <1>2, <2>1, OptionalLines
<1>4. Len(head) = 1 /\ Len(code) = 1 /\ Len(issuer) \in Nat /\ Len(desc) \in Nat
  BY <1>3, LenProperties
<1>5. /\ head \o code \in Seq(Line) /\ issuer \o desc \in Seq(Line)
      /\ Len(head \o code) = 2 /\ Len(issuer \o desc) = Len(issuer) + Len(desc)
  <2> HIDE DEF head, code, issuer, desc
  <2>1. head \o code \in Seq(Line) /\ Len(head \o code) = Len(head) + Len(code)
    BY <1>3, ConcatProperties
  <2>2. issuer \o desc \in Seq(Line) /\ Len(issuer \o desc) = Len(issuer) + Len(desc)
    BY <1>3, ConcatProperties
  <2> QED
    BY <1>4, <2>1, <2>2
<1>6. RenderCurrency(c) = (head \o code) \o (issuer \o desc)
  BY DEF RenderCurrency
<1>7. /\ HasAt(lines, p, head) /\ HasAt(lines, p + 1, code)
      /\ HasAt(lines, p + 2, issuer) /\ HasAt(lines, (p + 2) + Len(issuer), desc)
  <2> HIDE DEF head, code, issuer, desc
  <2>1. HasAt(lines, p, head \o code) /\ HasAt(lines, p + 2, issuer \o desc)
    BY <1>5, <1>6, HasBoth
  <2>2. HasAt(lines, p, head) /\ HasAt(lines, p + 1, code)
    BY <1>3, <1>4, <2>1, HasBoth
  <2>3. HasAt(lines, p + 2, issuer) /\ HasAt(lines, (p + 2) + Len(issuer), desc)
    <3>1. p + 2 \in Nat
      OBVIOUS
    <3> QED
      BY <1>3, <2>1, <3>1, HasBoth
  <2> QED
    BY <2>2, <2>3
<1>8. r[p] \in State
  <2>1. p \in 0..Len(lines)
    BY <1>4, <1>7, LenProperties DEF HasAt
  <2> QED
    BY <2>1 DEF Reading
<1>0. i \in Infos /\ "" \in Text
  BY <1>8, ClosedThere DEF State, Infos, Text
<1>9. r[p + 1] = Within(i, "", "")
  <2>1. Yields(r, p, head, ParseLine(r[p], Header))
    BY <1>7, OneRead
  <2>2. ParseLine(r[p], Header) = Within(i, "", "")
    BY <1>8, HeaderRead
  <2> HIDE DEF head, i
  <2> QED
    BY <1>4, <2>1, <2>2 DEF Yields
<1>10. r[p + 2] = Within(i, c.code, "")
  <2>1. p + 1 \in Nat /\ (p + 1) + 1 = p + 2
    OBVIOUS
  <2>2. Yields(r, p + 1, code, ParseLine(r[p + 1], Pair("code", c.code)))
    BY <1>7, <2>1, OneRead
  <2> HIDE DEF code, i
  <2>3. ParseLine(Within(i, "", ""), Pair("code", c.code)) = Within(i, c.code, "")
    BY ONLY <1>0, <1>1, CurrencyPairRead
  <2> QED
    BY <1>4, <1>9, <2>1, <2>2, <2>3 DEF Yields
<1>11. r[(p + 2) + Len(issuer)] = Within(i, c.code, c.issuer)
  <2>1. p + 2 \in Nat
    OBVIOUS
  <2>2. Yields(r, p + 2, issuer,
               IF c.issuer = "" THEN r[p + 2] ELSE ParseLine(r[p + 2], Pair("issuer", c.issuer)))
    BY <1>1, <1>2, <1>7, <2>1, OptionalRead
  <2> HIDE DEF issuer, i
  <2>3. ParseLine(Within(i, c.code, ""), Pair("issuer", c.issuer)) = Within(i, c.code, c.issuer)
    BY ONLY <1>0, <1>1, CurrencyPairRead
  <2> QED
    BY <1>10, <2>2, <2>3 DEF Yields
<1>12. r[((p + 2) + Len(issuer)) + Len(desc)] = Within(i, c.code, c.issuer)
  <2>1. (p + 2) + Len(issuer) \in Nat
    BY <1>4
  <2> DEFINE q == (p + 2) + Len(issuer)
  <2>2. Yields(r, q, desc,
               IF c.desc = "" THEN r[q] ELSE ParseLine(r[q], Pair("desc", c.desc)))
    <3> HIDE DEF q
    <3> QED
      BY <1>1, <1>2, <1>7, <2>1, OptionalRead DEF q
  <2> HIDE DEF desc, i
  <2>3. ParseLine(Within(i, c.code, c.issuer), Pair("desc", c.desc)) =
          Within(i, c.code, c.issuer)
    BY ONLY <1>0, <1>1, CurrencyPairRead
  <2> QED
    BY <1>11, <2>2, <2>3 DEF Yields
<1>13. p + Len(RenderCurrency(c)) = ((p + 2) + Len(issuer)) + Len(desc)
  <2> HIDE DEF head, code, issuer, desc
  <2>1. Len(RenderCurrency(c)) = Len(head \o code) + Len(issuer \o desc)
    BY <1>5, <1>6, ConcatProperties
  <2> QED
    BY <1>4, <1>5, <2>1
<1> HIDE DEF issuer, desc, i
<1>14. r[p + Len(RenderCurrency(c))] = Within(i, c.code, c.issuer)
  BY <1>12, <1>13
<1> QED
  BY <1>14 DEF Yields, i

-----------------------------------------------------------------------------
(* What parse makes of a whole file. *)

LEMMA Published ==
    ASSUME NEW info \in AnchorInfo
    PROVE  info \in Infos /\ info.currencies \in Seq(Currency)
<1>1. CurrencyInfo \subseteq Currency
  BY DEF CurrencyInfo, Currency, Text
<1>2. info.currencies \in Seq(CurrencyInfo)
  BY DEF AnchorInfo
<1>3. info.currencies \in Seq(Currency)
  <2>1. /\ Len(info.currencies) \in Nat
        /\ info.currencies = [i \in 1..Len(info.currencies) |-> info.currencies[i]]
        /\ \A i \in 1..Len(info.currencies) : info.currencies[i] \in CurrencyInfo
    BY <1>2, LenProperties, ElementOfSeq
  <2>2. \A i \in 1..Len(info.currencies) : info.currencies[i] \in Currency
    BY <1>1, <2>1
  <2> QED
    BY <2>1, <2>2
<1> QED
  BY <1>3 DEF AnchorInfo, Infos, Text

LEMMA KeptAtMost ==
    ASSUME NEW cs \in Seq(Currency), NEW k, Keeping(k, cs), NEW n \in 0..Len(cs)
    PROVE  Len(k[n]) <= n
<1> DEFINE N == Len(cs)
           Good == {m \in Nat : m <= N => Len(k[m]) <= m}
<1>1. N \in Nat
  BY LenProperties
<1>2. 0 \in Good
  BY DEF Keeping
<1>3. ASSUME NEW m \in Nat, m \in Good  PROVE m + 1 \in Good
  <2> SUFFICES ASSUME m + 1 <= N  PROVE Len(k[m + 1]) <= m + 1
    OBVIOUS
  <2>1. m \in 0..N /\ m + 1 \in 1..N /\ (m + 1) - 1 = m
    BY <1>1
  <2>2. k[m + 1] = KeepCurrency(k[m], cs[m + 1]) /\ k[m] \in Seq(Currency)
    BY <2>1 DEF Keeping
  <2>3. Len(k[m]) <= m /\ Len(k[m]) \in Nat
    BY <1>1, <1>3, <2>1, <2>2, LenProperties
  <2>4. [cs[m + 1] EXCEPT !.desc = ""] \in Currency
    <3>1. cs[m + 1] \in Currency
      BY <2>1, ElementOfSeq
    <3> QED
      BY <3>1 DEF Currency, Text
  <2>5. Len(k[m + 1]) \in {Len(k[m]), Len(k[m]) + 1}
    <3> DEFINE d == [cs[m + 1] EXCEPT !.desc = ""]
    <3>1. k[m + 1] = k[m] \/ k[m + 1] = Append(k[m], d)
      BY <2>2 DEF KeepCurrency
    <3>2. d \in Currency
      BY <2>4
    <3> HIDE DEF d
    <3>3. Len(Append(k[m], d)) = Len(k[m]) + 1
      BY <2>2, <3>2, AppendProperties
    <3> QED
      BY <3>1, <3>3
  <2> QED
    BY <2>3, <2>5
<1>4. n \in Good
  <2> HIDE DEF Good
  <2> QED
    BY <1>1, <1>2, <1>3, Induction
<1> QED
  BY <1>1, <1>4

\* What has been read of info, when the table that is open is counted in.
HasRead(s, info, kept) ==
    s \in State /\ ~s.full /\ Closed(s).info = [info EXCEPT !.currencies = kept]

LEMMA KeysRead ==
    ASSUME NEW lines \in Seq(Line), NEW r, Reading(r, lines), NEW info \in Infos,
           HasAt(lines, 0, RenderKeys(info))
    PROVE  HasRead(r[Len(RenderKeys(info))], info, <<>>)
<1> DEFINE sign == Optional("SIGNING_KEY", info.signingKey)
           auth == Optional("WEB_AUTH_ENDPOINT", info.webAuthEndpoint)
           s1 == [Start EXCEPT !.info.signingKey = info.signingKey]
           s2 == [s1 EXCEPT !.info.webAuthEndpoint = info.webAuthEndpoint]
<1>1. /\ info.signingKey \in Text /\ info.webAuthEndpoint \in Text
      /\ "SIGNING_KEY" \in Keys /\ "WEB_AUTH_ENDPOINT" \in Keys
  BY DEF Infos, Keys
<1>2. /\ sign \in Seq(Line) /\ auth \in Seq(Line)
      /\ Len(sign) \in Nat /\ Len(auth) \in Nat
  BY <1>1, OptionalLines, LenProperties
<1>3. HasAt(lines, 0, sign) /\ HasAt(lines, 0 + Len(sign), auth)
  <2>1. HasAt(lines, 0, sign \o auth)
    BY DEF RenderKeys
  <2> HIDE DEF sign, auth
  <2> QED
    BY <1>2, <2>1, HasBoth
<1>4. Start \in State /\ ~Start.full /\ Start.inCurrencies = FALSE
      /\ Start.info.signingKey = "" /\ Start.info.webAuthEndpoint = ""
      /\ Start.info.currencies = <<>>
  BY StartsThere DEF Start, EmptyInfo
<1> HIDE DEF s1, s2
<1>5. s1 \in State /\ ~s1.full /\ s1.inCurrencies = FALSE
      /\ s1.info.signingKey = info.signingKey /\ s1.info.webAuthEndpoint = ""
      /\ s1.info.currencies = <<>>
  BY <1>1, <1>4 DEF s1, State, Infos
<1>6. s2 \in State /\ ~s2.full /\ s2.inCurrencies = FALSE
      /\ s2.info.signingKey = info.signingKey
      /\ s2.info.webAuthEndpoint = info.webAuthEndpoint
      /\ s2.info.currencies = <<>>
  BY <1>1, <1>5 DEF s2, State, Infos
<1>7. r[0] = Start
  BY DEF Reading
<1>8. r[Len(sign)] = s1
  <2>1. Yields(r, 0, sign, IF info.signingKey = "" THEN r[0]
                           ELSE ParseLine(r[0], Pair("SIGNING_KEY", info.signingKey)))
    BY <1>1, <1>3, OptionalRead
  <2>2. ParseLine(Start, Pair("SIGNING_KEY", info.signingKey)) = s1
    <3>1. ParsePair(Start, Pair("SIGNING_KEY", info.signingKey)) = s1
      BY <1>4 DEF ParsePair, Pair, s1
    <3> QED
      BY <1>4, <3>1, PairIsRead
  <2>3. info.signingKey = "" => s1 = Start
    BY <1>4 DEF s1, State, Infos
  <2>4. 0 + Len(sign) = Len(sign)
    BY <1>2
  <2> HIDE DEF sign
  <2> QED
    BY <1>7, <2>1, <2>2, <2>3, <2>4 DEF Yields
<1>9. r[Len(sign) + Len(auth)] = s2
  <2> DEFINE q == Len(sign)
  <2>1. q \in Nat /\ HasAt(lines, q, auth)
    BY <1>2, <1>3
  <2>2. Yields(r, q, auth, IF info.webAuthEndpoint = "" THEN r[q]
                           ELSE ParseLine(r[q], Pair("WEB_AUTH_ENDPOINT", info.webAuthEndpoint)))
    <3> HIDE DEF q
    <3> QED
      BY <1>1, <2>1, OptionalRead
  <2>3. ParseLine(s1, Pair("WEB_AUTH_ENDPOINT", info.webAuthEndpoint)) = s2
    <3>1. ParsePair(s1, Pair("WEB_AUTH_ENDPOINT", info.webAuthEndpoint)) = s2
      BY <1>5 DEF ParsePair, Pair, s2
    <3> QED
      BY <1>5, <3>1, PairIsRead
  <2>4. info.webAuthEndpoint = "" => s2 = s1
    BY <1>5 DEF s2, State, Infos
  <2> HIDE DEF sign, auth
  <2> QED
    BY <1>8, <2>2, <2>3, <2>4 DEF Yields
<1>10. Len(RenderKeys(info)) = Len(sign) + Len(auth)
  <2>1. RenderKeys(info) = sign \o auth
    BY DEF RenderKeys
  <2> HIDE DEF sign, auth
  <2> QED
    BY <1>2, <2>1, ConcatProperties
<1>11. Closed(s2).info = [info EXCEPT !.currencies = <<>>]
  <2>1. Closed(s2) = s2
    BY <1>6 DEF Closed, Counts
  <2>2. s2.info = [info EXCEPT !.currencies = <<>>]
    BY <1>6 DEF State, Infos
  <2> QED
    BY <2>1, <2>2
<1> HIDE DEF sign, auth
<1> QED
  BY <1>6, <1>9, <1>10, <1>11 DEF HasRead

\* With the currency that is open, no more and no less has been read than is to be kept.
LEMMA CountedIn ==
    ASSUME NEW info \in Infos, NEW kept \in Seq(Currency), NEW c \in Currency,
           NEW i, i = [info EXCEPT !.currencies = kept]
    PROVE  HasRead(Within(i, c.code, c.issuer), info, KeepCurrency(kept, c))
<1> DEFINE s == Within(i, c.code, c.issuer)
           d == [c EXCEPT !.desc = ""]
<1>1. i \in Infos /\ i.currencies = kept /\ c.code \in Text /\ c.issuer \in Text
  BY DEF Infos, Currency
<1>2. IsWithin(s, i, c.code, c.issuer)
  BY <1>1, WithinIs
<1> HIDE DEF s
<1>3. s \in State /\ ~s.full /\ s.info = i /\ s.inCurrencies
      /\ s.current.code = c.code /\ s.current.issuer = c.issuer /\ s.current.desc = ""
  BY <1>2 DEF IsWithin
<1>4. s.current = d
  <2>1. d \in Currency /\ d.code = c.code /\ d.issuer = c.issuer /\ d.desc = ""
    BY DEF Currency, Text
  <2>2. s.current \in Currency
    BY <1>3 DEF State
  <2>3. \A x, y \in Currency :
          x.code = y.code /\ x.issuer = y.issuer /\ x.desc = y.desc => x = y
    BY DEF Currency
  <2> HIDE DEF d
  <2> QED
    BY ONLY <1>3, <2>1, <2>2, <2>3
<1>5. CASE c.code = ""
  <2>1. Closed(s) = s
    BY <1>3, <1>5 DEF Closed, Counts
  <2> QED
    BY <1>3, <1>5, <2>1 DEF HasRead, KeepCurrency, s
<1>6. CASE c.code # ""
  <2>1. Closed(s) = [s EXCEPT !.info.currencies = Append(s.info.currencies, s.current)]
    BY <1>3, <1>6 DEF Closed, Counts
  <2> DEFINE more == Append(kept, d)
  <2> HIDE DEF d
  <2>2. Closed(s) = [s EXCEPT !.info.currencies = more]
    BY <1>1, <1>3, <1>4, <2>1
  <2> HIDE DEF more
  <2>3. Closed(s).info = [i EXCEPT !.currencies = more]
    BY <1>3, <2>2 DEF State
  <2>4. [i EXCEPT !.currencies = more] = [info EXCEPT !.currencies = more]
    BY DEF Infos
  <2>5. KeepCurrency(kept, c) = more
    BY <1>6 DEF KeepCurrency, more, d
  <2> QED
    BY <1>3, <2>3, <2>4, <2>5 DEF HasRead, s
<1> QED
  BY <1>5, <1>6

LEMMA CurrenciesRead ==
    ASSUME NEW info \in Infos, NEW cs \in Seq(Currency), Len(cs) <= MaxCurrencies,
           NEW w, Writing(w, cs), NEW k, Keeping(k, cs),
           NEW lines \in Seq(Line), NEW r, Reading(r, lines), NEW p \in Nat,
           HasAt(lines, p, w[Len(cs)]), HasRead(r[p], info, <<>>)
    PROVE  HasRead(r[p + Len(w[Len(cs)])], info, k[Len(cs)])
<1> DEFINE N == Len(cs)
           Good == {n \in Nat : n <= N => HasRead(r[p + Len(w[n])], info, k[n])}
<1>1. N \in Nat
  BY LenProperties
<1>2. \A n \in 0..N : w[n] \in Seq(Line) /\ Len(w[n]) \in Nat
  BY LenProperties DEF Writing
<1>3. \A n \in 0..N : k[n] \in Seq(Currency)
  BY DEF Keeping
<1>4. 0 \in Good
  <2>1. w[0] = <<>> /\ k[0] = <<>> /\ p + Len(<<>>) = p
    BY DEF Writing, Keeping
  <2> QED
    BY <2>1
<1>5. ASSUME NEW n \in Nat, n \in Good  PROVE n + 1 \in Good
  <2> SUFFICES ASSUME n + 1 <= N
               PROVE  HasRead(r[p + Len(w[n + 1])], info, k[n + 1])
    OBVIOUS
  <2> DEFINE c == cs[n + 1]
             q == p + Len(w[n])
             i == Closed(r[q]).info
  <2>1. n \in 0..N /\ n + 1 \in 1..N /\ (n + 1) - 1 = n
    BY <1>1
  <2>2. c \in Currency
    BY <2>1, ElementOfSeq
  <2>3. w[n + 1] = w[n] \o RenderCurrency(c)
    BY <2>1 DEF Writing
  <2>4. k[n + 1] = KeepCurrency(k[n], c)
    BY <2>1 DEF Keeping
  <2>5. RenderCurrency(c) \in Seq(Line) /\ Len(RenderCurrency(c)) \in Nat
    BY <2>2, CurrencyLines, LenProperties
  <2>6. q \in Nat
    BY <1>2, <2>1
  <2>7. HasAt(lines, q, RenderCurrency(c))
    <3> DEFINE block == RenderCurrency(c)
    <3>1. HasAt(w[N], Len(w[n]), block)
      BY <2>1, CurrencyStands
    <3>2. /\ Len(w[n]) + Len(block) <= Len(w[N])
          /\ \A j \in 1..Len(block) : w[N][Len(w[n]) + j] = block[j]
      BY <3>1 DEF HasAt
    <3>3. /\ p + Len(w[N]) <= Len(lines)
          /\ \A j \in 1..Len(w[N]) : lines[p + j] = w[N][j]
      BY DEF HasAt
    <3>4. Len(w[N]) \in Nat /\ Len(w[n]) \in Nat /\ Len(block) \in Nat /\ Len(lines) \in Nat
      BY <1>1, <1>2, <2>1, <2>5, LenProperties
    <3> HIDE DEF block, N
    <3>5. ASSUME NEW j \in 1..Len(block)  PROVE lines[q + j] = block[j]
      <4>1. Len(w[n]) + j \in 1..Len(w[N]) /\ q + j = p + (Len(w[n]) + j)
        BY <3>2, <3>4
      <4>2. lines[q + j] = w[N][Len(w[n]) + j]
        BY <3>3, <4>1
      <4> QED
        BY <3>2, <4>2
    <3>6. q + Len(block) <= Len(lines)
      BY <3>2, <3>3, <3>4
    <3>7. HasAt(lines, q, block)
      BY <3>5, <3>6 DEF HasAt
    <3> QED
      BY <3>7 DEF block
  <2>8. HasRead(r[q], info, k[n])
    BY <1>1, <1>5, <2>1
  <2>9. ~r[q].full /\ i = [info EXCEPT !.currencies = k[n]]
    BY <2>8 DEF HasRead
  <2>10. Len(Closed(r[q]).info.currencies) < MaxCurrencies
    <3>1. i.currencies = k[n]
      BY <2>9 DEF Infos
    <3>2. Len(k[n]) <= n /\ Len(k[n]) \in Nat
      BY <1>3, <2>1, KeptAtMost, LenProperties
    <3>3. n < MaxCurrencies
      BY <1>1, TomlAssumption
    <3>4. Len(k[n]) < MaxCurrencies
      BY <3>2, <3>3, TomlAssumption
    <3> QED
      BY <3>1, <3>4
  <2>11. Yields(r, q, RenderCurrency(c), Within(i, c.code, c.issuer))
    <3> HIDE DEF c, q
    <3> QED
      BY <2>2, <2>6, <2>7, <2>9, <2>10, CurrencyRead
  <2>12. HasRead(Within(i, c.code, c.issuer), info, KeepCurrency(k[n], c))
    <3> HIDE DEF c, i
    <3> QED
      BY <1>3, <2>1, <2>2, <2>9, CountedIn
  <2>13. p + Len(w[n + 1]) = q + Len(RenderCurrency(c))
    <3>1. Len(w[n + 1]) = Len(w[n]) + Len(RenderCurrency(c))
      BY <1>2, <2>1, <2>3, <2>5, ConcatProperties
    <3>2. Len(w[n]) \in Nat /\ Len(RenderCurrency(c)) \in Nat
      BY <1>2, <2>1, <2>5
    <3> HIDE DEF c
    <3> QED
      BY <3>1, <3>2
  <2> HIDE DEF c, q, i
  <2> QED
    BY <2>4, <2>11, <2>12, <2>13 DEF Yields
<1>6. N \in Good
  <2> HIDE DEF Good, N
  <2> QED
    BY <1>1, <1>4, <1>5, Induction
<1> QED
  BY <1>1, <1>6

\* Whatever file of up to maxCurrencyArrays currencies the publisher renders, the
\* resolver reads back what was meant, whatever is left empty in it
\* (publisher.go:17-66, resolver.go:88-168).
THEOREM FilesAreRead ==
    ASSUME NEW info \in AnchorInfo
    PROVE  ReadsAsWritten(info)
<1> SUFFICES ASSUME Len(info.currencies) <= MaxCurrencies
             PROVE  Parse(Render(info)) = Kept(info)
  BY DEF ReadsAsWritten
<1> DEFINE cs == info.currencies
           keys == RenderKeys(info)
           lines == Render(info)
<1>1. info \in Infos /\ cs \in Seq(Currency)
  BY Published
<1>2. PICK w : Writing(w, cs) /\ RenderCurrencies(cs) = w[Len(cs)]
  BY <1>1, Written
<1>3. PICK k : Keeping(k, cs) /\ KeptCurrencies(cs) = k[Len(cs)]
  BY <1>1, KeptOnes
<1> DEFINE body == w[Len(cs)]
<1>4. body \in Seq(Line)
  BY <1>1, <1>2, LenProperties DEF Writing
<1>5. keys \in Seq(Line)
  <2>1. /\ info.signingKey \in Text /\ info.webAuthEndpoint \in Text
        /\ "SIGNING_KEY" \in Keys /\ "WEB_AUTH_ENDPOINT" \in Keys
    BY <1>1 DEF Infos, Keys
  <2>2. /\ Optional("SIGNING_KEY", info.signingKey) \in Seq(Line)
        /\ Optional("WEB_AUTH_ENDPOINT", info.webAuthEndpoint) \in Seq(Line)
    BY <2>1, OptionalLines
  <2> QED
    BY <2>2, ConcatProperties DEF RenderKeys
<1>6. lines = keys \o body
  BY <1>2 DEF Render
<1>7. lines \in Seq(Line) /\ Len(lines) = Len(keys) + Len(body)
      /\ Len(keys) \in Nat /\ Len(body) \in Nat
  <2> HIDE DEF lines, keys, body
  <2> QED
    BY <1>4, <1>5, <1>6, ConcatProperties, LenProperties
<1>8. HasAt(lines, 0, keys) /\ HasAt(lines, Len(keys), body)
  <2> HIDE DEF lines, keys, body
  <2>1. HasAt(lines, 0, keys \o body)
    BY <1>6, <1>7, HasItself
  <2>2. HasAt(lines, 0, keys) /\ HasAt(lines, 0 + Len(keys), body)
    BY <1>4, <1>5, <1>7, <2>1, HasBoth
  <2> QED
    BY <1>7, <2>2
<1> HIDE DEF lines
<1>9. PICK r : Reading(r, lines) /\ Parse(lines) = Closed(r[Len(lines)]).info
  BY <1>7, ReadLines
<1>10. HasRead(r[Len(keys)], info, <<>>)
  BY <1>1, <1>7, <1>8, <1>9, KeysRead
<1>11. HasRead(r[Len(keys) + Len(body)], info, k[Len(cs)])
  <2> HIDE DEF keys, cs
  <2> QED
    BY <1>1, <1>2, <1>3, <1>7, <1>8, <1>9, <1>10, CurrenciesRead DEF cs
<1>12. Parse(lines) = [info EXCEPT !.currencies = k[Len(cs)]]
  BY <1>7, <1>9, <1>11 DEF HasRead
<1> QED
  BY <1>3, <1>12 DEF Kept, lines

\* Every Resolve, fetched or cached, of a login or not, returns what the anchor meant
\* wallets to see of a file that it published, and so it would of any other that it may
\* publish (resolver.go:42-86, publisher.go:17-66).
THEOREM ResolvesWhatIsMeant == LoginSpec => []ResolvedIsMeant
<1>1. ASSUME NEW info \in Publishable  PROVE ReadsAsWritten(info)
  <2>1. info \in AnchorInfo
    BY TomlAssumption
  <2> QED
    BY <2>1, FilesAreRead
<1>2. ResolverInv => ResolvedIsMeant
  <2> SUFFICES ASSUME ResolverInv  PROVE ResolvedIsMeant
    OBVIOUS
  <2>1. Misread = {}
    BY <1>1 DEF Misread
  <2>2. ASSUME NEW c \in Caller  PROVE resolve[c].info \in Publishable \cup {NoInfo}
    <3>1. resolve[c].info \in Info \cup {NoInfo}
      BY DEF ResolverInv, ResolverTypeOK
    <3> QED
      BY <3>1, LoginAssumption
  <2> QED
    BY <2>1, <2>2 DEF ResolvedIsMeant
<1> QED
  BY <1>2, LoginUsesResolver, ResolverInvHolds, PTL
=============================================================================

------------------------------ MODULE WalletLogin ------------------------------
(***************************************************************************)
(* sdk.Client.Login against an anchor: stellar.toml from the resolver, a   *)
(* challenge, its signature, a JWT for it.  Both requests go through       *)
(* net.Client, which tries them again when the network or the server fails *)
(* (HttpClient); a failed attempt may still be on its way, or its answer   *)
(* lost.                                                                   *)
(*                                                                         *)
(*   idle -> resolve -> get -> sign -> post -> idle                        *)
(*                                                                         *)
(* Of the anchor, module OneTimeChallenge: what WebAuth implements.  The   *)
(* handlers of the example anchors answer 400 to whatever CreateChallenge  *)
(* or VerifyChallenge return as an error.                                  *)
(***************************************************************************)
EXTENDS TomlResolver, StellarToml

CONSTANTS Nonce, NoNonce,
          MaxRetries,  \* WithMaxRetries
          MaxLate      \* bound: given up attempts that are still on their way

ASSUME LoginAssumption ==
    /\ NoNonce \notin Nonce
    /\ MaxRetries \in Nat
    /\ MaxLate \in Nat
    /\ Info \subseteq Publishable

VARIABLES stage,    \* how far each challenge has come, at the anchor
          login,    \* the Login call of each goroutine, and how the last one ended
          requests  \* attempts on their way or at the anchor

loginVars == <<resolverVars, stage, login, requests>>

Anchor == INSTANCE OneTimeChallenge

\* The files in which a wallet finds a WEB_AUTH_ENDPOINT.
Supported == {info \in Info : Parse(Render(info)).webAuthEndpoint # ""}

Outcomes == {"none", "session", "rejected", "failed", "unsupported"}

\* lost: whether an attempt to post the challenge has failed.
NoLogin == [pc |-> "idle", attempt |-> 0, nonce |-> NoNonce, lost |-> FALSE,
            outcome |-> "none"]

LoginRecord == [pc: {"idle", "resolve", "get", "sign", "post"}, attempt: 0..MaxRetries,
                nonce: Nonce \cup {NoNonce}, lost: BOOLEAN, outcome: Outcomes]

\* live: whether the client still waits for the answer.
Request == [from: Caller, kind: {"get", "post"}, nonce: Nonce \cup {NoNonce},
            accepted: BOOLEAN, live: BOOLEAN]

LoginInit ==
    /\ ResolverInit
    /\ Anchor!Init
    /\ login = [c \in Caller |-> NoLogin]
    /\ requests = {}

Fail(c, outcome) == login' = [login EXCEPT ![c] = [NoLogin EXCEPT !.outcome = outcome]]

Return(c, outcome) == login' = [login EXCEPT ![c].pc = "idle", ![c].attempt = 0,
                                             ![c].outcome = outcome]

-----------------------------------------------------------------------------
(* The wallet. *)

\* MUTANT: the challenge of the last login is used again.
LoginReuses(c) ==
    /\ login[c].pc = "idle"
    /\ Ask(c)
    /\ login' = [login EXCEPT ![c] = [NoLogin EXCEPT
          !.pc = IF login[c].nonce = NoNonce THEN "resolve" ELSE "sign",
          !.nonce = login[c].nonce]]
    /\ UNCHANGED <<stage, requests>>

Login(c) ==
    /\ login[c].pc = "idle"
    /\ Ask(c)
    /\ login' = [login EXCEPT ![c] = [NoLogin EXCEPT !.pc = "resolve"]]
    /\ UNCHANGED <<stage, requests>>

\* The endpoint is all that the rest of Login takes from the file.
Discovered(c) ==
    /\ login[c].pc = "resolve"
    /\ resolve[c].pc = "done"
    /\ IF resolve[c].info \in Supported
       THEN login' = [login EXCEPT ![c].pc = "get"]
       ELSE Fail(c, "unsupported")
    /\ UNCHANGED <<resolverVars, stage, requests>>

Send(c) ==
    /\ login[c].pc \in {"get", "post"}
    /\ \A r \in requests : r.from = c => ~r.live
    /\ requests' = requests \cup
          {[from |-> c, kind |-> login[c].pc, nonce |-> login[c].nonce,
            accepted |-> FALSE, live |-> TRUE]}
    /\ UNCHANGED <<resolverVars, stage, login>>

Failed(c) ==
    IF login[c].attempt < MaxRetries
    THEN login' = [login EXCEPT ![c].attempt = @ + 1,
                                ![c].lost = @ \/ login[c].pc = "post"]
    ELSE Fail(c, "failed")

\* A timeout, a broken connection or a status from 500 on: the request never
\* arrived, its answer was lost, or it is still on its way. A late get is left out:
\* all it does is to issue a challenge that nobody has.
AttemptFails(c) ==
    /\ \E r \in requests :
         /\ r.from = c /\ r.live
         /\ \/ requests' = requests \ {r}
            \/ /\ r.kind = "post"
               /\ Cardinality({q \in requests : ~q.live}) < MaxLate
               /\ requests' = (requests \ {r}) \cup {[r EXCEPT !.live = FALSE]}
    /\ Failed(c)
    /\ UNCHANGED <<resolverVars, stage>>

\* The context has ended, or the circuit breaker is open.
GiveUp(c) ==
    /\ login[c].pc \in {"get", "post"}
    /\ \A r \in requests : r.from = c => ~r.live
    /\ Fail(c, "failed")
    /\ UNCHANGED <<resolverVars, stage, requests>>

Sign(c) ==
    /\ login[c].pc = "sign"
    /\ login' = [login EXCEPT ![c].pc = "post"]
    /\ UNCHANGED <<resolverVars, stage, requests>>

\* Neither a challenge of another network nor a refusing signer goes further.
SignFails(c) ==
    /\ login[c].pc = "sign"
    /\ Fail(c, "failed")
    /\ UNCHANGED <<resolverVars, stage, requests>>

-----------------------------------------------------------------------------
(* The anchor. *)

Challenge(r) ==
    /\ r.kind = "get"
    /\ \E n \in Nonce :
         /\ Anchor!Issue(n)
         /\ login' = [login EXCEPT ![r.from].pc = "sign", ![r.from].nonce = n,
                                   ![r.from].attempt = 0]
    /\ requests' = requests \ {r}
    /\ UNCHANGED resolverVars

ChallengeRefused(r) ==
    /\ r.kind = "get"
    /\ Fail(r.from, "failed")
    /\ requests' = requests \ {r}
    /\ UNCHANGED <<resolverVars, stage>>

\* The request is done with; whoever still waits for it has its answer.
Answer(r, outcome) ==
    /\ requests' = requests \ {r}
    /\ IF r.live THEN Return(r.from, outcome) ELSE UNCHANGED login

\* The nonce is consumed.
Accept(r) ==
    /\ r.kind = "post"
    /\ ~r.accepted
    /\ Anchor!Present(r.nonce)
    /\ requests' = (requests \ {r}) \cup {[r EXCEPT !.accepted = TRUE]}
    /\ UNCHANGED <<resolverVars, login>>

Refuse(r) ==
    /\ r.kind = "post"
    /\ ~r.accepted
    /\ stage[r.nonce] # "open"
    /\ Answer(r, "rejected")
    /\ UNCHANGED <<resolverVars, stage>>

\* The client may not get the token out of the answer: its body breaks off.
Grant(r) ==
    /\ r.accepted
    /\ Anchor!Grant(r.nonce)
    /\ \E outcome \in {"session", "failed"} : Answer(r, outcome)
    /\ UNCHANGED resolverVars

\* After the nonce was consumed: the signatures do not do, or no JWT is issued.
GrantFails(r) ==
    /\ r.accepted
    /\ Anchor!Void({r.nonce})
    /\ Answer(r, "rejected")
    /\ UNCHANGED resolverVars

\* Time runs out, or the anchor restarts.
Expire(n) ==
    /\ stage[n] = "open"
    /\ Anchor!Void({n})
    /\ UNCHANGED <<resolverVars, login, requests>>

-----------------------------------------------------------------------------
Proceed(c) ==
    \/ Resolves(c) /\ UNCHANGED <<stage, login, requests>>
    \/ Discovered(c) \/ Send(c) \/ AttemptFails(c) \/ GiveUp(c)
    \/ Sign(c) \/ SignFails(c)

Handles(r) ==
    \/ Challenge(r) \/ ChallengeRefused(r)
    \/ Accept(r) \/ Refuse(r) \/ Grant(r) \/ GrantFails(r)

LoginNext ==
    \/ \E c \in Caller : Login(c) \/ Proceed(c)
    \/ \E r \in requests : Handles(r)
    \/ \E n \in Nonce : Expire(n)
    \/ (Publish \/ Tick) /\ UNCHANGED <<stage, login, requests>>

LoginSpec == LoginInit /\ [][LoginNext]_loginVars
-----------------------------------------------------------------------------
(* Properties. *)

LoginTypeOK ==
    /\ ResolverTypeOK
    /\ stage \in [Nonce -> Anchor!Stages]
    /\ login \in [Caller -> LoginRecord]
    /\ requests \subseteq Request

\* The files that a wallet would misread.
Misread == {info \in Publishable : ~ReadsAsWritten(info)}

\* What a Resolve returns, fetched or cached, is what the anchor meant wallets to see of
\* a file that it published, and so it would be of any other that it may publish: no
\* field and no currency is lost, none takes over a field of the one before
\* (publisher.go:17-66, resolver.go:88-168).
ResolvedIsMeant ==
    /\ Misread = {}
    /\ \A c \in Caller : resolve[c].info \in Publishable \cup {NoInfo}

\* Every login ends as it earned. A session rests on a granted challenge of its own:
\* retries, late answers and other wallets neither yield a session for nothing nor share
\* a challenge. A login that got its challenge is refused only if that ran out or did
\* not do, or if the attempt that spent it was not answered in time: then the client's
\* retry is refused in place of the JWT (core/net/client.go:150-196, sdk/auth.go:51-174).
OutcomesAreEarned ==
    \A c \in Caller :
      /\ login[c].outcome = "session" =>
           /\ login[c].nonce # NoNonce
           /\ stage[login[c].nonce] = "granted"
           /\ \A d \in Caller \ {c} : login[d].nonce # login[c].nonce
      /\ login[c].outcome = "rejected" =>
           login[c].lost \/ stage[login[c].nonce] = "void"
=============================================================================

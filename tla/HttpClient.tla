------------------------------ MODULE HttpClient ------------------------------
(***************************************************************************)
(* core/net.Client: requests that are tried again when the network or the  *)
(* server fails, and the circuit breaker they share.  Several goroutines   *)
(* use one client.  Time is discrete; the code itself takes none, it       *)
(* passes while an attempt is under way or a goroutine sleeps before the   *)
(* next.                                                                   *)
(*                                                                         *)
(*   idle -> loop -> sent -> idle       an answer, or the last failure     *)
(*           loop <- sleep <- sent      a failure that is tried again      *)
(*                                                                         *)
(* An answer is any status below 500: the breaker takes a 404 for a        *)
(* success, and the response is returned either way.  Get, Post and        *)
(* PostForm differ only in the request they build.  What a failed attempt  *)
(* did on the server is not the client's concern.                          *)
(***************************************************************************)
EXTENDS Naturals

CONSTANTS Caller,        \* goroutines, one call each at a time
          MaxRetries,    \* WithMaxRetries
          Timeout,       \* WithTimeout, in ticks
          RetryBackoff,  \* WithRetryBackoff, in ticks
          FailureLimit,  \* defaultFailureLimit
          ResetTimeout   \* defaultResetTimeout, in ticks

ASSUME ConstantsAssumption ==
    /\ MaxRetries \in Nat
    /\ Timeout \in Nat \ {0}
    /\ RetryBackoff \in Nat
    /\ FailureLimit \in Nat \ {0}
    /\ ResetTimeout \in Nat

\* 1 << n: as many doublings.
Power[n \in 0..(MaxRetries + 1)] == IF n = 0 THEN 1 ELSE 2 * Power[n - 1]

VARIABLES call,      \* what each goroutine is doing
          failures, state, sinceFail,  \* the breaker; ticks since lastFailTime
          healthy,   \* whether the server answers attempts below 500
          recent     \* history: the last FailureLimit verdicts, newest first

breaker == <<failures, state, sinceFail>>
vars == <<call, breaker, healthy, recent>>

Verdicts == {"none", "answered", "failed", "cancelled", "refused", "unread"}

\* The time that all attempts and the backoffs between them may take.
Budget == (MaxRetries + 1) * Timeout + RetryBackoff * (Power[MaxRetries] - 1)

\* duration: ticks the call has taken; left: ticks of the attempt or the sleep.
Call == [pc : {"idle", "loop", "sent", "sleep"}, attempt : 0..MaxRetries,
         left : Nat, duration : 0..Budget + 1, cancelled : BOOLEAN, verdict : Verdicts]

Idle(verdict) == [pc |-> "idle", attempt |-> 0, left |-> 0, duration |-> 0,
                  cancelled |-> FALSE, verdict |-> verdict]

Init ==
    /\ call = [c \in Caller |-> Idle("none")]
    /\ failures = 0
    /\ state = "closed"
    /\ sinceFail = ResetTimeout + 1
    /\ healthy = TRUE
    /\ recent = [i \in 1..FailureLimit |-> "none"]

Return(c, verdict) == call' = [call EXCEPT ![c] = Idle(verdict)]

-----------------------------------------------------------------------------
(* The circuit breaker. *)

AllowRequest == state = "closed" \/ sinceFail > ResetTimeout

Remember(verdict) ==
    recent' = [i \in 1..FailureLimit |-> IF i = 1 THEN verdict ELSE recent[i - 1]]

\* MUTANT: the circuit closes, and the count stays.
RecordSuccessCounted ==
    /\ state' = "closed"
    /\ Remember("answered")
    /\ UNCHANGED <<failures, sinceFail>>

RecordSuccess ==
    /\ failures' = 0
    /\ state' = "closed"
    /\ Remember("answered")
    /\ UNCHANGED sinceFail

\* Bound: counting past the limit would change nothing but the number.
RecordFailure ==
    /\ failures' = IF failures < FailureLimit THEN failures + 1 ELSE failures
    /\ sinceFail' = 0
    /\ state' = IF failures' >= FailureLimit THEN "open" ELSE state
    /\ Remember("failed")

-----------------------------------------------------------------------------
(* A request. *)

Begin(c) ==
    /\ call[c].pc = "idle"
    /\ AllowRequest
    /\ call' = [call EXCEPT ![c] = [Idle("none") EXCEPT !.pc = "loop"]]
    /\ UNCHANGED <<breaker, healthy, recent>>

\* MUTANT: a refused request counts as one more failure.
RefusedCounts(c) ==
    /\ call[c].pc = "idle"
    /\ ~AllowRequest
    /\ Return(c, "refused")
    /\ sinceFail' = 0
    /\ UNCHANGED <<failures, state, healthy, recent>>

Refused(c) ==
    /\ call[c].pc = "idle"
    /\ ~AllowRequest
    /\ Return(c, "refused")
    /\ UNCHANGED <<breaker, healthy, recent>>

\* The caller's body reader fails before the first attempt.
BodyUnread(c) ==
    /\ call[c].pc = "idle"
    /\ AllowRequest
    /\ Return(c, "unread")
    /\ UNCHANGED <<breaker, healthy, recent>>

Cancelled(c) ==
    /\ call[c].pc = "loop"
    /\ call[c].cancelled
    /\ Return(c, "cancelled")
    /\ UNCHANGED <<breaker, healthy, recent>>

Send(c) ==
    /\ call[c].pc = "loop"
    /\ ~call[c].cancelled
    /\ call' = [call EXCEPT ![c].pc = "sent", ![c].left = Timeout]
    /\ UNCHANGED <<breaker, healthy, recent>>

Answer(c) ==
    /\ call[c].pc = "sent"
    /\ healthy
    /\ RecordSuccess
    /\ Return(c, "answered")
    /\ UNCHANGED healthy

\* A network error, a timeout, a status from 500 on, or a context that ended.
AttemptFails(c) ==
    /\ call[c].pc = "sent"
    /\ ~healthy \/ call[c].cancelled

MayRetry(attempt) == attempt < MaxRetries

\* MUTANT: the exponent counts from one.
BackoffFromOne(attempt) == RetryBackoff * Power[attempt + 1]

Backoff(attempt) == RetryBackoff * Power[attempt]

Sleep(c) ==
    /\ AttemptFails(c)
    /\ MayRetry(call[c].attempt)
    /\ call' = [call EXCEPT ![c].pc = "sleep",
                            ![c].left = Backoff(call[c].attempt)]
    /\ UNCHANGED <<breaker, healthy, recent>>

GiveUp(c) ==
    /\ AttemptFails(c)
    /\ ~MayRetry(call[c].attempt)
    /\ RecordFailure
    /\ Return(c, "failed")
    /\ UNCHANGED healthy

\* time.Sleep knows nothing of the context: a call that was cancelled sleeps on.
Wake(c) ==
    /\ call[c].pc = "sleep"
    /\ call[c].left = 0
    /\ call' = [call EXCEPT ![c].pc = "loop", ![c].attempt = @ + 1]
    /\ UNCHANGED <<breaker, healthy, recent>>

-----------------------------------------------------------------------------
(* The rest of the world. *)

Cancel(c) ==
    /\ call[c].pc # "idle"
    /\ ~call[c].cancelled
    /\ call' = [call EXCEPT ![c].cancelled = TRUE]
    /\ UNCHANGED <<breaker, healthy, recent>>

ServerChanges ==
    /\ healthy' = ~healthy
    /\ UNCHANGED <<call, breaker, recent>>

\* A cancelled attempt ends at once; another one when its time is up.
Urgent(c) ==
    \/ call[c].pc = "loop"
    \/ call[c].pc \in {"sent", "sleep"} /\ call[c].left = 0
    \/ call[c].pc = "sent" /\ call[c].cancelled

\* Bounds: sinceFail counts no further than one past the reset timeout, duration
\* no further than one past the budget.
Tick ==
    /\ \A c \in Caller : ~Urgent(c)
    /\ call' = [c \in Caller |->
                  IF call[c].pc = "idle" THEN call[c]
                  ELSE [call[c] EXCEPT !.left = @ - 1,
                                       !.duration = IF @ > Budget THEN @ ELSE @ + 1]]
    /\ sinceFail' = IF sinceFail > ResetTimeout THEN sinceFail ELSE sinceFail + 1
    /\ UNCHANGED <<failures, state, healthy, recent>>

-----------------------------------------------------------------------------
Do(c) == Begin(c) \/ Refused(c) \/ BodyUnread(c)

Proceed(c) ==
    \/ Cancelled(c) \/ Send(c) \/ Answer(c)
    \/ Sleep(c) \/ GiveUp(c) \/ Wake(c)

Next ==
    \/ \E c \in Caller : Do(c) \/ Proceed(c) \/ Cancel(c)
    \/ ServerChanges
    \/ Tick

Spec == Init /\ [][Next]_vars

\* Goroutines run, and time does not stand still.
FairSpec == Spec /\ SF_vars(Tick) /\ \A c \in Caller : WF_vars(Proceed(c))
-----------------------------------------------------------------------------
(* Properties. *)

TypeOK ==
    /\ call \in [Caller -> Call]
    /\ failures \in 0..FailureLimit
    /\ state \in {"closed", "open"}
    /\ sinceFail \in 0..ResetTimeout + 1
    /\ healthy \in BOOLEAN
    /\ recent \in [1..FailureLimit -> {"none", "answered", "failed"}]

\* However many goroutines share the breaker, and whatever they had under way
\* when it opened or closed: it is open exactly if the last FailureLimit
\* requests to end with a verdict all failed (client.go:260-280).
OpenAfterFailures ==
    state = "open" <=> \A i \in 1..FailureLimit : recent[i] = "failed"

\* A call ends in the time that its attempts and backoffs may take, whatever the
\* server does and whether or not it is cancelled (client.go:150-224).
RequestInTime == \A c \in Caller : call[c].duration <= Budget

\* A breaker closes for good once the server is well and callers wait for their
\* answers, provided that somebody goes on calling: refused calls and
\* requests from before do not keep it open (client.go:243-258).
BreakerCloses ==
    (/\ <>[](healthy /\ \A c \in Caller : ~call[c].cancelled)
     /\ \E c \in Caller : WF_vars(Begin(c)))
    => <>[](state = "closed")
=============================================================================

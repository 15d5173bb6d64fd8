--------------------------- MODULE PaymentObserver ---------------------------
(***************************************************************************)
(* observer.HorizonObserver: one Start call that streams the operations of *)
(* the ledger, hands the payments to the registered handlers one after the *)
(* other, and keeps a cursor to resume from when the stream breaks or the  *)
(* process restarts.  OnPayment, Stop and the cancellation of the context  *)
(* come from other goroutines at any time.                                 *)
(*                                                                         *)
(*   down -> check -> stream -> handle .. -> save -> stream ..  *)
(*                    stream -> ended -> wait -> check ..                  *)
(*                                                                         *)
(* A payment is named by its place in the ledger, which is also its paging *)
(* token; of its fields the model keeps what filters look at, as the       *)
(* account it matters to.  What the callback closes over, it runs alone:   *)
(* a stream cannot fail before its callback returns.  A handler's error is *)
(* logged and changes nothing.  The Horizon client is external: from where *)
(* it is started it passes on every operation in order, until it fails or  *)
(* its context is cancelled.  A second Start while one is running returns  *)
(* an error and changes nothing.                                           *)
(***************************************************************************)
EXTENDS Naturals, Sequences

CONSTANTS Account,      \* what filters tell apart
          Other,        \* an operation that is no payment, or not understood
          Handler, Filter,  \* handlers, and the payments each one's filters pass
          Now,          \* the cursor "now"
          StartCursor,  \* WithCursor at the first start of the process
          InitialBackoff, MaxBackoff,
          MaxLedger,    \* bound: operations in the ledger
          MaxFailures,  \* bound: streams that break
          MaxCrashes    \* bound: restarts of the process

ASSUME ConstantsAssumption ==
    /\ Other \notin Account
    /\ Filter \in [Handler -> SUBSET Account]
    /\ Now \notin Nat
    /\ StartCursor = 0 \/ StartCursor = Now
    /\ InitialBackoff \in Nat \ {0}
    /\ MaxBackoff \in Nat \ {0}
    /\ MaxLedger \in Nat
    /\ MaxFailures \in Nat
    /\ MaxCrashes \in Nat

VARIABLES ledger,     \* the operations on the network so far
          handlers,   \* the handlers in the order they were registered
          cursor,     \* the last payment processed
          saved,      \* what the cursor saver has persisted
          pc,         \* where Start is
          pos,        \* the last operation the stream has passed on
          next, last, \* the handlers to run for it: from next to last
          backoff, stopped, cancelled,
          joined,     \* history: where the stream was when a handler registered
          heard,      \* history: the payments a handler got from this process
          owed,       \* history: payments this process received for a handler it has
                      \* not got to yet
          failures, crashes

settings == <<ledger, stopped, cancelled, failures, crashes>>
vars == <<settings, handlers, cursor, saved, pc, pos, next, last, backoff,
          joined, heard, owed>>

Cursors == 0..MaxLedger \cup {Now}

Steps == {"down", "check", "stream", "handle", "save", "ended", "wait"}

Init ==
    /\ ledger = <<>>
    /\ handlers = <<>>
    /\ cursor = StartCursor
    /\ saved = StartCursor
    /\ pc = "down"
    /\ pos = StartCursor
    /\ next = 1 /\ last = 0
    /\ backoff = InitialBackoff
    /\ stopped = FALSE /\ cancelled = FALSE
    /\ joined = [h \in Handler |-> StartCursor]
    /\ heard = [h \in Handler |-> {}]
    /\ owed = {}
    /\ failures = 0 /\ crashes = 0

\* Where a stream that is opened at cursor c begins.
Opened(c) == IF c = Now THEN Len(ledger) ELSE c

Wants(h, p) == ledger[p] \in Filter[h]

-----------------------------------------------------------------------------
(* The rest of the world. *)

Pay ==
    /\ Len(ledger) < MaxLedger
    /\ \E op \in Account \cup {Other} : ledger' = Append(ledger, op)
    /\ UNCHANGED <<handlers, cursor, saved, pc, pos, next, last, backoff, stopped,
                   cancelled, joined, heard, owed, failures, crashes>>

\* The callback in progress has its own copy of the slice: a handler that is
\* registered meanwhile is behind the last it runs.
OnPayment(h) ==
    /\ \A i \in 1..Len(handlers) : handlers[i] # h
    /\ handlers' = Append(handlers, h)
    /\ joined' = [joined EXCEPT ![h] = pos]
    /\ UNCHANGED <<settings, cursor, saved, pc, pos, next, last, backoff, heard, owed>>

Stop ==
    /\ ~stopped
    /\ stopped' = TRUE
    /\ UNCHANGED <<ledger, handlers, cursor, saved, pc, pos, next, last, backoff,
                   cancelled, joined, heard, owed, failures, crashes>>

Cancel ==
    /\ pc # "down"
    /\ ~cancelled
    /\ cancelled' = TRUE
    /\ UNCHANGED <<ledger, handlers, cursor, saved, pc, pos, next, last, backoff,
                   stopped, joined, heard, owed, failures, crashes>>

\* A new process, with a new observer at the cursor that was saved.
Crash ==
    /\ crashes < MaxCrashes
    /\ crashes' = crashes + 1
    /\ handlers' = <<>>
    /\ cursor' = saved
    /\ pc' = "down"
    /\ pos' = saved
    /\ next' = 1 /\ last' = 0
    /\ backoff' = InitialBackoff
    /\ stopped' = FALSE /\ cancelled' = FALSE
    /\ joined' = [h \in Handler |-> saved]
    /\ heard' = [h \in Handler |-> {}]
    /\ owed' = {}
    /\ UNCHANGED <<ledger, saved, failures>>

-----------------------------------------------------------------------------
(* Start. *)

Start ==
    /\ pc = "down"
    /\ pc' = "check"
    /\ backoff' = InitialBackoff
    /\ cancelled' = FALSE
    /\ UNCHANGED <<ledger, handlers, cursor, saved, pos, next, last, stopped,
                   joined, heard, owed, failures, crashes>>

\* MUTANT: break leaves the select and not the loop.
LeaveBreaks ==
    /\ pc \in {"check", "ended", "wait"}
    /\ stopped \/ cancelled
    /\ pc' = "check"
    /\ UNCHANGED <<settings, handlers, cursor, saved, pos, next, last, backoff,
                   joined, heard, owed>>

\* The three places that look at the stop channel and the context.
Leave ==
    /\ pc \in {"check", "ended", "wait"}
    /\ stopped \/ cancelled
    /\ pc' = "down"
    /\ UNCHANGED <<settings, handlers, cursor, saved, pos, next, last, backoff,
                   joined, heard, owed>>

\* MUTANT: a new stream begins where the saver got to.
ResumeFrom == saved

Resume == cursor

Connect ==
    /\ pc = "check"
    /\ ~stopped /\ ~cancelled
    /\ pc' = "stream"
    /\ pos' = Opened(Resume)
    /\ joined' = [h \in Handler |-> IF joined[h] = Now THEN pos' ELSE joined[h]]
    /\ UNCHANGED <<settings, handlers, cursor, saved, next, last, backoff, heard, owed>>

\* The callback: a payment goes on to the handlers registered by now.
ReceivePayment ==
    /\ pc = "stream"
    /\ pos < Len(ledger)
    /\ ledger[pos + 1] # Other
    /\ pos' = pos + 1
    /\ pc' = "handle"
    /\ next' = 1
    /\ last' = Len(handlers)
    /\ backoff' = InitialBackoff
    /\ owed' = owed \cup
          {m \in Handler \X {pos'} : /\ Wants(m[1], m[2])
                                     /\ \E i \in 1..Len(handlers) : handlers[i] = m[1]}
    /\ UNCHANGED <<settings, handlers, cursor, saved, joined, heard>>

\* convertToPaymentEvent returns nil: the cursor stays where it is.
SkipOther ==
    /\ pc = "stream"
    /\ pos < Len(ledger)
    /\ ledger[pos + 1] = Other
    /\ pos' = pos + 1
    /\ backoff' = InitialBackoff
    /\ UNCHANGED <<settings, handlers, cursor, saved, pc, next, last, joined, heard, owed>>

\* processEvent: one handler, if the payment passes its filters.
Handle ==
    /\ pc = "handle"
    /\ next <= last
    /\ next' = next + 1
    /\ LET h == handlers[next]
       IN /\ heard' = IF Wants(h, pos) THEN [heard EXCEPT ![h] = @ \cup {pos}] ELSE heard
          /\ owed' = owed \ {<<h, pos>>}
    /\ UNCHANGED <<settings, handlers, cursor, saved, pc, pos, last, backoff, joined>>

\* MUTANT: the payment counts as processed before its last handler has run.
AdvanceEarly ==
    /\ pc = "handle"
    /\ next >= last
    /\ cursor' = pos
    /\ pc' = "save"
    /\ UNCHANGED <<settings, handlers, saved, pos, next, last, backoff, joined,
                   heard, owed>>

Advance ==
    /\ pc = "handle"
    /\ next > last
    /\ cursor' = pos
    /\ pc' = "save"
    /\ UNCHANGED <<settings, handlers, saved, pos, next, last, backoff, joined,
                   heard, owed>>

\* The saver, if there is one, persists the cursor or fails.
Save ==
    /\ pc = "save"
    /\ pc' = "stream"
    /\ saved' \in {saved, pos}
    /\ UNCHANGED <<settings, handlers, cursor, pos, next, last, backoff, joined,
                   heard, owed>>

\* The client returns nil only when its context is cancelled.
StreamEnds ==
    /\ pc = "stream"
    /\ cancelled
    /\ pc' = "down"
    /\ UNCHANGED <<settings, handlers, cursor, saved, pos, next, last, backoff,
                   joined, heard, owed>>

StreamFails ==
    /\ pc = "stream"
    /\ failures < MaxFailures
    /\ failures' = failures + 1
    /\ pc' = "ended"
    /\ UNCHANGED <<ledger, handlers, cursor, saved, pos, next, last, backoff,
                   stopped, cancelled, joined, heard, owed, crashes>>

StartWaiting ==
    /\ pc = "ended"
    /\ ~stopped /\ ~cancelled
    /\ pc' = "wait"
    /\ UNCHANGED <<settings, handlers, cursor, saved, pos, next, last, backoff,
                   joined, heard, owed>>

Doubled(b) == IF 2 * b > MaxBackoff THEN MaxBackoff ELSE 2 * b

\* MUTANT: the wait over, the loop waits again instead of reconnecting.
RetryNothing ==
    /\ pc = "wait"
    /\ pc' = "ended"
    /\ backoff' = Doubled(backoff)
    /\ UNCHANGED <<settings, handlers, cursor, saved, pos, next, last, joined,
                   heard, owed>>

\* The timer fires; if the stop channel or the context is ready as well, the
\* select may still take it.
Retry ==
    /\ pc = "wait"
    /\ pc' = "check"
    /\ backoff' = Doubled(backoff)
    /\ UNCHANGED <<settings, handlers, cursor, saved, pos, next, last, joined,
                   heard, owed>>

-----------------------------------------------------------------------------
Proceed ==
    \/ Leave \/ Connect
    \/ ReceivePayment \/ SkipOther \/ Handle \/ Advance \/ Save
    \/ StreamEnds \/ StartWaiting \/ Retry

Next ==
    \/ Pay \/ Stop \/ Cancel \/ Crash
    \/ \E h \in Handler : OnPayment(h)
    \/ Start \/ Proceed \/ StreamFails

Spec == Init /\ [][Next]_vars
-----------------------------------------------------------------------------
(* Properties. *)

Positions == 1..Len(ledger)

TypeOK ==
    /\ ledger \in Seq(Account \cup {Other}) /\ Len(ledger) <= MaxLedger
    /\ handlers \in Seq(Handler)
    /\ cursor \in Cursors /\ saved \in Cursors /\ pos \in Cursors
    /\ pc \in Steps
    /\ next \in Nat \ {0} /\ last \in Nat
    /\ backoff \in {InitialBackoff} \cup 1..MaxBackoff
    /\ stopped \in BOOLEAN /\ cancelled \in BOOLEAN
    /\ joined \in [Handler -> Cursors]
    /\ heard \in [Handler -> SUBSET (1..MaxLedger)]
    /\ owed \subseteq Handler \X (1..MaxLedger)
    /\ failures \in 0..MaxFailures /\ crashes \in 0..MaxCrashes

\* Handler h is among those the callback has still to run.
Pending(h) == pc = "handle" /\ \E i \in next..last : handlers[i] = h

\* Over any number of broken streams and restarts of Start a handler gets,
\* from where it registered, every payment its filters pass, once and in order:
\* what it has heard is all there was up to where the stream is, and not the
\* payment it is about to get (horizon.go:132-163).
ExactlyOnce ==
    \A i \in 1..Len(handlers) :
        LET h == handlers[i] IN
        joined[h] # Now /\ pos # Now =>
          heard[h] = {p \in Positions : /\ joined[h] < p /\ p <= pos
                                        /\ p # pos \/ ~Pending(h)
                                        /\ Wants(h, p)}

\* Whenever the process dies, the persisted cursor does not cover a payment that
\* a handler was to get and did not: the next process receives it again
\* (horizon.go:51, "of the last successfully processed payment").
SavedIsHandled ==
    saved # Now => \A m \in owed : m[2] > saved

\* Start returns when its context is cancelled, wherever it is.
CancelEndsStart == cancelled ~> (pc = "down")
=============================================================================

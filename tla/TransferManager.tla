--------------------------- MODULE TransferManager ---------------------------
(***************************************************************************)
(* anchor.TransferManager over the in-memory transfer store.  Goroutines   *)
(* (Caller) call its methods concurrently; a call is a record that moves   *)
(* from step to step of the method's code, one action per stretch of code  *)
(* between two points where another goroutine can get in.                  *)
(*                                                                         *)
(*   an Initiate call      save -> [lock .. ] -> announce -> ok            *)
(*   CompleteInteractive   load -> lock ..                                 *)
(*   Notify*, Deny, Cancel lock -> check -> write -> details -> own ->     *)
(*                         changed -> ok                                   *)
(*   a token call          token -> find -> ok                             *)
(*                                                                         *)
(* A call that returns an error goes back to Idle, one that returns nil    *)
(* stays "ok" until its goroutine makes the next call.  The steps from     *)
(* check to changed run under the transfer's mutex; the deferred Unlock is *)
(* part of the step that returns.  IDs and tokens are random and unique:   *)
(* the token of a transfer is named by the transfer's ID.  Amounts,        *)
(* messages, metadata and times are abstracted, except whether CompletedAt *)
(* is set.  Requests with blank fields, refused before anything happens,   *)
(* are not modelled.                                                       *)
(***************************************************************************)
EXTENDS TransferFSM, Naturals, Sequences

CONSTANTS Caller,     \* goroutines
          Id,         \* IDs that transfers get
          Ref,        \* Stellar transaction hashes and bank references
          NoRef,      \* the empty reference
          NoId,       \* an ID or a token that belongs to no transfer
          Unknown,    \* bound: {NoId} if callers also name what does not exist
          Operation,  \* the methods the host calls
          Fault,      \* subset of {"store", "panic", "crash"}
          MaxCrashes  \* bound: crashes in a run

Initiations == {"InitiateDeposit", "InitiateWithdrawal"}
TokenCalls == {"PeekInteractiveToken", "ConsumeInteractiveToken"}
Transitions == {"CompleteInteractive", "Deny", "Cancel",
                "NotifyFundsReceived", "NotifyPaymentReceived",
                "NotifyPaymentSent", "NotifyDisbursementSent"}
Operations == Initiations \cup TokenCalls \cup Transitions

ASSUME ConstantsAssumption ==
    /\ NoRef \notin Ref
    /\ NoId \notin Id
    /\ Unknown \subseteq {NoId}
    /\ Operation \subseteq Operations
    /\ Fault \subseteq {"store", "panic", "crash"}
    /\ MaxCrashes \in Nat

VARIABLES transfers,   \* the store: ID -> transfer record
          tokenToID,   \* IDs whose interactive token is in the token map
          locked,      \* IDs whose mutex in transferLocks is held
          call,        \* what each goroutine is doing
          events,      \* for each ID, the hook triggers handlers have seen
          crashes      \* how often the process has crashed

vars == <<transfers, tokenToID, locked, call, events, crashes>>

Absent == [kind |-> "none", mode |-> "none", status |-> "none",
           txHash |-> NoRef, externalRef |-> NoRef, completedAt |-> FALSE]

Idle == [op |-> "none", pc |-> "idle", id |-> NoId, mode |-> "none",
         ref |-> NoRef, next |-> "none"]

\* The record of a new transfer.
Born(kind, mode) ==
    [kind |-> kind, mode |-> mode, status |-> BirthStatus(kind, mode),
     txHash |-> NoRef, externalRef |-> NoRef, completedAt |-> FALSE]

Transfer == [kind: Kinds, mode: Modes, status: Statuses,
             txHash: Ref \cup {NoRef}, externalRef: Ref \cup {NoRef},
             completedAt: BOOLEAN]

Hooks == {"deposit:initiated", "withdrawal:initiated",
          "deposit:funds_received", "withdrawal:stellar_payment_sent",
          "transfer:status_changed"}

Steps == {"idle", "save", "load", "token", "find", "lock", "check", "write",
          "details", "own", "changed", "announce", "ok"}

CallRecord == [op: Operations \cup {"none"}, pc: Steps, id: Id \cup {NoId},
               mode: Modes \cup {"none"}, ref: Ref \cup {NoRef},
               next: Statuses \cup {"none"}]

Event == [hook: Hooks, status: Statuses]

\* The steps that run with the transfer's mutex held.
Critical == {"check", "write", "details", "own", "changed"}

Init ==
    /\ transfers = [id \in Id |-> Absent]
    /\ tokenToID = {}
    /\ locked = {}
    /\ call = [c \in Caller |-> Idle]
    /\ events = [id \in Id |-> <<>>]
    /\ crashes = 0

-----------------------------------------------------------------------------
Exists(id) == id \in Id /\ transfers[id].status # "none"

Fresh(id) ==
    /\ ~Exists(id)
    /\ id \notin tokenToID
    /\ \A c \in Caller : call[c].id # id

\* What callers can name: a saved transfer, or (NoId) something that is no
\* transfer. Nobody can guess an ID or a token that has not been given out.
Nameable == {id \in Id : Exists(id)} \cup Unknown

\* The store's RWMutex is held across the two writes of Update; its other
\* critical sections are single steps.
StoreFree == \A c \in Caller : call[c].pc # "details"

KindOf(op) == IF op = "InitiateDeposit" THEN "deposit" ELSE "withdrawal"

\* The status the Notify*, Deny and Cancel methods ask for.
Requested(op) ==
    CASE op \in {"NotifyFundsReceived", "NotifyPaymentReceived"} -> "pending_stellar"
      [] op \in {"NotifyPaymentSent", "NotifyDisbursementSent"} -> "completed"
      [] op = "Deny" -> "denied"
      [] op = "Cancel" -> "cancelled"
      [] OTHER -> "none"

\* The hook updateAndTransition triggers before transfer:status_changed.
OwnHook(op) ==
    CASE op = "NotifyFundsReceived" -> "deposit:funds_received"
      [] op = "NotifyPaymentReceived" -> "withdrawal:stellar_payment_sent"
      [] op \in {"NotifyPaymentSent", "NotifyDisbursementSent"} ->
             "transfer:status_changed"
      [] OTHER -> "none"

\* MUTANT: CompletedAt left out of the update.
AppliedUnstamped(t, k) ==
    [kind |-> t.kind, mode |-> t.mode, status |-> k.next,
     txHash |-> IF k.op \in {"NotifyPaymentSent", "NotifyPaymentReceived"}
                THEN k.ref ELSE t.txHash,
     externalRef |-> IF k.op \in {"NotifyFundsReceived", "NotifyDisbursementSent"}
                     THEN k.ref ELSE t.externalRef,
     completedAt |-> t.completedAt]

\* A transfer after the update that call k makes.
Applied(t, k) ==
    [kind |-> t.kind, mode |-> t.mode, status |-> k.next,
     txHash |-> IF k.op \in {"NotifyPaymentSent", "NotifyPaymentReceived"}
                THEN k.ref ELSE t.txHash,
     externalRef |-> IF k.op \in {"NotifyFundsReceived", "NotifyDisbursementSent"}
                     THEN k.ref ELSE t.externalRef,
     completedAt |-> IF k.next = "completed" THEN TRUE ELSE t.completedAt]

Goto(c, step) == call' = [call EXCEPT ![c].pc = step]
Fail(c) == call' = [call EXCEPT ![c] = Idle]

\* Handlers get a pointer to the stored transfer: they see its current status.
Trigger(hook, id) ==
    events' = [events EXCEPT ![id] =
                 Append(@, [hook |-> hook, status |-> transfers[id].status])]

-----------------------------------------------------------------------------
(* The methods' first steps. *)

\* Interactive mode has a token, which enters the token map before the
\* transfer is saved.
WithToken(id, mode) ==
    IF mode = "interactive" THEN tokenToID \cup {id} ELSE tokenToID

Initiate(c) ==
    /\ call[c].pc \in {"idle", "ok"}
    /\ \E op \in Initiations \cap Operation, id \in Id, mode \in Modes :
         /\ Fresh(id)
         /\ tokenToID' = WithToken(id, mode)
         /\ call' = [call EXCEPT ![c] =
              [op |-> op, pc |-> "save", id |-> id, mode |-> mode,
               ref |-> NoRef, next |-> "none"]]
    /\ UNCHANGED <<transfers, locked, events, crashes>>

CallTransition(c) ==
    /\ call[c].pc \in {"idle", "ok"}
    /\ \E op \in Transitions \cap Operation, id \in Nameable, ref \in Ref :
         call' = [call EXCEPT ![c] =
            [op |-> op, id |-> id, mode |-> "none", next |-> Requested(op),
             pc |-> IF op = "CompleteInteractive" THEN "load" ELSE "lock",
             ref |-> IF op \in {"CompleteInteractive", "Deny", "Cancel"}
                     THEN NoRef ELSE ref]]
    /\ UNCHANGED <<transfers, tokenToID, locked, events, crashes>>

CallToken(c) ==
    /\ call[c].pc \in {"idle", "ok"}
    /\ \E op \in TokenCalls \cap Operation, id \in Nameable :
         call' = [call EXCEPT ![c] =
            [op |-> op, pc |-> "token", id |-> id, mode |-> "none",
             ref |-> NoRef, next |-> "none"]]
    /\ UNCHANGED <<transfers, tokenToID, locked, events, crashes>>

-----------------------------------------------------------------------------
(* InitiateDeposit and InitiateWithdrawal after the ID is generated. *)

\* A deposit outside interactive mode goes on to transition(); the others
\* have nothing left but their hook.
Save(c) ==
    /\ call[c].pc = "save"
    /\ StoreFree
    /\ LET k == call[c]  kind == KindOf(k.op)
           direct == k.mode # "interactive" /\ kind = "deposit"
       IN /\ transfers' = [transfers EXCEPT ![k.id] = Born(kind, k.mode)]
          /\ call' = [call EXCEPT
                ![c].pc = IF direct THEN "lock" ELSE "announce",
                ![c].next = IF direct THEN "pending_external" ELSE "none"]
    /\ UNCHANGED <<tokenToID, locked, events, crashes>>

\* The initiated hook runs without the transfer's mutex.
Announce(c) ==
    /\ call[c].pc = "announce"
    /\ Trigger(IF call[c].op = "InitiateDeposit" THEN "deposit:initiated"
               ELSE "withdrawal:initiated", call[c].id)
    /\ Goto(c, "ok")
    /\ UNCHANGED <<transfers, tokenToID, locked, crashes>>

-----------------------------------------------------------------------------
(* CompleteInteractive before it calls transition(): an unlocked read. *)

IsInteractive(id) == Exists(id) /\ transfers[id].mode = "interactive"

Load(c) ==
    /\ call[c].pc = "load"
    /\ StoreFree
    /\ IsInteractive(call[c].id)
    /\ call' = [call EXCEPT
          ![c].pc = "lock",
          ![c].next = IF transfers[call[c].id].kind = "deposit"
                      THEN "pending_user_transfer_start" ELSE "pending_external"]
    /\ UNCHANGED <<transfers, tokenToID, locked, events, crashes>>

LoadFails(c) ==
    /\ call[c].pc = "load"
    /\ StoreFree
    /\ IsInteractive(call[c].id) => "store" \in Fault
    /\ Fail(c)
    /\ UNCHANGED <<transfers, tokenToID, locked, events, crashes>>

-----------------------------------------------------------------------------
(* transition() and updateAndTransition(). *)

\* MUTANT: no per-transfer mutex.
LockNothing(c) ==
    /\ call[c].pc = "lock"
    /\ Goto(c, "check")
    /\ UNCHANGED <<transfers, tokenToID, locked, events, crashes>>

Lock(c) ==
    /\ call[c].pc = "lock"
    /\ call[c].id \notin locked
    /\ locked' = locked \cup {call[c].id}
    /\ Goto(c, "check")
    /\ UNCHANGED <<transfers, tokenToID, events, crashes>>

MayMove(c) ==
    /\ Exists(call[c].id)
    /\ ValidateTransition(transfers[call[c].id].status, call[c].next)

Check(c) ==
    /\ call[c].pc = "check"
    /\ StoreFree
    /\ MayMove(c)
    /\ Goto(c, "write")
    /\ UNCHANGED <<transfers, tokenToID, locked, events, crashes>>

\* MUTANT: the early return does not unlock.
CheckFailsLocked(c) ==
    /\ call[c].pc = "check"
    /\ StoreFree
    /\ ~MayMove(c)
    /\ Fail(c)
    /\ UNCHANGED <<transfers, tokenToID, locked, events, crashes>>

CheckFails(c) ==
    /\ call[c].pc = "check"
    /\ StoreFree
    /\ MayMove(c) => "store" \in Fault
    /\ locked' = locked \ {call[c].id}
    /\ Fail(c)
    /\ UNCHANGED <<transfers, tokenToID, events, crashes>>

\* store.Update writes the fields one by one, the status first.
WriteStatus(c) ==
    /\ call[c].pc = "write"
    /\ StoreFree
    /\ transfers' = [transfers EXCEPT ![call[c].id].status = call[c].next]
    /\ Goto(c, "details")
    /\ UNCHANGED <<tokenToID, locked, events, crashes>>

WriteDetails(c) ==
    /\ call[c].pc = "details"
    /\ transfers' = [transfers EXCEPT ![call[c].id] = Applied(@, call[c])]
    /\ Goto(c, "own")
    /\ UNCHANGED <<tokenToID, locked, events, crashes>>

\* The reload before the hooks; transition() has no hook of its own.
TriggerOwn(c) ==
    /\ call[c].pc = "own"
    /\ StoreFree
    /\ IF OwnHook(call[c].op) = "none" THEN UNCHANGED events
       ELSE Trigger(OwnHook(call[c].op), call[c].id)
    /\ Goto(c, "changed")
    /\ UNCHANGED <<transfers, tokenToID, locked, crashes>>

\* MUTANT: the general hook only where there is no hook of its own.
TriggerChangedElse(c) ==
    /\ call[c].pc = "changed"
    /\ IF OwnHook(call[c].op) # "none" THEN UNCHANGED events
       ELSE Trigger("transfer:status_changed", call[c].id)
    /\ locked' = locked \ {call[c].id}
    /\ Goto(c, IF call[c].op = "InitiateDeposit" THEN "announce" ELSE "ok")
    /\ UNCHANGED <<transfers, tokenToID, crashes>>

\* The last hook, then the mutex is released; InitiateDeposit goes on to its
\* own hook, the other methods return nil.
TriggerChanged(c) ==
    /\ call[c].pc = "changed"
    /\ Trigger("transfer:status_changed", call[c].id)
    /\ locked' = locked \ {call[c].id}
    /\ Goto(c, IF call[c].op = "InitiateDeposit" THEN "announce" ELSE "ok")
    /\ UNCHANGED <<transfers, tokenToID, crashes>>

-----------------------------------------------------------------------------
(* PeekInteractiveToken, ConsumeInteractiveToken, VerifyInteractiveToken. *)

\* MUTANT: consuming a token leaves it in the map.
LookupTokenKept(c) ==
    /\ call[c].pc = "token"
    /\ call[c].id \in tokenToID
    /\ Goto(c, "find")
    /\ UNCHANGED <<transfers, tokenToID, locked, events, crashes>>

LookupToken(c) ==
    /\ call[c].pc = "token"
    /\ call[c].id \in tokenToID
    /\ tokenToID' = IF call[c].op = "ConsumeInteractiveToken"
                    THEN tokenToID \ {call[c].id} ELSE tokenToID
    /\ Goto(c, "find")
    /\ UNCHANGED <<transfers, locked, events, crashes>>

UnknownToken(c) ==
    /\ call[c].pc = "token"
    /\ call[c].id \notin tokenToID
    /\ Fail(c)
    /\ UNCHANGED <<transfers, tokenToID, locked, events, crashes>>

FindForToken(c) ==
    /\ call[c].pc = "find"
    /\ StoreFree
    /\ Exists(call[c].id)
    /\ Goto(c, "ok")
    /\ UNCHANGED <<transfers, tokenToID, locked, events, crashes>>

FindForTokenFails(c) ==
    /\ call[c].pc = "find"
    /\ StoreFree
    /\ Exists(call[c].id) => "store" \in Fault
    /\ Fail(c)
    /\ UNCHANGED <<transfers, tokenToID, locked, events, crashes>>

-----------------------------------------------------------------------------
(* Faults: a store that returns errors, a handler that panics, a crash. *)

\* The token of an interactive transfer that was never saved stays behind.
SaveFails(c) ==
    /\ "store" \in Fault
    /\ call[c].pc = "save"
    /\ StoreFree
    /\ Fail(c)
    /\ UNCHANGED <<transfers, tokenToID, locked, events, crashes>>

UpdateFails(c) ==
    /\ "store" \in Fault
    /\ call[c].pc = "write"
    /\ StoreFree
    /\ locked' = locked \ {call[c].id}
    /\ Fail(c)
    /\ UNCHANGED <<transfers, tokenToID, events, crashes>>

\* The transfer has moved, no hook runs, and the method still returns nil.
ReloadFails(c) ==
    /\ "store" \in Fault
    /\ call[c].pc = "own"
    /\ StoreFree
    /\ locked' = locked \ {call[c].id}
    /\ Goto(c, IF call[c].op = "InitiateDeposit" THEN "announce" ELSE "ok")
    /\ UNCHANGED <<transfers, tokenToID, events, crashes>>

\* MUTANT: the Unlock is not deferred.
HandlerPanicsLocked(c) ==
    /\ "panic" \in Fault
    /\ call[c].pc \in {"own", "changed", "announce"}
    /\ Fail(c)
    /\ UNCHANGED <<transfers, tokenToID, locked, events, crashes>>

\* A panic in a handler unwinds the method through the deferred Unlock and is
\* recovered by the caller (net/http recovers a panic of a request handler).
HandlerPanics(c) ==
    /\ "panic" \in Fault
    /\ call[c].pc \in {"own", "changed", "announce"}
    /\ call[c].pc = "own" => OwnHook(call[c].op) # "none"
    /\ locked' = IF call[c].pc \in Critical THEN locked \ {call[c].id} ELSE locked
    /\ Fail(c)
    /\ UNCHANGED <<transfers, tokenToID, events, crashes>>

\* A restart over a persistent store, whose updates are all or nothing: the
\* mutexes, the token map and the calls in progress are gone.
Crash ==
    /\ "crash" \in Fault
    /\ crashes < MaxCrashes
    /\ StoreFree
    /\ crashes' = crashes + 1
    /\ call' = [c \in Caller |-> Idle]
    /\ locked' = {}
    /\ tokenToID' = {}
    /\ UNCHANGED <<transfers, events>>

-----------------------------------------------------------------------------
Start(c) == Initiate(c) \/ CallTransition(c) \/ CallToken(c)

\* What a goroutine inside a method does next.
Advance(c) ==
    \/ Save(c) \/ Announce(c)
    \/ Load(c) \/ LoadFails(c)
    \/ Lock(c) \/ Check(c) \/ CheckFails(c)
    \/ WriteStatus(c) \/ WriteDetails(c)
    \/ TriggerOwn(c) \/ TriggerChanged(c)
    \/ LookupToken(c) \/ UnknownToken(c)
    \/ FindForToken(c) \/ FindForTokenFails(c)

Disturb(c) ==
    SaveFails(c) \/ UpdateFails(c) \/ ReloadFails(c) \/ HandlerPanics(c)

Next == (\E c \in Caller : Start(c) \/ Advance(c) \/ Disturb(c)) \/ Crash

\* The Go scheduler runs every goroutine that can run, and a sync.Mutex in
\* starvation mode is handed to the goroutine that has waited longest.
Fairness == \A c \in Caller : WF_vars(Advance(c)) /\ SF_vars(Lock(c))

Spec == Init /\ [][Next]_vars
FairSpec == Spec /\ Fairness
-----------------------------------------------------------------------------
(* Properties. *)

TypeOK ==
    /\ transfers \in [Id -> Transfer \cup {Absent}]
    /\ tokenToID \subseteq Id
    /\ locked \subseteq Id \cup {NoId}
    /\ call \in [Caller -> CallRecord]
    /\ events \in [Id -> Seq(Event)]
    /\ crashes \in 0..MaxCrashes

\* Call c has changed the status of its transfer, or has returned after that.
Accepted(c) ==
    /\ call[c].next # "none"
    /\ call[c].pc \in {"details", "own", "changed", "announce", "ok"}

\* Two calls that both moved a transfer moved it to different statuses: of two
\* racing or duplicated notifications, or a Cancel and its retry, at most one
\* is accepted (updateAndTransition and transition hold the transfer's mutex
\* from FindByID to Update).
NoMoveAcceptedTwice ==
    \A c, d \in Caller :
        /\ c # d
        /\ Accepted(c) /\ Accepted(d)
        /\ call[c].id = call[d].id
        => call[c].next # call[d].next

\* Once NotifyPaymentSent or NotifyDisbursementSent has returned nil the
\* transfer is completed for good, stamped, with the reference of that call:
\* no later or concurrent call reopens it or overwrites the reference.
CompletionIsFinal ==
    \A c \in Caller :
        call[c].pc = "ok" =>
          /\ call[c].op = "NotifyPaymentSent" =>
                /\ transfers[call[c].id].status = "completed"
                /\ transfers[call[c].id].completedAt
                /\ transfers[call[c].id].txHash = call[c].ref
          /\ call[c].op = "NotifyDisbursementSent" =>
                /\ transfers[call[c].id].status = "completed"
                /\ transfers[call[c].id].completedAt
                /\ transfers[call[c].id].externalRef = call[c].ref

\* Of two ConsumeInteractiveToken calls on one token at most one gets past the
\* token map, and then the token is dead for everybody.
TokenGrantedOnce ==
    \A c \in Caller :
        /\ call[c].op = "ConsumeInteractiveToken"
        /\ call[c].pc \in {"find", "ok"}
        => /\ call[c].id \notin tokenToID
           /\ \A d \in Caller \ {c} :
                 ~ /\ call[d].op = "ConsumeInteractiveToken"
                   /\ call[d].pc \in {"find", "ok"}
                   /\ call[d].id = call[c].id

\* A mutex is held only by a call that is between Lock and return: an error, a
\* panic or a crash never leaves a transfer locked.
NoOrphanLock ==
    locked = {call[c].id : c \in {d \in Caller : call[d].pc \in Critical}}

\* The positions of the transfer:status_changed triggers among those that
\* handlers have seen, and the last of some positions.
StatusChanges(seen) == {i \in DOMAIN seen : seen[i].hook = "transfer:status_changed"}
Latest(positions) == CHOOSE i \in positions : \A j \in positions : j <= i

\* The last status that the transfer:status_changed handlers were given.
LastHeard(id) ==
    LET heard == StatusChanges(events[id])
    IN IF heard = {} THEN BirthStatus(transfers[id].kind, transfers[id].mode)
       ELSE events[id][Latest(heard)].status

\* Whenever no call is between its Update and its last hook, the handlers have
\* been told the transfer's current status: as hooks run under the mutex, no
\* change is announced late, in the wrong order, or after the next one.
HandlersUpToDate ==
    \A id \in Id :
        /\ Exists(id)
        /\ \A c \in Caller : call[c].id = id =>
              call[c].pc \notin {"details", "own", "changed"}
        => LastHeard(id) = transfers[id].status

\* Without faults a deposit is in "initiating", a status no later call can move
\* it out of except Deny, only while the InitiateDeposit that saved it is
\* still on its way to transition().
NoOrphanDeposit ==
    \A id \in Id :
        Exists(id) /\ transfers[id].status = "initiating" =>
          \E c \in Caller : /\ call[c].op = "InitiateDeposit"
                            /\ call[c].id = id
                            /\ call[c].pc \in {"lock", "check", "write"}

\* Every call returns, when handlers return: no path leaves a mutex behind and
\* no set of calls waits on each other.
EveryCallReturns ==
    \A c \in Caller : (call[c].pc \notin {"idle", "ok"}) ~>
                      (call[c].pc \in {"idle", "ok"})

\* The record the rest of the world may rely on: an update counts from its
\* first write, as nothing but a torn read sees it half done.
Shown(id) ==
    IF \E c \in Caller : call[c].pc = "details" /\ call[c].id = id
    THEN Applied(transfers[id],
           call[CHOOSE c \in Caller : call[c].pc = "details" /\ call[c].id = id])
    ELSE transfers[id]

Lifecycle == INSTANCE TransferLifecycle WITH record <- [id \in Id |-> Shown(id)]

\* The manager implements the abstract lifecycle: under any interleaving and
\* any fault each transfer changes by atomic, legal moves.
ImplementsLifecycle == Lifecycle!Spec
=============================================================================

----------------------- MODULE TransferManager_proofs -----------------------
(***************************************************************************)
(* Proofs about TransferManager, for any sets of goroutines, transfers and *)
(* references, any set of methods called and any set of faults.            *)
(***************************************************************************)
EXTENDS TransferManager, TLAPS, SequenceTheorems, WellFoundedInduction

\* At most one call is between Lock and Unlock of a transfer, and the mutex is
\* held meanwhile.
MutexOK ==
    \A c \in Caller :
        call[c].pc \in Critical =>
          /\ call[c].id \in locked
          /\ \A d \in Caller :
                d # c /\ call[d].pc \in Critical => call[d].id # call[c].id

\* The notifications that complete a transfer.
Completions == {"NotifyPaymentSent", "NotifyDisbursementSent"}

\* What a call knows at each of its steps. "write" is the point: nobody can
\* have moved the transfer since check.
CallOK(c) ==
    /\ call[c].pc \in Critical \cup {"lock"} => call[c].next \in Statuses
    /\ call[c].pc = "save" => /\ call[c].op \in Initiations
                              /\ call[c].id \in Id
                              /\ call[c].mode \in Modes
                              /\ ~Exists(call[c].id)
                              /\ \A d \in Caller \ {c} :
                                    call[d].pc = "save" => call[d].id # call[c].id
    /\ call[c].pc \in {"write", "details", "own", "changed", "announce"} =>
          Exists(call[c].id)
    /\ call[c].pc = "write" => MayMove(c)
    /\ call[c].pc = "details" => transfers[call[c].id].status = call[c].next
    /\ call[c].op \in Completions =>
          call[c].next = "completed" /\ call[c].pc # "load"
    /\ call[c].pc \in {"token", "find"} => call[c].next = "none"
    /\ call[c].op \in TokenCalls => call[c].pc \in {"token", "find", "ok"}

CallsOK == \A c \in Caller : CallOK(c)

BasicInv == TypeOK /\ MutexOK /\ CallsOK

-----------------------------------------------------------------------------
(* What the helpers return. *)

LEMMA BirthType ==
    ASSUME NEW kind \in Kinds, NEW mode \in Modes
    PROVE  /\ BirthStatus(kind, mode) \in Statuses
           /\ Born(kind, mode) \in Transfer
<1>1. BirthStatus(kind, mode) \in Statuses
  BY DEF BirthStatus, Kinds, Modes, Statuses
<1> QED
  BY <1>1 DEF Born, Transfer

LEMMA RequestedType ==
    ASSUME NEW op \in Transitions
    PROVE  /\ Requested(op) \in Statuses \cup {"none"}
           /\ op # "CompleteInteractive" => Requested(op) \in Statuses
BY DEF Requested, Transitions, Statuses, Terminal

LEMMA AppliedType ==
    ASSUME NEW t \in Transfer, NEW k \in CallRecord, k.next \in Statuses
    PROVE  Applied(t, k) \in Transfer
BY DEF Applied, Transfer, CallRecord

LEMMA CallParts ==
    ASSUME NEW k \in CallRecord
    PROVE  /\ k.op \in Operations \cup {"none"} /\ k.pc \in Steps
           /\ k.id \in Id \cup {NoId} /\ k.mode \in Modes \cup {"none"}
           /\ k.ref \in Ref \cup {NoRef} /\ k.next \in Statuses \cup {"none"}
BY DEF CallRecord

LEMMA IdleType == Idle \in CallRecord
BY DEF Idle, CallRecord, Steps

LEMMA GotoType ==
    ASSUME NEW c \in Caller, NEW step \in Steps, call \in [Caller -> CallRecord],
           Goto(c, step)
    PROVE  /\ call' \in [Caller -> CallRecord]
           /\ call'[c] = [call[c] EXCEPT !.pc = step]
           /\ \A d \in Caller \ {c} : call'[d] = call[d]
<1>1. [call[c] EXCEPT !.pc = step] \in CallRecord
  BY DEF CallRecord
<1> QED
  BY <1>1 DEF Goto

LEMMA FailType ==
    ASSUME NEW c \in Caller, call \in [Caller -> CallRecord], Fail(c)
    PROVE  /\ call' \in [Caller -> CallRecord]
           /\ call'[c] = Idle
           /\ \A d \in Caller \ {c} : call'[d] = call[d]
BY IdleType DEF Fail

LEMMA TriggerType ==
    ASSUME TypeOK, NEW id \in Id, Exists(id), NEW hook \in Hooks, Trigger(hook, id)
    PROVE  events' \in [Id -> Seq(Event)]
<1>1. transfers[id].status \in Statuses
  BY DEF TypeOK, Exists, Transfer, Absent
<1>2. [hook |-> hook, status |-> transfers[id].status] \in Event
  BY <1>1 DEF Event
<1>3. Append(events[id], [hook |-> hook, status |-> transfers[id].status]) \in Seq(Event)
  BY <1>2, AppendProperties DEF TypeOK
<1> QED
  BY <1>3 DEF TypeOK, Trigger

\* A transfer that exists has a proper record.
LEMMA ExistsType ==
    ASSUME TypeOK, NEW id, Exists(id)
    PROVE  id \in Id /\ transfers[id] \in Transfer
BY DEF TypeOK, Exists, Absent

-----------------------------------------------------------------------------
LEMMA InitBasic == Init => BasicInv
<1> SUFFICES ASSUME Init PROVE BasicInv
  OBVIOUS
<1> USE DEF Init
<1>1. TypeOK
  <2>1. crashes \in 0..MaxCrashes
    BY ConstantsAssumption
  <2>2. events \in [Id -> Seq(Event)]
    BY EmptySeq
  <2> QED
    BY <2>1, <2>2, IdleType DEF TypeOK
<1>2. MutexOK
  BY DEF MutexOK, Idle, Critical
<1>3. CallsOK
  BY DEF CallsOK, CallOK, Idle, Critical, Completions, TokenCalls
<1> QED
  BY <1>1, <1>2, <1>3 DEF BasicInv

\* Types are kept by every step.
LEMMA TypeStep == BasicInv /\ [Next]_vars => TypeOK'
<1> SUFFICES ASSUME BasicInv, [Next]_vars PROVE TypeOK'
  OBVIOUS
<1>0. /\ TypeOK /\ CallsOK /\ call \in [Caller -> CallRecord]
      /\ \A c \in Caller : call[c] \in CallRecord
  BY DEF BasicInv, TypeOK
<1>1. ASSUME NEW c \in Caller, Initiate(c) PROVE TypeOK'
  <2>1. PICK op \in Initiations \cap Operation, id \in Id, mode \in Modes :
          /\ tokenToID' \subseteq tokenToID \cup {id}
          /\ call' = [call EXCEPT ![c] =
                [op |-> op, pc |-> "save", id |-> id, mode |-> mode,
                 ref |-> NoRef, next |-> "none"]]
    BY <1>1 DEF Initiate, WithToken
  <2>2. [op |-> op, pc |-> "save", id |-> id, mode |-> mode,
         ref |-> NoRef, next |-> "none"] \in CallRecord
    BY DEF CallRecord, Operations, Steps
  <2> QED
    BY <1>0, <1>1, <2>1, <2>2 DEF TypeOK, Initiate
<1>2. ASSUME NEW c \in Caller, CallTransition(c) PROVE TypeOK'
  <2>1. PICK op \in Transitions \cap Operation, id \in Nameable, ref \in Ref :
           call' = [call EXCEPT ![c] =
              [op |-> op, id |-> id, mode |-> "none", next |-> Requested(op),
               pc |-> IF op = "CompleteInteractive" THEN "load" ELSE "lock",
               ref |-> IF op \in {"CompleteInteractive", "Deny", "Cancel"}
                       THEN NoRef ELSE ref]]
    BY <1>2 DEF CallTransition
  <2>2. id \in Id \cup {NoId} /\ Requested(op) \in Statuses \cup {"none"}
    BY RequestedType, ConstantsAssumption DEF Nameable
  <2>3. [op |-> op, id |-> id, mode |-> "none", next |-> Requested(op),
         pc |-> IF op = "CompleteInteractive" THEN "load" ELSE "lock",
         ref |-> IF op \in {"CompleteInteractive", "Deny", "Cancel"}
                 THEN NoRef ELSE ref] \in CallRecord
    BY <2>2 DEF CallRecord, Operations, Steps
  <2> QED
    BY <1>0, <1>2, <2>1, <2>3 DEF TypeOK, CallTransition
<1>3. ASSUME NEW c \in Caller, CallToken(c) PROVE TypeOK'
  <2>1. PICK op \in TokenCalls \cap Operation, id \in Nameable :
           call' = [call EXCEPT ![c] =
              [op |-> op, pc |-> "token", id |-> id, mode |-> "none",
               ref |-> NoRef, next |-> "none"]]
    BY <1>3 DEF CallToken
  <2>2. id \in Id \cup {NoId}
    BY ConstantsAssumption DEF Nameable
  <2>3. [op |-> op, pc |-> "token", id |-> id, mode |-> "none",
         ref |-> NoRef, next |-> "none"] \in CallRecord
    BY <2>2 DEF CallRecord, Operations, Steps
  <2> QED
    BY <1>0, <1>3, <2>1, <2>3 DEF TypeOK, CallToken
<1>4. ASSUME NEW c \in Caller, Save(c) PROVE TypeOK'
  <2>1. /\ call[c].id \in Id /\ call[c].mode \in Modes
        /\ KindOf(call[c].op) \in Kinds
    BY <1>0, <1>4 DEF CallsOK, CallOK, Save, KindOf, Kinds
  <2>2. Born(KindOf(call[c].op), call[c].mode) \in Transfer
    BY <2>1, BirthType
  <2>3. transfers' \in [Id -> Transfer \cup {Absent}]
    BY <1>0, <1>4, <2>1, <2>2 DEF TypeOK, Save
  <2>4. \A step \in Steps, next \in Statuses \cup {"none"} :
           [[call[c] EXCEPT !.pc = step] EXCEPT !.next = next] \in CallRecord
    BY <1>0 DEF CallRecord
  <2>5. PICK step \in Steps, next \in Statuses \cup {"none"} :
           call' = [call EXCEPT ![c].pc = step, ![c].next = next]
    BY <1>4 DEF Save, Steps, Statuses
  <2>6. call' \in [Caller -> CallRecord]
    BY <1>0, <2>4, <2>5
  <2> QED
    BY <1>0, <1>4, <2>3, <2>6 DEF TypeOK, Save
<1>5. ASSUME NEW c \in Caller, Announce(c) PROVE TypeOK'
  <2>1. events' \in [Id -> Seq(Event)]
    BY <1>0, <1>5, ExistsType, TriggerType DEF Announce, CallsOK, CallOK, Hooks
  <2>2. call' \in [Caller -> CallRecord]
    BY <1>0, <1>5, GotoType DEF Announce, Steps
  <2> QED
    BY <1>0, <1>5, <2>1, <2>2 DEF TypeOK, Announce
<1>6. ASSUME NEW c \in Caller, Load(c) PROVE TypeOK'
  <2>1. \A next \in Statuses :
           [[call[c] EXCEPT !.pc = "lock"] EXCEPT !.next = next] \in CallRecord
    BY <1>0 DEF CallRecord, Steps
  <2>2. PICK next \in Statuses :
           call' = [call EXCEPT ![c].pc = "lock", ![c].next = next]
    BY <1>6 DEF Load, Statuses
  <2>3. call' \in [Caller -> CallRecord]
    BY <1>0, <2>1, <2>2
  <2> QED
    BY <1>0, <1>6, <2>3 DEF TypeOK, Load
<1>7. ASSUME NEW c \in Caller, Lock(c) \/ Check(c) PROVE TypeOK'
  <2>1. call' \in [Caller -> CallRecord]
    BY <1>0, <1>7, GotoType DEF Lock, Check, Steps
  <2>2. call[c].id \in Id \cup {NoId}
    BY <1>0, CallParts
  <2> QED
    BY <1>0, <1>7, <2>1, <2>2 DEF TypeOK, Lock, Check
<1>8. ASSUME NEW c \in Caller, WriteStatus(c) PROVE TypeOK'
  <2>1. /\ call[c].id \in Id /\ transfers[call[c].id] \in Transfer
        /\ call[c].next \in Statuses
    BY <1>0, <1>8, ExistsType DEF CallsOK, CallOK, WriteStatus, Critical
  <2>2. [transfers[call[c].id] EXCEPT !.status = call[c].next] \in Transfer
    BY <2>1 DEF Transfer
  <2>3. transfers' \in [Id -> Transfer \cup {Absent}]
    BY <1>0, <1>8, <2>1, <2>2 DEF TypeOK, WriteStatus
  <2>4. call' \in [Caller -> CallRecord]
    BY <1>0, <1>8, GotoType DEF WriteStatus, Steps
  <2> QED
    BY <1>0, <1>8, <2>3, <2>4 DEF TypeOK, WriteStatus
<1>9. ASSUME NEW c \in Caller, WriteDetails(c) PROVE TypeOK'
  <2>1. /\ call[c].id \in Id /\ transfers[call[c].id] \in Transfer
        /\ call[c].next \in Statuses
    BY <1>0, <1>9, ExistsType DEF CallsOK, CallOK, WriteDetails, Critical
  <2>2. Applied(transfers[call[c].id], call[c]) \in Transfer
    BY <1>0, <2>1, AppliedType
  <2>3. transfers' \in [Id -> Transfer \cup {Absent}]
    BY <1>0, <1>9, <2>1, <2>2 DEF TypeOK, WriteDetails
  <2>4. call' \in [Caller -> CallRecord]
    BY <1>0, <1>9, GotoType DEF WriteDetails, Steps
  <2> QED
    BY <1>0, <1>9, <2>3, <2>4 DEF TypeOK, WriteDetails
<1>10. ASSUME NEW c \in Caller, TriggerOwn(c) PROVE TypeOK'
  <2>1. Exists(call[c].id)
    BY <1>0, <1>10 DEF CallsOK, CallOK, TriggerOwn
  <2>2. OwnHook(call[c].op) # "none" => OwnHook(call[c].op) \in Hooks
    BY DEF OwnHook, Hooks
  <2>3. events' \in [Id -> Seq(Event)]
    BY <1>0, <1>10, <2>1, <2>2, ExistsType, TriggerType DEF TypeOK, TriggerOwn
  <2>4. call' \in [Caller -> CallRecord]
    BY <1>0, <1>10, GotoType DEF TriggerOwn, Steps
  <2> QED
    BY <1>0, <1>10, <2>3, <2>4 DEF TypeOK, TriggerOwn
<1>11. ASSUME NEW c \in Caller, TriggerChanged(c) PROVE TypeOK'
  <2>1. events' \in [Id -> Seq(Event)]
    BY <1>0, <1>11, ExistsType, TriggerType DEF TriggerChanged, CallsOK, CallOK, Hooks
  <2>2. call' \in [Caller -> CallRecord]
    BY <1>0, <1>11, GotoType DEF TriggerChanged, Steps
  <2> QED
    BY <1>0, <1>11, <2>1, <2>2 DEF TypeOK, TriggerChanged
<1>12. ASSUME NEW c \in Caller, LookupToken(c) \/ FindForToken(c) \/ ReloadFails(c)
       PROVE  TypeOK'
  <2>1. call' \in [Caller -> CallRecord]
    BY <1>0, <1>12, GotoType DEF LookupToken, FindForToken, ReloadFails, Steps
  <2> QED
    BY <1>0, <1>12, <2>1 DEF TypeOK, LookupToken, FindForToken, ReloadFails
<1>13. ASSUME NEW c \in Caller,
              LoadFails(c) \/ CheckFails(c) \/ UnknownToken(c) \/ FindForTokenFails(c)
                \/ SaveFails(c) \/ UpdateFails(c) \/ HandlerPanics(c)
       PROVE  TypeOK'
  <2>1. /\ Fail(c)
        /\ locked' \subseteq locked
        /\ UNCHANGED <<transfers, tokenToID, events, crashes>>
    BY <1>13 DEF LoadFails, CheckFails, UnknownToken, FindForTokenFails,
       SaveFails, UpdateFails, HandlerPanics
  <2> QED
    BY <1>0, <2>1, FailType DEF TypeOK
<1>14. CASE Crash
  <2>1. crashes' \in 0..MaxCrashes
    BY <1>0, <1>14, ConstantsAssumption DEF TypeOK, Crash
  <2> QED
    BY <1>0, <1>14, <2>1, IdleType DEF TypeOK, Crash
<1>15. CASE UNCHANGED vars
  BY <1>0, <1>15 DEF TypeOK, vars
<1> QED
  BY <1>1, <1>2, <1>3, <1>4, <1>5, <1>6, <1>7, <1>8, <1>9, <1>10, <1>11, <1>12,
     <1>13, <1>14, <1>15 DEF Next, Start, Advance, Disturb

\* A call that returns, or was never inside, leaves the mutexes consistent.
LEMMA LeaveMutex ==
    ASSUME MutexOK, NEW c \in Caller,
           \A d \in Caller \ {c} : call'[d] = call[d],
           call'[c].pc \notin Critical,
           \/ locked' = locked
           \/ call[c].pc \in Critical /\ locked' = locked \ {call[c].id}
    PROVE  MutexOK'
BY DEF MutexOK, Critical

\* So does one that goes on with the mutex held.
LEMMA StayInMutex ==
    ASSUME MutexOK, NEW c \in Caller,
           \A d \in Caller \ {c} : call'[d] = call[d],
           call[c].pc \in Critical, call'[c].id = call[c].id, locked' = locked
    PROVE  MutexOK'
BY DEF MutexOK, Critical

\* Every step of a call leaves the other calls where they are.
LEMMA OnlyOwnCall ==
    ASSUME TypeOK, NEW c \in Caller, Start(c) \/ Advance(c) \/ Disturb(c)
    PROVE  \A d \in Caller \ {c} : call'[d] = call[d]
<1>1. call \in [Caller -> CallRecord]
  BY DEF TypeOK
<1>2. CASE Start(c)
  BY <1>1, <1>2 DEF Start, Initiate, CallTransition, CallToken
<1>3. CASE Advance(c)
  BY <1>1, <1>3 DEF Advance, Save, Announce, Load, LoadFails, Lock, Check,
     CheckFails, WriteStatus, WriteDetails, TriggerOwn, TriggerChanged,
     LookupToken, UnknownToken, FindForToken, FindForTokenFails, Goto, Fail
<1>4. CASE Disturb(c)
  BY <1>1, <1>4 DEF Disturb, SaveFails, UpdateFails, ReloadFails, HandlerPanics,
     Goto, Fail
<1> QED
  BY <1>2, <1>3, <1>4

\* A transfer is moved under its mutex.
LEMMA MutexStep == BasicInv /\ [Next]_vars => MutexOK'
<1> SUFFICES ASSUME BasicInv, [Next]_vars PROVE MutexOK'
  OBVIOUS
<1>0. /\ TypeOK /\ MutexOK /\ CallsOK /\ call \in [Caller -> CallRecord]
      /\ \A c \in Caller : call[c] \in CallRecord
      /\ \A c \in Caller : Start(c) \/ Advance(c) \/ Disturb(c) =>
            \A d \in Caller \ {c} : call'[d] = call[d]
  BY OnlyOwnCall DEF BasicInv, TypeOK
<1>1. ASSUME NEW c \in Caller, Start(c) PROVE MutexOK'
  <2>1. call'[c].pc \notin Critical /\ locked' = locked
    BY <1>0, <1>1 DEF Start, Initiate, CallTransition, CallToken, Critical
  <2> QED
    BY <1>0, <1>1, <2>1, LeaveMutex
<1>2. ASSUME NEW c \in Caller, Lock(c) PROVE MutexOK'
  <2>1. call'[c] = [call[c] EXCEPT !.pc = "check"]
    BY <1>0, <1>2, GotoType DEF Lock, Steps
  <2>2. call'[c].id = call[c].id
    BY <2>1, <1>0 DEF CallRecord
  <2>3. \A d \in Caller \ {c} : call'[d] = call[d]
    BY <1>0, <1>2 DEF Advance
  <2> QED
    BY <1>0, <1>2, <2>2, <2>3 DEF MutexOK, Lock
<1>3. ASSUME NEW c \in Caller,
             Check(c) \/ WriteStatus(c) \/ WriteDetails(c) \/ TriggerOwn(c)
      PROVE  MutexOK'
  <2>1. /\ \E step \in Steps : call'[c] = [call[c] EXCEPT !.pc = step]
        /\ locked' = locked
        /\ call[c].pc \in Critical
    BY <1>0, <1>3, GotoType
       DEF Check, WriteStatus, WriteDetails, TriggerOwn, Steps, Critical
  <2>2. call'[c].id = call[c].id
    BY <2>1, <1>0 DEF CallRecord
  <2>3. \A d \in Caller \ {c} : call'[d] = call[d]
    BY <1>0, <1>3 DEF Advance
  <2> QED
    BY <1>0, <2>1, <2>2, <2>3, StayInMutex
<1>4. ASSUME NEW c \in Caller, TriggerChanged(c) \/ ReloadFails(c) PROVE MutexOK'
  <2>1. /\ call'[c].pc \in {"announce", "ok"}
        /\ call[c].pc \in Critical /\ locked' = locked \ {call[c].id}
    BY <1>0, <1>4 DEF TriggerChanged, ReloadFails, Critical, Goto, CallRecord
  <2>2. call'[c].pc \notin Critical
    BY <2>1 DEF Critical
  <2>3. \A d \in Caller \ {c} : call'[d] = call[d]
    BY <1>0, <1>4 DEF Advance, Disturb
  <2> QED
    BY <1>0, <2>1, <2>2, <2>3, LeaveMutex
<1>5. ASSUME NEW c \in Caller,
             Save(c) \/ Announce(c) \/ Load(c) \/ LookupToken(c) \/ FindForToken(c)
      PROVE  MutexOK'
  <2>1. call'[c].pc \in {"lock", "announce", "ok", "find"} /\ locked' = locked
    BY <1>0, <1>5 DEF Save, Announce, Load, LookupToken, FindForToken, Goto, CallRecord
  <2>2. call'[c].pc \notin Critical
    BY <2>1 DEF Critical
  <2>3. \A d \in Caller \ {c} : call'[d] = call[d]
    BY <1>0, <1>5 DEF Advance
  <2> QED
    BY <1>0, <2>1, <2>2, <2>3, LeaveMutex
<1>6. ASSUME NEW c \in Caller,
             LoadFails(c) \/ CheckFails(c) \/ UnknownToken(c) \/ FindForTokenFails(c)
               \/ SaveFails(c) \/ UpdateFails(c) \/ HandlerPanics(c)
      PROVE  MutexOK'
  <2>1. /\ Fail(c)
        /\ \/ locked' = locked
           \/ call[c].pc \in Critical /\ locked' = locked \ {call[c].id}
    BY <1>6 DEF LoadFails, CheckFails, UnknownToken, FindForTokenFails,
       SaveFails, UpdateFails, HandlerPanics, Critical
  <2>2. call'[c].pc \notin Critical /\ \A d \in Caller \ {c} : call'[d] = call[d]
    BY <1>0, <2>1, FailType DEF Idle, Critical
  <2> QED
    BY <1>0, <2>1, <2>2, LeaveMutex
<1>7. CASE Crash
  BY <1>7 DEF Crash, MutexOK, Idle, Critical
<1>8. CASE UNCHANGED vars
  BY <1>0, <1>8 DEF MutexOK, vars
<1> QED
  BY <1>1, <1>2, <1>3, <1>4, <1>5, <1>6, <1>7, <1>8 DEF Next, Advance, Disturb

\* What another call knows stays true when existing transfers stay, the ones
\* about to be written keep their status, and new IDs stay apart.
LEMMA OthersStayOK ==
    ASSUME CallsOK, NEW c \in Caller, NEW d \in Caller \ {c}, call'[d] = call[d],
           \A id \in Id : Exists(id) => Exists(id)',
           call[d].pc \in {"write", "details"} =>
              transfers'[call[d].id].status = transfers[call[d].id].status,
           call[d].pc = "save" =>
              /\ ~Exists(call[d].id)'
              /\ \A e \in Caller \ {d} :
                    call'[e].pc = "save" => call'[e].id # call[d].id
    PROVE  CallOK(d)'
BY DEF CallsOK, CallOK, MayMove, Exists

\* A call changes a transfer only if it has just been given the ID or holds the
\* transfer's mutex.
LEMMA CallsStep == BasicInv /\ [Next]_vars => CallsOK'
<1> SUFFICES ASSUME BasicInv, [Next]_vars PROVE CallsOK'
  OBVIOUS
<1>0. /\ TypeOK /\ MutexOK /\ CallsOK /\ call \in [Caller -> CallRecord]
      /\ \A c \in Caller : call[c] \in CallRecord
      /\ transfers \in [Id -> Transfer \cup {Absent}]
      /\ TypeOK'
  BY TypeStep DEF BasicInv, TypeOK
<1>1. ASSUME NEW c \in Caller, Initiate(c) PROVE CallsOK'
  <2>1. PICK op \in Initiations \cap Operation, id \in Id, mode \in Modes :
          /\ Fresh(id)
          /\ call' = [call EXCEPT ![c] =
                [op |-> op, pc |-> "save", id |-> id, mode |-> mode,
                 ref |-> NoRef, next |-> "none"]]
          /\ transfers' = transfers
    BY <1>1 DEF Initiate
  <2>2. CallOK(c)'
    BY <1>0, <2>1 DEF CallOK, Fresh, Exists, Critical, Initiations, Completions, TokenCalls
  <2>3. ASSUME NEW d \in Caller \ {c} PROVE CallOK(d)'
    BY <1>0, <2>1 DEF CallsOK, CallOK, Fresh, Exists, MayMove
  <2> QED
    BY <2>2, <2>3 DEF CallsOK
<1>2. ASSUME NEW c \in Caller, CallTransition(c) \/ CallToken(c) PROVE CallsOK'
  <2>1. /\ call'[c].pc \in {"load", "lock", "token"}
        /\ call'[c].pc = "lock" => call'[c].next \in Statuses
        /\ call'[c].op \in Completions =>
              call'[c].next = "completed" /\ call'[c].pc # "load"
        /\ call'[c].pc = "token" => call'[c].next = "none"
        /\ call'[c].op \in TokenCalls => call'[c].pc = "token"
        /\ transfers' = transfers
        /\ \A d \in Caller \ {c} : call'[d] = call[d]
    BY <1>0, <1>2, RequestedType
       DEF CallTransition, CallToken, Transitions, TokenCalls, Requested, Completions
  <2>2. CallOK(c)'
    BY <2>1 DEF CallOK, Critical
  <2>3. ASSUME NEW d \in Caller \ {c} PROVE CallOK(d)'
    BY <1>0, <2>1 DEF CallsOK, CallOK, Exists, MayMove
  <2> QED
    BY <2>2, <2>3 DEF CallsOK
<1>3. ASSUME NEW c \in Caller, Save(c) PROVE CallsOK'
  <2> DEFINE id == call[c].id
  <2>1. /\ id \in Id /\ ~Exists(id) /\ call[c].op \in Initiations
        /\ call[c].mode \in Modes
        /\ \A d \in Caller \ {c} : call[d].pc = "save" => call[d].id # id
    BY <1>0, <1>3 DEF Save, CallsOK, CallOK
  <2>2. /\ Born(KindOf(call[c].op), call[c].mode) \in Transfer
        /\ transfers' = [transfers EXCEPT ![id] = Born(KindOf(call[c].op), call[c].mode)]
    BY <1>3, <2>1, BirthType DEF Save, KindOf, Kinds
  <2>3. /\ transfers'[id].status # "none"
        /\ \A i \in Id \ {id} : transfers'[i] = transfers[i]
    BY <1>0, <2>1, <2>2 DEF Exists, Transfer, Statuses, Terminal
  <2>4. /\ call'[c].id = id
        /\ call'[c].pc \in {"lock", "announce"} /\ call'[c].op = call[c].op
        /\ call'[c].pc = "lock" => call'[c].next \in Statuses
        /\ \A d \in Caller \ {c} : call'[d] = call[d]
    BY <1>0, <1>3 DEF Save, CallRecord, Statuses
  <2>5. CallOK(c)'
    BY <2>1, <2>3, <2>4 DEF CallOK, Exists, Critical, Initiations, Completions, TokenCalls
  <2>6. ASSUME NEW d \in Caller \ {c} PROVE CallOK(d)'
    <3>1. \A i \in Id : Exists(i) => Exists(i)'
      BY <2>3 DEF Exists
    <3>2. call[d].pc \in {"write", "details"} =>
             transfers'[call[d].id].status = transfers[call[d].id].status
      BY <1>0, <2>1, <2>3 DEF CallsOK, CallOK, Exists
    <3>3. call[d].pc = "save" =>
             /\ ~Exists(call[d].id)'
             /\ \A e \in Caller \ {d} :
                   call'[e].pc = "save" => call'[e].id # call[d].id
      BY <1>0, <2>1, <2>3, <2>4 DEF CallsOK, CallOK, Exists
    <3> QED
      BY <1>0, <2>4, <3>1, <3>2, <3>3, OthersStayOK
  <2> QED
    BY <2>5, <2>6 DEF CallsOK
<1>4. ASSUME NEW c \in Caller,
             Announce(c) \/ LookupToken(c) \/ FindForToken(c) \/ ReloadFails(c)
               \/ TriggerChanged(c) \/ Lock(c) \/ Check(c) \/ TriggerOwn(c)
      PROVE  CallsOK'
  <2>1. PICK step \in {"ok", "find", "announce", "check", "write", "changed"} :
          /\ Goto(c, step)
          /\ step = "announce" => call[c].pc \in Critical \ {"check"}
          /\ step = "check" => call[c].pc = "lock"
          /\ step = "write" => MayMove(c) /\ call[c].pc \in Critical
          /\ step = "changed" => call[c].pc = "own"
          /\ step = "find" => call[c].pc = "token"
          /\ call[c].op \in TokenCalls => step \in {"find", "ok"}
          /\ transfers' = transfers
    BY <1>0, <1>4 DEF CallsOK, CallOK, Announce, LookupToken, FindForToken, ReloadFails, TriggerChanged,
       Lock, Check, TriggerOwn, Critical
  <2>2. /\ call'[c].pc = step /\ call'[c].id = call[c].id
        /\ call'[c].next = call[c].next /\ call'[c].op = call[c].op
        /\ \A d \in Caller \ {c} : call'[d] = call[d]
    BY <1>0, <2>1 DEF Goto, CallRecord
  <2>3. CallOK(c)'
    BY <1>0, <2>1, <2>2 DEF CallsOK, CallOK, Exists, MayMove, Critical
  <2>4. ASSUME NEW d \in Caller \ {c} PROVE CallOK(d)'
    BY <1>0, <2>1, <2>2 DEF CallsOK, CallOK, Exists, MayMove
  <2> QED
    BY <2>3, <2>4 DEF CallsOK
<1>5. ASSUME NEW c \in Caller, Load(c) PROVE CallsOK'
  <2>1. /\ call'[c].pc = "lock" /\ call'[c].next \in Statuses
        /\ call'[c].op \notin Completions \cup TokenCalls
        /\ transfers' = transfers
        /\ \A d \in Caller \ {c} : call'[d] = call[d]
    BY <1>0, <1>5 DEF Load, Statuses, CallRecord, CallsOK, CallOK
  <2>2. CallOK(c)'
    BY <2>1 DEF CallOK, Critical
  <2>3. ASSUME NEW d \in Caller \ {c} PROVE CallOK(d)'
    BY <1>0, <2>1 DEF CallsOK, CallOK, Exists, MayMove
  <2> QED
    BY <2>2, <2>3 DEF CallsOK
<1>6. ASSUME NEW c \in Caller, WriteStatus(c) \/ WriteDetails(c) PROVE CallsOK'
  <2> DEFINE id == call[c].id
  <2>1. /\ id \in Id /\ transfers[id] \in Transfer
        /\ call[c].next \in Statuses /\ call[c].pc \in {"write", "details"}
        /\ call[c].pc \in Critical
    BY <1>0, <1>6, ExistsType DEF WriteStatus, WriteDetails, CallsOK, CallOK, Critical
  <2>2. /\ transfers'[id].status = call[c].next
        /\ \A i \in Id \ {id} : transfers'[i] = transfers[i]
    BY <1>0, <1>6, <2>1 DEF WriteStatus, WriteDetails, Applied, Transfer
  <2>3. transfers'[id].status # "none"
    BY <2>1, <2>2 DEF Exists, Statuses, Terminal
  <2>4. /\ call'[c].pc \in {"details", "own"} /\ call'[c].id = id
        /\ call'[c].next = call[c].next /\ call'[c].op = call[c].op
        /\ \A d \in Caller \ {c} : call'[d] = call[d]
    BY <1>0, <1>6 DEF WriteStatus, WriteDetails, Goto, CallRecord
  <2>5. CallOK(c)'
    BY <1>0, <2>1, <2>2, <2>3, <2>4 DEF CallsOK, CallOK, Exists
  <2>6. ASSUME NEW d \in Caller \ {c} PROVE CallOK(d)'
    <3>1. call[d].pc \in {"write", "details"} =>
             call[d].id # id /\ Exists(call[d].id)
      BY <1>0, <2>1 DEF MutexOK, Critical, CallsOK, CallOK
    <3>2. call[d].pc = "save" => call[d].id # id
      BY <1>0, <1>6 DEF CallsOK, CallOK, WriteStatus, WriteDetails
    <3> QED
      <4>1. \A i \in Id : Exists(i) => Exists(i)'
        BY <2>2, <2>3 DEF Exists
      <4>2. call[d].pc \in {"write", "details"} =>
               transfers'[call[d].id].status = transfers[call[d].id].status
        BY <2>2, <3>1 DEF Exists
      <4>3. call[d].pc = "save" =>
               /\ ~Exists(call[d].id)'
               /\ \A e \in Caller \ {d} :
                     call'[e].pc = "save" => call'[e].id # call[d].id
        BY <1>0, <2>2, <2>4, <3>2 DEF CallsOK, CallOK, Exists
      <4> QED
        BY <1>0, <2>4, <4>1, <4>2, <4>3, OthersStayOK
  <2> QED
    BY <2>5, <2>6 DEF CallsOK
<1>7. ASSUME NEW c \in Caller,
             LoadFails(c) \/ CheckFails(c) \/ UnknownToken(c) \/ FindForTokenFails(c)
               \/ SaveFails(c) \/ UpdateFails(c) \/ HandlerPanics(c)
      PROVE  CallsOK'
  <2>1. Fail(c) /\ transfers' = transfers
    BY <1>7 DEF LoadFails, CheckFails, UnknownToken, FindForTokenFails,
       SaveFails, UpdateFails, HandlerPanics
  <2>2. call'[c] = Idle /\ \A d \in Caller \ {c} : call'[d] = call[d]
    BY <1>0, <2>1, FailType
  <2>3. CallOK(c)'
    BY <2>2 DEF CallOK, Critical, Idle, Completions, TokenCalls
  <2>4. ASSUME NEW d \in Caller \ {c} PROVE CallOK(d)'
    BY <1>0, <2>1, <2>2 DEF CallsOK, CallOK, Exists, MayMove, Idle
  <2> QED
    BY <2>3, <2>4 DEF CallsOK
<1>8. CASE Crash
  BY <1>8 DEF Crash, CallsOK, CallOK, Idle, Critical, Completions, TokenCalls
<1>9. CASE UNCHANGED vars
  BY <1>0, <1>9 DEF CallsOK, CallOK, Exists, MayMove, vars
<1> QED
  BY <1>1, <1>2, <1>3, <1>4, <1>5, <1>6, <1>7, <1>8, <1>9
     DEF Next, Start, Advance, Disturb

-----------------------------------------------------------------------------
\* Types, exclusion under the mutex and what each call knows hold always.
THEOREM BasicCorrect == Spec => []BasicInv
<1>1. Init => BasicInv
  BY InitBasic
<1>2. BasicInv /\ [Next]_vars => BasicInv'
  BY TypeStep, MutexStep, CallsStep DEF BasicInv
<1> QED
  BY <1>1, <1>2, PTL DEF Spec

\* The type invariant.
THEOREM TypeCorrect == Spec => []TypeOK
<1>1. BasicInv => TypeOK
  BY DEF BasicInv
<1> QED
  BY <1>1, BasicCorrect, PTL

-----------------------------------------------------------------------------
(* At most one call makes each move. *)

\* How far along its life a transfer is: every legal transition goes to a later
\* stage, so a status once left does not come back.
Stage(status) ==
    CASE status = "initiating" -> 0
      [] status \in {"interactive", "payment_required"} -> 1
      [] status = "pending_user_transfer_start" -> 2
      [] status = "pending_external" -> 3
      [] status = "pending_stellar" -> 4
      [] OTHER -> 5

LEMMA StageRises ==
    ASSUME NEW from, NEW to, ValidateTransition(from, to)
    PROVE  /\ Stage(from) \in Nat /\ Stage(to) \in Nat
           /\ Stage(from) < Stage(to)
<1>1. from \in {"initiating", "interactive", "pending_user_transfer_start",
               "pending_external", "pending_stellar", "payment_required"}
  BY DEF ValidateTransition, legalTransitions
<1>2. CASE from = "initiating"
  BY <1>2 DEF ValidateTransition, legalTransitions, Stage
<1>3. CASE from = "interactive"
  BY <1>3 DEF ValidateTransition, legalTransitions, Stage
<1>4. CASE from = "pending_user_transfer_start"
  BY <1>4 DEF ValidateTransition, legalTransitions, Stage
<1>5. CASE from = "pending_external"
  BY <1>5 DEF ValidateTransition, legalTransitions, Stage
<1>6. CASE from = "pending_stellar"
  BY <1>6 DEF ValidateTransition, legalTransitions, Stage
<1>7. CASE from = "payment_required"
  BY <1>7 DEF ValidateTransition, legalTransitions, Stage
<1> QED
  BY <1>1, <1>2, <1>3, <1>4, <1>5, <1>6, <1>7

LEMMA StageNat == \A status : Stage(status) \in Nat
BY DEF Stage

\* A step that moves no transfer, and accepts no call.
Quiet(c) ==
    /\ transfers' = transfers
    /\ \A d \in Caller \ {c} : call'[d] = call[d]
    /\ call[c].pc # "details" /\ call'[c].pc # "details"
    /\ call'[c].pc \in {"own", "changed", "announce", "ok"} =>
          /\ \/ call[c].pc \in {"own", "changed", "announce"}
             \/ call[c].pc = "find" /\ call[c].next = "none"
          /\ call'[c].op = call[c].op /\ call'[c].id = call[c].id
          /\ call'[c].ref = call[c].ref /\ call'[c].next = call[c].next

\* Every step is quiet, is a crash, or is one of the three that change the
\* store.
LEMMA StepKinds ==
    ASSUME BasicInv, [Next]_vars
    PROVE  \/ \E c \in Caller : Quiet(c)
           \/ \E c \in Caller : Save(c) \/ WriteStatus(c) \/ WriteDetails(c)
           \/ Crash
           \/ UNCHANGED vars
<1>0. /\ TypeOK /\ call \in [Caller -> CallRecord]
      /\ \A c \in Caller : call[c] \in CallRecord
  BY DEF BasicInv, TypeOK
<1>1. ASSUME NEW c \in Caller, Start(c) \/ Load(c) PROVE Quiet(c)
  BY <1>0, <1>1, OnlyOwnCall
     DEF Quiet, Start, Initiate, CallTransition, CallToken, Load, Advance, CallRecord
<1>2. ASSUME NEW c \in Caller,
             Announce(c) \/ LookupToken(c) \/ FindForToken(c) \/ ReloadFails(c)
               \/ TriggerChanged(c) \/ Lock(c) \/ Check(c) \/ TriggerOwn(c)
      PROVE  Quiet(c)
  <2>1. PICK step \in {"ok", "find", "announce", "check", "write", "changed"} :
          /\ Goto(c, step)
          /\ call[c].pc # "details"
          /\ step \in {"ok", "announce", "changed"} =>
                \/ call[c].pc \in {"own", "changed", "announce"}
                \/ call[c].pc = "find" /\ call[c].next = "none"
          /\ transfers' = transfers
    BY <1>0, <1>2 DEF Announce, LookupToken, FindForToken, ReloadFails,
       TriggerChanged, Lock, Check, TriggerOwn, BasicInv, CallsOK, CallOK
  <2> QED
    BY <1>0, <2>1 DEF Quiet, Goto, CallRecord
<1>3. ASSUME NEW c \in Caller,
             LoadFails(c) \/ CheckFails(c) \/ UnknownToken(c) \/ FindForTokenFails(c)
               \/ SaveFails(c) \/ UpdateFails(c) \/ HandlerPanics(c)
      PROVE  Quiet(c)
  <2>1. Fail(c) /\ transfers' = transfers /\ call[c].pc # "details"
    BY <1>3 DEF LoadFails, CheckFails, UnknownToken, FindForTokenFails,
       SaveFails, UpdateFails, HandlerPanics
  <2> QED
    BY <1>0, <2>1, FailType DEF Quiet, Idle
<1> QED
  BY <1>1, <1>2, <1>3 DEF Next, Advance, Disturb, Start

\* The transfer of an accepted call has come at least as far as the call moved it.
AcceptedOK ==
    \A c \in Caller :
        Accepted(c) =>
          /\ Exists(call[c].id)
          /\ Stage(call[c].next) <= Stage(transfers[call[c].id].status)

MoveInv == BasicInv /\ AcceptedOK /\ NoMoveAcceptedTwice

\* An accepted call keeps its acceptance, and no call becomes accepted, when a
\* step is quiet.
LEMMA QuietMoves ==
    ASSUME BasicInv, AcceptedOK, NoMoveAcceptedTwice, NEW c \in Caller, Quiet(c)
    PROVE  AcceptedOK' /\ NoMoveAcceptedTwice'
<1>1. ASSUME NEW d \in Caller, Accepted(d)'
      PROVE  /\ Accepted(d)
             /\ call'[d].id = call[d].id /\ call'[d].next = call[d].next
  BY <1>1 DEF Quiet, Accepted
<1> QED
  BY <1>1 DEF Quiet, AcceptedOK, NoMoveAcceptedTwice, Exists

LEMMA MoveStep == MoveInv /\ [Next]_vars => MoveInv'
<1> SUFFICES ASSUME MoveInv, [Next]_vars PROVE AcceptedOK' /\ NoMoveAcceptedTwice'
  BY TypeStep, MutexStep, CallsStep DEF MoveInv, BasicInv
<1>0. /\ TypeOK /\ MutexOK /\ CallsOK /\ call \in [Caller -> CallRecord]
      /\ \A c \in Caller : call[c] \in CallRecord
      /\ transfers \in [Id -> Transfer \cup {Absent}]
      /\ BasicInv /\ AcceptedOK /\ NoMoveAcceptedTwice
  BY DEF MoveInv, BasicInv, TypeOK
<1>1. ASSUME NEW c \in Caller, Save(c) PROVE AcceptedOK' /\ NoMoveAcceptedTwice'
  <2>1. /\ call[c].id \in Id /\ ~Exists(call[c].id)
        /\ call[c].op \in Initiations
    BY <1>0, <1>1 DEF Save, CallsOK, CallOK
  <2>2. /\ \A i \in Id : i # call[c].id => transfers'[i] = transfers[i]
        /\ \A d \in Caller \ {c} : call'[d] = call[d]
        /\ ~Accepted(c)'
    BY <1>0, <1>1, <2>1 DEF Save, Accepted, CallRecord
  <2> QED
    BY <1>0, <2>1, <2>2 DEF AcceptedOK, NoMoveAcceptedTwice, Accepted, Exists
<1>2. ASSUME NEW c \in Caller, WriteStatus(c)
      PROVE  AcceptedOK' /\ NoMoveAcceptedTwice'
  <2>1. /\ call[c].id \in Id /\ call[c].next # "none"
        /\ ValidateTransition(transfers[call[c].id].status, call[c].next)
    BY <1>0, <1>2 DEF WriteStatus, CallsOK, CallOK, MayMove, Exists, Critical,
       Statuses, Terminal
  <2>2. /\ Stage(transfers[call[c].id].status) < Stage(call[c].next)
        /\ \A s \in Statuses \cup {"none"} : Stage(s) \in Nat
    BY <2>1, StageRises, StageNat
  <2>3. /\ transfers'[call[c].id].status = call[c].next
        /\ \A i \in Id : i # call[c].id => transfers'[i] = transfers[i]
    BY <1>0, <1>2, <2>1, ExistsType DEF WriteStatus, CallsOK, CallOK, Transfer
  <2>4. /\ call'[c].id = call[c].id /\ call'[c].next = call[c].next
        /\ \A d \in Caller \ {c} : call'[d] = call[d]
    BY <1>0, <1>2 DEF WriteStatus, Goto, CallRecord
  <2>5. ASSUME NEW d \in Caller \ {c}, Accepted(d), call[d].id = call[c].id
        PROVE  Stage(call[d].next) < Stage(call[c].next)
    BY <1>0, <2>2, <2>5, StageNat DEF AcceptedOK
  <2>6. AcceptedOK'
    <3>1. ASSUME NEW d \in Caller \ {c}, Accepted(d)'
          PROVE  /\ Exists(call[d].id)'
                 /\ Stage(call'[d].next) <= Stage(transfers'[call'[d].id].status)
      BY <1>0, <2>1, <2>3, <2>4, <2>5, <3>1, StageNat DEF AcceptedOK, Accepted, Exists
    <3>2. /\ Exists(call[c].id)'
          /\ Stage(call'[c].next) <= Stage(transfers'[call'[c].id].status)
      BY <2>1, <2>3, <2>4, StageNat DEF Exists
    <3> QED
      BY <3>1, <3>2 DEF AcceptedOK
  <2>7. NoMoveAcceptedTwice'
    BY <1>0, <2>2, <2>4, <2>5, StageNat DEF NoMoveAcceptedTwice, Accepted
  <2> QED
    BY <2>6, <2>7
<1>3. ASSUME NEW c \in Caller, WriteDetails(c)
      PROVE  AcceptedOK' /\ NoMoveAcceptedTwice'
  <2>1. \A i \in Id : transfers'[i].status = transfers[i].status
    BY <1>0, <1>3 DEF WriteDetails, CallsOK, CallOK, Applied
  <2>2. /\ call'[c].id = call[c].id /\ call'[c].next = call[c].next
        /\ \A d \in Caller \ {c} : call'[d] = call[d]
        /\ Accepted(c)' => Accepted(c)
    BY <1>0, <1>3 DEF WriteDetails, Goto, CallRecord, Accepted
  <2> QED
    BY <1>0, <2>1, <2>2 DEF AcceptedOK, NoMoveAcceptedTwice, Accepted, Exists
<1>4. ASSUME NEW c \in Caller, Quiet(c) PROVE AcceptedOK' /\ NoMoveAcceptedTwice'
  BY <1>0, <1>4, QuietMoves
<1>5. CASE Crash
  BY <1>5 DEF Crash, AcceptedOK, NoMoveAcceptedTwice, Accepted, Idle
<1>6. CASE UNCHANGED vars
  BY <1>0, <1>6 DEF AcceptedOK, NoMoveAcceptedTwice, Accepted, Exists, vars
<1> QED
  BY <1>0, <1>1, <1>2, <1>3, <1>4, <1>5, <1>6, StepKinds

\* NoMoveAcceptedTwice for any number of goroutines and transfers and under any
\* faults: two accepted calls moved the transfer to different statuses.
THEOREM MovesAreExclusive == Spec => []NoMoveAcceptedTwice
<1>1. Init => MoveInv
  BY InitBasic DEF Init, MoveInv, AcceptedOK, NoMoveAcceptedTwice, Accepted, Idle
<1>2. MoveInv => NoMoveAcceptedTwice
  BY DEF MoveInv
<1> QED
  BY <1>1, <1>2, MoveStep, PTL DEF Spec

-----------------------------------------------------------------------------
(* What was acknowledged as completed stays as it was acknowledged. *)

Recorded(c) ==
    LET t == transfers[call[c].id]
    IN /\ t.status = "completed" /\ t.completedAt
       /\ call[c].op = "NotifyPaymentSent" => t.txHash = call[c].ref
       /\ call[c].op = "NotifyDisbursementSent" => t.externalRef = call[c].ref

FinalOK ==
    \A c \in Caller :
        /\ call[c].op \in Completions
        /\ call[c].pc \in {"own", "changed", "announce", "ok"}
        => Recorded(c)

FinalInv == MoveInv /\ FinalOK

LEMMA FinalStep == FinalInv /\ [Next]_vars => FinalInv'
<1> SUFFICES ASSUME FinalInv, [Next]_vars PROVE FinalOK'
  BY MoveStep DEF FinalInv
<1>0. /\ TypeOK /\ MutexOK /\ CallsOK /\ call \in [Caller -> CallRecord]
      /\ \A c \in Caller : call[c] \in CallRecord
      /\ transfers \in [Id -> Transfer \cup {Absent}]
      /\ BasicInv /\ AcceptedOK /\ NoMoveAcceptedTwice /\ FinalOK
  BY DEF FinalInv, MoveInv, BasicInv, TypeOK
<1>1. ASSUME NEW c \in Caller, Save(c) PROVE FinalOK'
  <2>1. /\ call[c].id \in Id /\ ~Exists(call[c].id)
        /\ call[c].op \in Initiations
    BY <1>0, <1>1 DEF Save, CallsOK, CallOK
  <2>2. /\ \A i \in Id : i # call[c].id => transfers'[i] = transfers[i]
        /\ \A d \in Caller \ {c} : call'[d] = call[d]
        /\ call'[c].op \notin Completions
    BY <1>0, <1>1, <2>1 DEF Save, CallRecord, Initiations, Completions
  <2>3. ASSUME NEW d \in Caller, call[d].op \in Completions,
               call[d].pc \in {"own", "changed", "announce", "ok"}
        PROVE  Exists(call[d].id)
    BY <1>0, <2>3 DEF AcceptedOK, Accepted, CallsOK, CallOK
  <2> QED
    BY <1>0, <2>1, <2>2, <2>3 DEF FinalOK, Recorded, Exists
<1>2. ASSUME NEW c \in Caller, WriteStatus(c) PROVE FinalOK'
  <2>1. transfers[call[c].id].status # "completed" /\ call[c].id \in Id
    BY <1>0, <1>2
       DEF WriteStatus, CallsOK, CallOK, MayMove, Exists, ValidateTransition, legalTransitions
  <2>2. /\ \A i : i # call[c].id /\ i \in Id => transfers'[i] = transfers[i]
        /\ \A d \in Caller \ {c} : call'[d] = call[d]
        /\ call'[c].pc = "details"
    BY <1>0, <1>2 DEF WriteStatus, Goto, CallRecord
  <2>3. ASSUME NEW d \in Caller, call[d].op \in Completions,
               call[d].pc \in {"own", "changed", "announce", "ok"}
        PROVE  call[d].id \in Id /\ call[d].id # call[c].id
    BY <1>0, <2>1, <2>3 DEF AcceptedOK, Accepted, CallsOK, CallOK, Exists, FinalOK, Recorded
  <2> QED
    BY <1>0, <2>2, <2>3 DEF FinalOK, Recorded
<1>3. ASSUME NEW c \in Caller, WriteDetails(c) PROVE FinalOK'
  <2>1. /\ call[c].id \in Id /\ call[c].pc = "details" /\ call[c].pc \in Critical
        /\ transfers[call[c].id].status = call[c].next
        /\ call[c].next # "none"
        /\ call[c].op \in Completions => call[c].next = "completed"
    BY <1>0, <1>3 DEF WriteDetails, CallsOK, CallOK, Exists, Critical
  <2>2. /\ transfers'[call[c].id] = Applied(transfers[call[c].id], call[c])
        /\ \A i : i # call[c].id /\ i \in Id => transfers'[i] = transfers[i]
        /\ \A d \in Caller \ {c} : call'[d] = call[d]
        /\ call'[c].id = call[c].id /\ call'[c].op = call[c].op
        /\ call'[c].ref = call[c].ref
    BY <1>0, <1>3, <2>1 DEF WriteDetails, Goto, CallRecord
  <2>3. call[c].op \in Completions => Recorded(c)'
    <3> DEFINE t == Applied(transfers[call[c].id], call[c])
    <3>1. /\ t.status = call[c].next
          /\ call[c].next = "completed" => t.completedAt = TRUE
          /\ call[c].op = "NotifyPaymentSent" => t.txHash = call[c].ref
          /\ call[c].op = "NotifyDisbursementSent" => t.externalRef = call[c].ref
      BY DEF Applied
    <3>2. transfers'[call'[c].id] = t
      BY <2>2
    <3> HIDE DEF t
    <3> QED
      BY <2>1, <2>2, <3>1, <3>2 DEF Recorded
  <2>4. ASSUME NEW d \in Caller \ {c}, call[d].op \in Completions,
               call[d].pc \in {"own", "changed", "announce", "ok"}
        PROVE  call[d].id \in Id /\ call[d].id # call[c].id
    <3>1. call[d].next = "completed" /\ Accepted(d)
      BY <1>0, <2>4 DEF CallsOK, CallOK, Accepted
    <3>2. Recorded(d) /\ call[d].id \in Id
      BY <1>0, <2>4, <3>1 DEF FinalOK, AcceptedOK, Exists
    <3>3. Accepted(c)
      BY <2>1 DEF Accepted
    <3> QED
      BY <1>0, <2>1, <3>1, <3>2, <3>3 DEF NoMoveAcceptedTwice, Recorded
  <2> QED
    BY <1>0, <2>2, <2>3, <2>4 DEF FinalOK, Recorded
<1>4. ASSUME NEW c \in Caller, Quiet(c) PROVE FinalOK'
  <2>1. ASSUME NEW d \in Caller, call'[d].op \in Completions,
               call'[d].pc \in {"own", "changed", "announce", "ok"}
        PROVE  /\ call[d].op = call'[d].op /\ call[d].id = call'[d].id
               /\ call[d].ref = call'[d].ref
               /\ call[d].pc \in {"own", "changed", "announce", "ok"}
    BY <1>0, <1>4, <2>1 DEF Quiet, CallsOK, CallOK
  <2> QED
    BY <1>0, <1>4, <2>1 DEF FinalOK, Recorded, Quiet
<1>5. CASE Crash
  BY <1>5 DEF Crash, FinalOK, Idle, Completions
<1>6. CASE UNCHANGED vars
  BY <1>0, <1>6 DEF FinalOK, Recorded, vars
<1> QED
  BY <1>0, <1>1, <1>2, <1>3, <1>4, <1>5, <1>6, StepKinds

\* CompletionIsFinal for any number of goroutines and transfers and under any
\* faults.
THEOREM CompletionsLast == Spec => []CompletionIsFinal
<1>1. Init => FinalInv
  BY InitBasic DEF Init, FinalInv, MoveInv, AcceptedOK, NoMoveAcceptedTwice,
     Accepted, FinalOK, Idle, Completions
<1>2. FinalInv => CompletionIsFinal
  BY DEF FinalInv, FinalOK, Recorded, CompletionIsFinal, Completions
<1> QED
  BY <1>1, <1>2, FinalStep, PTL DEF Spec

-----------------------------------------------------------------------------
(* No mutex is left behind. *)

\* Every locked mutex has a call inside it.
LockedOK ==
    \A id \in locked : \E c \in Caller : call[c].pc \in Critical /\ call[c].id = id

\* What one step of a call does to the mutexes.
LEMMA LockEffect ==
    ASSUME BasicInv, NEW c \in Caller, Start(c) \/ Advance(c) \/ Disturb(c)
    PROVE  \/ /\ call'[c].pc \in Critical /\ call'[c].id = call[c].id
              /\ locked' \subseteq locked \cup {call[c].id}
           \/ /\ call[c].pc \notin Critical
              /\ locked' = locked
           \/ locked' = locked \ {call[c].id}
<1>0. /\ call \in [Caller -> CallRecord]
      /\ \A d \in Caller : call[d] \in CallRecord
  BY DEF BasicInv, TypeOK
<1>1. CASE \/ Start(c) \/ Save(c) \/ Announce(c) \/ Load(c) \/ LoadFails(c)
           \/ LookupToken(c) \/ UnknownToken(c) \/ FindForToken(c)
           \/ FindForTokenFails(c) \/ SaveFails(c)
  BY <1>1 DEF Start, Initiate, CallTransition, CallToken, Save, Announce, Load,
     LoadFails, LookupToken, UnknownToken, FindForToken, FindForTokenFails,
     SaveFails, Critical
<1>2. CASE Lock(c) \/ Check(c) \/ WriteStatus(c) \/ WriteDetails(c) \/ TriggerOwn(c)
  BY <1>0, <1>2 DEF Lock, Check, WriteStatus, WriteDetails, TriggerOwn, Goto,
     Critical, CallRecord
<1>3. CASE CheckFails(c) \/ TriggerChanged(c) \/ UpdateFails(c) \/ ReloadFails(c)
  BY <1>3 DEF CheckFails, TriggerChanged, UpdateFails, ReloadFails
<1>4. CASE HandlerPanics(c)
  BY <1>4 DEF HandlerPanics
<1> QED
  BY <1>1, <1>2, <1>3, <1>4 DEF Advance, Disturb

LEMMA LockedStep == BasicInv /\ LockedOK /\ [Next]_vars => LockedOK'
<1> SUFFICES ASSUME BasicInv, LockedOK, [Next]_vars PROVE LockedOK'
  OBVIOUS
<1>1. ASSUME NEW c \in Caller, Start(c) \/ Advance(c) \/ Disturb(c) PROVE LockedOK'
  <2>1. \A d \in Caller \ {c} : call'[d] = call[d]
    BY <1>1, OnlyOwnCall DEF BasicInv
  <2> QED
    BY <1>1, <2>1, LockEffect DEF LockedOK
<1>2. CASE Crash
  BY <1>2 DEF Crash, LockedOK
<1>3. CASE UNCHANGED vars
  BY <1>3 DEF LockedOK, vars
<1> QED
  BY <1>1, <1>2, <1>3 DEF Next

\* NoOrphanLock for any number of goroutines and transfers and under any faults:
\* errors, panics and crashes included.
THEOREM LocksAreReleased == Spec => []NoOrphanLock
<1>1. Init => BasicInv /\ LockedOK
  BY InitBasic DEF Init, LockedOK
<1>2. BasicInv /\ LockedOK /\ [Next]_vars => (BasicInv /\ LockedOK)'
  BY TypeStep, MutexStep, CallsStep, LockedStep DEF BasicInv
<1>3. BasicInv /\ LockedOK => NoOrphanLock
  BY DEF BasicInv, MutexOK, LockedOK, NoOrphanLock
<1> QED
  BY <1>1, <1>2, <1>3, PTL DEF Spec

-----------------------------------------------------------------------------
(* An interactive token is granted once. *)

\* A call that has got past the token map with a token it consumes.
Granted(k) == k.op = "ConsumeInteractiveToken" /\ k.pc \in {"find", "ok"}

\* What one step of a call does to the token map and to its grant.
LEMMA TokenEffect ==
    ASSUME BasicInv, NEW c \in Caller, Start(c) \/ Advance(c) \/ Disturb(c)
    PROVE  \/ /\ tokenToID' = tokenToID
              /\ Granted(call'[c]) => Granted(call[c]) /\ call'[c].id = call[c].id
           \/ /\ \E id : Fresh(id) /\ tokenToID' \subseteq tokenToID \cup {id}
              /\ ~Granted(call'[c])
           \/ /\ call[c].id \in tokenToID /\ call'[c].id = call[c].id
              /\ tokenToID' = tokenToID \ {call[c].id}
           \/ tokenToID' = tokenToID /\ ~Granted(call'[c])
<1>0. /\ call \in [Caller -> CallRecord]
      /\ \A d \in Caller : call[d] \in CallRecord
  BY DEF BasicInv, TypeOK
<1>1. CASE Initiate(c)
  <2>1. PICK op \in Initiations \cap Operation, id \in Id, mode \in Modes :
          /\ Fresh(id)
          /\ tokenToID' \subseteq tokenToID \cup {id}
          /\ call'[c].op = op
    BY <1>0, <1>1 DEF Initiate, WithToken
  <2>2. ~Granted(call'[c])
    BY <2>1 DEF Granted, Initiations
  <2> QED
    BY <2>1, <2>2
<1>2. CASE CallTransition(c) \/ CallToken(c)
  BY <1>0, <1>2 DEF CallTransition, CallToken, Granted
<1>3. CASE \/ Announce(c) \/ Lock(c) \/ Check(c) \/ WriteStatus(c)
           \/ WriteDetails(c) \/ TriggerOwn(c) \/ TriggerChanged(c) \/ ReloadFails(c)
  <2>1. /\ tokenToID' = tokenToID
        /\ \E step \in Steps : call'[c] = [call[c] EXCEPT !.pc = step]
    BY <1>0, <1>3, GotoType DEF Announce, Lock, Check, WriteStatus, WriteDetails,
       TriggerOwn, TriggerChanged, ReloadFails, Steps
  <2>2. call[c].op # "ConsumeInteractiveToken"
    BY <1>3 DEF BasicInv, CallsOK, CallOK, TokenCalls, Announce, Lock, Check, WriteStatus,
       WriteDetails, TriggerOwn, TriggerChanged, ReloadFails, Critical
  <2> QED
    BY <1>0, <2>1, <2>2 DEF Granted, CallRecord
<1>4. CASE Save(c) \/ Load(c)
  BY <1>0, <1>4 DEF Save, Load, Granted, CallRecord
<1>5. CASE LookupToken(c)
  BY <1>0, <1>5 DEF LookupToken, Goto, Granted, CallRecord
<1>6. CASE FindForToken(c)
  BY <1>0, <1>6 DEF FindForToken, Goto, Granted, CallRecord
<1>7. CASE \/ LoadFails(c) \/ CheckFails(c) \/ UnknownToken(c)
           \/ FindForTokenFails(c) \/ SaveFails(c) \/ UpdateFails(c) \/ HandlerPanics(c)
  <2>1. Fail(c) /\ tokenToID' = tokenToID
    BY <1>7 DEF LoadFails, CheckFails, UnknownToken, FindForTokenFails,
       SaveFails, UpdateFails, HandlerPanics
  <2> QED
    BY <1>0, <2>1, FailType DEF Granted, Idle
<1> QED
  BY <1>1, <1>2, <1>3, <1>4, <1>5, <1>6, <1>7 DEF Start, Advance, Disturb

LEMMA TokenStep == BasicInv /\ TokenGrantedOnce /\ [Next]_vars => TokenGrantedOnce'
<1> SUFFICES ASSUME BasicInv, TokenGrantedOnce, [Next]_vars PROVE TokenGrantedOnce'
  OBVIOUS
<1>1. ASSUME NEW c \in Caller, Start(c) \/ Advance(c) \/ Disturb(c)
      PROVE  TokenGrantedOnce'
  <2>1. \A d \in Caller \ {c} : call'[d] = call[d]
    BY <1>1, OnlyOwnCall DEF BasicInv
  <2> QED
    BY <1>1, <2>1, TokenEffect DEF TokenGrantedOnce, Granted, Fresh
<1>2. CASE Crash
  BY <1>2 DEF Crash, TokenGrantedOnce, Idle
<1>3. CASE UNCHANGED vars
  BY <1>3 DEF TokenGrantedOnce, vars
<1> QED
  BY <1>1, <1>2, <1>3 DEF Next

\* TokenGrantedOnce for any number of goroutines and transfers and under any
\* faults.
THEOREM TokensAreOneTime == Spec => []TokenGrantedOnce
<1>1. Init => BasicInv /\ TokenGrantedOnce
  BY InitBasic DEF Init, TokenGrantedOnce, Idle
<1>2. BasicInv /\ TokenGrantedOnce /\ [Next]_vars => (BasicInv /\ TokenGrantedOnce)'
  BY TypeStep, MutexStep, CallsStep, TokenStep DEF BasicInv
<1> QED
  BY <1>1, <1>2, PTL DEF Spec

-----------------------------------------------------------------------------
(* The manager implements TransferLifecycle. *)

\* Shown, of any store ts and any calls ks.
ShownOf(ts, ks, id) ==
    IF \E c \in Caller : ks[c].pc = "details" /\ ks[c].id = id
    THEN Applied(ts[id], ks[CHOOSE c \in Caller : ks[c].pc = "details" /\ ks[c].id = id])
    ELSE ts[id]

LEMMA ShownUpdating ==
    ASSUME NEW ts, NEW ks, NEW id, NEW c \in Caller,
           ks[c].pc = "details", ks[c].id = id,
           \A d \in Caller : ks[d].pc = "details" /\ ks[d].id = id => d = c
    PROVE  ShownOf(ts, ks, id) = Applied(ts[id], ks[c])
<1>1. (CHOOSE d \in Caller : ks[d].pc = "details" /\ ks[d].id = id) = c
  OBVIOUS
<1> QED
  BY <1>1 DEF ShownOf

LEMMA ShownSettled ==
    ASSUME NEW ts, NEW ks, NEW id,
           \A d \in Caller : ks[d].pc = "details" => ks[d].id # id
    PROVE  ShownOf(ts, ks, id) = ts[id]
BY DEF ShownOf

\* An update in progress is applied to one record, by one call.
LEMMA ShownSame ==
    ASSUME NEW ts, NEW us, NEW ks, NEW ls, NEW id,
           us[id] = ts[id],
           \A d \in Caller :
              (ks[d].pc = "details" /\ ks[d].id = id)
                 <=> (ls[d].pc = "details" /\ ls[d].id = id),
           \A d \in Caller : ks[d].pc = "details" /\ ks[d].id = id => ls[d] = ks[d],
           \A c, d \in Caller :
              ks[c].pc = "details" /\ ks[c].id = id /\ ks[d].pc = "details" /\ ks[d].id = id
                 => c = d
    PROVE  ShownOf(us, ls, id) = ShownOf(ts, ks, id)
<1>1. CASE \E c \in Caller : ks[c].pc = "details" /\ ks[c].id = id
  <2>1. PICK c \in Caller : ks[c].pc = "details" /\ ks[c].id = id
    BY <1>1
  <2>2. ShownOf(ts, ks, id) = Applied(ts[id], ks[c])
    BY <2>1, ShownUpdating
  <2>3. ShownOf(us, ls, id) = Applied(us[id], ls[c])
    BY <2>1, ShownUpdating
  <2> QED
    BY <2>1, <2>2, <2>3
<1>2. CASE ~ \E c \in Caller : ks[c].pc = "details" /\ ks[c].id = id
  BY <1>2, ShownSettled
<1> QED
  BY <1>1, <1>2

\* Only a completed transfer is stamped.
StampOK ==
    \A id \in Id : transfers[id].status # "completed" => transfers[id].completedAt = FALSE

LifeInv == BasicInv /\ StampOK

LEMMA StampStep == LifeInv /\ [Next]_vars => LifeInv'
<1> SUFFICES ASSUME LifeInv, [Next]_vars PROVE StampOK'
  BY TypeStep, MutexStep, CallsStep DEF LifeInv, BasicInv
<1>0. /\ CallsOK /\ BasicInv /\ StampOK
      /\ transfers \in [Id -> Transfer \cup {Absent}]
  BY DEF LifeInv, BasicInv, TypeOK
<1>1. ASSUME NEW c \in Caller, Save(c) PROVE StampOK'
  BY <1>0, <1>1 DEF Save, StampOK, Born
<1>2. ASSUME NEW c \in Caller, WriteStatus(c) PROVE StampOK'
  <2>1. transfers[call[c].id].status # "completed" /\ transfers[call[c].id] \in Transfer
    BY <1>0, <1>2, ExistsType DEF WriteStatus, CallsOK, CallOK, MayMove,
       ValidateTransition, legalTransitions, BasicInv
  <2> QED
    BY <1>0, <1>2, <2>1 DEF WriteStatus, StampOK, Transfer
<1>3. ASSUME NEW c \in Caller, WriteDetails(c) PROVE StampOK'
  <2>1. transfers[call[c].id].status = call[c].next
    BY <1>0, <1>3 DEF WriteDetails, CallsOK, CallOK
  <2>2. /\ Applied(transfers[call[c].id], call[c]).status = call[c].next
        /\ call[c].next # "completed" =>
              Applied(transfers[call[c].id], call[c]).completedAt
                = transfers[call[c].id].completedAt
    BY DEF Applied
  <2> QED
    BY <1>0, <1>3, <2>1, <2>2 DEF WriteDetails, StampOK
<1>4. CASE \E c \in Caller : Quiet(c)
  BY <1>0, <1>4 DEF Quiet, StampOK
<1>5. CASE Crash \/ UNCHANGED vars
  BY <1>0, <1>5 DEF Crash, vars, StampOK
<1> QED
  BY <1>0, <1>1, <1>2, <1>3, <1>4, <1>5, StepKinds

LEMMA LifecycleStep == LifeInv /\ [Next]_vars =>
                         [Lifecycle!Next]_([id \in Id |-> Shown(id)])
<1> DEFINE record == [id \in Id |-> Shown(id)]
<1> SUFFICES ASSUME LifeInv, [Next]_vars
             PROVE  (\E id \in Id : Lifecycle!Create(id) \/ Lifecycle!Move(id))
                      \/ record' = record
  BY DEF Lifecycle!Next
<1>0. /\ TypeOK /\ MutexOK /\ CallsOK /\ BasicInv /\ StampOK
      /\ call \in [Caller -> CallRecord]
      /\ \A c \in Caller : call[c] \in CallRecord
      /\ transfers \in [Id -> Transfer \cup {Absent}]
  BY DEF LifeInv, BasicInv, TypeOK
<1>a. /\ \A id : Shown(id) = ShownOf(transfers, call, id)
      /\ \A id : Shown(id)' = ShownOf(transfers', call', id)
  BY DEF Shown, ShownOf
<1>b. \A c, d \in Caller :
         call[c].pc = "details" /\ call[d].pc = "details" /\ call[c].id = call[d].id => c = d
  BY <1>0 DEF MutexOK, Critical
<1>c. \A c \in Caller : call[c].pc = "details" => Exists(call[c].id)
  BY <1>0 DEF CallsOK, CallOK
<1>1. ASSUME NEW c \in Caller, Save(c)
      PROVE  \E id \in Id : Lifecycle!Create(id)
  <2>1. PICK id \in Id : id = call[c].id /\ ~Exists(id)
    BY <1>0, <1>1 DEF Save, CallsOK, CallOK
  <2>2. PICK kind \in Kinds, mode \in Modes :
           transfers' = [transfers EXCEPT ![id] = Born(kind, mode)]
    BY <1>0, <1>1, <2>1 DEF Save, CallsOK, CallOK, KindOf, Kinds
  <2>3. transfers[id] = Absent
    BY <1>0, <2>1 DEF Exists, Transfer, Statuses, Terminal
  <2>4. \A d \in Caller : call'[d].pc # "details"
    BY <1>0, <1>1 DEF Save, StoreFree, CallRecord
  <2>5. \A i \in Id : Shown(i) = transfers[i] /\ Shown(i)' = transfers'[i]
    <3> SUFFICES ASSUME NEW i \in Id
                 PROVE  Shown(i) = transfers[i] /\ Shown(i)' = transfers'[i]
      OBVIOUS
    <3>1. \A d \in Caller : call[d].pc = "details" => call[d].id # i
      BY <1>1 DEF Save, StoreFree
    <3>2. \A d \in Caller : call'[d].pc = "details" => call'[d].id # i
      BY <2>4
    <3>3. ShownOf(transfers, call, i) = transfers[i]
      BY <3>1, ShownSettled
    <3>4. ShownOf(transfers', call', i) = transfers'[i]
      BY <3>2, ShownSettled
    <3> QED
      BY <1>a, <3>3, <3>4
  <2>6. record' = [record EXCEPT ![id] = Born(kind, mode)]
    BY <1>0, <2>2, <2>5
  <2>7. Lifecycle!BirthStatus(kind, mode) = BirthStatus(kind, mode)
    BY DEF Lifecycle!BirthStatus, BirthStatus
  <2>8. Born(kind, mode) = Lifecycle!Newborn(kind, mode)
    BY <2>7 DEF Born, Lifecycle!Newborn
  <2>9. record[id] = Lifecycle!Unborn
    BY <2>3, <2>5 DEF Absent, Lifecycle!Unborn
  <2>10. kind \in Lifecycle!Kinds /\ mode \in Lifecycle!Modes
    BY DEF Lifecycle!Kinds, Lifecycle!Modes, Kinds, Modes
  <2>11. record' = [record EXCEPT ![id] = Lifecycle!Newborn(kind, mode)]
    BY <2>6, <2>8
  <2>12. Lifecycle!Create(id)
    BY <2>9, <2>10, <2>11 DEF Lifecycle!Create
  <2> QED
    BY <2>12
<1>2. ASSUME NEW c \in Caller, WriteStatus(c)
      PROVE  \E id \in Id : Lifecycle!Move(id)
  <2>1. PICK id \in Id, to \in Statuses :
           /\ id = call[c].id /\ to = call[c].next
           /\ ValidateTransition(transfers[id].status, to)
           /\ transfers[id] \in Transfer
    BY <1>0, <1>2, ExistsType
       DEF WriteStatus, CallsOK, CallOK, MayMove, Exists, Critical
  <2>2. PICK t \in Transfer : t = Applied(transfers[id], call[c])
    BY <1>0, <2>1, AppliedType
  <2>3. /\ t.kind = transfers[id].kind /\ t.mode = transfers[id].mode
        /\ t.status = to /\ t.completedAt = (to = "completed")
        /\ t.txHash \in Ref \cup {NoRef} /\ t.externalRef \in Ref \cup {NoRef}
    <3>1. transfers[id].completedAt = FALSE
      BY <1>0, <2>1 DEF StampOK, ValidateTransition, legalTransitions
    <3>2. t.completedAt = IF to = "completed" THEN TRUE ELSE FALSE
      BY <2>1, <2>2, <3>1 DEF Applied
    <3>3. t.completedAt = (to = "completed")
      BY <3>2
    <3>4. /\ t.kind = transfers[id].kind /\ t.mode = transfers[id].mode
          /\ t.status = to
      BY <2>1, <2>2 DEF Applied
    <3>5. t.txHash \in Ref \cup {NoRef} /\ t.externalRef \in Ref \cup {NoRef}
      BY <2>2 DEF Transfer
    <3> QED
      BY <3>3, <3>4, <3>5
  <2>4. \A i \in Id : Shown(i) = transfers[i]
    BY <1>2, <1>a, ShownSettled DEF WriteStatus, StoreFree
  <2>5. /\ call'[c].pc = "details" /\ call'[c].id = id
        /\ \A d \in Caller \ {c} : call'[d] = call[d] /\ call'[d].pc # "details"
        /\ Applied(transfers'[id], call'[c]) = Applied(transfers[id], call[c])
    <3>1. call'[c] = [call[c] EXCEPT !.pc = "details"]
      BY <1>0, <1>2, GotoType DEF WriteStatus, Steps
    <3>2. transfers'[id] = [transfers[id] EXCEPT !.status = to]
      BY <1>0, <1>2, <2>1 DEF WriteStatus
    <3>3. /\ transfers'[id].kind = transfers[id].kind
          /\ transfers'[id].mode = transfers[id].mode
          /\ transfers'[id].txHash = transfers[id].txHash
          /\ transfers'[id].externalRef = transfers[id].externalRef
          /\ transfers'[id].completedAt = transfers[id].completedAt
      BY <2>1, <3>2 DEF Transfer
    <3>4. /\ call'[c].pc = "details" /\ call'[c].id = id
          /\ call'[c].next = call[c].next /\ call'[c].op = call[c].op
          /\ call'[c].ref = call[c].ref
      BY <1>0, <2>1, <3>1 DEF CallRecord
    <3>5. Applied(transfers'[id], call'[c]) = Applied(transfers[id], call[c])
      BY <3>3, <3>4 DEF Applied
    <3>6. \A d \in Caller \ {c} : call'[d] = call[d] /\ call'[d].pc # "details"
      BY <1>0, <1>2, GotoType DEF WriteStatus, StoreFree, Steps
    <3> QED
      BY <3>4, <3>5, <3>6
  <2>6. Shown(id)' = t
    BY <1>a, <2>2, <2>5, ShownUpdating
  <2>7. \A i \in Id \ {id} : Shown(i)' = transfers[i]
    <3> SUFFICES ASSUME NEW i \in Id \ {id} PROVE Shown(i)' = transfers[i]
      OBVIOUS
    <3>1. \A d \in Caller : call'[d].pc = "details" => call'[d].id # i
      BY <2>5
    <3>2. transfers'[i] = transfers[i]
      BY <1>0, <1>2, <2>1 DEF WriteStatus
    <3> QED
      BY <1>a, <3>1, <3>2, ShownSettled
  <2>8. record' = [record EXCEPT ![id] = t]
    BY <2>4, <2>6, <2>7
  <2>9. record[id] = transfers[id]
    BY <2>4
  <2>10. t = Lifecycle!Moved(transfers[id], to, t.txHash, t.externalRef)
    BY <2>1, <2>2, <2>3 DEF Transfer, Lifecycle!Moved
  <2>11. record' = [record EXCEPT
            ![id] = Lifecycle!Moved(record[id], to, t.txHash, t.externalRef)]
    BY <2>8, <2>9, <2>10
  <2>12. Lifecycle!ValidateTransition(record[id].status, to) /\ to \in Lifecycle!Statuses
    BY <2>1, <2>9 DEF ValidateTransition, legalTransitions, Lifecycle!ValidateTransition,
       Lifecycle!legalTransitions, Statuses, Terminal, Lifecycle!Statuses, Lifecycle!Terminal
  <2>13. Lifecycle!Move(id)
    <3>1. Lifecycle!MoveTo(id, to, t.txHash, t.externalRef)
      BY <2>11, <2>12 DEF Lifecycle!MoveTo
    <3> QED
      BY <2>3, <2>12, <3>1 DEF Lifecycle!Move
  <2> QED
    BY <2>13
<1>3. ASSUME NEW c \in Caller, WriteDetails(c) PROVE record' = record
  <2>1. /\ call[c].pc = "details" /\ call[c].id \in Id
        /\ transfers' = [transfers EXCEPT ![call[c].id] =
              Applied(transfers[call[c].id], call[c])]
        /\ \A d \in Caller \ {c} : call'[d] = call[d]
        /\ call'[c].pc = "own"
    BY <1>0, <1>3, <1>c DEF WriteDetails, Goto, CallRecord, Exists
  <2>2. ASSUME NEW i \in Id PROVE Shown(i)' = Shown(i)
    <3>1. CASE i = call[c].id
      <4>1. Shown(i) = Applied(transfers[i], call[c])
        BY <1>a, <1>b, <2>1, <3>1, ShownUpdating
      <4>2. Shown(i)' = transfers'[i]
        <5>1. ASSUME NEW d \in Caller, call'[d].pc = "details" PROVE call'[d].id # i
          <6>1. d # c
            BY <2>1, <5>1
          <6>2. call'[d] = call[d]
            BY <2>1, <6>1
          <6> QED
            BY <1>b, <2>1, <3>1, <5>1, <6>1, <6>2
        <5>2. ShownOf(transfers', call', i) = transfers'[i]
          BY <5>1, ShownSettled
        <5> QED
          BY <1>a, <5>2
      <4> QED
        BY <1>0, <2>1, <3>1, <4>1, <4>2
    <3>2. CASE i # call[c].id
      <4>1. /\ transfers'[i] = transfers[i]
            /\ \A d \in Caller :
                  (call[d].pc = "details" /\ call[d].id = i)
                     <=> (call'[d].pc = "details" /\ call'[d].id = i)
            /\ \A d \in Caller :
                  call[d].pc = "details" /\ call[d].id = i => call'[d] = call[d]
        BY <1>0, <2>1, <3>2
      <4> QED
        BY <1>a, <1>b, <4>1, ShownSame
    <3> QED
      BY <3>1, <3>2
  <2> QED
    BY <2>2
<1>4. ASSUME NEW c \in Caller, Quiet(c) PROVE record' = record
  <2>1. ASSUME NEW i \in Id PROVE Shown(i)' = Shown(i)
    <3>1. /\ transfers'[i] = transfers[i]
          /\ \A d \in Caller :
                (call[d].pc = "details" /\ call[d].id = i)
                   <=> (call'[d].pc = "details" /\ call'[d].id = i)
          /\ \A d \in Caller :
                call[d].pc = "details" /\ call[d].id = i => call'[d] = call[d]
      BY <1>4 DEF Quiet
    <3> QED
      BY <1>a, <1>b, <3>1, ShownSame
  <2> QED
    BY <2>1
<1>5. CASE Crash
  <2>1. /\ transfers' = transfers
        /\ \A d \in Caller : call[d].pc # "details" /\ call'[d].pc # "details"
    BY <1>5 DEF Crash, StoreFree, Idle
  <2>2. \A i \in Id : Shown(i) = transfers[i] /\ Shown(i)' = transfers[i]
    BY <1>a, <2>1, ShownSettled
  <2> QED
    BY <2>2
<1>6. CASE UNCHANGED vars
  BY <1>6, <1>a DEF vars
<1> QED
  BY <1>0, <1>1, <1>2, <1>3, <1>4, <1>5, <1>6, StepKinds

\* The manager implements the abstract lifecycle: whatever the interleaving and
\* the faults, each transfer changes by atomic moves along legal transitions,
\* a completed transfer is stamped, and a terminal one never changes.
THEOREM ManagerImplementsLifecycle == Spec => ImplementsLifecycle
<1>1. Init => LifeInv /\ Lifecycle!Init
  <2>1. Init => Lifecycle!Init
    BY DEF Init, Lifecycle!Init, Lifecycle!Unborn, Absent, Shown, Idle
  <2> QED
    BY <2>1, InitBasic DEF LifeInv, StampOK, Init, Absent
<1>2. LifeInv /\ [Next]_vars =>
        LifeInv' /\ [Lifecycle!Next]_([id \in Id |-> Shown(id)])
  BY StampStep, LifecycleStep
<1> QED
  BY <1>1, <1>2, PTL DEF Spec, ImplementsLifecycle, Lifecycle!Spec

-----------------------------------------------------------------------------
(* A deposit outside interactive mode moves on. *)

\* An InitiateDeposit that has saved its transfer and not yet moved it.
OnItsWay(c) ==
    call[c].op = "InitiateDeposit" /\ call[c].pc \in {"lock", "check", "write"}

\* It asks for the one transition it is there to make, and does not come from
\* the load of CompleteInteractive.
DepositOK ==
    \A c \in Caller :
        /\ OnItsWay(c) => call[c].next = "pending_external"
        /\ call[c].op = "InitiateDeposit" => call[c].pc # "load"

DepositInv == BasicInv /\ DepositOK /\ NoOrphanDeposit

\* No call moves a transfer back into the status it was born with.
LEMMA NoWayBack ==
    ASSUME NEW from, NEW to, ValidateTransition(from, to)
    PROVE  to # "initiating"
<1>1. Stage(from) \in Nat /\ Stage(to) \in Nat /\ Stage(from) < Stage(to)
  BY StageRises
<1>2. Stage("initiating") = 0
  BY DEF Stage
<1> QED
  BY <1>1, <1>2

\* Without faults such a call goes on until it has written the status, or is
\* refused because the transfer has already left "initiating".
LEMMA DepositAdvances ==
    ASSUME BasicInv, DepositOK, "store" \notin Fault,
           NEW c \in Caller, OnItsWay(c), Start(c) \/ Advance(c) \/ Disturb(c)
    PROVE  \/ OnItsWay(c)' /\ call'[c].id = call[c].id
           \/ WriteStatus(c)
           \/ ~Exists(call[c].id)
           \/ transfers[call[c].id].status # "initiating"
<1>0. /\ call \in [Caller -> CallRecord] /\ call[c] \in CallRecord
      /\ call[c].next = "pending_external"
  BY DEF BasicInv, TypeOK, DepositOK
<1>1. \/ Lock(c) \/ Check(c) \/ WriteStatus(c)
      \/ CheckFails(c)
  BY DEF OnItsWay, Start, Initiate, CallTransition, CallToken, Advance, Save,
     Announce, Load, LoadFails, WriteDetails, TriggerOwn, TriggerChanged,
     LookupToken, UnknownToken, FindForToken, FindForTokenFails, Disturb,
     SaveFails, UpdateFails, ReloadFails, HandlerPanics
<1>2. CASE Lock(c) \/ Check(c)
  BY <1>0, <1>2 DEF OnItsWay, Lock, Check, Goto, CallRecord
<1>3. CASE CheckFails(c)
  <2>1. ~MayMove(c)
    BY <1>3 DEF CheckFails
  <2>2. ValidateTransition("initiating", "pending_external")
    BY DEF ValidateTransition, legalTransitions
  <2> QED
    BY <1>0, <2>1, <2>2 DEF MayMove
<1> QED
  BY <1>1, <1>2, <1>3

\* A call is on its way from its Save, and its request does not change.
LEMMA DepositAsks ==
    ASSUME BasicInv, DepositOK, NEW c \in Caller,
           Start(c) \/ Advance(c) \/ Disturb(c)
    PROVE  DepositOK'
<1>0. /\ call \in [Caller -> CallRecord] /\ call[c] \in CallRecord
      /\ \A d \in Caller \ {c} : call'[d] = call[d]
  BY OnlyOwnCall DEF BasicInv, TypeOK
<1>1. call'[c].op = "InitiateDeposit" => call'[c].pc # "load"
  BY <1>0, FailType DEF Start, Initiate, CallTransition, CallToken, Transitions,
     TokenCalls, Advance, Save, Announce, Load, LoadFails, Lock, Check,
     CheckFails, WriteStatus, WriteDetails, TriggerOwn, TriggerChanged,
     LookupToken, UnknownToken, FindForToken, FindForTokenFails, Disturb,
     SaveFails, UpdateFails, ReloadFails, HandlerPanics, Goto, Idle, CallRecord
<1>2. ASSUME OnItsWay(c)' PROVE call'[c].next = "pending_external"
  <2>1. CASE Save(c)
    BY <1>0, <1>2, <2>1 DEF Save, OnItsWay, CallRecord, Statuses
  <2>2. CASE Lock(c) \/ Check(c)
    BY <1>0, <1>2, <2>2 DEF Lock, Check, Goto, OnItsWay, CallRecord, DepositOK
  <2>3. CASE Start(c) \/ Load(c)
    <3>1. call'[c].pc \in {"save", "token", "load"} \/ call'[c].op # "InitiateDeposit"
      BY <1>0, <2>3 DEF Start, Initiate, CallTransition, CallToken, Load,
         Transitions, DepositOK, CallRecord
    <3> QED
      BY <1>2, <3>1 DEF OnItsWay
  <2>4. CASE \/ Announce(c) \/ WriteStatus(c) \/ WriteDetails(c) \/ TriggerOwn(c)
             \/ TriggerChanged(c) \/ LookupToken(c) \/ FindForToken(c)
             \/ ReloadFails(c)
    <3>1. call'[c].pc \in {"ok", "details", "own", "changed", "announce", "find"}
      BY <1>0, <2>4 DEF Announce, WriteStatus, WriteDetails, TriggerOwn,
         TriggerChanged, LookupToken, FindForToken, ReloadFails, Goto, CallRecord
    <3> QED
      BY <1>2, <3>1 DEF OnItsWay
  <2>5. CASE \/ LoadFails(c) \/ CheckFails(c) \/ UnknownToken(c)
             \/ FindForTokenFails(c) \/ SaveFails(c) \/ UpdateFails(c)
             \/ HandlerPanics(c)
    <3>1. call'[c] = Idle
      BY <1>0, <2>5, FailType DEF LoadFails, CheckFails, UnknownToken,
         FindForTokenFails, SaveFails, UpdateFails, HandlerPanics
    <3> QED
      BY <1>2, <3>1 DEF OnItsWay, Idle
  <2> QED
    BY <2>1, <2>2, <2>3, <2>4, <2>5 DEF Advance, Disturb
<1> QED
  BY <1>0, <1>1, <1>2 DEF DepositOK, OnItsWay

LEMMA DepositStep ==
    ASSUME DepositInv, [Next]_vars, "store" \notin Fault, "crash" \notin Fault
    PROVE  DepositInv'
<1>0. /\ TypeOK /\ BasicInv /\ CallsOK /\ DepositOK /\ NoOrphanDeposit
      /\ call \in [Caller -> CallRecord]
      /\ \A c \in Caller : call[c] \in CallRecord
      /\ transfers \in [Id -> Transfer \cup {Absent}]
  BY DEF DepositInv, BasicInv, TypeOK
<1>1. BasicInv'
  BY <1>0, TypeStep, MutexStep, CallsStep DEF BasicInv
<1>2. DepositOK'
  BY <1>0, DepositAsks DEF Next, Crash, vars, DepositOK, OnItsWay
<1>3. NoOrphanDeposit'
  <2> SUFFICES ASSUME NEW id \in Id, Exists(id)', transfers'[id].status = "initiating"
               PROVE  \E c \in Caller : OnItsWay(c)' /\ call'[c].id = id
    BY DEF NoOrphanDeposit, OnItsWay
  <2>1. CASE UNCHANGED vars
    BY <1>0, <2>1 DEF vars, NoOrphanDeposit, OnItsWay, Exists
  <2>2. ASSUME NEW d \in Caller, Start(d) \/ Advance(d) \/ Disturb(d),
               ~Save(d), ~WriteStatus(d),
               Exists(id), transfers[id].status = "initiating"
        PROVE  \E c \in Caller : OnItsWay(c)' /\ call'[c].id = id
    <3>1. PICK c \in Caller : OnItsWay(c) /\ call[c].id = id
      BY <1>0, <2>2 DEF NoOrphanDeposit, OnItsWay
    <3>2. CASE c = d
      BY <1>0, <2>2, <3>1, <3>2, DepositAdvances
    <3>3. CASE c # d
      BY <1>0, <2>2, <3>1, <3>3, OnlyOwnCall DEF OnItsWay
    <3> QED
      BY <3>2, <3>3
  <2>3. ASSUME NEW d \in Caller, Save(d)
        PROVE  \E c \in Caller : OnItsWay(c)' /\ call'[c].id = id
    <3>0. /\ call[d].id \in Id /\ call[d].mode \in Modes
          /\ call[d].op \in Initiations /\ call[d].pc = "save"
      BY <1>0, <2>3 DEF Save, CallsOK, CallOK
    <3>1. CASE call[d].id = id
      <4>1. transfers'[id] = Born(KindOf(call[d].op), call[d].mode)
        BY <1>0, <2>3, <3>0, <3>1 DEF Save
      <4>2. call[d].op = "InitiateDeposit" /\ call[d].mode # "interactive"
        BY <3>0, <4>1 DEF Born, BirthStatus, KindOf, Modes, Initiations
      <4>3. OnItsWay(d)' /\ call'[d].id = id
        BY <1>0, <2>3, <3>1, <4>2 DEF Save, KindOf, OnItsWay, CallRecord
      <4> QED
        BY <4>3
    <3>2. CASE call[d].id # id
      <4>1. Exists(id) /\ transfers[id].status = "initiating"
        BY <1>0, <2>3, <3>0, <3>2 DEF Save, Exists
      <4>2. PICK c \in Caller : OnItsWay(c) /\ call[c].id = id
        BY <1>0, <4>1 DEF NoOrphanDeposit, OnItsWay
      <4>3. OnItsWay(c)' /\ call'[c].id = id
        BY <1>0, <2>3, <3>2, <4>2, OnlyOwnCall DEF OnItsWay, Advance
      <4> QED
        BY <4>3
    <3> QED
      BY <3>1, <3>2
  <2>4. ASSUME NEW d \in Caller, WriteStatus(d)
        PROVE  \E c \in Caller : OnItsWay(c)' /\ call'[c].id = id
    <3>0. /\ call[d].id \in Id /\ transfers[call[d].id] \in Transfer
          /\ ValidateTransition(transfers[call[d].id].status, call[d].next)
      BY <1>0, <2>4, ExistsType DEF WriteStatus, CallsOK, CallOK, MayMove
    <3>1. call[d].id # id
      <4>1. transfers'[call[d].id].status = call[d].next
        BY <1>0, <2>4, <3>0 DEF WriteStatus, Transfer
      <4> QED
        BY <3>0, <4>1, NoWayBack
    <3>2. Exists(id) /\ transfers[id].status = "initiating"
      BY <1>0, <2>4, <3>0, <3>1 DEF WriteStatus, Exists
    <3>3. PICK c \in Caller : OnItsWay(c) /\ call[c].id = id
      BY <1>0, <3>2 DEF NoOrphanDeposit, OnItsWay
    <3>4. OnItsWay(c)' /\ call'[c].id = id
      BY <1>0, <2>4, <3>1, <3>3, OnlyOwnCall DEF OnItsWay, Advance
    <3> QED
      BY <3>4
  <2>5. ASSUME NEW d \in Caller, WriteDetails(d)
        PROVE  transfers'[id].status = transfers[id].status
    BY <1>0, <2>5, ExistsType DEF WriteDetails, CallsOK, CallOK, Applied, Transfer
  <2>6. ASSUME NEW d \in Caller, Start(d) \/ Advance(d) \/ Disturb(d),
               ~Save(d), ~WriteStatus(d)
        PROVE  Exists(id) /\ transfers[id].status = "initiating"
    <3>1. transfers'[id].status = transfers[id].status
      BY <2>5, <2>6 DEF Start, Initiate, CallTransition, CallToken, Advance,
         Announce, Load, LoadFails, Lock, Check, CheckFails, TriggerOwn,
         TriggerChanged, LookupToken, UnknownToken, FindForToken,
         FindForTokenFails, Disturb, SaveFails, UpdateFails, ReloadFails,
         HandlerPanics
    <3> QED
      BY <3>1 DEF Exists
  <2> QED
    BY <2>1, <2>2, <2>3, <2>4, <2>6 DEF Next, Crash
<1> QED
  BY <1>1, <1>2, <1>3 DEF DepositInv

\* With a store that answers and a process that keeps running, a deposit stays
\* in "initiating" no longer than the InitiateDeposit that saved it.
THEOREM DepositsMoveOn ==
    ASSUME "store" \notin Fault, "crash" \notin Fault
    PROVE  Spec => []NoOrphanDeposit
<1>1. Init => DepositInv
  <2>1. Init => DepositOK /\ NoOrphanDeposit
    BY DEF Init, DepositOK, OnItsWay, NoOrphanDeposit, Idle, Exists, Absent
  <2> QED
    BY <2>1, InitBasic DEF DepositInv
<1>2. DepositInv /\ [Next]_vars => DepositInv'
  BY DepositStep
<1>3. DepositInv => NoOrphanDeposit
  BY DEF DepositInv
<1> QED
  BY <1>1, <1>2, <1>3, PTL DEF Spec

-----------------------------------------------------------------------------
(* The status_changed handlers know the current status. *)

\* No transfer, no triggers; and a transfer between whose moves no call is has
\* been announced.
HeardInv ==
    /\ BasicInv
    /\ \A id \in Id : ~Exists(id) => events[id] = <<>>
    /\ HandlersUpToDate

\* A call whose move of transfer id the handlers may not have been told of.
Telling(c, id) ==
    call[c].id = id /\ call[c].pc \in {"details", "own", "changed"}

\* Of any positions there is a least one, and of some up to n a last one.
LEMMA LeastPosition ==
    ASSUME NEW S \in SUBSET Nat, S # {}
    PROVE  \E m \in S : \A j \in S : m <= j
<1>1. PICK m \in S : \A j \in S : <<j, m>> \notin OpToRel(<, Nat)
  BY NatLessThanWellFounded, WFMin
<1>2. \A j \in S : ~(j < m)
  BY <1>1 DEF OpToRel
<1> QED
  BY <1>2

LEMMA LastPosition ==
    ASSUME NEW n \in Nat, NEW S \in SUBSET (1..n), S # {}
    PROVE  \E m \in S : \A j \in S : j <= m
<1> DEFINE Bounds == {k \in Nat : \A j \in S : j <= k}
<1>1. Bounds \in SUBSET Nat /\ n \in Bounds
  OBVIOUS
<1>2. PICK m \in Bounds : \A k \in Bounds : m <= k
  BY <1>1, LeastPosition
<1>3. CASE m \in S
  BY <1>2, <1>3
<1>4. CASE m \notin S
  <2>1. \A j \in S : j \in Nat /\ 1 <= j /\ j <= m - 1
    BY <1>2, <1>4
  <2>2. PICK i \in S : TRUE
    OBVIOUS
  <2>3. m - 1 \in Nat
    BY <1>2, <2>1, <2>2
  <2>4. m - 1 \in Bounds
    BY <2>1, <2>3
  <2> QED
    BY <1>2, <2>4
<1> QED
  BY <1>3, <1>4

\* A trigger counts as the latest status change if it is one, and else leaves
\* the latest where it was.
LEMMA LatestStatusChange ==
    ASSUME NEW seen \in Seq(Event), NEW e \in Event, NEW more, more = Append(seen, e)
    PROVE  /\ e.hook = "transfer:status_changed" =>
                 /\ StatusChanges(more) # {}
                 /\ more[Latest(StatusChanges(more))] = e
           /\ e.hook # "transfer:status_changed" =>
                 /\ StatusChanges(more) = StatusChanges(seen)
                 /\ StatusChanges(seen) # {} =>
                       more[Latest(StatusChanges(more))] =
                       seen[Latest(StatusChanges(seen))]
<1> DEFINE last == Len(seen) + 1
<1>1. /\ more \in Seq(Event) /\ Len(more) = last /\ more[last] = e
      /\ \A i \in 1..Len(seen) : more[i] = seen[i]
      /\ DOMAIN more = 1..last /\ DOMAIN seen = 1..Len(seen) /\ Len(seen) \in Nat
  BY AppendProperties, LenProperties
<1>2. ASSUME e.hook = "transfer:status_changed"
      PROVE  StatusChanges(more) # {} /\ more[Latest(StatusChanges(more))] = e
  <2>1. last \in StatusChanges(more) /\ \A j \in StatusChanges(more) : j \in Nat /\ j <= last
    BY <1>1, <1>2 DEF StatusChanges
  <2>2. /\ Latest(StatusChanges(more)) \in StatusChanges(more)
        /\ last <= Latest(StatusChanges(more))
    BY <2>1 DEF Latest
  <2>3. Latest(StatusChanges(more)) = last
    BY <1>1, <2>1, <2>2
  <2> QED
    BY <1>1, <2>1, <2>3
<1>3. ASSUME e.hook # "transfer:status_changed"
      PROVE  /\ StatusChanges(more) = StatusChanges(seen)
             /\ StatusChanges(seen) # {} =>
                   more[Latest(StatusChanges(more))] = seen[Latest(StatusChanges(seen))]
  <2>1. StatusChanges(more) = StatusChanges(seen)
    BY <1>1, <1>3 DEF StatusChanges
  <2>2. ASSUME NEW S \in SUBSET (1..Len(seen)), S # {} PROVE Latest(S) \in S
    <3>1. \E m \in S : \A j \in S : j <= m
      BY <1>1, <2>2, LastPosition
    <3> QED
      BY <3>1 DEF Latest
  <2>3. StatusChanges(seen) # {} => Latest(StatusChanges(seen)) \in 1..Len(seen)
    BY <1>1, <2>2 DEF StatusChanges
  <2> QED
    BY <1>1, <2>1, <2>3
<1> QED
  BY <1>2, <1>3

LEMMA HeardAfterTrigger ==
    ASSUME TypeOK, NEW hook \in Hooks, NEW at \in Id, Exists(at), Trigger(hook, at),
           transfers' = transfers, NEW id \in Id
    PROVE  /\ hook = "transfer:status_changed" /\ id = at =>
                 LastHeard(id)' = transfers[id].status
           /\ hook # "transfer:status_changed" \/ id # at =>
                 LastHeard(id)' = LastHeard(id)
<1> DEFINE e == [hook |-> hook, status |-> transfers[at].status]
<1>1. e \in Event /\ e.hook = hook /\ e.status = transfers[at].status
  BY ExistsType DEF Event, Transfer
<1>2. events[at] \in Seq(Event) /\ events[id] \in Seq(Event)
  BY DEF TypeOK
<1>3. events' = [events EXCEPT ![at] = Append(events[at], e)]
  BY DEF Trigger
<1> HIDE DEF e
<1>4. id # at => events'[id] = events[id]
  BY <1>3 DEF TypeOK
<1>5. id = at => events'[id] = Append(events[id], e)
  BY <1>3 DEF TypeOK
<1>6. CASE id # at
  BY <1>4, <1>6 DEF LastHeard
<1>7. CASE id = at
  <2>1. /\ hook = "transfer:status_changed" =>
              /\ StatusChanges(events'[id]) # {}
              /\ events'[id][Latest(StatusChanges(events'[id]))] = e
        /\ hook # "transfer:status_changed" =>
              /\ StatusChanges(events'[id]) = StatusChanges(events[id])
              /\ StatusChanges(events[id]) # {} =>
                    events'[id][Latest(StatusChanges(events'[id]))] =
                    events[id][Latest(StatusChanges(events[id]))]
    BY <1>1, <1>2, <1>5, <1>7, LatestStatusChange
  <2> QED
    BY <1>1, <1>7, <2>1 DEF LastHeard
<1> QED
  BY <1>6, <1>7

\* A step that triggers nothing and moves nothing, after which no call has less
\* to tell than before.
LEMMA HeardKept ==
    ASSUME HeardInv, UNCHANGED <<transfers, events>>,
           \A id \in Id, c \in Caller : Telling(c, id) => Telling(c, id)'
    PROVE  HandlersUpToDate' /\ \A id \in Id : ~Exists(id)' => events'[id] = <<>>
BY DEF HeardInv, HandlersUpToDate, LastHeard, Exists, Telling

LEMMA HeardStep ==
    ASSUME HeardInv, [Next]_vars, Fault = {}
    PROVE  HeardInv'
<1> DEFINE Fine == HandlersUpToDate' /\ \A id \in Id : ~Exists(id)' => events'[id] = <<>>
<1>0. /\ BasicInv /\ TypeOK /\ CallsOK /\ HandlersUpToDate
      /\ call \in [Caller -> CallRecord] /\ \A c \in Caller : call[c] \in CallRecord
      /\ transfers \in [Id -> Transfer \cup {Absent}]
      /\ events \in [Id -> Seq(Event)]
      /\ \A id \in Id : ~Exists(id) => events[id] = <<>>
      /\ \A c \in Caller : Start(c) \/ Advance(c) \/ Disturb(c) =>
            \A d \in Caller \ {c} : call'[d] = call[d]
  BY OnlyOwnCall DEF HeardInv, BasicInv, TypeOK
<1>1. ASSUME NEW c \in Caller,
             \/ Start(c) \/ Load(c) \/ LoadFails(c) \/ Lock(c) \/ Check(c)
             \/ CheckFails(c) \/ LookupToken(c) \/ UnknownToken(c)
             \/ FindForToken(c) \/ FindForTokenFails(c)
      PROVE  Fine
  <2>1. UNCHANGED <<transfers, events>>
    BY <1>1 DEF Start, Initiate, CallTransition, CallToken, Load, LoadFails,
       Lock, Check, CheckFails, LookupToken, UnknownToken, FindForToken,
       FindForTokenFails
  <2>2. call[c].pc \notin {"details", "own", "changed"}
    BY <1>1 DEF Start, Initiate, CallTransition, CallToken, Load, LoadFails,
       Lock, Check, CheckFails, LookupToken, UnknownToken, FindForToken,
       FindForTokenFails
  <2>3. \A d \in Caller \ {c} : call'[d] = call[d]
    BY <1>0, <1>1 DEF Advance
  <2> QED
    BY <2>1, <2>2, <2>3, HeardKept DEF Telling
<1>2. ASSUME NEW c \in Caller, Save(c) PROVE Fine
  <2>1. PICK at \in Id, kind \in Kinds, mode \in Modes :
          at = call[c].id /\ kind = KindOf(call[c].op) /\ mode = call[c].mode
    BY <1>0, <1>2 DEF CallsOK, CallOK, Save, KindOf, Kinds
  <2>2. /\ transfers'[at] = Born(kind, mode)
        /\ \A i \in Id \ {at} : transfers'[i] = transfers[i]
        /\ events' = events /\ events[at] = <<>> /\ call[c].pc = "save"
        /\ \A d \in Caller \ {c} : call'[d] = call[d]
    BY <1>0, <1>2, <2>1 DEF Save, Advance, CallsOK, CallOK
  <2>3. Exists(at)'
    <3>1. Born(kind, mode) \in Transfer
      BY BirthType
    <3> QED
      BY <2>2, <3>1 DEF Exists, Transfer, Statuses, Terminal
  <2>4. ASSUME NEW id \in Id, Exists(id)',
               \A d \in Caller : ~Telling(d, id)'
        PROVE  LastHeard(id)' = transfers'[id].status
    <3>1. CASE id = at
      BY <2>2, <3>1 DEF LastHeard, StatusChanges, Born
    <3>2. CASE id # at
      <4>1. Exists(id) /\ \A d \in Caller : ~Telling(d, id)
        BY <2>1, <2>2, <2>4, <3>2 DEF Exists, Telling
      <4>2. LastHeard(id) = transfers[id].status
        BY <1>0, <4>1 DEF HandlersUpToDate, Telling
      <4> QED
        BY <2>2, <3>2, <4>2 DEF LastHeard
    <3> QED
      BY <3>1, <3>2
  <2>5. ASSUME NEW id \in Id, ~Exists(id)' PROVE events'[id] = <<>>
    BY <1>0, <2>2, <2>3, <2>5 DEF Exists
  <2> QED
    BY <2>4, <2>5 DEF HandlersUpToDate, Telling
<1>3. ASSUME NEW c \in Caller, WriteStatus(c) \/ WriteDetails(c) PROVE Fine
  <2>1. PICK at \in Id, next \in Statuses :
          /\ at = call[c].id /\ Exists(at) /\ next = call[c].next
          /\ transfers[at] \in Transfer
    BY <1>0, <1>3, ExistsType DEF CallsOK, CallOK, WriteStatus, WriteDetails, Critical
  <2>2. /\ \A i \in Id \ {at} : transfers'[i] = transfers[i]
        /\ transfers'[at].status = next
        /\ events' = events
        /\ \A d \in Caller \ {c} : call'[d] = call[d]
        /\ Telling(c, at)'
    BY <1>0, <1>3, <2>1
       DEF WriteStatus, WriteDetails, Applied, Transfer, Advance, Goto, CallRecord, Telling
  <2>3. Exists(at)'
    BY <2>1, <2>2 DEF Exists, Statuses, Terminal
  <2>4. ASSUME NEW id \in Id, Exists(id)',
               \A d \in Caller : ~Telling(d, id)'
        PROVE  LastHeard(id)' = transfers'[id].status
    <3>1. id # at
      BY <2>2, <2>4
    <3>2. Exists(id) /\ \A d \in Caller : ~Telling(d, id)
      BY <2>1, <2>2, <2>4, <3>1 DEF Exists, Telling
    <3>3. LastHeard(id) = transfers[id].status
      BY <1>0, <3>2 DEF HandlersUpToDate, Telling
    <3> QED
      BY <2>2, <3>1, <3>3 DEF LastHeard
  <2>5. ASSUME NEW id \in Id, ~Exists(id)' PROVE events'[id] = <<>>
    BY <1>0, <2>1, <2>2, <2>3, <2>5 DEF Exists
  <2> QED
    BY <2>4, <2>5 DEF HandlersUpToDate, Telling
<1>4. ASSUME NEW c \in Caller, Announce(c) \/ TriggerOwn(c) \/ TriggerChanged(c)
      PROVE  Fine
  <2>1. PICK at \in Id :
        /\ Exists(at) /\ at = call[c].id
        /\ transfers' = transfers
        /\ \A d \in Caller \ {c} : call'[d] = call[d]
    BY <1>0, <1>4, ExistsType
       DEF CallsOK, CallOK, Announce, TriggerOwn, TriggerChanged, Advance
  <2>2. CASE TriggerChanged(c)
    <3>1. Trigger("transfer:status_changed", at)
      BY <2>1, <2>2 DEF TriggerChanged
    <3>2. \A id \in Id :
             LastHeard(id)' = IF id = at THEN transfers[id].status ELSE LastHeard(id)
      BY <1>0, <2>1, <3>1, HeardAfterTrigger DEF Hooks
    <3> QED
      BY <1>0, <2>1, <3>1, <3>2 DEF HandlersUpToDate, Exists, Trigger
  <2>3. CASE TriggerOwn(c) /\ OwnHook(call[c].op) = "none"
    <3>1. UNCHANGED <<transfers, events>> /\ Telling(c, at) /\ Telling(c, at)'
      BY <1>0, <2>1, <2>3 DEF TriggerOwn, Goto, CallRecord, Telling
    <3> QED
      BY <2>1, <3>1, HeardKept DEF Telling
  <2>4. CASE \/ Announce(c)
             \/ TriggerOwn(c) /\ OwnHook(call[c].op) # "none"
    <3>1. PICK hook \in Hooks : Trigger(hook, at)
      BY <2>1, <2>4 DEF Announce, TriggerOwn, OwnHook, Hooks
    <3>2. /\ hook = "transfer:status_changed" =>
                Telling(c, at) /\ Telling(c, at)'
          /\ \A id \in Id : Telling(c, id) => Telling(c, id)'
      <4>1. CASE Announce(c)
        <5>1. hook # "transfer:status_changed"
          <6>1. Append(events[at],
                       [hook |-> hook, status |-> transfers[at].status])
                = Append(events[at],
                     [hook |-> IF call[c].op = "InitiateDeposit" THEN "deposit:initiated"
                               ELSE "withdrawal:initiated",
                      status |-> transfers[at].status])
            BY <1>0, <2>1, <3>1, <4>1 DEF Announce, Trigger
          <6> QED
            BY <1>0, <2>1, <6>1, AppendInjective
        <5> QED
          BY <4>1, <5>1 DEF Announce, Telling
      <4>2. CASE TriggerOwn(c)
        BY <1>0, <2>1, <4>2 DEF TriggerOwn, Goto, CallRecord, Telling
      <4> QED
        BY <2>4, <4>1, <4>2
    <3>3. ASSUME NEW id \in Id, Exists(id)', \A d \in Caller : ~Telling(d, id)'
          PROVE  LastHeard(id)' = transfers'[id].status
      <4>1. Exists(id) /\ \A d \in Caller : ~Telling(d, id)
        BY <2>1, <3>2, <3>3 DEF Exists, Telling
      <4>2. LastHeard(id) = transfers[id].status
        BY <1>0, <4>1 DEF HandlersUpToDate, Telling
      <4>3. hook # "transfer:status_changed" \/ id # at
        BY <3>2, <3>3
      <4> QED
        BY <1>0, <2>1, <3>1, <4>2, <4>3, HeardAfterTrigger
    <3>4. ASSUME NEW id \in Id, ~Exists(id)' PROVE events'[id] = <<>>
      BY <1>0, <2>1, <3>1, <3>4 DEF Exists, Trigger
    <3> QED
      BY <3>3, <3>4 DEF HandlersUpToDate, Telling
  <2> QED
    BY <1>4, <2>2, <2>3, <2>4
<1>5. ASSUME UNCHANGED vars PROVE Fine
  <2>1. UNCHANGED <<transfers, events>> /\ call' = call
    BY <1>5 DEF vars
  <2> QED
    BY <2>1, HeardKept DEF Telling
<1>6. ~Crash /\ \A c \in Caller : ~Disturb(c)
  BY DEF Disturb, SaveFails, UpdateFails, ReloadFails, HandlerPanics, Crash
<1>7. Fine
  BY <1>1, <1>2, <1>3, <1>4, <1>5, <1>6 DEF Next, Advance
<1> QED
  BY <1>0, <1>7, TypeStep, MutexStep, CallsStep DEF HeardInv, BasicInv

\* When the store answers, handlers return and the process keeps running, the
\* status_changed handlers know the status of every transfer that no call is moving.
THEOREM HandlersKnow ==
    ASSUME Fault = {}
    PROVE  Spec => []HandlersUpToDate
<1>1. Init => HeardInv
  <2>1. Init => /\ \A id \in Id : ~Exists(id) => events[id] = <<>>
                /\ HandlersUpToDate
    BY DEF Init, HandlersUpToDate, Exists, Absent
  <2> QED
    BY <2>1, InitBasic DEF HeardInv
<1>2. HeardInv /\ [Next]_vars => HeardInv'
  BY HeardStep
<1>3. HeardInv => HandlersUpToDate
  BY DEF HeardInv
<1> QED
  BY <1>1, <1>2, <1>3, PTL DEF Spec

=============================================================================

-------------------------- MODULE TransferLifecycle --------------------------
(***************************************************************************)
(* What the transfer manager promises about each transfer, seen from       *)
(* outside: a transfer is created once, in the status its kind and mode    *)
(* call for, and from then on its record changes only by single atomic     *)
(* moves along the legal transitions.  A move writes the status and its    *)
(* details together, so a completed record is always stamped, and the      *)
(* record of a transfer in a terminal status never changes again.          *)
(***************************************************************************)
EXTENDS TransferFSM

CONSTANTS Id,     \* transfer IDs
          Ref,    \* transaction hashes and bank references
          NoRef   \* the empty reference

VARIABLE record

Unborn == [kind |-> "none", mode |-> "none", status |-> "none",
           txHash |-> NoRef, externalRef |-> NoRef, completedAt |-> FALSE]

Init == record = [id \in Id |-> Unborn]

Newborn(kind, mode) ==
    [kind |-> kind, mode |-> mode, status |-> BirthStatus(kind, mode),
     txHash |-> NoRef, externalRef |-> NoRef, completedAt |-> FALSE]

Create(id) ==
    /\ record[id] = Unborn
    /\ \E kind \in Kinds, mode \in Modes :
          record' = [record EXCEPT ![id] = Newborn(kind, mode)]

Moved(r, to, hash, ref) ==
    [kind |-> r.kind, mode |-> r.mode, status |-> to,
     txHash |-> hash, externalRef |-> ref, completedAt |-> (to = "completed")]

MoveTo(id, to, hash, ref) ==
    /\ ValidateTransition(record[id].status, to)
    /\ record' = [record EXCEPT ![id] = Moved(record[id], to, hash, ref)]

Move(id) ==
    \E to \in Statuses, hash \in Ref \cup {NoRef}, ref \in Ref \cup {NoRef} :
        MoveTo(id, to, hash, ref)

Next == \E id \in Id : Create(id) \/ Move(id)

Spec == Init /\ [][Next]_record
=============================================================================

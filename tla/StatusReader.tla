----------------------------- MODULE StatusReader -----------------------------
(***************************************************************************)
(* A client that polls TransferManager.GetStatus while the transfer moves. *)
(* FindByID takes the store's lock only to look up a pointer to the live   *)
(* record; GetStatus then reads the fields one after the other, with no    *)
(* lock, and may do so before, after or in the middle of an Update.        *)
(*                                                                         *)
(*   found -> status -> rest (the answer is complete) -> found ..          *)
(*                                                                         *)
(* The reads of CompletedAt, TxHash and ExternalTxID are one step.  The    *)
(* Go memory model lets an unlocked read return an older value as well;    *)
(* the model has it return the current one.                                *)
(***************************************************************************)
EXTENDS TransferManager

VARIABLES reader,  \* the GetStatus call of the client
          last     \* the status of the previous answer, "none" at first

readerVars == <<reader, last>>

NoAnswer == [pc |-> "idle", id |-> NoId, status |-> "none", completedAt |-> FALSE]

ReaderInit == Init /\ reader = NoAnswer /\ last = "none"

\* The client polls one transfer. A GetStatus of an unknown transfer returns
\* an error and reads nothing.
Find ==
    /\ reader.pc \in {"idle", "rest"}
    /\ StoreFree
    /\ \E id \in Id :
         /\ Exists(id)
         /\ reader.pc = "rest" => id = reader.id
         /\ reader' = [NoAnswer EXCEPT !.pc = "found", !.id = id]
    /\ last' = IF reader.pc = "rest" THEN reader.status ELSE last
    /\ UNCHANGED vars

ReadStatus ==
    /\ reader.pc = "found"
    /\ reader' = [reader EXCEPT !.pc = "status",
                                !.status = transfers[reader.id].status]
    /\ UNCHANGED <<vars, last>>

ReadRest ==
    /\ reader.pc = "status"
    /\ reader' = [reader EXCEPT !.pc = "rest",
                                !.completedAt = transfers[reader.id].completedAt]
    /\ UNCHANGED <<vars, last>>

-----------------------------------------------------------------------------
(* Properties. *)

ReaderTypeOK ==
    /\ reader \in [pc: {"idle", "found", "status", "rest"}, id: Id \cup {NoId},
                   status: Statuses \cup {"none"}, completedAt: BOOLEAN]
    /\ last \in Statuses \cup {"none"}

\* The statuses that one move, or none, leads to.
After(froms) == froms \cup UNION {legalTransitions[from] : from \in froms}

\* The longest path, from initiating to completed, has five moves.
Later(from) == After(After(After(After(After({from})))))

\* Successive answers of GetStatus follow the lifecycle, whoever moves the
\* transfer meanwhile: a poller never sees a transfer leave a terminal status,
\* or turn back (SDK clients stop polling at a terminal status).
AnswersFollowLifecycle ==
    last # "none" /\ reader.pc \in {"status", "rest"} =>
        reader.status \in Later(last)
=============================================================================

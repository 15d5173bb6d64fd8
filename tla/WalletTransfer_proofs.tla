----------------------- MODULE WalletTransfer_proofs -----------------------
(***************************************************************************)
(* Proofs about WalletTransfer, for any goroutines and transfers of the    *)
(* anchor.                                                                 *)
(***************************************************************************)
EXTENDS WalletTransfer, TransferManager_proofs

(* What the wallet and the pages do to the manager is what callers do. *)

LEMMA WalletStep == [WalletNext]_walletVars => [Next]_vars
<1> SUFFICES ASSUME [WalletNext]_walletVars PROVE [Next]_vars
  OBVIOUS
<1>1. CASE initiateTransfer \/ InitiationFails \/ WaitForCompletion \/ PollFails
           \/ ContextDone \/ Waits
  BY <1>1 DEF initiateTransfer, InitiationFails, WaitForCompletion, PollFails,
     ContextDone, Waits, ServePoll, PollAnswers, BackoffOver, Find, ReadStatus,
     ReadRest, vars
<1>2. ASSUME NEW c \in Caller,
             ServeInitiation(c) \/ Opened(c) \/ OpenForm(c) \/ HostCall(c) \/ Serve(c)
      PROVE  [Next]_vars
  BY <1>2 DEF ServeInitiation, Opened, OpenForm, HostCall, Serve, FinishPost,
     Next, Start
<1>3. CASE UNCHANGED walletVars
  BY <1>3 DEF walletVars, vars
<1> QED
  BY <1>1, <1>2, <1>3 DEF WalletNext

\* Whatever is proved of the manager's transfers holds of the wallet's anchor.
THEOREM WalletUsesManager == WalletSpec => Spec
<1>1. WalletInit => Init
  BY DEF WalletInit, ReaderInit
<1> QED
  BY <1>1, WalletStep, PTL DEF WalletSpec, Spec

-----------------------------------------------------------------------------
(* The statuses that come after one. *)

LEMMA AfterMembers ==
    ASSUME NEW S, NEW t
    PROVE  t \in After(S) <=> t \in S \/ \E s \in S : t \in legalTransitions[s]
BY DEF After

\* Nothing comes after what comes after a status.
LEMMA LaterIsClosed ==
    ASSUME NEW from \in Statuses
    PROVE  After(Later(from)) = Later(from)
<1>1. CASE from \in Terminal
  <2>1. After({from}) = {from}
    BY <1>1 DEF After, legalTransitions, Terminal
  <2> QED
    BY <2>1 DEF Later
<1> DEFINE Paid == {"pending_stellar", "completed", "failed"}
           Sent == Paid \cup {"pending_external", "cancelled"}
           Asked == Sent \cup {"pending_user_transfer_start"}
           Open == Asked \cup {"interactive", "expired"}
           All == Open \cup {"initiating", "denied"}
<1>2. /\ After(Paid) = Paid /\ After(Sent) = Sent /\ After(Asked) = Asked
      /\ After(Open) = Open /\ After(All) = All
  BY DEF After, legalTransitions
<1>3. CASE from = "pending_stellar"
  <2>1. After({from}) = Paid
    BY <1>3 DEF After, legalTransitions
  <2> QED
    BY <1>2, <2>1 DEF Later
<1>4. CASE from = "payment_required"
  <2> DEFINE Due == Paid \cup {"payment_required"}
  <2>1. After(After({from})) = Due /\ After(Due) = Due
    BY <1>4 DEF After, legalTransitions
  <2> QED
    BY <2>1 DEF Later
<1>5. CASE from = "pending_external"
  <2>1. After(After({from})) = Sent
    BY <1>5 DEF After, legalTransitions
  <2> QED
    BY <1>2, <2>1 DEF Later
<1>6. CASE from = "pending_user_transfer_start"
  <2>1. After(After(After({from}))) = Asked
    BY <1>6 DEF After, legalTransitions
  <2> QED
    BY <1>2, <2>1 DEF Later
<1>7. CASE from = "interactive"
  <2>1. After({from}) = {"interactive", "pending_user_transfer_start",
                         "pending_external", "failed", "expired"}
    BY <1>7 DEF After, legalTransitions
  <2>2. After(After(After({from}))) = Open
    BY <2>1 DEF After, legalTransitions
  <2> QED
    BY <1>2, <2>2 DEF Later
<1>8. CASE from = "initiating"
  <2>1. After({from}) = {"initiating", "interactive", "pending_user_transfer_start",
                         "pending_external", "failed", "denied"}
    BY <1>8 DEF After, legalTransitions
  <2>2. After(After(After({from}))) = All
    BY <2>1 DEF After, legalTransitions
  <2> QED
    BY <1>2, <2>2 DEF Later
<1> QED
  BY <1>1, <1>3, <1>4, <1>5, <1>6, <1>7, <1>8 DEF Statuses

LEMMA LaterSelf ==
    ASSUME NEW from
    PROVE  from \in Later(from)
BY AfterMembers DEF Later

LEMMA LaterMove ==
    ASSUME NEW from \in Statuses, NEW status \in Later(from), NEW to,
           ValidateTransition(status, to)
    PROVE  to \in Later(from)
<1>1. to \in After(Later(from))
  BY AfterMembers DEF ValidateTransition
<1> QED
  BY <1>1, LaterIsClosed

LEMMA LaterThanFinal ==
    ASSUME NEW from \in Terminal
    PROVE  Later(from) = {from}
<1>1. After({from}) = {from}
  BY DEF After, legalTransitions, Terminal
<1> QED
  BY <1>1 DEF Later

-----------------------------------------------------------------------------
(* What was read of a transfer stays behind it. *)

\* A transfer that exists keeps its status or makes a legal move.
LEMMA StatusStep ==
    ASSUME BasicInv, [Next]_vars, NEW id, Exists(id)
    PROVE  /\ Exists(id)'
           /\ \/ transfers'[id].status = transfers[id].status
              \/ ValidateTransition(transfers[id].status, transfers'[id].status)
<1>0. /\ TypeOK /\ CallsOK /\ id \in Id /\ transfers[id].status \in Statuses
      /\ transfers \in [Id -> Transfer \cup {Absent}]
      /\ \A s \in Statuses : s # "none"
  BY ExistsType DEF BasicInv, TypeOK, Transfer, Statuses, Terminal
<1>1. ASSUME NEW c \in Caller, Save(c)
      PROVE  transfers'[id].status = transfers[id].status
  <2>1. call[c].id # id
    BY <1>0, <1>1 DEF Save, CallsOK, CallOK
  <2> QED
    BY <1>0, <1>1, <2>1 DEF Save
<1>2. ASSUME NEW c \in Caller, WriteStatus(c)
      PROVE  \/ transfers'[id].status = transfers[id].status
             \/ /\ ValidateTransition(transfers[id].status, transfers'[id].status)
                /\ transfers'[id].status \in Statuses
  <2>1. MayMove(c) /\ call[c].next \in Statuses
    BY <1>0, <1>2 DEF WriteStatus, CallsOK, CallOK, Critical
  <2>2. CASE call[c].id = id
    BY <1>0, <1>2, <2>1, <2>2, ExistsType DEF WriteStatus, MayMove, Transfer
  <2>3. CASE call[c].id # id
    BY <1>0, <1>2, <2>3 DEF WriteStatus
  <2> QED
    BY <2>2, <2>3
<1>3. ASSUME NEW c \in Caller, WriteDetails(c)
      PROVE  transfers'[id].status = transfers[id].status
  BY <1>0, <1>3 DEF WriteDetails, CallsOK, CallOK, Applied
<1>4. ASSUME (\E c \in Caller : Quiet(c)) \/ Crash \/ UNCHANGED vars
      PROVE  transfers'[id].status = transfers[id].status
  BY <1>4 DEF Quiet, Crash, vars
<1>5. \/ transfers'[id].status = transfers[id].status
      \/ /\ ValidateTransition(transfers[id].status, transfers'[id].status)
         /\ transfers'[id].status \in Statuses
  BY <1>1, <1>2, <1>3, <1>4, StepKinds
<1> QED
  BY <1>0, <1>5 DEF Exists

LEMMA LaterStep ==
    ASSUME BasicInv, [Next]_vars, NEW id, Exists(id),
           NEW from \in Statuses, transfers[id].status \in Later(from)
    PROVE  Exists(id)' /\ transfers'[id].status \in Later(from)
BY StatusStep, LaterMove

\* A call that has returned nil was about a transfer.
ReturnedOK == \A c \in Caller : call[c].pc = "ok" => Exists(call[c].id)

LEMMA ReturnedStep == BasicInv /\ ReturnedOK /\ [Next]_vars => ReturnedOK'
<1> SUFFICES ASSUME BasicInv, ReturnedOK, [Next]_vars,
                    NEW d \in Caller, call'[d].pc = "ok"
             PROVE  Exists(call[d].id)'
  BY DEF ReturnedOK
<1>0. /\ TypeOK /\ CallsOK /\ call \in [Caller -> CallRecord]
      /\ \A c \in Caller : call[c] \in CallRecord
  BY DEF BasicInv, TypeOK
<1>1. CASE call'[d] = call[d]
  <2>1. Exists(call[d].id)
    BY <1>1 DEF ReturnedOK
  <2> QED
    BY <1>1, <2>1, StatusStep DEF Exists
<1>2. ASSUME NEW c \in Caller, Start(c) \/ Advance(c) \/ Disturb(c),
             call'[d] # call[d]
      PROVE  Exists(call[d].id) /\ call'[d].id = call[d].id
  <2>1. d = c
    BY <1>0, <1>2, OnlyOwnCall
  <2>2. CASE Start(c)
    BY <1>0, <2>1, <2>2 DEF Start, Initiate, CallTransition, CallToken
  <2>3. CASE Announce(c) \/ TriggerChanged(c) \/ ReloadFails(c)
    BY <1>0, <2>1, <2>3 DEF Announce, TriggerChanged, ReloadFails, Goto, CallsOK, CallOK,
       CallRecord
  <2>4. CASE FindForToken(c)
    BY <1>0, <2>1, <2>4 DEF FindForToken, Goto, CallRecord
  <2>5. CASE \/ Save(c) \/ Load(c) \/ Lock(c) \/ Check(c) \/ WriteStatus(c)
             \/ WriteDetails(c) \/ TriggerOwn(c) \/ LookupToken(c)
    BY <1>0, <2>1, <2>5 DEF Save, Load, Lock, Check, WriteStatus, WriteDetails,
       TriggerOwn, LookupToken, Goto, CallRecord
  <2>6. CASE \/ LoadFails(c) \/ CheckFails(c) \/ UnknownToken(c)
             \/ FindForTokenFails(c) \/ SaveFails(c) \/ UpdateFails(c) \/ HandlerPanics(c)
    BY <1>0, <2>1, <2>6, FailType DEF LoadFails, CheckFails, UnknownToken,
       FindForTokenFails, SaveFails, UpdateFails, HandlerPanics, Idle
  <2> QED
    BY <1>2, <2>2, <2>3, <2>4, <2>5, <2>6 DEF Advance, Disturb
<1>3. CASE Crash
  BY <1>3 DEF Crash, Idle
<1>4. CASE UNCHANGED vars
  BY <1>1, <1>4 DEF vars
<1>5. ASSUME Exists(call[d].id) /\ call'[d].id = call[d].id
      PROVE  Exists(call[d].id)'
  BY <1>5, StatusStep DEF Exists
<1> QED
  BY <1>1, <1>2, <1>3, <1>4, <1>5 DEF Next

-----------------------------------------------------------------------------
(* The reader and the wallet. *)

\* What a GetStatus has read, and what the one before answered, is of a status
\* from which the transfer has come to where it is.
SeenOK ==
    /\ reader.pc # "idle" => Exists(reader.id)
    /\ reader.pc = "idle" => last = "none"
    /\ last # "none" =>
         last \in Statuses /\ transfers[reader.id].status \in Later(last)
    /\ reader.pc \in {"status", "rest"} =>
         /\ reader.status \in Statuses
         /\ transfers[reader.id].status \in Later(reader.status)

\* What the wallet has been told is what a GetStatus of its transfer answered.
ToldOK ==
    /\ wallet.pc \notin {"none", "request"} => Exists(wallet.id)
    /\ wallet.pc = "served" => reader.pc # "idle" /\ reader.id = wallet.id
    /\ wallet.pc \in {"none", "request"} => wallet.status = "none"

SeenInv ==
    /\ BasicInv /\ ReturnedOK /\ WalletTypeOK /\ SeenOK /\ ToldOK
    /\ AnswersFollowLifecycle /\ FinalStatusIsTrue

LEMMA ReaderMoves ==
    ASSUME [WalletNext]_walletVars
    PROVE  UNCHANGED readerVars \/ Find \/ ReadStatus \/ ReadRest
BY DEF WalletNext, walletVars, initiateTransfer, InitiationFails, ServeInitiation, Opened,
   OpenForm, HostCall, Serve, FinishPost, WaitForCompletion, PollFails, ContextDone,
   Waits, ServePoll, PollAnswers, BackoffOver, readerVars

LEMMA SeenStep ==
    ASSUME SeenInv, [WalletNext]_walletVars
    PROVE  SeenOK' /\ AnswersFollowLifecycle' /\ ReaderTypeOK'
<1>0. /\ BasicInv /\ TypeOK /\ SeenOK /\ AnswersFollowLifecycle /\ [Next]_vars
      /\ ReaderTypeOK
  BY WalletStep DEF SeenInv, BasicInv, WalletTypeOK
<1>1. CASE UNCHANGED readerVars
  <2>1. reader' = reader /\ last' = last
    BY <1>1 DEF readerVars
  <2>2. SeenOK'
    <3>1. CASE reader.pc = "idle"
      BY <1>0, <2>1, <3>1 DEF SeenOK
    <3>2. CASE reader.pc # "idle"
      BY <1>0, <2>1, <3>2, LaterStep, StatusStep DEF SeenOK
    <3> QED
      BY <3>1, <3>2
  <2> QED
    BY <1>0, <2>1, <2>2 DEF AnswersFollowLifecycle, ReaderTypeOK
<1>2. CASE Find
  <2>1. PICK id \in Id :
          /\ Exists(id)
          /\ reader.pc = "rest" => id = reader.id
          /\ reader' = [NoAnswer EXCEPT !.pc = "found", !.id = id]
    BY <1>2 DEF Find
  <2>2. /\ reader.pc \in {"idle", "rest"} /\ transfers' = transfers
        /\ last' = IF reader.pc = "rest" THEN reader.status ELSE last
    BY <1>2 DEF Find, vars
  <2>3. reader'.pc = "found" /\ reader'.id = id /\ reader' \in
          [pc: {"idle", "found", "status", "rest"}, id: Id \cup {NoId},
           status: Statuses \cup {"none"}, completedAt: BOOLEAN]
    BY <2>1 DEF NoAnswer
  <2>4. SeenOK'
    BY <1>0, <2>1, <2>2, <2>3 DEF SeenOK, Exists
  <2> QED
    BY <1>0, <2>2, <2>3, <2>4 DEF AnswersFollowLifecycle, ReaderTypeOK
<1>3. CASE ReadStatus
  <2>1. /\ reader.pc = "found" /\ transfers' = transfers /\ last' = last
        /\ reader' = [reader EXCEPT !.pc = "status",
                                    !.status = transfers[reader.id].status]
    BY <1>3 DEF ReadStatus, vars
  <2>2. /\ reader'.pc = "status" /\ reader'.id = reader.id
        /\ reader'.status = transfers[reader.id].status
        /\ reader'.completedAt = reader.completedAt
    BY <1>0, <2>1 DEF ReaderTypeOK
  <2>3. transfers[reader.id] \in Transfer
    BY <1>0, <2>1, ExistsType DEF SeenOK
  <2>4. transfers[reader.id].status \in Statuses
    BY <2>3 DEF Transfer
  <2>5. SeenOK'
    BY <1>0, <2>1, <2>2, <2>4, LaterSelf DEF SeenOK, Exists
  <2>6. ReaderTypeOK'
    BY <1>0, <2>1, <2>4 DEF ReaderTypeOK
  <2> QED
    BY <1>0, <2>1, <2>2, <2>5, <2>6 DEF AnswersFollowLifecycle, SeenOK
<1>4. CASE ReadRest
  <2>1. /\ reader.pc = "status" /\ transfers' = transfers /\ last' = last
        /\ reader' = [reader EXCEPT !.pc = "rest",
                                    !.completedAt = transfers[reader.id].completedAt]
    BY <1>4 DEF ReadRest, vars
  <2>2. /\ reader'.pc = "rest" /\ reader'.id = reader.id
        /\ reader'.status = reader.status
    BY <1>0, <2>1 DEF ReaderTypeOK
  <2>3. transfers[reader.id] \in Transfer
    BY <1>0, <2>1, ExistsType DEF SeenOK
  <2>4. SeenOK'
    BY <1>0, <2>1, <2>2 DEF SeenOK, Exists
  <2>5. ReaderTypeOK'
    BY <1>0, <2>1, <2>3 DEF ReaderTypeOK, Transfer
  <2> QED
    BY <1>0, <2>1, <2>2, <2>4, <2>5 DEF AnswersFollowLifecycle
<1> QED
  BY <1>1, <1>2, <1>3, <1>4, ReaderMoves

\* A GetStatus in progress stays with its transfer.
LEMMA ReaderKeeps ==
    ASSUME SeenInv, [WalletNext]_walletVars, reader.pc # "idle"
    PROVE  reader'.pc # "idle" /\ reader'.id = reader.id
<1>1. ReaderTypeOK
  BY DEF SeenInv, WalletTypeOK
<1>2. CASE Find
  <2>1. PICK id \in Id :
          /\ reader.pc = "rest" => id = reader.id
          /\ reader' = [NoAnswer EXCEPT !.pc = "found", !.id = id]
    BY <1>2 DEF Find
  <2>2. reader.pc = "rest"
    BY <1>2 DEF Find
  <2> QED
    BY <2>1, <2>2 DEF NoAnswer
<1>3. CASE ReadStatus \/ ReadRest
  BY <1>1, <1>3 DEF ReadStatus, ReadRest, ReaderTypeOK
<1> QED
  BY <1>2, <1>3, ReaderMoves DEF readerVars

\* A transfer stays in a status from which no edge leads.
LEMMA FinalStays ==
    ASSUME BasicInv, [Next]_vars, NEW id, Exists(id), transfers[id].status \in Terminal
    PROVE  transfers'[id].status = transfers[id].status
BY StatusStep DEF ValidateTransition, legalTransitions, Terminal

WalletRecord ==
    [pc: {"none", "request", "idle", "poll", "served", "sleep", "done", "failed"},
     path: {"none", "deposit", "withdrawal"},
     id: Id \cup {NoId},
     status: Statuses \cup {"none", "incomplete", "error"}]

\* The steps by what they do to the wallet: none, no news of the transfer, the
\* handler's answer, a poll's answer.
WalletStays == wallet' = wallet

Asking ==
    /\ wallet' \in WalletRecord
    /\ wallet.pc \in {"none", "request"}
    /\ wallet'.pc \in {"none", "request"}
    /\ wallet'.status = "none"

Waiting ==
    \E step \in {"poll", "served", "failed"} :
        /\ wallet.pc \notin {"none", "request"}
        /\ WalletGoto(step)
        /\ step = "served" => reader'.pc # "idle" /\ reader'.id = wallet.id

LEMMA WalletKinds ==
    ASSUME SeenInv, [WalletNext]_walletVars
    PROVE  \/ WalletStays \/ Asking \/ Waiting
           \/ \E c \in Caller : Opened(c)
           \/ PollAnswers
<1>0. wallet \in WalletRecord /\ ToldOK
  BY DEF SeenInv, WalletTypeOK, WalletRecord
<1>1. CASE initiateTransfer
  <2>1. PICK kind \in Kinds :
          wallet' = [wallet EXCEPT !.pc = "request", !.path = PathOf(kind)]
    BY <1>1 DEF initiateTransfer
  <2>2. PathOf(kind) \in {"deposit", "withdrawal"}
    BY DEF PathOf
  <2> QED
    BY <1>0, <1>1, <2>1, <2>2 DEF initiateTransfer, Asking, WalletRecord, ToldOK
<1>2. CASE InitiationFails
  BY <1>2 DEF InitiationFails, Asking, WalletRecord, NoProcess
<1>3. ASSUME NEW c \in Caller, ServeInitiation(c) PROVE Asking
  <2>1. /\ wallet.pc = "request" /\ Initiate(c)
        /\ wallet' = [wallet EXCEPT !.id = call'[c].id]
    BY <1>3 DEF ServeInitiation
  <2>2. call'[c].id \in Id
    BY <2>1 DEF Initiate, SeenInv, BasicInv, TypeOK
  <2> QED
    BY <1>0, <2>1, <2>2 DEF Asking, WalletRecord, ToldOK
<1>4. ASSUME NEW c \in Caller, OpenForm(c) \/ HostCall(c) \/ Serve(c)
      PROVE  WalletStays
  BY <1>4 DEF OpenForm, HostCall, Serve, FinishPost, WalletStays
<1>5. CASE WaitForCompletion \/ PollFails \/ BackoffOver \/ ContextDone
  BY <1>5 DEF WaitForCompletion, PollFails, BackoffOver, ContextDone, Waiting
<1>6. CASE ServePoll
  BY <1>6 DEF ServePoll, Waiting, Find, NoAnswer
<1>7. CASE (ReadStatus \/ ReadRest) /\ UNCHANGED wallet
  BY <1>7 DEF WalletStays
<1>8. CASE UNCHANGED walletVars
  BY <1>8 DEF walletVars, WalletStays
<1> QED
  BY <1>1, <1>2, <1>3, <1>4, <1>5, <1>6, <1>7, <1>8 DEF WalletNext, Waits

LEMMA MappedStatus ==
    ASSUME NEW status \in Statuses
    PROVE  /\ mapStatusToSEP24(status) \in Statuses \cup {"incomplete", "error"}
           /\ mapStatusToSEP24(status) = "completed" => status = "completed"
           /\ mapStatusToSEP24(status) = "error" =>
                status \in {"failed", "denied", "cancelled"}
BY DEF mapStatusToSEP24, Statuses, Terminal

LEMMA ToldStep ==
    ASSUME SeenInv, [WalletNext]_walletVars
    PROVE  wallet' \in WalletRecord /\ ToldOK' /\ FinalStatusIsTrue'
<1>0. /\ wallet \in WalletRecord /\ ToldOK /\ FinalStatusIsTrue /\ ReturnedOK
      /\ BasicInv /\ SeenOK /\ [Next]_vars /\ "completed" \in Statuses
  BY WalletStep DEF SeenInv, WalletTypeOK, WalletRecord, Statuses, Terminal
<1>1. ASSUME wallet'.id = wallet.id, wallet'.status = wallet.status,
             wallet.status \in {"completed", "error"}
      PROVE  FinalStatusIsTrue'
  <2>1. /\ Exists(wallet.id) /\ transfers[wallet.id].status \in Terminal
    BY <1>0, <1>1 DEF ToldOK, FinalStatusIsTrue, Terminal
  <2>2. transfers'[wallet.id].status = transfers[wallet.id].status
    BY <1>0, <2>1, FinalStays
  <2> QED
    BY <1>0, <1>1, <2>2 DEF FinalStatusIsTrue
<1>2. ASSUME wallet'.status \notin {"completed", "error"}
      PROVE  FinalStatusIsTrue'
  BY <1>2 DEF FinalStatusIsTrue
<1>3. CASE WalletStays
  <2>1. FinalStatusIsTrue'
    BY <1>1, <1>2, <1>3 DEF WalletStays
  <2>2. ToldOK'
    <3>1. wallet.pc \notin {"none", "request"} => Exists(wallet.id)'
      <4>1. ASSUME wallet.pc \notin {"none", "request"} PROVE Exists(wallet.id)
        BY <1>0, <4>1 DEF ToldOK
      <4> QED
        BY <1>0, <1>3, <4>1, StatusStep DEF Exists, WalletStays
    <3>2. wallet.pc = "served" => reader'.pc # "idle" /\ reader'.id = wallet.id
      BY <1>0, ReaderKeeps DEF ToldOK
    <3> QED
      BY <1>0, <1>3, <3>1, <3>2 DEF ToldOK, WalletStays
  <2> QED
    BY <1>0, <1>3, <2>1, <2>2 DEF WalletStays
<1>4. CASE Asking
  BY <1>2, <1>4 DEF Asking, ToldOK
<1>5. CASE Waiting
  <2>1. PICK step \in {"poll", "served", "failed"} :
          /\ wallet.pc \notin {"none", "request"}
          /\ wallet' = [wallet EXCEPT !.pc = step]
          /\ step = "served" => reader'.pc # "idle" /\ reader'.id = wallet.id
    BY <1>5 DEF Waiting, WalletGoto
  <2>2. /\ wallet' \in WalletRecord /\ wallet'.pc = step
        /\ wallet'.id = wallet.id /\ wallet'.status = wallet.status
    BY <1>0, <2>1 DEF WalletRecord
  <2>3. Exists(wallet.id)
    BY <1>0, <2>1 DEF ToldOK
  <2>4. Exists(wallet.id)'
    BY <1>0, <2>2, <2>3, StatusStep DEF Exists
  <2>5. ToldOK'
    BY <2>1, <2>2, <2>4 DEF ToldOK
  <2> QED
    BY <1>1, <1>2, <2>2, <2>5
<1>6. ASSUME NEW c \in Caller, Opened(c)
      PROVE  wallet' \in WalletRecord /\ ToldOK' /\ FinalStatusIsTrue'
  <2>1. /\ call[c].pc = "ok" /\ call[c].id = wallet.id
        /\ wallet' = [wallet EXCEPT !.pc = "idle", !.status = "interactive"]
    BY <1>6 DEF Opened
  <2>2. /\ wallet' \in WalletRecord /\ wallet'.pc = "idle"
        /\ wallet'.id = wallet.id /\ wallet'.status = "interactive"
    BY <1>0, <2>1 DEF WalletRecord, Statuses
  <2>3. Exists(wallet.id)
    BY <1>0, <2>1 DEF ReturnedOK
  <2>4. Exists(wallet.id)'
    BY <1>0, <2>2, <2>3, StatusStep DEF Exists
  <2> QED
    BY <1>2, <2>2, <2>4 DEF ToldOK
<1>7. CASE PollAnswers
  <2> DEFINE new == mapStatusToSEP24(reader.status)
  <2>1. /\ wallet.pc = "served" /\ reader.pc = "rest" /\ reader.id = wallet.id
        /\ transfers' = transfers
        /\ wallet' = [wallet EXCEPT
                        !.status = new,
                        !.pc = IF new \in ClientTerminal THEN "done" ELSE "sleep"]
    BY <1>0, <1>7 DEF PollAnswers, vars, ToldOK
  <2>2. reader.status \in Statuses
    BY <1>0, <2>1 DEF SeenOK
  <2>3. /\ new \in Statuses \cup {"incomplete", "error"}
        /\ new = "completed" => reader.status = "completed"
        /\ new = "error" => reader.status \in {"failed", "denied", "cancelled"}
    BY <2>2, MappedStatus
  <2> HIDE DEF new
  <2>4. /\ wallet' \in WalletRecord /\ wallet'.pc \in {"done", "sleep"}
        /\ wallet'.id = wallet.id /\ wallet'.status = new
    BY <1>0, <2>1, <2>3 DEF WalletRecord
  <2>5. Exists(wallet.id)'
    BY <1>0, <2>1, <2>4 DEF ToldOK, Exists
  <2>6. reader.status \in Terminal => transfers[wallet.id].status = reader.status
    BY <1>0, <2>1, LaterThanFinal DEF SeenOK
  <2>7. FinalStatusIsTrue'
    BY <2>1, <2>3, <2>4, <2>6 DEF FinalStatusIsTrue, Terminal
  <2> QED
    BY <2>4, <2>5, <2>7 DEF ToldOK
<1> QED
  BY <1>3, <1>4, <1>5, <1>6, <1>7, WalletKinds

LEMMA SeenInductive ==
    /\ WalletInit => SeenInv
    /\ SeenInv /\ [WalletNext]_walletVars => SeenInv'
<1>1. WalletInit => SeenInv
  <2> SUFFICES ASSUME WalletInit PROVE SeenInv
    OBVIOUS
  <2>1. Init /\ reader = NoAnswer /\ last = "none" /\ wallet = NoProcess
    BY DEF WalletInit, ReaderInit
  <2>2. BasicInv /\ ReturnedOK
    BY <2>1, InitBasic DEF Init, ReturnedOK, Idle
  <2> QED
    BY <2>1, <2>2 DEF SeenInv, WalletTypeOK, ReaderTypeOK, SeenOK, ToldOK, NoAnswer,
       NoProcess, AnswersFollowLifecycle, FinalStatusIsTrue
<1>2. SeenInv /\ [WalletNext]_walletVars => SeenInv'
  <2> SUFFICES ASSUME SeenInv, [WalletNext]_walletVars PROVE SeenInv'
    OBVIOUS
  <2>1. /\ BasicInv /\ ReturnedOK /\ [Next]_vars
    BY WalletStep DEF SeenInv
  <2>2. BasicInv' /\ ReturnedOK'
    BY <2>1, TypeStep, MutexStep, CallsStep, ReturnedStep DEF BasicInv
  <2>3. WalletTypeOK'
    BY SeenStep, ToldStep DEF WalletTypeOK, WalletRecord
  <2> QED
    BY <2>2, <2>3, SeenStep, ToldStep DEF SeenInv
<1> QED
  BY <1>1, <1>2

\* The wallet's and the reader's records keep their types: the statuses that
\* Poll gets from the anchor are those of mapStatusToSEP24.
THEOREM WalletTypesHold == WalletSpec => []WalletTypeOK
<1>1. SeenInv => WalletTypeOK
  BY DEF SeenInv
<1> QED
  BY <1>1, SeenInductive, PTL DEF WalletSpec

\* Successive answers of GetStatus follow the lifecycle, although it reads a
\* live record without the lock of the store or the transfer.
THEOREM AnswersInOrder == WalletSpec => []AnswersFollowLifecycle
<1>1. SeenInv => AnswersFollowLifecycle
  BY DEF SeenInv
<1> QED
  BY <1>1, SeenInductive, PTL DEF WalletSpec

\* A wallet that was told that its transfer has completed, or has broken off,
\* was told the truth, and it stays the truth after the polling has ended.
THEOREM FinalAnswersHold == WalletSpec => []FinalStatusIsTrue
<1>1. SeenInv => FinalStatusIsTrue
  BY DEF SeenInv
<1> QED
  BY <1>1, SeenInductive, PTL DEF WalletSpec

-----------------------------------------------------------------------------
(* The link of a transfer that waits for its form. *)

\* The call that has a token or a form of a transfer in hand.
Carries(c) ==
    \/ call[c].op = "ConsumeInteractiveToken" /\ call[c].pc \in {"find", "ok"}
    \/ call[c].op = "CompleteInteractive" /\ call[c].pc \in {"load", "lock", "check", "write"}

FormStatuses == {"pending_user_transfer_start", "pending_external"}

\* What a call knows of its transfer's link: only a birth makes a transfer
\* interactive, a call that completes the form moves it on, a token is there
\* before its transfer is saved, and is named only after that.
CallLinkOK(c) ==
    /\ call[c].next # "interactive"
    /\ call[c].op = "CompleteInteractive" /\ call[c].pc \in {"lock", "check", "write"} =>
         call[c].next \in FormStatuses
    /\ call[c].pc = "save" /\ call[c].mode = "interactive" => call[c].id \in tokenToID
    /\ call[c].op \in TokenCalls /\ call[c].id \in Id => Exists(call[c].id)

WaitsForForm(id) == Exists(id) /\ transfers[id].status = "interactive"

LinkInv ==
    /\ BasicInv
    /\ \A c \in Caller : CallLinkOK(c)
    /\ \A id \in Id : WaitsForForm(id) => transfers[id].mode = "interactive"
    /\ NoDeadLink

LEMMA LinkByCarrier ==
    NoDeadLink <=>
      \A id \in Id : WaitsForForm(id) =>
        id \in tokenToID \/ \E c \in Caller : call[c].id = id /\ Carries(c)
BY DEF NoDeadLink, WaitsForForm, Carries

\* A goroutine that has just consumed a token does nothing before the
\* handler's call of CompleteInteractive.
LEMMA WalletCalls ==
    ASSUME [WalletNext]_walletVars
    PROVE  \/ UNCHANGED vars
           \/ \E c \in Caller : \/ Start(c) /\ ~InPost(c)
                                \/ Advance(c)
                                \/ FinishPost(c)
BY DEF WalletNext, walletVars, initiateTransfer, InitiationFails, ServeInitiation, Opened,
   OpenForm, HostCall, Serve, WaitForCompletion, PollFails, ContextDone, Waits,
   ServePoll, PollAnswers, BackoffOver, Find, ReadStatus, ReadRest, Start

\* The step of a call, by what it does to the link's call.
LEMMA CallLinkStep ==
    ASSUME LinkInv, NEW c \in Caller, Start(c) \/ Advance(c)
    PROVE  \A d \in Caller : CallLinkOK(d)'
<1>0. /\ BasicInv /\ TypeOK /\ CallsOK /\ call \in [Caller -> CallRecord]
      /\ \A d \in Caller : call[d] \in CallRecord /\ CallLinkOK(d) /\ CallOK(d)
      /\ [Next]_vars
  BY DEF LinkInv, BasicInv, TypeOK, CallsOK, Next
<1>1. \A id : Exists(id) => Exists(id)'
  BY <1>0, StatusStep
<1>2. \A id \in tokenToID : id \notin tokenToID' => Exists(id)
  <2>1. CASE LookupToken(c)
    BY <1>0, <2>1 DEF LookupToken, CallLinkOK, TypeOK, TokenCalls
  <2>2. CASE ~LookupToken(c)
    BY <2>2 DEF Start, Advance, Initiate, CallTransition, CallToken, WithToken, Save, Announce,
       Load, LoadFails, Lock, Check, CheckFails, WriteStatus, WriteDetails, TriggerOwn,
       TriggerChanged, UnknownToken, FindForToken, FindForTokenFails
  <2> QED
    BY <2>1, <2>2
<1>3. ASSUME NEW d \in Caller, call'[d] = call[d]
      PROVE  CallLinkOK(d)'
  BY <1>0, <1>1, <1>2, <1>3 DEF CallLinkOK, CallOK
<1>4. \A d \in Caller \ {c} : CallLinkOK(d)'
  BY <1>0, <1>3, OnlyOwnCall
<1>5. CallLinkOK(c)'
  <2>1. CASE Initiate(c)
    BY <1>0, <2>1 DEF Initiate, CallLinkOK, WithToken, Initiations, TokenCalls
  <2>2. CASE CallTransition(c)
    BY <1>0, <2>2 DEF CallTransition, CallLinkOK, Transitions, TokenCalls, Requested
  <2>3. CASE CallToken(c)
    <3>1. PICK op \in TokenCalls, id \in Nameable :
            call'[c] = [op |-> op, pc |-> "token", id |-> id, mode |-> "none",
                        ref |-> NoRef, next |-> "none"]
      BY <1>0, <2>3 DEF CallToken
    <3>2. id \in Id => Exists(id)'
      BY <1>1, <3>1, ConstantsAssumption DEF Nameable
    <3> QED
      BY <3>1, <3>2 DEF CallLinkOK, TokenCalls
  <2>4. CASE Save(c)
    <3>1. /\ call[c].pc = "save" /\ call[c].op \in Initiations
          /\ call'[c].op = call[c].op /\ call'[c].pc \in {"lock", "announce"}
          /\ call'[c].next \in {"none", "pending_external"}
      BY <1>0, <2>4 DEF Save, CallRecord, CallOK
    <3> QED
      BY <3>1 DEF CallLinkOK, Initiations, TokenCalls
  <2>5. CASE Load(c)
    <3>1. /\ call'[c].op = call[c].op /\ call'[c].pc = "lock"
          /\ call'[c].next \in FormStatuses /\ call'[c].id = call[c].id
      BY <1>0, <2>5 DEF Load, CallRecord, FormStatuses
    <3> QED
      BY <1>0, <1>1, <3>1 DEF CallLinkOK, FormStatuses
  <2>6. CASE LoadFails(c) \/ CheckFails(c) \/ UnknownToken(c) \/ FindForTokenFails(c)
    <3>1. call'[c] = Idle
      BY <1>0, <2>6, FailType DEF LoadFails, CheckFails, UnknownToken, FindForTokenFails
    <3> QED
      BY <3>1 DEF CallLinkOK, Idle, TokenCalls
  <2>7. CASE \/ Announce(c) \/ Lock(c) \/ Check(c) \/ WriteStatus(c) \/ WriteDetails(c)
             \/ TriggerOwn(c) \/ TriggerChanged(c) \/ LookupToken(c) \/ FindForToken(c)
    <3>1. PICK step \in {"ok", "check", "write", "details", "own", "changed",
                         "announce", "find"} :
            /\ call' = [call EXCEPT ![c].pc = step]
            /\ step = "check" => call[c].pc = "lock"
            /\ step = "write" => call[c].pc = "check"
      BY <2>7 DEF Announce, Lock, Check, WriteStatus, WriteDetails, TriggerOwn,
         TriggerChanged, LookupToken, FindForToken, Goto
    <3>2. /\ call'[c].op = call[c].op /\ call'[c].id = call[c].id
          /\ call'[c].next = call[c].next /\ call'[c].pc = step
      BY <1>0, <3>1 DEF CallRecord
    <3> QED
      BY <1>0, <1>1, <3>1, <3>2 DEF CallLinkOK
  <2> QED
    BY <2>1, <2>2, <2>3, <2>4, <2>5, <2>6, <2>7 DEF Start, Advance
<1> QED
  BY <1>4, <1>5

\* Without errors of the store a carrier goes on to carry, or completes the form.
LEMMA CarrierStep ==
    ASSUME LinkInv, "store" \notin Fault, NEW id \in Id, WaitsForForm(id),
           NEW c \in Caller, Carries(c), call[c].id = id,
           (Start(c) /\ ~InPost(c)) \/ Advance(c) \/ FinishPost(c)
    PROVE  \/ call'[c].id = id /\ Carries(c)'
           \/ transfers'[id].status # "interactive"
<1>0. /\ TypeOK /\ CallOK(c) /\ CallLinkOK(c) /\ call \in [Caller -> CallRecord]
      /\ call[c] \in CallRecord /\ Exists(id) /\ transfers[id].status = "interactive"
      /\ transfers[id].mode = "interactive" /\ transfers[id] \in Transfer
      /\ transfers \in [Id -> Transfer \cup {Absent}]
  BY ExistsType DEF LinkInv, BasicInv, TypeOK, CallsOK, WaitsForForm
<1>1. CASE InPost(c)
  <2>1. FinishPost(c)
    BY <1>1 DEF InPost, Advance, Save, Announce, Load, LoadFails, Lock, Check, CheckFails,
       WriteStatus, WriteDetails, TriggerOwn, TriggerChanged, LookupToken, UnknownToken,
       FindForToken, FindForTokenFails
  <2>2. call'[c].op = "CompleteInteractive" /\ call'[c].id = id /\ CallTransition(c)
    BY <2>1 DEF FinishPost
  <2>3. call'[c].pc = "load"
    <3>1. PICK op \in Transitions, i \in Nameable, ref \in Ref :
            call'[c] = [op |-> op, id |-> i, mode |-> "none", next |-> Requested(op),
                        pc |-> IF op = "CompleteInteractive" THEN "load" ELSE "lock",
                        ref |-> IF op \in {"CompleteInteractive", "Deny", "Cancel"}
                                THEN NoRef ELSE ref]
      BY <1>0, <2>2 DEF CallTransition
    <3> QED
      BY <2>2, <3>1
  <2> QED
    BY <2>2, <2>3 DEF Carries
<1>2. CASE call[c].op = "ConsumeInteractiveToken" /\ call[c].pc = "find"
  <2>1. FindForToken(c)
    BY <1>0, <1>2 DEF InPost, Start, Initiate, CallTransition, CallToken, FinishPost,
       Advance, Save, Announce, Load, LoadFails, Lock, Check, CheckFails, WriteStatus,
       WriteDetails, TriggerOwn, TriggerChanged, LookupToken, UnknownToken, FindForTokenFails
  <2> QED
    BY <1>0, <1>2, <2>1 DEF FindForToken, Goto, Carries, CallRecord
<1>3. CASE call[c].op = "CompleteInteractive" /\ call[c].pc \in {"load", "lock", "check", "write"}
  <2>1. \/ Load(c) \/ LoadFails(c) \/ Lock(c) \/ Check(c) \/ CheckFails(c)
        \/ WriteStatus(c)
    BY <1>3 DEF InPost, Start, Initiate, CallTransition, CallToken, FinishPost,
       Advance, Save, Announce, WriteDetails, TriggerOwn, TriggerChanged, LookupToken,
       UnknownToken, FindForToken, FindForTokenFails
  <2>2. ~LoadFails(c)
    BY <1>0 DEF LoadFails, IsInteractive
  <2>3. ~CheckFails(c)
    <3>1. call[c].pc = "check" => MayMove(c)
      BY <1>0, <1>3 DEF CallLinkOK, FormStatuses, MayMove, ValidateTransition,
         legalTransitions
    <3> QED
      BY <3>1 DEF CheckFails
  <2>4. CASE WriteStatus(c)
    <3>1. transfers'[id].status = call[c].next
      BY <1>0, <2>4 DEF WriteStatus, Transfer
    <3> QED
      BY <1>0, <3>1 DEF CallLinkOK
  <2>5. CASE Load(c) \/ Lock(c) \/ Check(c)
    <3>1. call'[c].op = call[c].op /\ call'[c].id = id /\ call'[c].pc \in {"lock", "check", "write"}
      BY <1>0, <2>5 DEF Load, Lock, Check, Goto, CallRecord
    <3> QED
      BY <1>3, <3>1 DEF Carries
  <2> QED
    BY <2>1, <2>2, <2>3, <2>4, <2>5
<1> QED
  BY <1>1, <1>2, <1>3 DEF Carries, InPost

\* A transfer waits for its form because it has waited before, or was just
\* saved by a call that has put its token into the map.
LEMMA FormBefore ==
    ASSUME LinkInv, [Next]_vars, NEW id \in Id, WaitsForForm(id)'
    PROVE  \/ WaitsForForm(id) /\ transfers'[id].mode = transfers[id].mode
           \/ /\ id \in tokenToID /\ tokenToID' = tokenToID
              /\ transfers'[id].mode = "interactive"
<1>0. /\ BasicInv /\ TypeOK /\ transfers \in [Id -> Transfer \cup {Absent}]
      /\ \A c \in Caller : call[c] \in CallRecord /\ CallOK(c) /\ CallLinkOK(c)
  BY DEF LinkInv, BasicInv, TypeOK, CallsOK
<1>1. CASE transfers'[id] = transfers[id]
  BY <1>1 DEF WaitsForForm, Exists
<1>2. ASSUME NEW c \in Caller, Save(c), transfers'[id] # transfers[id]
      PROVE  /\ id \in tokenToID /\ tokenToID' = tokenToID
             /\ transfers'[id].mode = "interactive"
  <2>1. /\ id = call[c].id /\ call[c].pc = "save" /\ tokenToID' = tokenToID
        /\ transfers'[id] = Born(KindOf(call[c].op), call[c].mode)
        /\ call[c].mode \in Modes /\ KindOf(call[c].op) \in Kinds
    BY <1>0, <1>2 DEF Save, CallOK, KindOf, Kinds
  <2>2. call[c].mode = "interactive"
    BY <2>1 DEF WaitsForForm, Born, BirthStatus, Modes, Kinds
  <2> QED
    BY <1>0, <2>1, <2>2 DEF CallLinkOK, Born
<1>3. ASSUME NEW c \in Caller, WriteStatus(c), transfers'[id] # transfers[id]
      PROVE  FALSE
  <2>1. id = call[c].id /\ Exists(id)
    BY <1>0, <1>3 DEF WriteStatus, CallOK
  <2>2. transfers'[id].status = call[c].next
    BY <1>0, <1>3, <2>1, ExistsType DEF WriteStatus, Transfer
  <2> QED
    BY <1>0, <2>2 DEF CallLinkOK, WaitsForForm
<1>4. ASSUME NEW c \in Caller, WriteDetails(c), transfers'[id] # transfers[id]
      PROVE  FALSE
  <2>1. transfers'[id] = Applied(transfers[id], call[c])
    BY <1>0, <1>4 DEF WriteDetails
  <2> QED
    BY <1>0, <2>1 DEF CallLinkOK, WaitsForForm, Applied
<1>5. ASSUME (\E c \in Caller : Quiet(c)) \/ Crash \/ UNCHANGED vars
      PROVE  transfers'[id] = transfers[id]
  BY <1>5 DEF Quiet, Crash, vars
<1> QED
  BY <1>0, <1>1, <1>2, <1>3, <1>4, <1>5, StepKinds

LEMMA LinkStep ==
    ASSUME LinkInv, "store" \notin Fault, [WalletNext]_walletVars
    PROVE  LinkInv'
<1>0. /\ BasicInv /\ TypeOK /\ [Next]_vars /\ \A c \in Caller : call[c] \in CallRecord
  BY WalletStep DEF LinkInv, BasicInv, TypeOK
<1>1. BasicInv'
  BY <1>0, TypeStep, MutexStep, CallsStep DEF BasicInv
<1>2. \A id \in Id : WaitsForForm(id)' => transfers'[id].mode = "interactive"
  BY <1>0, FormBefore DEF LinkInv
<1>3. CASE UNCHANGED vars
  <2>1. \A c \in Caller : CallLinkOK(c)'
    BY <1>3 DEF LinkInv, CallLinkOK, vars, Exists
  <2>2. NoDeadLink'
    BY <1>3 DEF LinkInv, NoDeadLink, vars, Exists
  <2> QED
    BY <1>1, <1>2, <2>1, <2>2 DEF LinkInv
<1>4. ASSUME NEW c \in Caller, (Start(c) /\ ~InPost(c)) \/ Advance(c) \/ FinishPost(c)
      PROVE  LinkInv'
  <2>1. Start(c) \/ Advance(c)
    BY <1>4 DEF FinishPost, Start
  <2>2. \A d \in Caller : CallLinkOK(d)'
    BY <2>1, CallLinkStep
  <2>3. \A d \in Caller \ {c} : call'[d] = call[d]
    BY <1>0, <2>1, OnlyOwnCall
  <2>4. ASSUME NEW id \in Id, WaitsForForm(id)'
        PROVE  id \in tokenToID' \/ \E d \in Caller : call'[d].id = id /\ Carries(d)'
    <3>1. CASE id \in tokenToID /\ tokenToID' = tokenToID
      BY <3>1
    <3>2. CASE WaitsForForm(id) /\ id \in tokenToID /\ id \notin tokenToID'
      <4>1. /\ LookupToken(c) /\ call[c].op = "ConsumeInteractiveToken"
            /\ call[c].id = id
        BY <2>1, <3>2 DEF Start, Advance, Initiate, CallTransition, CallToken, WithToken,
           Save, Announce, Load, LoadFails, Lock, Check, CheckFails, WriteStatus,
           WriteDetails, TriggerOwn, TriggerChanged, LookupToken, UnknownToken,
           FindForToken, FindForTokenFails
      <4>2. call'[c].id = id /\ Carries(c)'
        BY <1>0, <4>1 DEF LookupToken, Goto, Carries, CallRecord, TypeOK
      <4> QED
        BY <4>2
    <3>3. CASE WaitsForForm(id) /\ id \notin tokenToID
      <4>1. PICK d \in Caller : call[d].id = id /\ Carries(d)
        BY <3>3, LinkByCarrier DEF LinkInv
      <4>2. CASE d = c
        <5>1. call[c].id = id /\ Carries(c) /\ WaitsForForm(id)
          BY <3>3, <4>1, <4>2
        <5>2. transfers'[id].status = "interactive"
          BY <2>4 DEF WaitsForForm
        <5>3. call'[c].id = id /\ Carries(c)'
          BY <1>4, <5>1, <5>2, CarrierStep
        <5> QED
          BY <5>3
      <4>3. CASE d # c
        BY <2>3, <4>1, <4>3 DEF Carries
      <4> QED
        BY <4>2, <4>3
    <3> QED
      BY <1>0, <2>4, <3>1, <3>2, <3>3, FormBefore
  <2>5. NoDeadLink'
    BY <2>4, LinkByCarrier DEF NoDeadLink, WaitsForForm, Carries
  <2> QED
    BY <1>1, <1>2, <2>2, <2>5 DEF LinkInv
<1> QED
  BY <1>3, <1>4, WalletCalls

\* A transfer that waits for its form has a link that works or a request about
\* to complete it, whatever pages are opened and forms are submitted at once, as
\* long as the store returns no errors: with one, the token is gone and the
\* transfer stays interactive.
THEOREM LinksLast ==
    ASSUME "store" \notin Fault
    PROVE  WalletSpec => []NoDeadLink
<1>1. WalletInit => LinkInv
  <2> SUFFICES ASSUME WalletInit PROVE LinkInv
    OBVIOUS
  <2>1. Init
    BY DEF WalletInit, ReaderInit
  <2> QED
    BY <2>1, InitBasic DEF Init, LinkInv, CallLinkOK, WaitsForForm, NoDeadLink, Exists, Idle,
       TokenCalls, Absent
<1>2. LinkInv /\ [WalletNext]_walletVars => LinkInv'
  BY LinkStep
<1>3. LinkInv => NoDeadLink
  BY DEF LinkInv
<1> QED
  BY <1>1, <1>2, <1>3, PTL DEF WalletSpec

=============================================================================

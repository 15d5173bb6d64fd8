---------------------------- MODULE WalletTransfer ----------------------------
(***************************************************************************)
(* A wallet on the SDK's client side (sdk.TransferProcess) and the basic   *)
(* example anchor around the transfer manager: the SEP-24 endpoint that    *)
(* opens a transfer, the interactive form, the status endpoint that the    *)
(* wallet polls, while the host's other goroutines move the transfer.      *)
(*                                                                         *)
(*   none -> request -> idle -> poll -> served -> sleep -> poll ..         *)
(*                                         served -> done                  *)
(*                                                                         *)
(* Every request may go unanswered; Deposit, Withdraw and Poll use         *)
(* http.DefaultClient, which does not repeat them.  Times, amounts and     *)
(* URLs are abstracted; tokens of the session are taken as valid.          *)
(***************************************************************************)
EXTENDS StatusReader

VARIABLE wallet  \* the wallet's TransferProcess and what it is doing

walletVars == <<vars, readerVars, wallet>>

NoProcess == [pc |-> "none", path |-> "none", id |-> NoId, status |-> "none"]

WalletInit == ReaderInit /\ wallet = NoProcess

WalletGoto(step) == wallet' = [wallet EXCEPT !.pc = step]

\* MUTANT: the handler is done when it has consumed the token.
InPostNever(c) == FALSE

\* The request whose token was consumed, on its way to CompleteInteractive.
InPost(c) == call[c].op = "ConsumeInteractiveToken" /\ call[c].pc = "ok"

-----------------------------------------------------------------------------
(* Deposit and Withdraw. *)

\* What initiateTransfer puts into the path, and what the examples route.
PathOf(kind) == IF kind = "deposit" THEN "deposit" ELSE "withdrawal"

Routes == {"deposit", "withdraw"}

RouteOperation(path) ==
    IF path = "deposit" THEN "InitiateDeposit" ELSE "InitiateWithdrawal"

initiateTransfer ==
    /\ wallet.pc = "none"
    /\ \E kind \in Kinds :
          wallet' = [wallet EXCEPT !.pc = "request", !.path = PathOf(kind)]
    /\ UNCHANGED <<vars, readerVars>>

\* The answer is 404, or none comes: TRANSFER_INIT_FAILED.
InitiationFails ==
    /\ wallet.pc = "request"
    /\ wallet' = NoProcess
    /\ UNCHANGED <<vars, readerVars>>

\* handleDepositInteractive, handleWithdrawInteractive.
ServeInitiation(c) ==
    /\ wallet.pc = "request" /\ wallet.path \in Routes
    /\ wallet.id = NoId
    /\ ~InPost(c)
    /\ Initiate(c)
    /\ call'[c].op = RouteOperation(wallet.path)
    /\ call'[c].mode = "interactive"
    /\ wallet' = [wallet EXCEPT !.id = call'[c].id]
    /\ UNCHANGED readerVars

\* The handler's answer; the client takes the transfer's status for granted.
Opened(c) ==
    /\ wallet.pc = "request" /\ wallet.id # NoId
    /\ call[c].pc = "ok" /\ call[c].id = wallet.id
    /\ call[c].op = RouteOperation(wallet.path)
    /\ wallet' = [wallet EXCEPT !.pc = "idle", !.status = "interactive"]
    /\ UNCHANGED <<vars, readerVars>>

-----------------------------------------------------------------------------
(* The interactive page. *)

\* GET looks at the token, POST consumes it.
FormTokenCalls == {"PeekInteractiveToken", "ConsumeInteractiveToken"}

\* MUTANT: the handler gives up half-way.
FinishPostNever(c) == FALSE /\ UNCHANGED walletVars

\* handlePostInteractive goes on with the transfer the token stands for.
FinishPost(c) ==
    /\ InPost(c)
    /\ CallTransition(c)
    /\ call'[c].op = "CompleteInteractive"
    /\ call'[c].id = call[c].id
    /\ UNCHANGED <<readerVars, wallet>>

\* handleGetInteractive, handlePostInteractive.
OpenForm(c) ==
    /\ ~InPost(c)
    /\ CallToken(c)
    /\ call'[c].op \in FormTokenCalls
    /\ UNCHANGED <<readerVars, wallet>>

\* The bank, the operator and the observer.
HostCall(c) ==
    /\ ~InPost(c)
    /\ CallTransition(c)
    /\ call'[c].op # "CompleteInteractive"
    /\ UNCHANGED <<readerVars, wallet>>

-----------------------------------------------------------------------------
(* Poll and WaitForCompletion. *)

\* MUTANT: a transfer that is all but completed is shown as completed.
MappedEarly(status) ==
    CASE status \in {"interactive", "initiating"} -> "incomplete"
      [] status \in {"failed", "denied", "cancelled"} -> "error"
      [] status = "pending_stellar" -> "completed"
      [] OTHER -> status

mapStatusToSEP24(status) ==
    CASE status \in {"interactive", "initiating"} -> "incomplete"
      [] status \in {"failed", "denied", "cancelled"} -> "error"
      [] OTHER -> status

\* What the client's own isTerminal knows.
ClientTerminal == {"completed", "failed", "denied", "cancelled", "expired"}

WaitForCompletion ==
    /\ wallet.pc \in {"idle", "failed"}
    /\ WalletGoto("poll")
    /\ UNCHANGED <<vars, readerVars>>

\* handleGetTransaction begins its GetStatus.
ServePoll ==
    /\ wallet.pc = "poll"
    /\ Find
    /\ reader'.id = wallet.id
    /\ WalletGoto("served")

\* Poll returns an error, and WaitForCompletion with it.
PollFails ==
    /\ wallet.pc \in {"poll", "served"}
    /\ WalletGoto("failed")
    /\ UNCHANGED <<vars, readerVars>>

\* MUTANT: the loop looks at the status before it stores the new one, and only
\* when there is a change.
PollAnswersLate ==
    /\ wallet.pc = "served" /\ reader.pc = "rest"
    /\ LET new == mapStatusToSEP24(reader.status)
       IN wallet' = [wallet EXCEPT
                        !.status = new,
                        !.pc = IF new # wallet.status /\ wallet.status \in ClientTerminal
                               THEN "done" ELSE "sleep"]
    /\ UNCHANGED <<vars, readerVars>>

\* The answer: the status is stored, the callback told of a change, and the
\* loop ends at a status the client knows to be terminal.
PollAnswers ==
    /\ wallet.pc = "served" /\ reader.pc = "rest"
    /\ LET new == mapStatusToSEP24(reader.status)
       IN wallet' = [wallet EXCEPT
                        !.status = new,
                        !.pc = IF new \in ClientTerminal THEN "done" ELSE "sleep"]
    /\ UNCHANGED <<vars, readerVars>>

BackoffOver ==
    /\ wallet.pc = "sleep"
    /\ WalletGoto("poll")
    /\ UNCHANGED <<vars, readerVars>>

ContextDone ==
    /\ wallet.pc = "sleep"
    /\ WalletGoto("failed")
    /\ UNCHANGED <<vars, readerVars>>

-----------------------------------------------------------------------------
Serve(c) ==
    \/ Advance(c) /\ UNCHANGED <<readerVars, wallet>>
    \/ FinishPost(c)

Waits ==
    \/ ServePoll \/ PollAnswers \/ BackoffOver
    \/ (ReadStatus \/ ReadRest) /\ UNCHANGED wallet

WalletNext ==
    \/ initiateTransfer \/ InitiationFails
    \/ \E c \in Caller : \/ ServeInitiation(c) \/ Opened(c)
                         \/ OpenForm(c) \/ HostCall(c) \/ Serve(c)
    \/ WaitForCompletion \/ PollFails \/ ContextDone
    \/ Waits

WalletSpec == WalletInit /\ [][WalletNext]_walletVars

\* As in TransferManager; handlers of requests run on; the client's timer fires
\* and a request that is not lost is answered.
WalletFairSpec ==
    /\ WalletSpec
    /\ \A c \in Caller :
         WF_walletVars(Serve(c)) /\ SF_walletVars(Lock(c) /\ UNCHANGED <<readerVars, wallet>>)
    /\ WF_walletVars(Waits)
-----------------------------------------------------------------------------
(* Properties. *)

WalletTypeOK ==
    /\ ReaderTypeOK
    /\ wallet \in [pc: {"none", "request", "idle", "poll", "served", "sleep", "done",
                        "failed"},
                   path: {"none", "deposit", "withdrawal"},
                   id: Id \cup {NoId},
                   status: Statuses \cup {"none", "incomplete", "error"}]

\* What the wallet was told last is true for good once it is final: a transfer
\* it takes for completed is completed, one it takes for broken off has broken
\* off, whatever moves the transfer during and after the answer (sdk stops polling
\* on it, transfer.go:121-123).
FinalStatusIsTrue ==
    /\ wallet.status = "completed" => transfers[wallet.id].status = "completed"
    /\ wallet.status = "error" =>
         transfers[wallet.id].status \in {"failed", "denied", "cancelled"}

\* A transfer that waits for its form has a link that works, or a request that
\* is about to complete it: looking at the form, submitting it twice or two
\* requests at once do not use the link up in vain (interactive.go:91-108).
NoDeadLink ==
    \A id \in Id :
        Exists(id) /\ transfers[id].status = "interactive" =>
          \/ id \in tokenToID
          \/ \E c \in Caller :
                /\ call[c].id = id
                /\ \/ call[c].op = "ConsumeInteractiveToken" /\ call[c].pc \in {"find", "ok"}
                   \/ /\ call[c].op = "CompleteInteractive"
                      /\ call[c].pc \in {"load", "lock", "check", "write"}

\* A form whose token was consumed takes its transfer out of the interactive
\* status: of the requests and calls in between none makes it hang.
SubmittedFormCompletes ==
    \A id \in Id :
        (\E c \in Caller : InPost(c) /\ call[c].id = id)
        ~> (transfers[id].status # "interactive")

EndsAt(status) ==
    (wallet.pc \in {"poll", "served", "sleep"} /\ transfers[wallet.id].status = status)
    ~> (wallet.pc \in {"done", "failed"})

\* WaitForCompletion notices that its transfer has completed, however the polls and
\* the moves overlap.
CompletionEndsWait == EndsAt("completed")

-----------------------------------------------------------------------------
(* What the comments say of the program. *)

\* sdk/transfer.go:109-111, "blocks until the transfer reaches a terminal status",
\* "Returns when the transfer completes, fails, or the context is cancelled".
TerminalEndsWait == \A status \in Terminal : EndsAt(status)
=============================================================================

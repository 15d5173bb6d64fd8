-------------------------- MODULE MCTransferManager --------------------------
(* TransferManager for TLC: small sets of interchangeable goroutines. *)
EXTENDS TransferManager, TLC

CONSTANTS c1, c2

Goroutines == Permutations(Caller)

FaultOperations ==
    {"InitiateDeposit", "ConsumeInteractiveToken", "PeekInteractiveToken",
     "NotifyFundsReceived", "NotifyPaymentSent", "Cancel"}
TransitionCalls == Transitions \cup {"InitiateDeposit", "InitiateWithdrawal"}
=============================================================================

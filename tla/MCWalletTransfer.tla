--------------------------- MODULE MCWalletTransfer ---------------------------
(* WalletTransfer for TLC: one wallet, two goroutines of the anchor. *)
EXTENDS WalletTransfer

DepositOperations ==
    {"InitiateDeposit", "PeekInteractiveToken", "ConsumeInteractiveToken",
     "CompleteInteractive", "NotifyFundsReceived", "NotifyPaymentSent", "Cancel"}
=============================================================================

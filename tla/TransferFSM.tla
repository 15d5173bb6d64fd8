----------------------------- MODULE TransferFSM -----------------------------
(***************************************************************************)
(* The transfer state machine of anchor/fsm.go: the statuses a transfer    *)
(* can have, the legal transitions between them, and the checks the rest   *)
(* of the SDK makes against that table.                                    *)
(***************************************************************************)

Kinds == {"deposit", "withdrawal"}

Modes == {"interactive", "api"}

Terminal == {"completed", "failed", "denied", "cancelled", "expired"}

Statuses == Terminal \cup
    {"initiating", "interactive", "pending_user_transfer_start",
     "pending_external", "pending_stellar", "payment_required"}

legalTransitions ==
    [initiating |-> {"interactive", "pending_user_transfer_start",
                     "pending_external", "failed", "denied"},
     interactive |-> {"pending_user_transfer_start", "pending_external",
                      "failed", "expired"},
     pending_user_transfer_start |-> {"pending_external", "pending_stellar",
                                      "failed", "cancelled"},
     pending_external |-> {"pending_stellar", "failed", "cancelled"},
     pending_stellar |-> {"completed", "failed"},
     payment_required |-> {"pending_stellar", "failed"},
     completed |-> {}, failed |-> {}, denied |-> {},
     cancelled |-> {}, expired |-> {}]

\* MUTANT: a repeated notification is taken for a transition to the same status.
ValidateOrRepeat(from, to) ==
    /\ from \in DOMAIN legalTransitions
    /\ to = from \/ to \in legalTransitions[from]

\* MUTANT: the entry for initiating is missing.
ValidateBorn(from, to) ==
    /\ from \in DOMAIN legalTransitions \ {"initiating"}
    /\ to \in legalTransitions[from]

\* An unknown source status and a missing edge are both errors.
ValidateTransition(from, to) ==
    /\ from \in DOMAIN legalTransitions
    /\ to \in legalTransitions[from]

\* The status a transfer is saved with: InitiateDeposit, InitiateWithdrawal.
BirthStatus(kind, mode) ==
    CASE mode = "interactive" -> "interactive"
      [] mode # "interactive" /\ kind = "deposit" -> "initiating"
      [] mode # "interactive" /\ kind = "withdrawal" -> "payment_required"
=============================================================================

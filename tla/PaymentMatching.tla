--------------------------- MODULE PaymentMatching ---------------------------
(***************************************************************************)
(* observer.AutoMatchPayments: the observer of PaymentObserver with a      *)
(* handler that takes the memo of a payment to the distribution account    *)
(* for the ID of a transfer and tells the transfer manager.                *)
(*                                                                         *)
(* Of the manager's transfers the model keeps kind, status and Stellar     *)
(* hash; a method of the manager is one step, as the theorem               *)
(* TransferManager_proofs!ManagerImplementsLifecycle allows.  The          *)
(* transfers are in a persistent store: they survive a restart, as does    *)
(* the saved cursor.  A payment's hash is its place in the ledger.         *)
(*                                                                         *)
(* AutoMatchPayments takes any Observer.  MemoKept says whether the one it *)
(* is given fills in PaymentEvent.Memo, as observer.go:54-55 has it;       *)
(* HorizonObserver does not.                                               *)
(***************************************************************************)
EXTENDS PaymentObserver, TransferFSM

CONSTANTS Id,            \* IDs that transfers get
          Address,       \* Stellar accounts
          NoMemo,        \* the empty memo
          Distribution,  \* the account AutoMatchPayments is given
          Matcher,       \* the handler it registers
          MemoKept,
          NoHash,        \* the empty hash
          Outgoing       \* the hash of a payment the anchor makes

ASSUME MatchingAssumption ==
    /\ Account \subseteq [to: Address, memo: Id \cup {NoMemo}]
    /\ NoMemo \notin Id
    /\ Matcher \in Handler
    /\ Filter[Matcher] = {a \in Account : a.to = Distribution}
    /\ MemoKept \in BOOLEAN
    /\ NoHash \notin Nat /\ Outgoing \notin Nat /\ NoHash # Outgoing

VARIABLES transfers,  \* the store, as far as matching is concerned
          offered     \* history: the payments the matcher has dealt with

matchVars == <<transfers, offered>>
allVars == <<vars, matchVars>>

Unborn == [kind |-> "none", status |-> "none", txHash |-> NoHash]

MatchInit ==
    /\ Init
    /\ transfers = [id \in Id |-> Unborn]
    /\ offered = {}

-----------------------------------------------------------------------------
(* The handler. *)

Memo(p) == IF MemoKept THEN ledger[p].memo ELSE NoMemo

\* MUTANT: any transfer that waits for a payment will do.
AcceptsAny(id, p) ==
    /\ transfers[id].status # "none"
    /\ ValidateTransition(transfers[id].status, "pending_stellar")

\* MUTANT: a second payment, or the same again, is accepted as well.
AcceptsAgain(id, p) ==
    /\ id = Memo(p)
    /\ \/ ValidateTransition(transfers[id].status, "pending_stellar")
       \/ transfers[id].status = "pending_stellar"

\* NotifyPaymentReceived for the transfer that the memo of payment p names. It
\* does not look at the kind, nor at the amount.
Accepts(id, p) ==
    /\ id = Memo(p)
    /\ ValidateTransition(transfers[id].status, "pending_stellar")

\* A payment without a memo, of an unknown transfer or refused by the manager
\* is logged, and the handler reports success.
Offer(p) ==
    /\ offered' = offered \cup {p}
    /\ transfers' =
         [id \in Id |-> IF Accepts(id, p)
                        THEN [transfers[id] EXCEPT !.status = "pending_stellar",
                                                   !.txHash = p]
                        ELSE transfers[id]]

HandleAndMatch ==
    /\ Handle
    /\ IF handlers[next] = Matcher /\ Wants(Matcher, pos)
       THEN Offer(pos) ELSE UNCHANGED matchVars

-----------------------------------------------------------------------------
(* The host: other calls of the manager, and the start of the observer. *)

MatcherRegistered == \E i \in 1..Len(handlers) : handlers[i] = Matcher

\* The program calls AutoMatchPayments and then Start; after a restart, too.
StartMatching == MatcherRegistered /\ Start

Initiate(id) ==
    /\ transfers[id] = Unborn
    /\ \E kind \in Kinds, mode \in Modes :
          transfers' = [transfers EXCEPT ![id].kind = kind,
                                         ![id].status = BirthStatus(kind, mode)]
    /\ UNCHANGED <<vars, offered>>

\* CompleteInteractive and the transition that ends InitiateDeposit,
\* NotifyFundsReceived, NotifyPaymentSent, NotifyDisbursementSent, Cancel,
\* Deny, each for the kind of transfer it is meant for.
HostCalls(kind) ==
    {"cancelled", "denied", "completed"} \cup
    (IF kind = "deposit"
     THEN {"pending_user_transfer_start", "pending_external", "pending_stellar"}
     ELSE {"pending_external"})

HostMove(id) ==
    /\ transfers[id] # Unborn
    /\ \E to \in HostCalls(transfers[id].kind) :
         /\ ValidateTransition(transfers[id].status, to)
         /\ transfers' = [transfers EXCEPT
              ![id].status = to,
              ![id].txHash = IF to = "completed" /\ transfers[id].kind = "deposit"
                             THEN Outgoing ELSE @]
    /\ UNCHANGED <<vars, offered>>

-----------------------------------------------------------------------------
\* The steps of Start that run no handler.
Streams ==
    \/ Leave \/ Connect \/ ReceivePayment \/ SkipOther \/ Advance \/ Save
    \/ StreamEnds \/ StartWaiting \/ Retry

World ==
    \/ Pay \/ Stop \/ Cancel \/ Crash \/ StreamFails
    \/ \E h \in Handler : OnPayment(h)
    \/ StartMatching

MatchNext ==
    \/ HandleAndMatch
    \/ (Streams \/ World) /\ UNCHANGED matchVars
    \/ \E id \in Id : Initiate(id) \/ HostMove(id)

MatchSpec == MatchInit /\ [][MatchNext]_allVars

\* Handlers return, timers fire, and the client passes on what is there; the
\* program registers the matcher and starts the observer, each time anew after
\* a restart.
MatchFairSpec ==
    /\ MatchSpec
    /\ WF_vars(HandleAndMatch \/ (Streams /\ UNCHANGED matchVars))
    /\ WF_vars(OnPayment(Matcher) /\ UNCHANGED matchVars)
    /\ WF_vars(StartMatching /\ UNCHANGED matchVars)
-----------------------------------------------------------------------------
(* Properties. *)

MatchTypeOK ==
    /\ transfers \in [Id -> [kind: Kinds \cup {"none"}, status: Statuses \cup {"none"},
                             txHash: (1..MaxLedger) \cup {NoHash, Outgoing}]]
    /\ offered \subseteq 1..MaxLedger

Names(p, id) ==
    /\ p <= Len(ledger)
    /\ ledger[p] # Other
    /\ ledger[p].to = Distribution
    /\ ledger[p].memo = id

\* No withdrawal is taken for paid, let alone paid out, but for a payment to the
\* distribution account whose memo is its ID: over filters, reconnects and
\* restarts, its hash is that payment's (match.go:49-79).
PaidBeforeDisbursed ==
    \A id \in Id :
        /\ transfers[id].kind = "withdrawal"
        /\ transfers[id].status \in {"pending_stellar", "completed"}
        => \E p \in Positions : transfers[id].txHash = p /\ Names(p, id)

\* One payment counts for a withdrawal: a payment delivered again after a
\* restart, or another one with the same memo, changes neither the hash nor the
\* status (match.go:73-77 relies on the manager for it).
OnePaymentCounts ==
    [][\A id \in Id : transfers[id].kind = "withdrawal" /\ transfers[id].txHash # NoHash =>
          /\ transfers'[id].txHash = transfers[id].txHash
          /\ transfers'[id].status \in {transfers[id].status, "completed"}]_allVars

\* The matcher has dealt with every payment to the distribution account that
\* the persisted cursor covers: over any number of restarts, a payment is not
\* passed over (match.go:22-24, horizon.go:159-172).
PersistedIsOffered ==
    saved # Now =>
      \A p \in Positions : p <= saved /\ Wants(Matcher, p) => p \in offered

Waiting(id) ==
    /\ transfers[id].kind = "withdrawal"
    /\ ValidateTransition(transfers[id].status, "pending_stellar")

\* A payment that names a waiting withdrawal and is still to be streamed ends the
\* wait, even if streams break and the process restarts in between, unless the
\* observer is stopped (match.go:11-12, "automatically matches incoming Stellar
\* payments to pending withdrawals").
PaymentEndsWait ==
    \A id \in Id, p \in 1..MaxLedger :
        (Waiting(id) /\ Names(p, id) /\ p \notin offered)
        ~> (~Waiting(id) \/ stopped \/ cancelled)
=============================================================================

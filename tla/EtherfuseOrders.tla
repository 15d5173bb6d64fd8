---------------------------- MODULE EtherfuseOrders ----------------------------
(***************************************************************************)
(* The example anchor on Etherfuse: the pages of the interactive flow, the *)
(* orders they place at Etherfuse, and the webhooks that report on them.   *)
(* Page and webhook handlers share a transfer's metadata, which they read  *)
(* and replace without a lock of their own.                                *)
(*                                                                         *)
(*   onboard, quote:  rest -> read -> write -> rest                        *)
(*   order:           rest -> create -> consume -> read -> write ->        *)
(*                    complete -> rest                                     *)
(*   webhook:         rest -> read -> write -> rest  or  rest -> move      *)
(*                                                                         *)
(* A method of the transfer manager is one step, as the theorem            *)
(* TransferManager_proofs!ManagerImplementsLifecycle allows, and the store *)
(* is the memory store.  All transfers are of one customer, who posts only *)
(* what a page has offered; forms are taken as filled in, and amounts,     *)
(* assets and rates are abstracted.  Etherfuse is external: a request to   *)
(* it may fail before or after it took effect, and a webhook comes any     *)
(* number of times, in any order.  Its orders outlive a restart, in which  *)
(* the memory store loses the transfers they were for.                     *)
(***************************************************************************)
EXTENDS TransferFSM

CONSTANTS Id,       \* IDs that transfers get
          OrderId, DeterministicOrderID,  \* the order ID made from a transfer ID
          Old,      \* orders from before the last restart
          Server,   \* goroutines, one request or webhook each at a time
          NoId, NoOrder

ASSUME OrdersAssumption ==
    /\ DeterministicOrderID \in [Id -> OrderId]
    /\ \A i, j \in Id : DeterministicOrderID[i] = DeterministicOrderID[j] => i = j
    /\ Old \subseteq OrderId /\ \A i \in Id : DeterministicOrderID[i] \notin Old
    /\ NoId \notin Id /\ NoOrder \notin OrderId

VARIABLES transfers,  \* the store: kind, status and metadata
          tokens,     \* transfers whose interactive token is still good
          forms,      \* the forms the customer has been shown for each transfer
          work,       \* what each goroutine is doing
          orders,     \* at Etherfuse: the transfer an order is for, and its status
          events,     \* the webhooks Etherfuse has sent
          kyc,        \* at Etherfuse: the customer's verification
          approved    \* history: whether it was ever approved

etherfuse == <<orders, events, kyc>>
vars == <<transfers, tokens, forms, work, etherfuse, approved>>

OrderStatuses == {"created", "funded", "completed", "failed", "refunded", "canceled"}

KYCStatuses == {"not_started", "proposed", "approved", "rejected"}

\* The pages that have a form; the others lead nowhere, or back to the first.
Forms == {"onboard", "amount", "quote-confirm"}

\* Keys of the metadata, by the page or webhook that sets them.
Keys == {"customer", "quote", "withdraw"}

NoMetadata == [keys |-> {}, order |-> NoOrder]

Unborn == [kind |-> "none", status |-> "none", metadata |-> NoMetadata]

Rest == [pc |-> "rest", page |-> "none", id |-> NoId, read |-> NoMetadata,
         new |-> NoMetadata, next |-> "none"]

NotPlaced == [id |-> NoId, status |-> "none"]

PlacedBefore == [id |-> NoId, status |-> "created"]

Init ==
    /\ transfers = [id \in Id |-> Unborn]
    /\ tokens = {}
    /\ forms = [id \in Id |-> {}]
    /\ work = [s \in Server |-> Rest]
    /\ orders = [o \in OrderId |-> IF o \in Old THEN PlacedBefore ELSE NotPlaced]
    /\ events = Old \X {"created"}
    /\ kyc = "not_started"
    /\ approved = FALSE

Goto(s, step) == work' = [work EXCEPT ![s].pc = step]

Return(s) == work' = [work EXCEPT ![s] = Rest]

Show(id, page) == forms' = [forms EXCEPT ![id] = @ \cup ({page} \cap Forms)]

\* updateAndTransition and transition: a refusal is logged by all callers.
Move(id, to) ==
    transfers' = IF ValidateTransition(transfers[id].status, to)
                 THEN [transfers EXCEPT ![id].status = to] ELSE transfers

-----------------------------------------------------------------------------
(* Metadata. *)

Merged(old, new) ==
    [keys |-> old.keys \cup new.keys,
     order |-> IF new.order = NoOrder THEN old.order ELSE new.order]

Merge(s, page, id, new) ==
    work' = [work EXCEPT ![s] = [Rest EXCEPT !.pc = "read", !.page = page, !.id = id,
                                             !.new = new]]

\* mergeMetadata: FindByID, then Update with the merged copy.
ReadMetadata(s) ==
    /\ work[s].pc = "read"
    /\ work' = [work EXCEPT ![s].read = transfers[work[s].id].metadata,
                            ![s].pc = "write"]
    /\ UNCHANGED <<transfers, tokens, forms, etherfuse, approved>>

WriteMetadata(s) ==
    /\ work[s].pc = "write"
    /\ LET w == work[s] IN
         /\ transfers' = [transfers EXCEPT ![w.id].metadata = Merged(w.read, w.new)]
         /\ IF w.page = "order" THEN Goto(s, "complete") ELSE Return(s)
         /\ Show(w.id, IF w.page = "quote" THEN "quote-confirm" ELSE "none")
    /\ UNCHANGED <<tokens, etherfuse, approved>>

-----------------------------------------------------------------------------
(* The pages. *)

\* InitiateDeposit, InitiateWithdrawal.
Open(id) ==
    /\ transfers[id] = Unborn
    /\ \E kind \in Kinds :
          transfers' = [transfers EXCEPT ![id].kind = kind,
                                         ![id].status = BirthStatus(kind, "interactive")]
    /\ tokens' = tokens \cup {id}
    /\ UNCHANGED <<forms, work, etherfuse, approved>>

\* MUTANT: whoever has begun his verification may go on.
StepProposed(status) ==
    CASE status \in {"approved", "proposed"} -> "amount"
      [] status = "rejected" -> "kyc-rejected"
      [] OTHER -> "onboard"

Step(status) ==
    CASE status = "approved" -> "amount"
      [] status = "proposed" -> "kyc-pending"
      [] status = "rejected" -> "kyc-rejected"
      [] OTHER -> "onboard"

\* handleGetInteractive; when Etherfuse does not answer, the page to verify.
\* The pending page polls handleKYCPoll, and an error page has a button, to come
\* back here.
GetInteractive(id) ==
    /\ id \in tokens
    /\ \E page \in {Step(kyc), "onboard"} : Show(id, page)
    /\ UNCHANGED <<transfers, tokens, work, etherfuse, approved>>

\* When the request to Etherfuse fails, neither of the two changes anything.
PostOnboard(s, id) ==
    /\ work[s] = Rest
    /\ id \in tokens /\ "onboard" \in forms[id]
    /\ Merge(s, "onboard", id, [NoMetadata EXCEPT !.keys = {"customer"}])
    /\ UNCHANGED <<transfers, tokens, forms, etherfuse, approved>>

PostQuote(s, id) ==
    /\ work[s] = Rest
    /\ id \in tokens /\ "amount" \in forms[id]
    /\ Merge(s, "quote", id, [NoMetadata EXCEPT !.keys = {"quote"}])
    /\ UNCHANGED <<transfers, tokens, forms, etherfuse, approved>>

PostOrder(s, id) ==
    /\ work[s] = Rest
    /\ id \in tokens /\ "quote-confirm" \in forms[id]
    /\ work' = [work EXCEPT ![s] = [Rest EXCEPT !.pc = "create", !.page = "order",
                                                !.id = id]]
    /\ UNCHANGED <<transfers, tokens, forms, etherfuse, approved>>

-----------------------------------------------------------------------------
(* The order. *)

\* MUTANT: an ID drawn for each request.
OrderIDsDrawn(id) == OrderId

OrderIDs(id) == {DeterministicOrderID[id]}

\* Etherfuse's side of POST /ramp/order: an order it has already keeps its state.
Place(o, id) ==
    IF orders[o] = NotPlaced
    THEN /\ orders' = [orders EXCEPT ![o] = [id |-> id, status |-> "created"]]
         /\ events' = events \cup {<<o, "created">>}
    ELSE UNCHANGED <<orders, events>>

\* MUTANT: the token is used up before the order is placed.
CreateOrderConsumes(s) ==
    /\ work[s].pc = "create"
    /\ LET id == work[s].id IN
       \E o \in OrderIDs(id) :
         /\ tokens' = tokens \ {id}
         /\ \/ /\ Place(o, id)
               /\ work' = [work EXCEPT ![s].pc = "consume", ![s].new.order = o]
            \/ /\ UNCHANGED <<orders, events>>
               /\ Return(s)
    /\ UNCHANGED <<transfers, forms, kyc, approved>>

\* CreateOnrampOrder, CreateOfframpOrder: the order is placed, or was before,
\* and answered; or no answer comes, whether it was placed or not, or a second
\* one with its ID is refused.
CreateOrder(s) ==
    /\ work[s].pc = "create"
    /\ LET id == work[s].id IN
       \E o \in OrderIDs(id) :
         \/ /\ Place(o, id)
            /\ work' = [work EXCEPT ![s].pc = "consume", ![s].new.order = o]
         \/ /\ Place(o, id) \/ UNCHANGED <<orders, events>>
            /\ Return(s)
    /\ UNCHANGED <<transfers, tokens, forms, kyc, approved>>

\* A token that another request has used up meanwhile is logged.
ConsumeToken(s) ==
    /\ work[s].pc = "consume"
    /\ tokens' = tokens \ {work[s].id}
    /\ Goto(s, "read")
    /\ UNCHANGED <<transfers, forms, etherfuse, approved>>

\* MUTANT: the form's last step is left out.
CompleteOrderOnly(s) ==
    /\ work[s].pc = "complete"
    /\ Return(s)
    /\ UNCHANGED <<transfers, tokens, forms, etherfuse, approved>>

\* CompleteInteractive: transfers past the form refuse it, which is logged.
CompleteOrder(s) ==
    /\ work[s].pc = "complete"
    /\ LET id == work[s].id IN
         Move(id, IF transfers[id].kind = "deposit"
                  THEN "pending_user_transfer_start" ELSE "pending_external")
    /\ Return(s)
    /\ UNCHANGED <<tokens, forms, etherfuse, approved>>

-----------------------------------------------------------------------------
(* Webhooks. *)

\* MUTANT: any transfer that has an order.
FoundAny(o) == {id \in Id : transfers[id].metadata.order # NoOrder}

\* findTransferByOrderID
Found(o) == {id \in Id : transfers[id].metadata.order = o}

\* The status that an order's status asks for.
Wanted(status) ==
    CASE status = "funded" -> "pending_stellar"
      [] status = "completed" -> "completed"
      [] status \in {"failed", "refunded", "canceled"} -> "cancelled"

\* handleOrderUpdated: an order that no transfer names is logged and
\* acknowledged; a new offramp order brings the details of its payment.
Webhook(s, event) ==
    /\ work[s] = Rest
    /\ event \in events
    /\ \E id \in Found(event[1]) :
         IF event[2] = "created"
         THEN /\ transfers[id].kind = "withdrawal"
              /\ Merge(s, "webhook", id, [NoMetadata EXCEPT !.keys = {"withdraw"}])
         ELSE work' = [work EXCEPT ![s] = [Rest EXCEPT !.pc = "move", !.page = "webhook",
                                                 !.id = id, !.next = Wanted(event[2])]]
    /\ UNCHANGED <<transfers, tokens, forms, etherfuse, approved>>

\* NotifyFundsReceived, NotifyPaymentReceived, NotifyPaymentSent,
\* NotifyDisbursementSent, Cancel.
Notify(s) ==
    /\ work[s].pc = "move"
    /\ Move(work[s].id, work[s].next)
    /\ Return(s)
    /\ UNCHANGED <<tokens, forms, etherfuse, approved>>

-----------------------------------------------------------------------------
(* Etherfuse. *)

orderMoves ==
    [created |-> {"funded", "failed", "canceled"},
     funded |-> {"completed", "failed", "refunded"},
     completed |-> {}, failed |-> {"refunded"}, refunded |-> {}, canceled |-> {}]

OrderMoves(o) ==
    /\ orders[o] # NotPlaced
    /\ \E status \in orderMoves[orders[o].status] :
         /\ orders' = [orders EXCEPT ![o].status = status]
         /\ events' = events \cup {<<o, status>>}
    /\ UNCHANGED <<transfers, tokens, forms, work, kyc, approved>>

\* The customer is verified once he has been to the page for it.
VerificationMoves ==
    /\ kyc' \in CASE kyc = "not_started" -> {"proposed"}
                  [] kyc = "proposed" -> {"approved", "rejected"}
                  [] OTHER -> {"proposed"}
    /\ \E id \in Id : "onboard" \in forms[id]
    /\ approved' = (approved \/ kyc' = "approved")
    /\ UNCHANGED <<transfers, tokens, forms, work, orders, events>>

-----------------------------------------------------------------------------
Serve(s) ==
    \/ ReadMetadata(s) \/ WriteMetadata(s)
    \/ CreateOrder(s) \/ ConsumeToken(s) \/ CompleteOrder(s)
    \/ Notify(s)

Next ==
    \/ \E id \in Id : \/ Open(id) \/ GetInteractive(id)
                      \/ \E s \in Server : PostOnboard(s, id) \/ PostQuote(s, id)
                                           \/ PostOrder(s, id)
    \/ \E s \in Server : Serve(s) \/ \E event \in events : Webhook(s, event)
    \/ \E o \in OrderId : OrderMoves(o)
    \/ VerificationMoves

Spec == Init /\ [][Next]_vars

\* A handler that has begun runs to its end.
FairSpec == Spec /\ \A s \in Server : WF_vars(Serve(s))
-----------------------------------------------------------------------------
(* What the status endpoint shows. *)

\* MUTANT: a withdrawal is shown as waiting for its payment from the start.
mapStatusEarly(transfer) ==
    CASE transfer.kind = "withdrawal" /\ transfer.status = "pending_external" ->
             "pending_user_transfer_start"
      [] transfer.status \in {"interactive", "initiating"} -> "incomplete"
      [] transfer.status \in {"failed", "denied", "cancelled"} -> "error"
      [] OTHER -> transfer.status

mapStatusToSEP24(transfer) ==
    CASE /\ transfer.kind = "withdrawal" /\ transfer.status = "pending_external"
         /\ "withdraw" \in transfer.metadata.keys -> "pending_user_transfer_start"
      [] transfer.status \in {"interactive", "initiating"} -> "incomplete"
      [] transfer.status \in {"failed", "denied", "cancelled"} -> "error"
      [] OTHER -> transfer.status
-----------------------------------------------------------------------------
(* Properties. *)

Metadata == [keys: SUBSET Keys, order: OrderId \cup {NoOrder}]

TypeOK ==
    /\ transfers \in [Id -> [kind: Kinds \cup {"none"}, status: Statuses \cup {"none"},
                             metadata: Metadata]]
    /\ tokens \subseteq Id
    /\ forms \in [Id -> SUBSET Forms]
    /\ work \in [Server ->
         [pc: {"rest", "read", "write", "create", "consume", "complete", "move"},
          page: {"none", "onboard", "quote", "order", "webhook"},
          id: Id \cup {NoId}, read: Metadata, new: Metadata,
          next: Statuses \cup {"none"}]]
    /\ orders \in [OrderId -> [id: Id \cup {NoId}, status: OrderStatuses \cup {"none"}]]
    /\ events \subseteq OrderId \X OrderStatuses
    /\ kyc \in KYCStatuses /\ approved \in BOOLEAN

\* Etherfuse has told of one of these of an order for transfer id.
Told(id, statuses) ==
    \E event \in events : event[2] \in statuses /\ orders[event[1]].id = id

\* Late, repeated and reordered webhooks, and those of other transfers, never
\* put a transfer ahead of its own order: it is past its form only with an order,
\* paid only if the order was funded, completed only if it was completed, and
\* cancelled only if it fell through (webhooks.go:115-201).
TransferFollowsOrder ==
    \A id \in Id : LET status == transfers[id].status IN
        /\ status \notin {"none", "interactive"} => Told(id, {"created"})
        /\ status = "pending_stellar" => Told(id, {"funded"})
        /\ status = "completed" => Told(id, {"funded"}) /\ Told(id, {"completed"})
        /\ status = "cancelled" => Told(id, {"failed", "refunded", "canceled"})

\* The customer's link works until an order is placed: no failure of Etherfuse
\* and no double click leaves him without an order and without a link
\* (interactive.go:357-369).
LinkLivesUntilOrder ==
    \A id \in Id : transfers[id] # Unborn /\ id \notin tokens => Told(id, {"created"})

\* Double clicks and repeats of a request whose answer was lost place one order
\* (interactive.go:341).
OneOrderPerTransfer ==
    \A o, p \in OrderId : orders[o].id = orders[p].id /\ orders[o].id # NoId => o = p

\* A customer who keeps to the pages has been verified before he orders, however
\* many tabs he has and however his status changes meanwhile.
NoOrderBeforeApproval == (\E o \in OrderId : orders[o].id # NoId) => approved

\* A wallet is asked for the payment of a withdrawal only when Etherfuse has an
\* order for it, and this transfer's own (sep24.go:83-104).
PromptHasOrder ==
    \A id \in Id :
        mapStatusToSEP24(transfers[id]) = "pending_user_transfer_start" =>
          /\ Told(id, {"created"})
          /\ transfers[id].kind = "withdrawal" => "withdraw" \in transfers[id].metadata.keys

\* A placed and answered order takes its transfer out of the form, though other
\* requests have used up its token or written its metadata.
OrderEndsForm ==
    \A id \in Id :
        (\E s \in Server : work[s].pc = "consume" /\ work[s].id = id)
        ~> (transfers[id].status # "interactive")

-----------------------------------------------------------------------------
(* What the comments say of the program. *)

\* webhooks.go:312-313, "reads the current transfer metadata and merges new keys
\* into it": an order ID, by which webhooks find the transfer, stays there.
OrderIDKept ==
    [][\A id \in Id :
          LET old == transfers[id].metadata.order
          IN old # NoOrder => transfers'[id].metadata.order = old]_vars
=============================================================================

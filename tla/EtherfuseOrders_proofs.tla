------------------------ MODULE EtherfuseOrders_proofs ------------------------
(***************************************************************************)
(* Proofs about EtherfuseOrders, for any number of transfers, orders and   *)
(* goroutines.                                                             *)
(***************************************************************************)
EXTENDS EtherfuseOrders, TLAPS

Born(id) == transfers[id].status # "none"

OrderOf(id) == DeterministicOrderID[id]

\* Transfer id has its own order at Etherfuse, and Etherfuse has told of it.
Ordered(id) ==
    /\ orders[OrderOf(id)].id = id
    /\ <<OrderOf(id), "created">> \in events

Heard(id, statuses) == \E status \in statuses : <<OrderOf(id), status>> \in events

\* Metadata name no order but the transfer's own.
NamesOwn(id, metadata) ==
    metadata.order # NoOrder => metadata.order = OrderOf(id) /\ Ordered(id)

OrdersOK ==
    /\ \A o \in OrderId :
         \/ orders[o] = NotPlaced
         \/ o \in Old /\ orders[o].id = NoId
         \/ /\ orders[o].id \in Id
            /\ o = OrderOf(orders[o].id)
            /\ <<o, "created">> \in events
    /\ \A o \in OrderId : orders[o].status = "none" => orders[o] = NotPlaced
    /\ \A o \in OrderId : <<o, "completed">> \in events => <<o, "funded">> \in events
    /\ \A o \in OrderId : orders[o].status = "funded" => <<o, "funded">> \in events

\* What has been told of its order covers where a transfer is.
Covered(id, status) ==
    /\ status \notin {"none", "interactive"} => Ordered(id)
    /\ status = "pending_stellar" => Heard(id, {"funded"})
    /\ status = "completed" => Heard(id, {"completed"})
    /\ status = "cancelled" => Heard(id, {"failed", "refunded", "canceled"})

TransfersOK ==
    \A id \in Id :
      /\ ~Born(id) => transfers[id] = Unborn
      /\ Born(id) /\ id \notin tokens => Ordered(id)
      /\ id \in tokens => Born(id)
      /\ NamesOwn(id, transfers[id].metadata)
      /\ Covered(id, transfers[id].status)
      /\ transfers[id].status = "pending_user_transfer_start" => transfers[id].kind = "deposit"

ItemOK(w) ==
    /\ w.pc = "rest" => w.page = "none"
    /\ w.pc # "rest" => /\ w.id \in Id /\ Born(w.id)
                        /\ NamesOwn(w.id, w.read) /\ NamesOwn(w.id, w.new)
    /\ \/ w.pc \in {"consume", "complete"}
       \/ w.page = "order" /\ w.pc # "create"
       => Ordered(w.id)
    /\ w.pc = "create" => w.page = "order"
    /\ w.pc = "move" => /\ Ordered(w.id) /\ Covered(w.id, w.next)
                        /\ w.next \in Statuses \ {"pending_user_transfer_start"}

WorkOK == \A s \in Server : ItemOK(work[s])

\* Nobody comes to the form for the amount before he is verified.
ApprovalOK ==
    /\ kyc = "approved" => approved
    /\ \A id \in Id : forms[id] \cap {"amount", "quote-confirm"} # {} => approved
    /\ \A s \in Server : work[s].page \in {"quote", "order"} => approved
    /\ \A o \in OrderId : orders[o].id # NoId => approved

SafetyInv == TypeOK /\ OrdersOK /\ TransfersOK /\ WorkOK /\ ApprovalOK

-----------------------------------------------------------------------------
(* What does not change. *)

Item == [pc: {"rest", "read", "write", "create", "consume", "complete", "move"},
         page: {"none", "onboard", "quote", "order", "webhook"},
         id: Id \cup {NoId}, read: Metadata, new: Metadata,
         next: Statuses \cup {"none"}]

Transfer == [kind: Kinds \cup {"none"}, status: Statuses \cup {"none"}, metadata: Metadata]

LEMMA Constants ==
    /\ NoMetadata \in Metadata /\ NoMetadata.order = NoOrder /\ NoMetadata.keys = {}
    /\ Rest \in Item /\ Rest.pc = "rest" /\ Rest.id = NoId /\ Rest.page = "none"
    /\ Rest.read = NoMetadata /\ Rest.new = NoMetadata /\ Rest.next = "none"
    /\ Unborn \in Transfer /\ Unborn.status = "none" /\ Unborn.kind = "none"
    /\ Unborn.metadata = NoMetadata
    /\ "none" \notin Statuses /\ NoId \notin Id
<1>1. NoMetadata \in Metadata /\ NoMetadata.order = NoOrder /\ NoMetadata.keys = {}
  BY DEF NoMetadata, Metadata
<1> QED
  BY <1>1, OrdersAssumption DEF Rest, Item, Unborn, Transfer, Statuses, Terminal

LEMMA Typed ==
    ASSUME TypeOK
    PROVE  /\ transfers \in [Id -> Transfer] /\ work \in [Server -> Item]
           /\ orders \in [OrderId -> [id: Id \cup {NoId}, status: OrderStatuses \cup {"none"}]]
           /\ events \subseteq OrderId \X OrderStatuses
BY DEF TypeOK, Transfer, Item

\* Orders keep their transfer, what was told stays told, and no transfer is unborn again.
Grow ==
    /\ \A o \in OrderId : orders[o].id \in Id => orders'[o].id = orders[o].id
    /\ events \subseteq events'
    /\ \A id \in Id : Born(id) => Born(id)'

LEMMA GrowKeeps ==
    ASSUME Grow, NEW id \in Id
    PROVE  /\ Ordered(id) => Ordered(id)'
           /\ \A status : Covered(id, status) => Covered(id, status)'
           /\ \A metadata : NamesOwn(id, metadata) => NamesOwn(id, metadata)'
<1>1. OrderOf(id) \in OrderId
  BY OrdersAssumption DEF OrderOf
<1>2. Ordered(id) => Ordered(id)'
  BY <1>1 DEF Grow, Ordered, OrderOf
<1>3. ASSUME NEW S, Heard(id, S) PROVE Heard(id, S)'
  BY <1>3 DEF Grow, Heard, OrderOf
<1>4. ASSUME NEW status, Covered(id, status) PROVE Covered(id, status)'
  BY <1>2, <1>3, <1>4 DEF Covered
<1>5. ASSUME NEW metadata, NamesOwn(id, metadata) PROVE NamesOwn(id, metadata)'
  BY <1>2, <1>5 DEF NamesOwn, OrderOf
<1> QED
  BY <1>2, <1>4, <1>5

LEMMA ItemKeeps ==
    ASSUME Grow, NEW w, ItemOK(w)
    PROVE  ItemOK(w)'
<1>1. CASE w.id \in Id
  <2>1. Born(w.id) => Born(w.id)'
    BY <1>1 DEF Grow
  <2>2. /\ Ordered(w.id) => Ordered(w.id)'
        /\ Covered(w.id, w.next) => Covered(w.id, w.next)'
        /\ NamesOwn(w.id, w.read) => NamesOwn(w.id, w.read)'
        /\ NamesOwn(w.id, w.new) => NamesOwn(w.id, w.new)'
    BY <1>1, GrowKeeps
  <2>3. /\ w.pc = "rest" => w.page = "none"
        /\ w.pc # "rest" => /\ w.id \in Id /\ Born(w.id)
                            /\ NamesOwn(w.id, w.read) /\ NamesOwn(w.id, w.new)
        /\ \/ w.pc \in {"consume", "complete"}
           \/ w.page = "order" /\ w.pc # "create"
           => Ordered(w.id)
        /\ w.pc = "create" => w.page = "order"
        /\ w.pc = "move" => /\ Ordered(w.id) /\ Covered(w.id, w.next)
                            /\ w.next \in Statuses \ {"pending_user_transfer_start"}
    BY DEF ItemOK
  <2> QED
    BY <2>1, <2>2, <2>3 DEF ItemOK
<1>2. CASE w.id \notin Id
  <2>1. w.pc = "rest" /\ w.page # "order"
    BY <1>2 DEF ItemOK
  <2> QED
    BY <2>1 DEF ItemOK
<1> QED
  BY <1>1, <1>2

\* A goroutine that takes its next step.
LEMMA WorkStep ==
    ASSUME TypeOK, WorkOK, Grow, NEW s \in Server, NEW new,
           work' = [work EXCEPT ![s] = new], ItemOK(new)'
    PROVE  WorkOK'
<1>1. ASSUME NEW t \in Server PROVE ItemOK(work[t])'
  <2>1. CASE t = s
    <3>1. work'[t] = new
      BY <2>1, Typed
    <3> QED
      BY <3>1 DEF ItemOK
  <2>2. CASE t # s
    <3>1. work'[t] = work[t] /\ ItemOK(work[t])
      BY <2>2, Typed DEF WorkOK
    <3>2. ASSUME NEW w, w = work[t] PROVE ItemOK(w)'
      BY <3>1, <3>2, ItemKeeps
    <3> QED
      BY <3>1, <3>2 DEF ItemOK
  <2> QED
    BY <2>1, <2>2
<1> QED
  BY <1>1 DEF WorkOK

-----------------------------------------------------------------------------
LEMMA Starts == Init => SafetyInv
<1> SUFFICES ASSUME Init PROVE SafetyInv
  OBVIOUS
<1> USE Constants DEF Init
<1>1. /\ NotPlaced.id = NoId /\ NotPlaced.status = "none"
      /\ PlacedBefore.id = NoId /\ PlacedBefore.status = "created"
      /\ {NotPlaced, PlacedBefore} \subseteq
           [id: Id \cup {NoId}, status: OrderStatuses \cup {"none"}]
  BY DEF NotPlaced, PlacedBefore, OrderStatuses
<1>2. TypeOK
  <2>1. transfers \in [Id -> Transfer] /\ work \in [Server -> Item]
    OBVIOUS
  <2>2. orders \in [OrderId -> [id: Id \cup {NoId}, status: OrderStatuses \cup {"none"}]]
    BY <1>1
  <2>3. /\ tokens \subseteq Id /\ forms \in [Id -> SUBSET Forms]
        /\ events \subseteq OrderId \X OrderStatuses
        /\ kyc \in KYCStatuses /\ approved \in BOOLEAN
    BY OrdersAssumption DEF OrderStatuses, KYCStatuses
  <2> QED
    BY <2>1, <2>2, <2>3 DEF TypeOK, Transfer, Item
<1>3. OrdersOK
  BY <1>1, OrdersAssumption DEF OrdersOK
<1>4. TransfersOK
  BY DEF TransfersOK, Born, NamesOwn, Covered
<1>5. WorkOK
  BY DEF WorkOK, ItemOK
<1>6. ApprovalOK
  BY <1>1 DEF ApprovalOK
<1> QED
  BY <1>2, <1>3, <1>4, <1>5, <1>6 DEF SafetyInv

\* Where neither transfers nor orders change.
LEMMA SameKeeps ==
    ASSUME SafetyInv, UNCHANGED <<transfers, tokens, orders, events>>
    PROVE  Grow /\ OrdersOK' /\ TransfersOK'
BY DEF SafetyInv, OrdersOK, TransfersOK, Grow, Born, NamesOwn, Covered, Ordered, Heard, OrderOf

\* A goroutine that takes a step and changes nothing else.
LEMMA WorkOnly ==
    ASSUME SafetyInv, NEW s \in Server, NEW new \in Item, ItemOK(new),
           work' = [work EXCEPT ![s] = new],
           UNCHANGED <<transfers, tokens, forms, etherfuse, approved>>,
           new.page \in {"quote", "order"} => approved
    PROVE  SafetyInv'
<1>1. Grow /\ OrdersOK' /\ TransfersOK'
  BY SameKeeps DEF etherfuse
<1>2. TypeOK /\ work \in [Server -> Item]
  BY Typed DEF SafetyInv
<1>3. work' \in [Server -> Item] /\ work'[s] = new /\ \A t \in Server \ {s} : work'[t] = work[t]
  BY <1>2
<1>4. TypeOK'
  BY <1>2, <1>3 DEF TypeOK, Item, Metadata, etherfuse
<1>5. WorkOK'
  BY <1>1, <1>2, ItemKeeps, WorkStep DEF SafetyInv
<1>6. ApprovalOK'
  BY <1>3 DEF SafetyInv, ApprovalOK, etherfuse
<1> QED
  BY <1>1, <1>4, <1>5, <1>6 DEF SafetyInv

LEMMA MergeKeeps ==
    ASSUME SafetyInv, NEW s \in Server, NEW id \in Id, Born(id),
           NEW page \in {"onboard", "quote", "webhook"},
           NEW metadata \in Metadata, metadata.order = NoOrder,
           Merge(s, page, id, metadata), page = "quote" => approved,
           UNCHANGED <<transfers, tokens, forms, etherfuse, approved>>
    PROVE  SafetyInv'
<1> DEFINE new == [Rest EXCEPT !.pc = "read", !.page = page, !.id = id, !.new = metadata]
<1>1. /\ new \in Item /\ new.pc = "read" /\ new.page = page /\ new.id = id
      /\ new.new = metadata /\ new.read = NoMetadata
  BY Constants DEF Item
<1>2. work' = [work EXCEPT ![s] = new]
  BY DEF Merge
<1> HIDE DEF new
<1>3. ItemOK(new)
  BY <1>1, Constants DEF ItemOK, NamesOwn
<1> QED
  BY <1>1, <1>2, <1>3, WorkOnly

LEMMA PostKeeps ==
    ASSUME SafetyInv, NEW s \in Server, NEW id \in Id,
           PostOnboard(s, id) \/ PostQuote(s, id) \/ PostOrder(s, id)
    PROVE  SafetyInv'
<1>1. Born(id) /\ UNCHANGED <<transfers, tokens, forms, etherfuse, approved>>
  BY DEF SafetyInv, TransfersOK, PostOnboard, PostQuote, PostOrder
<1>2. ASSUME NEW key \in Keys
      PROVE  /\ [NoMetadata EXCEPT !.keys = {key}] \in Metadata
             /\ [NoMetadata EXCEPT !.keys = {key}].order = NoOrder
  BY Constants DEF Metadata
<1>3. CASE PostOnboard(s, id)
  BY <1>1, <1>2, <1>3, MergeKeeps DEF PostOnboard, Keys
<1>4. CASE PostQuote(s, id)
  <2>1. approved
    BY <1>4 DEF SafetyInv, ApprovalOK, PostQuote
  <2> QED
    BY <1>1, <1>2, <1>4, <2>1, MergeKeeps DEF PostQuote, Keys
<1>5. CASE PostOrder(s, id)
  <2> DEFINE new == [Rest EXCEPT !.pc = "create", !.page = "order", !.id = id]
  <2>1. approved
    BY <1>5 DEF SafetyInv, ApprovalOK, PostOrder
  <2>2. /\ new \in Item /\ new.pc = "create" /\ new.page = "order" /\ new.id = id
        /\ new.new = NoMetadata /\ new.read = NoMetadata
    BY Constants DEF Item
  <2>3. work' = [work EXCEPT ![s] = new]
    BY <1>5 DEF PostOrder
  <2> HIDE DEF new
  <2>4. ItemOK(new)
    BY <1>1, <2>2, Constants DEF ItemOK, NamesOwn
  <2> QED
    BY <1>1, <2>1, <2>2, <2>3, <2>4, WorkOnly
<1> QED
  BY <1>3, <1>4, <1>5

LEMMA ReadKeeps ==
    ASSUME SafetyInv, NEW s \in Server, ReadMetadata(s)
    PROVE  SafetyInv'
<1> DEFINE w == work[s]
<1> DEFINE new == [w EXCEPT !.read = transfers[w.id].metadata, !.pc = "write"]
<1>1. /\ w \in Item /\ w.pc = "read" /\ ItemOK(w) /\ work \in [Server -> Item]
      /\ transfers \in [Id -> Transfer] /\ w.id \in Id
      /\ w.page \in {"quote", "order"} => approved
  BY Typed DEF SafetyInv, WorkOK, ItemOK, ApprovalOK, ReadMetadata
<1>2. transfers[w.id].metadata \in Metadata /\ NamesOwn(w.id, transfers[w.id].metadata)
  BY <1>1 DEF SafetyInv, TransfersOK, Transfer
<1>3. work' = [work EXCEPT ![s] = new]
  BY <1>1 DEF ReadMetadata
<1> HIDE DEF w
<1>4. /\ new \in Item /\ new.pc = "write" /\ new.id = w.id /\ new.page = w.page
      /\ new.new = w.new /\ new.read = transfers[w.id].metadata
  BY <1>1, <1>2 DEF Item
<1> HIDE DEF new
<1>5. ItemOK(new)
  BY <1>1, <1>2, <1>4 DEF ItemOK
<1>6. UNCHANGED <<transfers, tokens, forms, etherfuse, approved>>
  BY DEF ReadMetadata
<1> QED
  BY <1>1, <1>3, <1>4, <1>5, <1>6, WorkOnly

-----------------------------------------------------------------------------
(* The webhooks and the moves of a transfer. *)

LEMMA WebhookKeeps ==
    ASSUME SafetyInv, NEW s \in Server, NEW event \in events, Webhook(s, event)
    PROVE  SafetyInv'
<1>1. event[1] \in OrderId /\ event[2] \in OrderStatuses /\ event = <<event[1], event[2]>>
  BY Typed DEF SafetyInv
<1>2. UNCHANGED <<transfers, tokens, forms, etherfuse, approved>>
  BY DEF Webhook
<1>3. PICK id \in Found(event[1]) :
        IF event[2] = "created"
        THEN Merge(s, "webhook", id, [NoMetadata EXCEPT !.keys = {"withdraw"}])
        ELSE work' = [work EXCEPT ![s] = [Rest EXCEPT !.pc = "move", !.page = "webhook",
                                            !.id = id, !.next = Wanted(event[2])]]
  BY DEF Webhook
<1>4. id \in Id /\ event[1] = OrderOf(id) /\ Ordered(id) /\ Born(id)
  <2>1. id \in Id /\ transfers[id].metadata.order = event[1] /\ event[1] # NoOrder
    BY <1>1, OrdersAssumption DEF Found
  <2>2. NamesOwn(id, transfers[id].metadata)
    BY <2>1 DEF SafetyInv, TransfersOK
  <2>3. Born(id)
    BY <2>1, Constants DEF SafetyInv, TransfersOK
  <2> QED
    BY <2>1, <2>2, <2>3 DEF NamesOwn
<1>5. CASE event[2] = "created"
  <2>1. /\ [NoMetadata EXCEPT !.keys = {"withdraw"}] \in Metadata
        /\ [NoMetadata EXCEPT !.keys = {"withdraw"}].order = NoOrder
    BY Constants DEF Metadata, Keys
  <2> QED
    BY <1>2, <1>3, <1>4, <1>5, <2>1, MergeKeeps
<1>6. CASE event[2] # "created"
  <2> DEFINE next == Wanted(event[2])
  <2>1. /\ next \in Statuses \ {"pending_user_transfer_start"}
        /\ next = "pending_stellar" => event[2] = "funded"
        /\ next = "completed" => event[2] = "completed"
        /\ next = "cancelled" => event[2] \in {"failed", "refunded", "canceled"}
    BY <1>1, <1>6 DEF Wanted, OrderStatuses, Statuses, Terminal
  <2>2. Covered(id, next)
    BY <1>1, <1>4, <2>1 DEF Covered, Heard
  <2> HIDE DEF next
  <2> DEFINE new == [Rest EXCEPT !.pc = "move", !.page = "webhook", !.id = id,
                                 !.next = next]
  <2>3. /\ new \in Item /\ new.pc = "move" /\ new.page = "webhook" /\ new.id = id
        /\ new.next = next /\ new.new = NoMetadata /\ new.read = NoMetadata
    BY <1>4, <2>1, Constants DEF Item
  <2>4. work' = [work EXCEPT ![s] = new]
    BY <1>3, <1>6 DEF next
  <2> HIDE DEF new
  <2>5. ItemOK(new)
    BY <1>4, <2>1, <2>2, <2>3, Constants DEF ItemOK, NamesOwn
  <2> QED
    BY <1>2, <2>3, <2>4, <2>5, WorkOnly
<1> QED
  BY <1>5, <1>6

\* A goroutine that comes to rest, whatever it did.
LEMMA ReturnKeeps ==
    ASSUME SafetyInv, Grow, NEW s \in Server, Return(s), forms' = forms,
           approved' = approved, kyc' = kyc
    PROVE  /\ WorkOK' /\ work' \in [Server -> Item]
           /\ \A t \in Server : work'[t].page \in {"quote", "order"} => approved'
<1>1. TypeOK /\ work \in [Server -> Item] /\ WorkOK
  BY Typed DEF SafetyInv
<1>2. work' = [work EXCEPT ![s] = Rest]
  BY DEF Return
<1>3. ItemOK(Rest)'
  BY Constants DEF ItemOK
<1>4. WorkOK'
  BY <1>1, <1>2, <1>3, WorkStep
<1>5. work' \in [Server -> Item]
  BY <1>1, <1>2, Constants
<1>6. \A t \in Server : work'[t] = work[t] \/ work'[t].page = "none"
  BY <1>1, <1>2, Constants
<1> QED
  BY <1>4, <1>5, <1>6 DEF SafetyInv, ApprovalOK

LEMMA MoveKeeps ==
    ASSUME SafetyInv, NEW s \in Server, NEW id \in Id, NEW to \in Statuses,
           Born(id), Covered(id, to), Move(id, to), Return(s),
           to = "pending_user_transfer_start" => transfers[id].kind = "deposit",
           UNCHANGED <<tokens, forms, etherfuse, approved>>
    PROVE  SafetyInv'
<1>1. /\ transfers \in [Id -> Transfer] /\ TypeOK
      /\ UNCHANGED <<tokens, forms, orders, events, kyc, approved>>
  BY Typed DEF SafetyInv, etherfuse
<1>2. \/ transfers' = transfers
      \/ transfers' = [transfers EXCEPT ![id].status = to]
  BY DEF Move
<1>3. CASE transfers' = transfers
  <2>1. Grow /\ OrdersOK' /\ TransfersOK'
    BY <1>1, <1>3, SameKeeps
  <2>2. /\ WorkOK' /\ work' \in [Server -> Item]
        /\ \A t \in Server : work'[t].page \in {"quote", "order"} => approved'
    BY <1>1, <2>1, ReturnKeeps
  <2>3. TypeOK'
    BY <1>1, <1>3, <2>2 DEF TypeOK, Item, Metadata
  <2>4. ApprovalOK'
    BY <1>1, <2>2 DEF SafetyInv, ApprovalOK
  <2> QED
    BY <2>1, <2>2, <2>3, <2>4 DEF SafetyInv
<1>4. CASE transfers' = [transfers EXCEPT ![id].status = to]
  <2>1. /\ transfers' \in [Id -> Transfer]
        /\ transfers'[id].status = to /\ transfers'[id].kind = transfers[id].kind
        /\ transfers'[id].metadata = transfers[id].metadata
        /\ \A i \in Id \ {id} : transfers'[i] = transfers[i]
    BY <1>1, <1>4 DEF Transfer
  <2>2. Grow
    BY <1>1, <2>1, Constants DEF Grow, Born
  <2>3. OrdersOK'
    BY <1>1 DEF SafetyInv, OrdersOK, OrderOf
  <2>4. TransfersOK'
    <3>1. ASSUME NEW i \in Id, i # id
          PROVE  /\ ~Born(i)' => transfers'[i] = Unborn
                 /\ Born(i)' /\ i \notin tokens' => Ordered(i)'
                 /\ i \in tokens' => Born(i)'
                 /\ NamesOwn(i, transfers[i].metadata)'
                 /\ Covered(i, transfers[i].status)'
                 /\ transfers'[i].status = "pending_user_transfer_start" =>
                      transfers'[i].kind = "deposit"
      <4>1. transfers'[i] = transfers[i] /\ (Born(i)' <=> Born(i))
        BY <2>1, <3>1 DEF Born
      <4> QED
        BY <1>1, <4>1
        DEF SafetyInv, TransfersOK, NamesOwn, Covered, Ordered, Heard, OrderOf
    <3>2. /\ Born(id)' /\ (id \notin tokens' => Ordered(id)')
          /\ NamesOwn(id, transfers[id].metadata)'
          /\ Covered(id, transfers[id].status)'
          /\ transfers'[id].status = "pending_user_transfer_start" =>
               transfers'[id].kind = "deposit"
          /\ id \in tokens' => Born(id)'
      <4>1. Born(id)'
        BY <2>1, Constants DEF Born
      <4>2. NamesOwn(id, transfers[id].metadata)'
        BY <1>1, <2>1 DEF SafetyInv, TransfersOK, NamesOwn, Ordered, OrderOf
      <4>3. Covered(id, transfers[id].status)'
        BY <1>1, <2>1 DEF Covered, Ordered, Heard, OrderOf
      <4>4. transfers'[id].status = "pending_user_transfer_start" =>
               transfers'[id].kind = "deposit"
        BY <2>1
      <4>5. id \notin tokens' => Ordered(id)'
        BY <1>1 DEF SafetyInv, TransfersOK, Ordered, OrderOf
      <4> QED
        BY <4>1, <4>2, <4>3, <4>4, <4>5
    <3> QED
      BY <3>1, <3>2 DEF TransfersOK
  <2>5. /\ WorkOK' /\ work' \in [Server -> Item]
        /\ \A t \in Server : work'[t].page \in {"quote", "order"} => approved'
    BY <1>1, <2>2, ReturnKeeps
  <2>6. TypeOK'
    BY <1>1, <2>1, <2>5 DEF TypeOK, Item, Transfer, Metadata
  <2>7. ApprovalOK'
    BY <1>1, <2>5 DEF SafetyInv, ApprovalOK
  <2> QED
    BY <2>3, <2>4, <2>5, <2>6, <2>7 DEF SafetyInv
<1> QED
  BY <1>2, <1>3, <1>4

LEMMA EndsKeep ==
    ASSUME SafetyInv, NEW s \in Server, CompleteOrder(s) \/ Notify(s)
    PROVE  SafetyInv'
<1> DEFINE w == work[s]
<1>1. /\ w \in Item /\ w.pc \in {"complete", "move"} /\ ItemOK(w) /\ w.id \in Id
      /\ Born(w.id) /\ Ordered(w.id)
      /\ Return(s) /\ UNCHANGED <<tokens, forms, etherfuse, approved>>
  BY Typed DEF SafetyInv, WorkOK, ItemOK, CompleteOrder, Notify
<1>2. CASE CompleteOrder(s)
  <2> DEFINE to == IF transfers[w.id].kind = "deposit"
                   THEN "pending_user_transfer_start" ELSE "pending_external"
  <2>1. Move(w.id, to)
    BY <1>2 DEF CompleteOrder
  <2>2. /\ to \in Statuses /\ Covered(w.id, to)
        /\ to = "pending_user_transfer_start" => transfers[w.id].kind = "deposit"
    BY <1>1 DEF Covered, Statuses
  <2> HIDE DEF to, w
  <2> QED
    BY <1>1, <2>1, <2>2, MoveKeeps
<1>3. CASE Notify(s)
  <2>1. w.pc = "move" /\ Move(w.id, w.next)
    BY <1>3 DEF Notify
  <2>2. Covered(w.id, w.next)
    BY <1>1, <2>1 DEF ItemOK
  <2>3. w.next \in Statuses /\ w.next # "pending_user_transfer_start"
    BY <1>1, <2>1 DEF ItemOK
  <2> HIDE DEF w
  <2> QED
    BY <1>1, <2>1, <2>2, <2>3, MoveKeeps
<1> QED
  BY <1>2, <1>3

LEMMA WriteKeeps ==
    ASSUME SafetyInv, NEW s \in Server, WriteMetadata(s)
    PROVE  SafetyInv'
<1> DEFINE w == work[s]
<1> DEFINE merged == Merged(w.read, w.new)
<1> DEFINE page == IF w.page = "quote" THEN "quote-confirm" ELSE "none"
<1>1. /\ w \in Item /\ w.pc = "write" /\ ItemOK(w) /\ w.id \in Id /\ Born(w.id)
      /\ NamesOwn(w.id, w.read) /\ NamesOwn(w.id, w.new)
      /\ w.page = "order" => Ordered(w.id)
      /\ w.page \in {"quote", "order"} => approved
  BY Typed DEF SafetyInv, WorkOK, ItemOK, ApprovalOK, WriteMetadata
<1>2. /\ transfers \in [Id -> Transfer] /\ TypeOK /\ work \in [Server -> Item]
      /\ UNCHANGED <<tokens, orders, events, kyc, approved>>
  BY Typed DEF SafetyInv, WriteMetadata, etherfuse
<1>3. /\ transfers' = [transfers EXCEPT ![w.id].metadata = merged]
      /\ forms' = [forms EXCEPT ![w.id] = @ \cup ({page} \cap Forms)]
      /\ IF w.page = "order" THEN work' = [work EXCEPT ![s].pc = "complete"] ELSE Return(s)
  BY DEF WriteMetadata, Show, Goto
<1> HIDE DEF w
<1>4. merged \in Metadata /\ NamesOwn(w.id, merged)
  <2>1. w.read \in Metadata /\ w.new \in Metadata
    BY <1>1 DEF Item
  <2> QED
    BY <1>1, <2>1 DEF Merged, Metadata, NamesOwn
<1> HIDE DEF merged
<1>5. /\ transfers' \in [Id -> Transfer]
      /\ transfers'[w.id].status = transfers[w.id].status
      /\ transfers'[w.id].kind = transfers[w.id].kind
      /\ transfers'[w.id].metadata = merged
      /\ \A i \in Id \ {w.id} : transfers'[i] = transfers[i]
  BY <1>1, <1>2, <1>3, <1>4 DEF Transfer
<1>6. Grow
  BY <1>1, <1>2, <1>5 DEF Grow, Born
<1>7. OrdersOK'
  BY <1>2 DEF SafetyInv, OrdersOK, OrderOf
<1>8. TransfersOK'
  <2>1. ASSUME NEW i \in Id
        PROVE  /\ ~Born(i)' => transfers'[i] = Unborn
               /\ Born(i)' /\ i \notin tokens' => Ordered(i)'
               /\ i \in tokens' => Born(i)'
               /\ Covered(i, transfers[i].status)'
               /\ transfers'[i].status = "pending_user_transfer_start" =>
                    transfers'[i].kind = "deposit"
    <3>1. /\ transfers'[i].status = transfers[i].status
          /\ transfers'[i].kind = transfers[i].kind
          /\ i # w.id => transfers'[i] = transfers[i]
          /\ Born(i)' <=> Born(i)
      BY <1>5 DEF Born
    <3> QED
      BY <1>1, <1>2, <3>1
      DEF SafetyInv, TransfersOK, Covered, Ordered, Heard, OrderOf
  <2>2. ASSUME NEW i \in Id PROVE NamesOwn(i, transfers[i].metadata)'
    BY <1>2, <1>4, <1>5 DEF SafetyInv, TransfersOK, NamesOwn, Ordered, OrderOf
  <2> QED
    BY <2>1, <2>2 DEF TransfersOK
<1>9. forms' \in [Id -> SUBSET Forms]
  BY <1>2, <1>3 DEF TypeOK
<1>10. ASSUME work' \in [Server -> Item],
              \A t \in Server : work'[t].page \in {"quote", "order"} => approved'
       PROVE  TypeOK' /\ ApprovalOK'
  <2>1. TypeOK'
    BY <1>2, <1>5, <1>9, <1>10 DEF TypeOK, Item, Transfer, Metadata
  <2>2. ASSUME NEW i \in Id, forms'[i] \cap {"amount", "quote-confirm"} # {}
        PROVE  approved'
    <3>1. CASE i = w.id /\ w.page = "quote"
      BY <1>1, <1>2, <3>1
    <3>2. CASE ~(i = w.id /\ w.page = "quote")
      <4>1. forms'[i] \subseteq forms[i] \cup {"none"}
        BY <1>2, <1>3, <3>2 DEF TypeOK
      <4> QED
        BY <1>2, <2>2, <4>1 DEF SafetyInv, ApprovalOK
    <3> QED
      BY <3>1, <3>2
  <2> QED
    BY <1>2, <1>10, <2>1, <2>2 DEF SafetyInv, ApprovalOK
<1>11. CASE w.page = "order"
  <2> DEFINE new == [w EXCEPT !.pc = "complete"]
  <2>1. work' = [work EXCEPT ![s] = new]
    BY <1>2, <1>3, <1>11 DEF w
  <2>2. /\ new \in Item /\ new.pc = "complete" /\ new.id = w.id /\ new.page = w.page
        /\ new.read = w.read /\ new.new = w.new
    BY <1>1 DEF Item
  <2> HIDE DEF new
  <2>3. PICK now : now = new
    OBVIOUS
  <2>4. ItemOK(now)
    BY <1>1, <1>11, <2>2, <2>3 DEF ItemOK
  <2>5. WorkOK'
    BY <1>2, <1>6, <2>1, <2>3, <2>4, ItemKeeps, WorkStep DEF SafetyInv
  <2>6. /\ work' \in [Server -> Item]
        /\ \A t \in Server : work'[t].page \in {"quote", "order"} => approved'
    BY <1>1, <1>2, <2>1, <2>2 DEF SafetyInv, ApprovalOK
  <2> QED
    BY <1>7, <1>8, <1>10, <2>5, <2>6 DEF SafetyInv
<1>12. CASE w.page # "order"
  <2>1. work' = [work EXCEPT ![s] = Rest]
    BY <1>3, <1>12 DEF Return
  <2>2. ItemOK(Rest)'
    BY Constants DEF ItemOK
  <2>3. WorkOK'
    BY <1>2, <1>6, <2>1, <2>2, WorkStep DEF SafetyInv
  <2>4. /\ work' \in [Server -> Item]
        /\ \A t \in Server : work'[t].page \in {"quote", "order"} => approved'
    BY <1>2, <2>1, Constants DEF SafetyInv, ApprovalOK
  <2> QED
    BY <1>7, <1>8, <1>10, <2>3, <2>4 DEF SafetyInv
<1> QED
  BY <1>11, <1>12

-----------------------------------------------------------------------------
(* Opening a transfer and its pages. *)

LEMMA OpenKeeps ==
    ASSUME SafetyInv, NEW id \in Id, Open(id)
    PROVE  SafetyInv'
<1>1. PICK kind \in Kinds :
        transfers' = [transfers EXCEPT ![id].kind = kind,
                                       ![id].status = BirthStatus(kind, "interactive")]
  BY DEF Open
<1>2. /\ transfers \in [Id -> Transfer] /\ TypeOK /\ transfers[id] = Unborn
      /\ tokens' = tokens \cup {id}
      /\ UNCHANGED <<forms, work, orders, events, kyc, approved>>
  BY Typed DEF SafetyInv, Open, etherfuse
<1>3. BirthStatus(kind, "interactive") = "interactive"
  BY DEF BirthStatus
<1>4. /\ transfers' \in [Id -> Transfer]
      /\ transfers'[id].status = "interactive"
      /\ transfers'[id].metadata = NoMetadata
      /\ \A i \in Id \ {id} : transfers'[i] = transfers[i]
  BY <1>1, <1>2, <1>3, Constants DEF Transfer, Statuses
<1>5. Grow
  BY <1>2, <1>4 DEF Grow, Born
<1>6. TypeOK'
  BY <1>2, <1>4 DEF TypeOK, Transfer, Metadata
<1>7. OrdersOK' /\ ApprovalOK'
  BY <1>2 DEF SafetyInv, OrdersOK, OrderOf, ApprovalOK
<1>8. WorkOK'
  <2> SUFFICES ASSUME NEW s \in Server PROVE ItemOK(work[s])'
    BY DEF WorkOK
  <2>1. PICK w : w = work[s]
    OBVIOUS
  <2>2. ItemOK(w)'
    BY <1>5, <2>1, ItemKeeps DEF SafetyInv, WorkOK
  <2> QED
    BY <1>2, <2>1, <2>2
<1>9. TransfersOK'
  <2>1. ASSUME NEW i \in Id, i # id
        PROVE  /\ ~Born(i)' => transfers'[i] = Unborn
               /\ Born(i)' /\ i \notin tokens' => Ordered(i)'
               /\ i \in tokens' => Born(i)'
               /\ NamesOwn(i, transfers[i].metadata)'
               /\ Covered(i, transfers[i].status)'
               /\ transfers'[i].status = "pending_user_transfer_start" =>
                    transfers'[i].kind = "deposit"
    <3>1. transfers'[i] = transfers[i] /\ (Born(i)' <=> Born(i))
      BY <1>4, <2>1 DEF Born
    <3> QED
      BY <1>2, <2>1, <3>1
      DEF SafetyInv, TransfersOK, NamesOwn, Covered, Ordered, Heard, OrderOf
  <2>2. /\ Born(id)' /\ id \in tokens'
        /\ NamesOwn(id, transfers[id].metadata)'
        /\ Covered(id, transfers[id].status)'
    BY <1>2, <1>4, Constants DEF Born, NamesOwn, Covered
  <2> QED
    BY <1>4, <2>1, <2>2 DEF TransfersOK
<1> QED
  BY <1>6, <1>7, <1>8, <1>9 DEF SafetyInv

LEMMA PageKeeps ==
    ASSUME SafetyInv, NEW id \in Id, GetInteractive(id)
    PROVE  SafetyInv'
<1>1. PICK page \in {Step(kyc), "onboard"} :
        forms' = [forms EXCEPT ![id] = @ \cup ({page} \cap Forms)]
  BY DEF GetInteractive, Show
<1>2. UNCHANGED <<transfers, tokens, work, orders, events, kyc, approved>> /\ TypeOK
  BY DEF GetInteractive, etherfuse, SafetyInv
<1>3. page \in {"amount", "quote-confirm"} => approved
  BY DEF Step, SafetyInv, ApprovalOK
<1>4. /\ forms' \in [Id -> SUBSET Forms]
      /\ \A i \in Id : forms'[i] \subseteq forms[i] \cup {page}
  BY <1>1, <1>2 DEF TypeOK
<1>5. TypeOK'
  BY <1>2, <1>4 DEF TypeOK, Metadata
<1>6. OrdersOK' /\ TransfersOK'
  BY <1>2, SameKeeps
<1>7. WorkOK'
  BY <1>2 DEF SafetyInv, WorkOK, ItemOK, Born, NamesOwn, Covered, Ordered, Heard, OrderOf
<1>8. \A i \in Id : forms'[i] \cap {"amount", "quote-confirm"} # {} => approved
  BY <1>3, <1>4 DEF SafetyInv, ApprovalOK
<1>9. ApprovalOK'
  BY <1>2, <1>8 DEF SafetyInv, ApprovalOK
<1> QED
  BY <1>5, <1>6, <1>7, <1>9 DEF SafetyInv

-----------------------------------------------------------------------------
(* Orders. *)

LEMMA GrowTransfers ==
    ASSUME SafetyInv, Grow, UNCHANGED <<transfers, tokens>>
    PROVE  TransfersOK'
<1> SUFFICES ASSUME NEW id \in Id
             PROVE  /\ ~Born(id)' => transfers'[id] = Unborn
                    /\ Born(id)' /\ id \notin tokens' => Ordered(id)'
                    /\ id \in tokens' => Born(id)'
                    /\ NamesOwn(id, transfers[id].metadata)'
                    /\ Covered(id, transfers[id].status)'
                    /\ transfers'[id].status = "pending_user_transfer_start" =>
                         transfers'[id].kind = "deposit"
  BY DEF TransfersOK
<1>1. PICK metadata, status : metadata = transfers[id].metadata /\ status = transfers[id].status
  OBVIOUS
<1>2. NamesOwn(id, metadata)' /\ Covered(id, status)'
  BY <1>1, GrowKeeps DEF SafetyInv, TransfersOK
<1>3. NamesOwn(id, transfers[id].metadata)' /\ Covered(id, transfers[id].status)'
  BY <1>1, <1>2
<1>4. (Born(id)' <=> Born(id)) /\ (Ordered(id) => Ordered(id)')
  BY GrowKeeps DEF Born
<1> QED
  BY <1>3, <1>4 DEF SafetyInv, TransfersOK

\* The order placed, if it was not before, is the transfer's own.
LEMMA PlaceGrows ==
    ASSUME SafetyInv, NEW id \in Id, Place(OrderOf(id), id), UNCHANGED transfers
    PROVE  /\ Grow /\ OrdersOK' /\ Ordered(id)'
           /\ orders' \in [OrderId -> [id: Id \cup {NoId}, status: OrderStatuses \cup {"none"}]]
           /\ events' \subseteq OrderId \X OrderStatuses
<1> DEFINE o == OrderOf(id)
<1>1. /\ orders \in [OrderId -> [id: Id \cup {NoId}, status: OrderStatuses \cup {"none"}]]
      /\ events \subseteq OrderId \X OrderStatuses
      /\ o \in OrderId /\ o \notin Old
  BY Typed, OrdersAssumption DEF SafetyInv, OrderOf
<1>2. NotPlaced.id = NoId
  BY DEF NotPlaced
<1>3. CASE orders[o] = NotPlaced
  <2> DEFINE new == [id |-> id, status |-> "created"]
  <2>1. orders' = [orders EXCEPT ![o] = new] /\ events' = events \cup {<<o, "created">>}
    BY <1>3 DEF Place
  <2>2. /\ new \in [id: Id \cup {NoId}, status: OrderStatuses \cup {"none"}]
        /\ new.id = id /\ new.status = "created"
    BY DEF OrderStatuses
  <2> HIDE DEF new
  <2>3. /\ orders' \in [OrderId -> [id: Id \cup {NoId}, status: OrderStatuses \cup {"none"}]]
        /\ orders'[o] = new /\ \A p \in OrderId \ {o} : orders'[p] = orders[p]
        /\ events' \subseteq OrderId \X OrderStatuses
    BY <1>1, <2>1, <2>2 DEF OrderStatuses
  <2>4. Grow
    BY <1>2, <1>3, <2>1, <2>3, Constants DEF Grow, Born
  <2>5. Ordered(id)'
    BY <2>1, <2>2, <2>3 DEF Ordered, OrderOf
  <2>6. OrdersOK'
    <3>1. ASSUME NEW p \in OrderId
          PROVE  \/ orders'[p] = NotPlaced
                 \/ p \in Old /\ orders'[p].id = NoId
                 \/ /\ orders'[p].id \in Id
                    /\ p = OrderOf(orders[p].id)'
                    /\ <<p, "created">> \in events'
      BY <2>1, <2>2, <2>3 DEF SafetyInv, OrdersOK, OrderOf
    <3>2. \A p \in OrderId : <<p, "completed">> \in events' => <<p, "funded">> \in events'
      BY <2>1 DEF SafetyInv, OrdersOK
    <3>3. \A p \in OrderId : orders'[p].status = "funded" => <<p, "funded">> \in events'
      BY <2>1, <2>2, <2>3 DEF SafetyInv, OrdersOK
    <3>4. \A p \in OrderId : orders'[p].status = "none" => orders'[p] = NotPlaced
      BY <2>1, <2>2, <2>3 DEF SafetyInv, OrdersOK
    <3> QED
      BY <3>1, <3>2, <3>3, <3>4 DEF OrdersOK
  <2> QED
    BY <2>3, <2>4, <2>5, <2>6
<1>4. CASE orders[o] # NotPlaced
  <2>1. UNCHANGED <<orders, events>>
    BY <1>4 DEF Place
  <2>2. Grow /\ OrdersOK'
    BY <2>1 DEF Grow, Born, SafetyInv, OrdersOK, OrderOf
  <2>3. orders[o].id \in Id /\ o = OrderOf(orders[o].id) /\ <<o, "created">> \in events
    BY <1>1, <1>4 DEF SafetyInv, OrdersOK
  <2>4. orders[o].id = id
    BY <2>3, OrdersAssumption DEF OrderOf
  <2>5. Ordered(id)'
    BY <2>1, <2>3, <2>4 DEF Ordered, OrderOf
  <2> QED
    BY <1>1, <2>1, <2>2, <2>5
<1> QED
  BY <1>3, <1>4

LEMMA CreateKeeps ==
    ASSUME SafetyInv, NEW s \in Server, CreateOrder(s)
    PROVE  SafetyInv'
<1> PICK w : w = work[s]
  OBVIOUS
<1> DEFINE o == OrderOf(w.id)
<1>1. /\ w \in Item /\ w.pc = "create" /\ ItemOK(w) /\ w.id \in Id /\ Born(w.id)
      /\ NamesOwn(w.id, w.read) /\ w.page = "order" /\ approved
      /\ OrderIDs(w.id) = {o} /\ o \in OrderId
  BY Typed, OrdersAssumption
  DEF SafetyInv, WorkOK, ItemOK, ApprovalOK, CreateOrder, OrderIDs, OrderOf
<1>2. /\ TypeOK /\ work \in [Server -> Item]
      /\ UNCHANGED <<transfers, tokens, forms, kyc, approved>>
  BY Typed DEF SafetyInv, CreateOrder
<1>3. \/ /\ Place(o, w.id)
         /\ work' = [work EXCEPT ![s].pc = "consume", ![s].new.order = o]
      \/ Place(o, w.id) /\ Return(s)
      \/ UNCHANGED <<orders, events>> /\ Return(s)
  BY <1>1 DEF CreateOrder
<1>4. ASSUME Grow, OrdersOK', WorkOK', work' \in [Server -> Item],
             orders' \in [OrderId -> [id: Id \cup {NoId}, status: OrderStatuses \cup {"none"}]],
             events' \subseteq OrderId \X OrderStatuses
      PROVE  SafetyInv'
  <2>1. TypeOK'
    BY <1>2, <1>4 DEF TypeOK, Item, Metadata
  <2>2. TransfersOK'
    BY <1>2, <1>4, GrowTransfers
  <2>3. ApprovalOK'
    BY <1>1, <1>2 DEF ApprovalOK
  <2> QED
    BY <1>4, <2>1, <2>2, <2>3 DEF SafetyInv
<1>5. Place(o, w.id) =>
        /\ Grow /\ OrdersOK' /\ Ordered(w.id)'
        /\ orders' \in [OrderId -> [id: Id \cup {NoId}, status: OrderStatuses \cup {"none"}]]
        /\ events' \subseteq OrderId \X OrderStatuses
  BY <1>1, <1>2, PlaceGrows
<1>6. CASE /\ Place(o, w.id)
           /\ work' = [work EXCEPT ![s].pc = "consume", ![s].new.order = o]
  <2> DEFINE metadata == [w.new EXCEPT !.order = o]
  <2>1. metadata \in Metadata /\ metadata.order = o
    BY <1>1 DEF Item, Metadata
  <2> HIDE DEF metadata
  <2> DEFINE new == [w EXCEPT !.pc = "consume", !.new = metadata]
  <2>2. work' = [work EXCEPT ![s] = new]
    BY <1>2, <1>6 DEF metadata
  <2>3. /\ new \in Item /\ new.pc = "consume" /\ new.id = w.id /\ new.page = "order"
        /\ new.read = w.read /\ new.new = metadata
    BY <1>1, <2>1 DEF Item
  <2> HIDE DEF new
  <2>4. Born(w.id)' /\ NamesOwn(w.id, w.read)'
    BY <1>1, <1>5, <1>6, GrowKeeps DEF Grow
  <2>5. NamesOwn(w.id, metadata)'
    BY <1>5, <1>6, <2>1 DEF NamesOwn, metadata
  <2>6. ItemOK(new)'
    BY <1>1, <1>5, <1>6, <2>3, <2>4, <2>5 DEF ItemOK, metadata, new
  <2>7. WorkOK'
    BY <1>2, <1>5, <1>6, <2>2, <2>6, WorkStep DEF SafetyInv
  <2>8. work' \in [Server -> Item]
    BY <1>2, <2>2, <2>3
  <2> QED
    BY <1>4, <1>5, <1>6, <2>7, <2>8
<1>7. ASSUME Return(s), Grow PROVE WorkOK' /\ work' \in [Server -> Item]
  BY <1>2, <1>7, ReturnKeeps
<1>8. CASE Place(o, w.id) /\ Return(s)
  BY <1>4, <1>5, <1>7, <1>8
<1>9. CASE UNCHANGED <<orders, events>> /\ Return(s)
  <2>1. Grow /\ OrdersOK'
    BY <1>2, <1>9, SameKeeps
  <2> QED
    BY <1>2, <1>4, <1>7, <1>9, <2>1, Typed
<1> QED
  BY <1>3, <1>6, <1>8, <1>9

LEMMA ConsumeKeeps ==
    ASSUME SafetyInv, NEW s \in Server, ConsumeToken(s)
    PROVE  SafetyInv'
<1> PICK w : w = work[s]
  OBVIOUS
<1>1. /\ w \in Item /\ w.pc = "consume" /\ ItemOK(w) /\ w.id \in Id /\ Ordered(w.id)
      /\ TypeOK /\ work \in [Server -> Item]
  BY Typed DEF SafetyInv, WorkOK, ItemOK, ConsumeToken
<1>2. /\ tokens' = tokens \ {w.id} /\ work' = [work EXCEPT ![s].pc = "read"]
      /\ UNCHANGED <<transfers, forms, orders, events, kyc, approved>>
  BY DEF ConsumeToken, Goto, etherfuse
<1> DEFINE new == [w EXCEPT !.pc = "read"]
<1>3. /\ new \in Item /\ new.pc = "read" /\ new.id = w.id /\ new.page = w.page
      /\ new.read = w.read /\ new.new = w.new
  BY <1>1 DEF Item
<1>4. work' = [work EXCEPT ![s] = new]
  BY <1>1, <1>2
<1> HIDE DEF new
<1>5. Grow
  BY <1>2 DEF Grow, Born
<1>6. ItemOK(new)
  BY <1>1, <1>3 DEF ItemOK
<1>7. WorkOK'
  BY <1>1, <1>4, <1>5, <1>6, ItemKeeps, WorkStep DEF SafetyInv, new
<1>8. TypeOK'
  <2>1. work' \in [Server -> Item]
    BY <1>1, <1>3, <1>4
  <2> QED
    BY <1>1, <1>2, <2>1 DEF TypeOK, Item, Metadata
<1>9. TransfersOK'
  BY <1>1, <1>2 DEF SafetyInv, TransfersOK, Born, NamesOwn, Covered, Ordered, Heard, OrderOf
<1>10. OrdersOK' /\ ApprovalOK'
  <2>1. OrdersOK'
    BY <1>2 DEF SafetyInv, OrdersOK, OrderOf
  <2>2. \A t \in Server : work'[t].page = work[t].page
    BY <1>1, <1>3, <1>4
  <2> QED
    BY <1>2, <2>1, <2>2 DEF SafetyInv, ApprovalOK
<1> QED
  BY <1>7, <1>8, <1>9, <1>10 DEF SafetyInv

LEMMA EtherfuseKeeps ==
    ASSUME SafetyInv, NEW o \in OrderId, OrderMoves(o)
    PROVE  SafetyInv'
<1>1. PICK status \in orderMoves[orders[o].status] :
        /\ orders' = [orders EXCEPT ![o].status = status]
        /\ events' = events \cup {<<o, status>>}
  BY DEF OrderMoves
<1>2. /\ orders \in [OrderId -> [id: Id \cup {NoId}, status: OrderStatuses \cup {"none"}]]
      /\ events \subseteq OrderId \X OrderStatuses
      /\ UNCHANGED <<transfers, tokens, forms, work, kyc, approved>> /\ TypeOK
  BY Typed DEF SafetyInv, OrderMoves
<1>3. /\ orders[o] # NotPlaced
      /\ orders'[o].id = orders[o].id /\ orders'[o].status = status
      /\ \A p \in OrderId \ {o} : orders'[p] = orders[p]
  BY <1>1, <1>2 DEF OrderMoves
<1>4. /\ orders[o].status \in OrderStatuses /\ status \in OrderStatuses
      /\ status = "completed" => orders[o].status = "funded"
  <2>1. orders[o].status \in OrderStatuses
    BY <1>2, <1>3 DEF SafetyInv, OrdersOK
  <2> QED
    BY <1>1, <2>1 DEF OrderStatuses, orderMoves
<1>5. /\ orders' \in [OrderId -> [id: Id \cup {NoId}, status: OrderStatuses \cup {"none"}]]
      /\ events' \subseteq OrderId \X OrderStatuses
  BY <1>1, <1>2, <1>4
<1>6. TypeOK'
  BY <1>2, <1>5 DEF TypeOK, Metadata
<1>7. Grow
  BY <1>1, <1>2, <1>3 DEF Grow, Born
<1>8. TransfersOK'
  BY <1>2, <1>7, GrowTransfers
<1>9. WorkOK'
  <2> SUFFICES ASSUME NEW s \in Server PROVE ItemOK(work[s])'
    BY DEF WorkOK
  <2>1. PICK w : w = work[s]
    OBVIOUS
  <2>2. ItemOK(w)'
    BY <1>7, <2>1, ItemKeeps DEF SafetyInv, WorkOK
  <2> QED
    BY <1>2, <2>1, <2>2
<1>10. ApprovalOK'
  <2>1. \A p \in OrderId : orders'[p].id = orders[p].id
    BY <1>3
  <2> QED
    BY <1>2, <2>1 DEF SafetyInv, ApprovalOK
<1>11. OrdersOK'
  <2>1. ASSUME NEW p \in OrderId
        PROVE  \/ orders'[p] = NotPlaced
               \/ p \in Old /\ orders'[p].id = NoId
               \/ /\ orders'[p].id \in Id
                  /\ p = OrderOf(orders[p].id)'
                  /\ <<p, "created">> \in events'
    BY <1>1, <1>3 DEF SafetyInv, OrdersOK, OrderOf
  <2>2. \A p \in OrderId : orders'[p].status = "none" => orders'[p] = NotPlaced
    BY <1>3, <1>4 DEF SafetyInv, OrdersOK, OrderStatuses
  <2>3. \A p \in OrderId : <<p, "completed">> \in events' => <<p, "funded">> \in events'
    BY <1>1, <1>4 DEF SafetyInv, OrdersOK
  <2>4. \A p \in OrderId : orders'[p].status = "funded" => <<p, "funded">> \in events'
    BY <1>1, <1>3 DEF SafetyInv, OrdersOK
  <2> QED
    BY <2>1, <2>2, <2>3, <2>4 DEF OrdersOK
<1> QED
  BY <1>6, <1>8, <1>9, <1>10, <1>11 DEF SafetyInv

LEMMA VerificationKeeps ==
    ASSUME SafetyInv, VerificationMoves
    PROVE  SafetyInv'
<1>1. /\ UNCHANGED <<transfers, tokens, forms, work, orders, events>> /\ TypeOK
      /\ approved' = (approved \/ kyc' = "approved")
      /\ kyc' \in {"proposed", "approved", "rejected"}
  BY DEF VerificationMoves, SafetyInv
<1>2. TypeOK'
  BY <1>1 DEF TypeOK, KYCStatuses, Metadata
<1>3. OrdersOK' /\ TransfersOK' /\ WorkOK'
  BY <1>1 DEF SafetyInv, OrdersOK, TransfersOK, WorkOK, ItemOK, Born, NamesOwn, Covered,
       Ordered, Heard, OrderOf
<1>4. ApprovalOK'
  BY <1>1 DEF SafetyInv, ApprovalOK
<1> QED
  BY <1>2, <1>3, <1>4 DEF SafetyInv

LEMMA SafetyHolds == Spec => []SafetyInv
<1>1. SafetyInv /\ [Next]_vars => SafetyInv'
  <2> SUFFICES ASSUME SafetyInv, [Next]_vars PROVE SafetyInv'
    OBVIOUS
  <2>1. CASE UNCHANGED vars
    <3>1. OrdersOK' /\ TransfersOK'
      BY <2>1, SameKeeps DEF vars, etherfuse
    <3> QED
      BY <2>1, <3>1
      DEF vars, etherfuse, SafetyInv, TypeOK, Metadata, WorkOK, ItemOK, ApprovalOK, Born,
          NamesOwn, Covered, Ordered, Heard, OrderOf
  <2>2. ASSUME NEW s \in Server, Serve(s) PROVE SafetyInv'
    BY <2>2, ReadKeeps, WriteKeeps, CreateKeeps, ConsumeKeeps, EndsKeep DEF Serve
  <2> QED
    BY <2>1, <2>2, OpenKeeps, PageKeeps, PostKeeps, WebhookKeeps, EtherfuseKeeps,
       VerificationKeeps DEF Next
<1> QED
  BY <1>1, Starts, PTL DEF Spec

-----------------------------------------------------------------------------
(* The theorems. *)

LEMMA OrderedIsTold ==
    ASSUME SafetyInv, NEW id \in Id, Ordered(id)
    PROVE  /\ Told(id, {"created"})
           /\ \A S : Heard(id, S) => Told(id, S)
<1>1. ASSUME NEW status, <<OrderOf(id), status>> \in events, NEW S, status \in S
      PROVE  Told(id, S)
  <2> DEFINE event == <<OrderOf(id), status>>
  <2>1. event[1] = OrderOf(id) /\ event[2] = status
    OBVIOUS
  <2> QED
    BY <1>1, <2>1 DEF Told, Ordered
<1> QED
  BY <1>1 DEF Ordered, Heard

\* The state keeps its types.
THEOREM TypesHold == Spec => []TypeOK
BY SafetyHolds, PTL DEF SafetyInv

\* Whatever webhooks arrive, in whatever order and how often, no transfer is ahead of
\* its own order (webhooks.go:115-201).
THEOREM OrdersAreFollowed == Spec => []TransferFollowsOrder
<1>1. SafetyInv => TransferFollowsOrder
  <2> SUFFICES ASSUME SafetyInv, NEW id \in Id
               PROVE  LET status == transfers[id].status IN
                      /\ status \notin {"none", "interactive"} => Told(id, {"created"})
                      /\ status = "pending_stellar" => Told(id, {"funded"})
                      /\ status = "completed" =>
                           Told(id, {"funded"}) /\ Told(id, {"completed"})
                      /\ status = "cancelled" => Told(id, {"failed", "refunded", "canceled"})
    BY DEF TransferFollowsOrder
  <2>1. Covered(id, transfers[id].status)
    BY DEF SafetyInv, TransfersOK
  <2>2. Heard(id, {"completed"}) => Heard(id, {"funded"})
    <3>1. OrderOf(id) \in OrderId
      BY OrdersAssumption DEF OrderOf
    <3> QED
      BY <3>1 DEF SafetyInv, OrdersOK, Heard
  <2> QED
    BY <2>1, <2>2, OrderedIsTold DEF Covered
<1> QED
  BY <1>1, SafetyHolds, PTL

\* A customer without an order has a link that works (interactive.go:357-369).
THEOREM LinksLive == Spec => []LinkLivesUntilOrder
<1>1. SafetyInv => LinkLivesUntilOrder
  <2> SUFFICES ASSUME SafetyInv, NEW id \in Id, transfers[id] # Unborn, id \notin tokens
               PROVE  Told(id, {"created"})
    BY DEF LinkLivesUntilOrder
  <2> QED
    BY OrderedIsTold DEF SafetyInv, TransfersOK
<1> QED
  BY <1>1, SafetyHolds, PTL

\* However often a request is repeated, a transfer has one order (interactive.go:341).
THEOREM OrdersAreUnique == Spec => []OneOrderPerTransfer
<1>1. SafetyInv => OneOrderPerTransfer
  <2>1. NotPlaced.id = NoId
    BY DEF NotPlaced
  <2>2. SafetyInv => \A o \in OrderId : orders[o].id # NoId => o = OrderOf(orders[o].id)
    BY <2>1 DEF SafetyInv, OrdersOK
  <2> QED
    BY <2>2 DEF OneOrderPerTransfer, OrderOf
<1> QED
  BY <1>1, SafetyHolds, PTL

\* No order but after an approval (interactive.go:86-109).
THEOREM OrdersAreApproved == Spec => []NoOrderBeforeApproval
<1>1. SafetyInv => NoOrderBeforeApproval
  BY DEF SafetyInv, ApprovalOK, NoOrderBeforeApproval
<1> QED
  BY <1>1, SafetyHolds, PTL

\* No wallet is asked for a payment without an order to make it for
\* (sep24.go:83-104).
THEOREM PromptsAreMeant == Spec => []PromptHasOrder
<1>1. SafetyInv => PromptHasOrder
  <2> SUFFICES ASSUME SafetyInv, NEW id \in Id,
                      mapStatusToSEP24(transfers[id]) = "pending_user_transfer_start"
               PROVE  /\ Told(id, {"created"})
                      /\ transfers[id].kind = "withdrawal" =>
                           "withdraw" \in transfers[id].metadata.keys
    BY DEF PromptHasOrder
  <2>1. \/ /\ transfers[id].status = "pending_external"
           /\ "withdraw" \in transfers[id].metadata.keys
        \/ transfers[id].status = "pending_user_transfer_start"
    BY DEF mapStatusToSEP24
  <2>2. Ordered(id)
    BY <2>1 DEF SafetyInv, TransfersOK, Covered
  <2> QED
    BY <2>1, <2>2, OrderedIsTold DEF SafetyInv, TransfersOK
<1> QED
  BY <1>1, SafetyHolds, PTL
=============================================================================

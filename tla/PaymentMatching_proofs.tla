------------------------ MODULE PaymentMatching_proofs ------------------------
(***************************************************************************)
(* Proofs about PaymentObserver, and about PaymentMatching, which puts the *)
(* matcher and the transfers around it: for any transfers, handlers and    *)
(* filters and any number of payments, broken streams and restarts.        *)
(***************************************************************************)
EXTENDS PaymentMatching, TLAPS, SequenceTheorems

-----------------------------------------------------------------------------
(* The observer alone. *)

\* The places where Start holds a stream open.
Streaming == {"stream", "handle", "save"}

\* What is persisted is behind what is processed, and that behind what is
\* received; a payment is counted only after its last handler.
CursorsOK ==
    /\ saved # Now => cursor # Now /\ saved <= cursor
    /\ pc \in Streaming => pos # Now
    /\ pc = "stream" /\ cursor # Now => cursor <= pos
    /\ pc = "handle" /\ cursor # Now => cursor < pos
    /\ pc = "handle" => pos # 0
    /\ pc = "save" => cursor = pos

\* A payment is owed only while its callback runs, to handlers still to come.
OwedOK ==
    /\ pc = "handle" => last <= Len(handlers)
    /\ \A m \in owed : /\ pc = "handle"
                       /\ m[2] = pos
                       /\ \E i \in next..last : handlers[i] = m[1]

SafetyInv == TypeOK /\ CursorsOK /\ OwedOK

-----------------------------------------------------------------------------
LEMMA CursorType ==
    ASSUME NEW c \in Cursors, c # Now
    PROVE  c \in 0..MaxLedger /\ c \in Nat
BY ConstantsAssumption DEF Cursors

LEMMA OpenedType ==
    ASSUME TypeOK, NEW c \in Cursors
    PROVE  Opened(c) \in 0..MaxLedger /\ Opened(c) # Now
<1>1. Len(ledger) \in 0..MaxLedger
  BY ConstantsAssumption, LenProperties DEF TypeOK
<1> QED
  BY <1>1, CursorType, ConstantsAssumption DEF Opened

LEMMA InitSafety == Init => SafetyInv
<1> SUFFICES ASSUME Init PROVE SafetyInv
  OBVIOUS
<1>1. TypeOK
  <2>1. ledger \in Seq(Account \cup {Other}) /\ handlers \in Seq(Handler)
    BY EmptySeq DEF Init
  <2>2. Len(ledger) = 0
    BY LenProperties DEF Init
  <2>3. joined \in [Handler -> Cursors] /\ heard \in [Handler -> SUBSET (1..MaxLedger)]
    BY ConstantsAssumption DEF Init, Cursors
  <2>4. cursor \in Cursors /\ saved \in Cursors /\ pos \in Cursors
    BY ConstantsAssumption DEF Init, Cursors
  <2>5. owed \subseteq Handler \X (1..MaxLedger)
    BY DEF Init
  <2>6. stopped \in BOOLEAN /\ cancelled \in BOOLEAN
    BY DEF Init
  <2>7. /\ pc \in Steps /\ next \in Nat \ {0} /\ last \in Nat
        /\ backoff \in {InitialBackoff} \cup 1..MaxBackoff
        /\ failures \in 0..MaxFailures /\ crashes \in 0..MaxCrashes
    BY ConstantsAssumption DEF Init, Steps
  <2> QED
    BY <2>1, <2>2, <2>3, <2>4, <2>5, <2>6, <2>7, ConstantsAssumption DEF TypeOK
<1>2. CursorsOK
  BY ConstantsAssumption DEF Init, CursorsOK, Streaming
<1>3. OwedOK
  BY DEF Init, OwedOK
<1> QED
  BY <1>1, <1>2, <1>3 DEF SafetyInv

LEMMA TypeStep == SafetyInv /\ [Next]_vars => TypeOK'
<1> SUFFICES ASSUME SafetyInv, [Next]_vars PROVE TypeOK'
  OBVIOUS
<1> USE ConstantsAssumption DEF SafetyInv, TypeOK, settings
<1>1. CASE Pay
  <2>1. PICK op \in Account \cup {Other} : ledger' = Append(ledger, op)
    BY <1>1 DEF Pay
  <2>2. ledger' \in Seq(Account \cup {Other}) /\ Len(ledger') = Len(ledger) + 1
    BY <2>1, AppendProperties
  <2>3. Len(ledger') <= MaxLedger
    BY <1>1, <2>2, LenProperties DEF Pay
  <2> QED
    BY <1>1, <2>2, <2>3 DEF Pay
<1>2. ASSUME NEW h \in Handler, OnPayment(h) PROVE TypeOK'
  <2>1. handlers' \in Seq(Handler)
    BY <1>2, AppendProperties DEF OnPayment
  <2> QED
    BY <1>2, <2>1 DEF OnPayment
<1>3. CASE Stop
  BY <1>3 DEF Stop
<1>4. CASE Cancel
  BY <1>4 DEF Cancel
<1>5. CASE Crash
  <2>1. handlers' \in Seq(Handler)
    BY <1>5, EmptySeq DEF Crash
  <2>2. joined' \in [Handler -> Cursors] /\ heard' \in [Handler -> SUBSET (1..MaxLedger)]
    BY <1>5 DEF Crash
  <2>3. owed' \subseteq Handler \X (1..MaxLedger)
    BY <1>5 DEF Crash
  <2>4. stopped' \in BOOLEAN /\ cancelled' \in BOOLEAN
    BY <1>5 DEF Crash
  <2>5. /\ pc' \in Steps /\ next' \in Nat \ {0} /\ last' \in Nat
        /\ backoff' \in {InitialBackoff} \cup 1..MaxBackoff
        /\ cursor' \in Cursors /\ saved' \in Cursors /\ pos' \in Cursors
        /\ failures' \in 0..MaxFailures /\ crashes' \in 0..MaxCrashes
    BY <1>5 DEF Crash, Steps
  <2>6. ledger' = ledger
    BY <1>5 DEF Crash
  <2> QED
    BY <2>1, <2>2, <2>3, <2>4, <2>5, <2>6
<1>6. CASE Start
  BY <1>6 DEF Start, Steps
<1>7. CASE Leave
  BY <1>7 DEF Leave, Steps
<1>8. CASE Connect
  <2>1. pos' \in Cursors
    BY <1>8, OpenedType DEF Connect, Resume, Cursors
  <2> QED
    BY <1>8, <2>1 DEF Connect, Steps
<1>9. CASE ReceivePayment
  <2>1. pos \in 0..MaxLedger
    BY <1>9, CursorType DEF ReceivePayment, CursorsOK, Streaming
  <2>2. pos' \in 1..MaxLedger
    BY <1>9, <2>1, LenProperties DEF ReceivePayment
  <2>3. last' \in Nat
    BY <1>9, LenProperties DEF ReceivePayment
  <2>4. owed' \subseteq Handler \X (1..MaxLedger)
    BY <1>9, <2>2 DEF ReceivePayment
  <2> QED
    BY <1>9, <2>2, <2>3, <2>4 DEF ReceivePayment, Steps, Cursors
<1>10. CASE SkipOther
  <2>1. pos \in 0..MaxLedger
    BY <1>10, CursorType DEF SkipOther, CursorsOK, Streaming
  <2>2. pos' \in Cursors
    BY <1>10, <2>1, LenProperties DEF SkipOther, Cursors
  <2> QED
    BY <1>10, <2>2 DEF SkipOther
<1>11. CASE Handle
  <2>1. heard' \in [Handler -> SUBSET (1..MaxLedger)]
    <3>1. CASE Wants(handlers[next], pos)
      <4>1. heard' = [heard EXCEPT ![handlers[next]] = @ \cup {pos}]
        BY <1>11, <3>1 DEF Handle
      <4>2. pos \in 1..MaxLedger
        <5>1. pos \in 0..MaxLedger
          BY <1>11, CursorType DEF Handle, CursorsOK, Streaming
        <5> QED
          BY <1>11, <5>1 DEF Handle, CursorsOK
      <4> QED
        BY <4>1, <4>2
    <3>2. CASE ~Wants(handlers[next], pos)
      BY <1>11, <3>2 DEF Handle
    <3> QED
      BY <3>1, <3>2
  <2>2. owed' \subseteq owed
    BY <1>11 DEF Handle
  <2> QED
    BY <1>11, <2>1, <2>2 DEF Handle
<1>12. CASE Advance
  BY <1>12 DEF Advance, Steps
<1>13. CASE Save
  BY <1>13 DEF Save, Steps
<1>14. CASE StreamEnds
  BY <1>14 DEF StreamEnds, Steps
<1>15. CASE StartWaiting
  BY <1>15 DEF StartWaiting, Steps
<1>16. CASE Retry
  BY <1>16 DEF Retry, Steps, Doubled
<1>17. CASE StreamFails
  BY <1>17 DEF StreamFails, Steps
<1>18. CASE UNCHANGED vars
  BY <1>18 DEF vars
<1> QED
  BY <1>1, <1>2, <1>3, <1>4, <1>5, <1>6, <1>7, <1>8, <1>9, <1>10, <1>11, <1>12,
     <1>13, <1>14, <1>15, <1>16, <1>17, <1>18 DEF Next, Proceed

\* The disjuncts of Next that move neither a cursor, nor the stream, nor what is owed.
Aside ==
    \/ Pay \/ Stop \/ Cancel \/ Start \/ Leave \/ StreamEnds \/ StreamFails
    \/ StartWaiting \/ Retry \/ UNCHANGED vars
    \/ \E h \in Handler : OnPayment(h)

LEMMA AsideKeeps ==
    ASSUME Aside
    PROVE  /\ UNCHANGED <<cursor, saved, pos, next, last, heard, owed>>
           /\ pc' = pc \/ pc' \notin Streaming
BY DEF Aside, Pay, Stop, Cancel, Start, Leave, StreamEnds, StreamFails, StartWaiting,
       Retry, OnPayment, vars, settings, Streaming

LEMMA NextSplit ==
    ASSUME [Next]_vars
    PROVE  \/ Aside \/ Crash \/ Connect \/ ReceivePayment \/ SkipOther \/ Handle
           \/ Advance \/ Save
BY DEF Next, Proceed, Aside

LEMMA CursorStep == SafetyInv /\ [Next]_vars => CursorsOK'
<1> SUFFICES ASSUME SafetyInv, [Next]_vars PROVE CursorsOK'
  OBVIOUS
<1>0. /\ CursorsOK
      /\ cursor \in Cursors /\ saved \in Cursors /\ pos \in Cursors
  BY DEF SafetyInv, TypeOK
<1>1. CASE Aside
  BY <1>0, <1>1, AsideKeeps DEF CursorsOK, Streaming
<1>2. CASE Crash
  BY <1>0, <1>2, CursorType DEF Crash, CursorsOK, Streaming
<1>3. CASE Connect
  <2>1. pos' # Now
    BY <1>0, <1>3, OpenedType DEF SafetyInv, Connect, Resume
  <2>2. cursor # Now => pos' = cursor
    BY <1>3 DEF Connect, Resume, Opened
  <2> QED
    BY <1>0, <1>3, <2>1, <2>2, CursorType DEF Connect, CursorsOK, Streaming
<1>4. CASE ReceivePayment
  BY <1>0, <1>4, CursorType, ConstantsAssumption
  DEF ReceivePayment, CursorsOK, Streaming, settings
<1>5. CASE SkipOther
  BY <1>0, <1>5, CursorType, ConstantsAssumption
  DEF SkipOther, CursorsOK, Streaming, settings
<1>6. CASE Handle
  BY <1>0, <1>6 DEF Handle, CursorsOK, Streaming, settings
<1>7. CASE Advance
  BY <1>0, <1>7, CursorType DEF Advance, CursorsOK, Streaming, settings
<1>8. CASE Save
  BY <1>0, <1>8, CursorType DEF Save, CursorsOK, Streaming, settings
<1> QED
  BY <1>1, <1>2, <1>3, <1>4, <1>5, <1>6, <1>7, <1>8, NextSplit

LEMMA OwedStep == SafetyInv /\ [Next]_vars => OwedOK'
<1> SUFFICES ASSUME SafetyInv, [Next]_vars PROVE OwedOK'
  OBVIOUS
<1>0. /\ TypeOK /\ OwedOK
      /\ pc # "handle" => owed = {}
  BY DEF SafetyInv, OwedOK
<1>1. CASE Aside
  <2>1. CASE \E h \in Handler : OnPayment(h)
    <3>1. PICK h \in Handler : OnPayment(h)
      BY <2>1
    <3>2. /\ Len(handlers') = Len(handlers) + 1
          /\ \A i \in 1..Len(handlers) : handlers'[i] = handlers[i]
      BY <1>0, <3>1, AppendProperties DEF OnPayment, TypeOK
    <3>3. \A i \in next..last : last <= Len(handlers) => handlers'[i] = handlers[i]
      BY <1>0, <3>2, LenProperties DEF TypeOK
    <3>4. pc' = pc /\ UNCHANGED <<pos, next, last, owed>>
      BY <3>1 DEF OnPayment
    <3> QED
      BY <1>0, <3>2, <3>3, <3>4, LenProperties DEF OwedOK, TypeOK
  <2>2. CASE ~\E h \in Handler : OnPayment(h)
    BY <1>0, <1>1, <2>2
    DEF Aside, Pay, Stop, Cancel, Start, Leave, StreamEnds, StreamFails, StartWaiting,
        Retry, vars, settings, OwedOK
  <2> QED
    BY <2>1, <2>2
<1>2. CASE Crash
  BY <1>2 DEF Crash, OwedOK
<1>3. CASE Connect
  BY <1>0, <1>3 DEF Connect, OwedOK
<1>4. CASE ReceivePayment
  BY <1>0, <1>4 DEF ReceivePayment, OwedOK, settings
<1>5. CASE SkipOther
  BY <1>0, <1>5 DEF SkipOther, OwedOK
<1>6. CASE Handle
  <2> SUFFICES ASSUME NEW m \in owed'
               PROVE  pc' = "handle" /\ m[2] = pos' /\ \E i \in next'..last' : handlers'[i] = m[1]
    BY <1>0, <1>6 DEF OwedOK, Handle
  <2>1. m \in owed /\ m \in Handler \X (1..MaxLedger) /\ m # <<handlers[next], pos>>
    BY <1>0, <1>6 DEF Handle, TypeOK
  <2>2. m[2] = pos /\ m[1] # handlers[next]
    BY <1>0, <2>1 DEF OwedOK
  <2>3. PICK i \in next..last : handlers[i] = m[1]
    BY <1>0, <2>1 DEF OwedOK
  <2>4. i \in next + 1..last
    BY <1>0, <2>2, <2>3 DEF TypeOK
  <2> QED
    BY <1>6, <2>2, <2>3, <2>4 DEF Handle, settings
<1>7. CASE Advance
  BY <1>0, <1>7 DEF Advance, OwedOK, TypeOK
<1>8. CASE Save
  BY <1>0, <1>8 DEF Save, OwedOK
<1> QED
  BY <1>1, <1>2, <1>3, <1>4, <1>5, <1>6, <1>7, <1>8, NextSplit

LEMMA Safety == Spec => []SafetyInv
<1>1. SafetyInv /\ [Next]_vars => SafetyInv'
  BY TypeStep, CursorStep, OwedStep DEF SafetyInv
<1> QED
  BY <1>1, InitSafety, PTL DEF Spec

\* Every state is well typed (PaymentObserver!TypeOK).
THEOREM TypeCorrect == Spec => []TypeOK
<1>1. SafetyInv => TypeOK
  BY DEF SafetyInv
<1> QED
  BY <1>1, Safety, PTL

\* Wherever the process dies, the persisted cursor covers no payment that a
\* handler was still to get (horizon.go:156-171).
THEOREM SavedCursorIsSafe == Spec => []SavedIsHandled
<1>1. SafetyInv => SavedIsHandled
  <2> SUFFICES ASSUME SafetyInv, saved # Now, NEW m \in owed PROVE m[2] > saved
    BY DEF SavedIsHandled
  <2>1. pc = "handle" /\ m[2] = pos /\ cursor # Now /\ saved <= cursor /\ cursor < pos
    BY DEF SafetyInv, OwedOK, CursorsOK
  <2>2. saved \in Nat /\ cursor \in Nat /\ pos \in Nat
    BY <2>1, CursorType DEF SafetyInv, TypeOK, CursorsOK, Streaming
  <2> QED
    BY <2>1, <2>2
<1> QED
  BY <1>1, Safety, PTL

-----------------------------------------------------------------------------
(* Delivery, for an observer that starts at a position and not at "now". *)

Registered(h) == \E i \in 1..Len(handlers) : handlers[i] = h

Bounds ==
    /\ pos \in 0..Len(ledger) /\ cursor \in 0..pos /\ saved \in 0..cursor
    /\ \A h \in Handler : joined[h] \in 0..Len(ledger)

\* The handlers of the callback in progress registered before its payment came.
HandlersOK ==
    /\ \A i, j \in 1..Len(handlers) : handlers[i] = handlers[j] => i = j
    /\ \A h \in Handler : ~Registered(h) => heard[h] = {}
    /\ pc = "handle" => /\ last <= Len(handlers)
                        /\ \A i \in 1..last : joined[handlers[i]] < pos

\* Between the cursor and the stream there is no payment but the one at hand,
\* so that a stream opened at the cursor repeats none.
NothingBehind ==
    \A p \in Positions :
        cursor < p /\ p <= pos => ledger[p] = Other \/ (pc = "handle" /\ p = pos)

\* A handler that registered ahead of the stream missed no payment by it.
NothingAhead ==
    \A h \in Handler, p \in Positions :
        Registered(h) /\ pos < p /\ p <= joined[h] => ledger[p] = Other

Heard ==
    \A h \in Handler, p \in Nat :
        Registered(h) =>
          (p \in heard[h] <=> /\ p \in Positions /\ joined[h] < p /\ p <= pos
                              /\ p # pos \/ ~Pending(h)
                              /\ Wants(h, p))

DeliveryInv == Bounds /\ HandlersOK /\ NothingBehind /\ NothingAhead /\ Heard

\* What the actions leave alone that DeliveryInv speaks of.
LEMMA DeliveryFrame ==
    ASSUME DeliveryInv,
           UNCHANGED <<ledger, handlers, cursor, saved, pos, next, last, joined, heard>>,
           pc # "handle", pc' # "handle"
    PROVE  DeliveryInv'
BY DEF DeliveryInv, Bounds, HandlersOK, NothingBehind, NothingAhead, Heard, Positions,
       Registered, Pending, Wants

LEMMA InitDelivery == ASSUME StartCursor = 0 PROVE Init => DeliveryInv
<1> SUFFICES ASSUME Init PROVE DeliveryInv
  OBVIOUS
<1>1. Len(ledger) = 0 /\ Len(handlers) = 0
  BY DEF Init
<1> QED
  BY <1>1 DEF Init, DeliveryInv, Bounds, HandlersOK, NothingBehind, NothingAhead, Heard,
              Positions, Registered

LEMMA PayDelivers == SafetyInv /\ DeliveryInv /\ Pay => DeliveryInv'
<1> SUFFICES ASSUME SafetyInv, DeliveryInv, Pay PROVE DeliveryInv'
  OBVIOUS
<1>1. PICK op \in Account \cup {Other} : ledger' = Append(ledger, op)
  BY DEF Pay
<1>2. /\ ledger \in Seq(Account \cup {Other}) /\ Len(ledger) \in Nat
      /\ Len(ledger') = Len(ledger) + 1
      /\ \A p \in Positions : ledger'[p] = ledger[p]
  BY <1>1, AppendProperties, LenProperties DEF SafetyInv, TypeOK, Positions
<1>3. /\ UNCHANGED <<handlers, cursor, saved, pc, pos, next, last, joined, heard>>
      /\ Positions' = Positions \cup {Len(ledger) + 1}
  BY <1>2 DEF Pay, Positions
<1>4. Bounds' /\ HandlersOK'
  BY <1>2, <1>3 DEF DeliveryInv, Bounds, HandlersOK, Registered
<1>5. NothingBehind' /\ NothingAhead'
  BY <1>2, <1>3 DEF DeliveryInv, Bounds, NothingBehind, NothingAhead, Registered, Positions
<1>6. Heard'
  BY <1>2, <1>3 DEF DeliveryInv, Bounds, Heard, Registered, Positions, Wants, Pending
<1> QED
  BY <1>4, <1>5, <1>6 DEF DeliveryInv

LEMMA OnPaymentDelivers ==
    ASSUME SafetyInv, DeliveryInv, NEW h \in Handler, OnPayment(h)
    PROVE  DeliveryInv'
<1>1. /\ handlers \in Seq(Handler) /\ Len(handlers) \in Nat
      /\ Len(handlers') = Len(handlers) + 1
      /\ handlers'[Len(handlers) + 1] = h
      /\ \A i \in 1..Len(handlers) : handlers'[i] = handlers[i] /\ handlers[i] # h
  BY AppendProperties, LenProperties DEF OnPayment, SafetyInv, TypeOK
<1>2. /\ UNCHANGED <<ledger, cursor, saved, pc, pos, next, last, heard>>
      /\ joined'[h] = pos
      /\ \A g \in Handler \ {h} : joined'[g] = joined[g]
  BY DEF OnPayment, settings, SafetyInv, TypeOK
<1>3. \A g \in Handler : Registered(g)' <=> Registered(g) \/ g = h
  BY <1>1 DEF Registered
<1>4. ~Registered(h) /\ heard[h] = {}
  BY DEF OnPayment, Registered, DeliveryInv, HandlersOK
<1>5. Bounds'
  BY <1>2 DEF DeliveryInv, Bounds
<1>6. HandlersOK'
  <2>1. \A i, j \in 1..Len(handlers') : handlers'[i] = handlers'[j] => i = j
    BY <1>1 DEF DeliveryInv, HandlersOK
  <2>2. \A g \in Handler : ~Registered(g)' => heard'[g] = {}
    BY <1>2, <1>3 DEF DeliveryInv, HandlersOK
  <2>3. ASSUME pc' = "handle"
        PROVE  last' <= Len(handlers') /\ \A i \in 1..last' : joined'[handlers'[i]] < pos'
    <3>1. last \in Nat /\ last <= Len(handlers) /\ \A i \in 1..last : joined[handlers[i]] < pos
      BY <1>2, <2>3 DEF DeliveryInv, HandlersOK, SafetyInv, TypeOK
    <3>2. \A i \in 1..last : /\ handlers'[i] = handlers[i] /\ handlers[i] # h
                             /\ handlers[i] \in Handler
      BY <1>1, <3>1
    <3> QED
      BY <1>1, <1>2, <3>1, <3>2
  <2> QED
    BY <2>1, <2>2, <2>3 DEF HandlersOK
<1>7. NothingBehind'
  BY <1>2 DEF DeliveryInv, NothingBehind, Positions
<1>8. NothingAhead'
  BY <1>2, <1>3 DEF DeliveryInv, NothingAhead, Bounds, Positions
<1>9. Heard'
  <2>1. \A g \in Handler : g # h => (Pending(g)' <=> Pending(g))
    <3>1. pc = "handle" => \A i \in next..last : handlers'[i] = handlers[i]
      BY <1>1 DEF DeliveryInv, HandlersOK, SafetyInv, TypeOK
    <3> QED
      BY <1>2, <3>1 DEF Pending
  <2>2. ASSUME NEW g \in Handler, NEW p \in Nat, g # h, Registered(g)'
        PROVE  p \in heard'[g] <=> /\ p \in Positions' /\ joined'[g] < p /\ p <= pos'
                                   /\ p # pos' \/ ~Pending(g)'
                                   /\ Wants(g, p)'
    BY <1>2, <1>3, <2>1, <2>2 DEF DeliveryInv, Heard, Positions, Wants
  <2>3. ASSUME NEW p \in Nat
        PROVE  p \notin heard'[h] /\ ~(joined'[h] < p /\ p <= pos')
    BY <1>2, <1>4 DEF DeliveryInv, Bounds
  <2> QED
    BY <2>2, <2>3 DEF Heard
<1> QED
  BY <1>5, <1>6, <1>7, <1>8, <1>9 DEF DeliveryInv

LEMMA CrashDelivers == SafetyInv /\ DeliveryInv /\ Crash => DeliveryInv'
<1> SUFFICES ASSUME SafetyInv, DeliveryInv, Crash PROVE DeliveryInv'
  OBVIOUS
<1>1. Len(handlers') = 0
  BY DEF Crash
<1> QED
  BY <1>1 DEF Crash, DeliveryInv, Bounds, HandlersOK, NothingBehind, NothingAhead,
              Heard, Positions, Registered

\* The new stream begins at the cursor, and repeats nothing that was heard.
LEMMA ConnectDelivers == SafetyInv /\ DeliveryInv /\ Connect => DeliveryInv'
<1> SUFFICES ASSUME SafetyInv, DeliveryInv, Connect PROVE DeliveryInv'
  OBVIOUS
<1>1. /\ cursor \in Nat /\ pos \in Nat /\ cursor <= pos /\ pos <= Len(ledger)
      /\ Len(ledger) \in Nat
      /\ \A h \in Handler : joined[h] \in Nat
  BY LenProperties DEF SafetyInv, TypeOK, DeliveryInv, Bounds
<1>2. /\ UNCHANGED <<ledger, handlers, cursor, saved, next, last, joined, heard>>
      /\ pos' = cursor /\ pc = "check" /\ pc' = "stream"
  <2>1. pos' = cursor
    BY <1>1, ConstantsAssumption DEF Connect, Opened, Resume
  <2>2. joined' = joined
    BY <1>1, ConstantsAssumption DEF Connect, SafetyInv, TypeOK
  <2> QED
    BY <2>1, <2>2 DEF Connect, settings
<1>3. \A p \in Positions : cursor < p /\ p <= pos => ledger[p] = Other
  BY <1>2 DEF DeliveryInv, NothingBehind
<1>4. \A h \in Handler, p \in Positions : cursor < p /\ p <= pos => ~Wants(h, p)
  BY <1>3, ConstantsAssumption DEF Wants
<1>5. Bounds' /\ HandlersOK'
  BY <1>1, <1>2 DEF DeliveryInv, Bounds, HandlersOK, Registered
<1>6. NothingBehind'
  BY <1>1, <1>2 DEF NothingBehind, Positions
<1>7. NothingAhead'
  BY <1>1, <1>2, <1>3 DEF DeliveryInv, NothingAhead, Registered, Positions
<1>8. Heard'
  BY <1>1, <1>2, <1>4 DEF DeliveryInv, Heard, Registered, Positions, Pending, Wants
<1> QED
  BY <1>5, <1>6, <1>7, <1>8 DEF DeliveryInv

LEMMA SkipDelivers == SafetyInv /\ DeliveryInv /\ SkipOther => DeliveryInv'
<1> SUFFICES ASSUME SafetyInv, DeliveryInv, SkipOther PROVE DeliveryInv'
  OBVIOUS
<1>1. /\ pos \in Nat /\ Len(ledger) \in Nat /\ cursor \in Nat
      /\ \A h \in Handler : joined[h] \in Nat
  BY LenProperties DEF SafetyInv, TypeOK, DeliveryInv, Bounds
<1>2. /\ UNCHANGED <<ledger, handlers, cursor, saved, pc, next, last, joined, heard>>
      /\ pos' = pos + 1 /\ pc = "stream" /\ pos < Len(ledger)
      /\ pos + 1 \in Positions /\ ledger[pos + 1] = Other
  BY <1>1 DEF SkipOther, settings, Positions
<1>3. \A h \in Handler : ~Wants(h, pos + 1)
  BY <1>2, ConstantsAssumption DEF Wants
<1>4. Bounds' /\ HandlersOK'
  BY <1>1, <1>2 DEF DeliveryInv, Bounds, HandlersOK, Registered
<1>5. NothingBehind' /\ NothingAhead'
  BY <1>1, <1>2 DEF DeliveryInv, NothingBehind, NothingAhead, Registered, Positions
<1>6. Heard'
  BY <1>1, <1>2, <1>3 DEF DeliveryInv, Heard, Registered, Positions, Pending, Wants
<1> QED
  BY <1>4, <1>5, <1>6 DEF DeliveryInv

\* Every registered handler is pending, and none registered ahead of the payment.
LEMMA ReceiveDelivers == SafetyInv /\ DeliveryInv /\ ReceivePayment => DeliveryInv'
<1> SUFFICES ASSUME SafetyInv, DeliveryInv, ReceivePayment PROVE DeliveryInv'
  OBVIOUS
<1>1. /\ pos \in Nat /\ Len(ledger) \in Nat /\ cursor \in Nat /\ cursor <= pos
      /\ Len(handlers) \in Nat
      /\ \A i \in 1..Len(handlers) : handlers[i] \in Handler
      /\ \A h \in Handler : joined[h] \in Nat
  BY LenProperties DEF SafetyInv, TypeOK, DeliveryInv, Bounds
<1>2. /\ UNCHANGED <<ledger, handlers, cursor, saved, joined, heard>>
      /\ pos' = pos + 1 /\ pc = "stream" /\ pc' = "handle" /\ pos < Len(ledger)
      /\ next' = 1 /\ last' = Len(handlers)
      /\ pos + 1 \in Positions /\ ledger[pos + 1] # Other
  BY <1>1 DEF ReceivePayment, settings, Positions
<1>3. \A h \in Handler : Registered(h) => joined[h] <= pos
  BY <1>1, <1>2 DEF DeliveryInv, NothingAhead
<1>4. \A h \in Handler : Registered(h) => Pending(h)'
  BY <1>2 DEF Registered, Pending
<1>5. Bounds'
  BY <1>1, <1>2 DEF DeliveryInv, Bounds
<1>6. HandlersOK'
  BY <1>1, <1>2, <1>3 DEF DeliveryInv, HandlersOK, Registered
<1>7. NothingBehind' /\ NothingAhead'
  BY <1>1, <1>2 DEF DeliveryInv, NothingBehind, NothingAhead, Registered, Positions
<1>8. Heard'
  BY <1>1, <1>2, <1>4 DEF DeliveryInv, Heard, Registered, Positions, Pending, Wants
<1> QED
  BY <1>5, <1>6, <1>7, <1>8 DEF DeliveryInv

\* One handler gets the payment, and is pending no more.
LEMMA HandleDelivers == SafetyInv /\ DeliveryInv /\ Handle => DeliveryInv'
<1> SUFFICES ASSUME SafetyInv, DeliveryInv, Handle PROVE DeliveryInv'
  OBVIOUS
<1>1. /\ pos \in Nat /\ Len(ledger) \in Nat /\ Len(handlers) \in Nat
      /\ next \in Nat \ {0} /\ last \in Nat /\ last <= Len(handlers)
      /\ \A i \in 1..Len(handlers) : handlers[i] \in Handler
      /\ \A h \in Handler : joined[h] \in Nat
  BY LenProperties DEF SafetyInv, TypeOK, DeliveryInv, Bounds, HandlersOK, Handle
<1>0. PICK g \in Handler : g = handlers[next]
  BY <1>1 DEF Handle
<1>2. /\ UNCHANGED <<ledger, handlers, cursor, saved, pc, pos, last, joined>>
      /\ pc = "handle" /\ next <= last /\ next' = next + 1
      /\ heard' = IF Wants(g, pos) THEN [heard EXCEPT ![g] = @ \cup {pos}] ELSE heard
  BY <1>0 DEF Handle, settings
<1>3. /\ next \in 1..last /\ next \in 1..Len(handlers)
      /\ Registered(g) /\ joined[g] < pos
  BY <1>0, <1>1, <1>2 DEF Registered, DeliveryInv, HandlersOK
<1>4. pos \in Positions
  <2>1. pos # 0
    BY <1>2 DEF SafetyInv, CursorsOK
  <2> QED
    BY <1>1, <2>1 DEF DeliveryInv, Bounds, Positions
<1>5. Pending(g) /\ ~Pending(g)'
  BY <1>0, <1>1, <1>2, <1>3 DEF Pending, DeliveryInv, HandlersOK
<1>6. \A h \in Handler : h # g => (Pending(h)' <=> Pending(h))
  BY <1>0, <1>1, <1>2 DEF Pending
<1>7. \A h \in Handler : h # g => heard'[h] = heard[h]
  BY <1>2, <1>3 DEF SafetyInv, TypeOK
<1>8. \A p : p \in heard'[g] <=> p \in heard[g] \/ (p = pos /\ Wants(g, pos))
  BY <1>2, <1>3 DEF SafetyInv, TypeOK
<1>9. Bounds' /\ NothingBehind' /\ NothingAhead'
  BY <1>2 DEF DeliveryInv, Bounds, NothingBehind, NothingAhead, Registered, Positions
<1>10. HandlersOK'
  BY <1>2, <1>3, <1>7 DEF DeliveryInv, HandlersOK, Registered
<1>11. Heard'
  <2> SUFFICES ASSUME NEW h \in Handler, NEW p \in Nat, Registered(h)
               PROVE  p \in heard'[h] <=> /\ p \in Positions /\ joined[h] < p /\ p <= pos
                                          /\ p # pos \/ ~Pending(h)'
                                          /\ Wants(h, p)
    BY <1>2 DEF Heard, Registered, Positions, Wants
  <2>1. p \in heard[h] <=> /\ p \in Positions /\ joined[h] < p /\ p <= pos
                           /\ p # pos \/ ~Pending(h)
                           /\ Wants(h, p)
    BY DEF DeliveryInv, Heard
  <2>2. CASE h # g
    BY <1>6, <1>7, <2>1, <2>2
  <2>3. CASE h = g
    BY <1>1, <1>3, <1>4, <1>5, <1>8, <2>1, <2>3
  <2> QED
    BY <2>2, <2>3
<1> QED
  BY <1>9, <1>10, <1>11 DEF DeliveryInv

\* With no handler pending the payment at hand is behind the cursor.
LEMMA AdvanceDelivers == SafetyInv /\ DeliveryInv /\ Advance => DeliveryInv'
<1> SUFFICES ASSUME SafetyInv, DeliveryInv, Advance PROVE DeliveryInv'
  OBVIOUS
<1>1. /\ pos \in Nat /\ cursor \in Nat /\ saved \in Nat
      /\ next \in Nat /\ last \in Nat
  BY DEF SafetyInv, TypeOK, DeliveryInv, Bounds
<1>2. /\ UNCHANGED <<ledger, handlers, saved, pos, next, last, joined, heard>>
      /\ pc = "handle" /\ pc' = "save" /\ next > last /\ cursor' = pos
  BY DEF Advance, settings
<1>3. \A h \in Handler : ~Pending(h) /\ ~Pending(h)'
  BY <1>1, <1>2 DEF Pending
<1>4. Bounds' /\ HandlersOK'
  BY <1>1, <1>2 DEF DeliveryInv, Bounds, HandlersOK, Registered
<1>5. NothingBehind' /\ NothingAhead'
  BY <1>1, <1>2 DEF DeliveryInv, NothingBehind, NothingAhead, Registered, Positions
<1>6. Heard'
  BY <1>2, <1>3 DEF DeliveryInv, Heard, Registered, Positions, Wants
<1> QED
  BY <1>4, <1>5, <1>6 DEF DeliveryInv

LEMMA SaveDelivers == SafetyInv /\ DeliveryInv /\ Save => DeliveryInv'
<1> SUFFICES ASSUME SafetyInv, DeliveryInv, Save PROVE DeliveryInv'
  OBVIOUS
<1>1. /\ UNCHANGED <<ledger, handlers, cursor, pos, next, last, joined, heard>>
      /\ pc = "save" /\ pc' = "stream" /\ saved' \in {saved, pos} /\ cursor = pos
  BY DEF Save, settings, SafetyInv, CursorsOK
<1>2. Bounds'
  BY <1>1 DEF DeliveryInv, Bounds
<1>3. HandlersOK' /\ NothingBehind' /\ NothingAhead' /\ Heard'
  BY <1>1 DEF DeliveryInv, HandlersOK, NothingBehind, NothingAhead, Heard, Registered,
              Positions, Wants, Pending
<1> QED
  BY <1>2, <1>3 DEF DeliveryInv

LEMMA DeliveryStep == SafetyInv /\ DeliveryInv /\ [Next]_vars => DeliveryInv'
<1> SUFFICES ASSUME SafetyInv, DeliveryInv, [Next]_vars PROVE DeliveryInv'
  OBVIOUS
<1>1. CASE Aside
  <2>1. CASE Pay
    BY <2>1, PayDelivers
  <2>2. ASSUME NEW h \in Handler, OnPayment(h) PROVE DeliveryInv'
    BY <2>2, OnPaymentDelivers
  <2>3. CASE Start \/ Leave \/ StreamEnds \/ StreamFails \/ StartWaiting \/ Retry
    BY <2>3, DeliveryFrame
    DEF Start, Leave, StreamEnds, StreamFails, StartWaiting, Retry, settings
  <2>4. CASE Stop \/ Cancel \/ UNCHANGED vars
    <3>1. UNCHANGED <<ledger, handlers, cursor, saved, pc, pos, next, last, joined, heard>>
      BY <2>4 DEF Stop, Cancel, vars, settings
    <3> QED
      BY <3>1 DEF DeliveryInv, Bounds, HandlersOK, NothingBehind, NothingAhead, Heard,
                  Positions, Registered, Pending, Wants
  <2> QED
    BY <1>1, <2>1, <2>2, <2>3, <2>4 DEF Aside
<1> QED
  BY <1>1, CrashDelivers, ConnectDelivers, ReceiveDelivers, SkipDelivers,
     HandleDelivers, AdvanceDelivers, SaveDelivers, NextSplit

\* An observer that starts at a position passes on every payment exactly once,
\* whatever breaks or restarts, and however late its handlers register
\* (horizon.go:132-163).
THEOREM PaymentsReachHandlersOnce ==
    ASSUME StartCursor = 0
    PROVE  Spec => []ExactlyOnce
<1>1. SafetyInv /\ DeliveryInv => ExactlyOnce
  <2> SUFFICES ASSUME SafetyInv, DeliveryInv, NEW i \in 1..Len(handlers)
               PROVE  heard[handlers[i]] =
                        {p \in Positions : /\ joined[handlers[i]] < p /\ p <= pos
                                           /\ p # pos \/ ~Pending(handlers[i])
                                           /\ Wants(handlers[i], p)}
    BY DEF ExactlyOnce
  <2>1. handlers[i] \in Handler /\ Registered(handlers[i])
    BY DEF SafetyInv, TypeOK, Registered
  <2>2. heard[handlers[i]] \subseteq Nat
    BY <2>1, ConstantsAssumption DEF SafetyInv, TypeOK
  <2>3. Positions \subseteq Nat
    BY LenProperties DEF Positions, SafetyInv, TypeOK
  <2>4. \A p \in Nat : p \in heard[handlers[i]] <=>
                         /\ p \in Positions /\ joined[handlers[i]] < p /\ p <= pos
                         /\ p # pos \/ ~Pending(handlers[i])
                         /\ Wants(handlers[i], p)
    BY <2>1 DEF DeliveryInv, Heard
  <2> QED
    BY <2>2, <2>3, <2>4
<1>2. Init => DeliveryInv
  BY InitDelivery
<1> QED
  BY <1>1, <1>2, DeliveryStep, Safety, PTL DEF Spec

-----------------------------------------------------------------------------
(* The matcher's observer is the observer. *)

LEMMA MatchStepObserves == [MatchNext]_allVars => [Next]_vars
<1> SUFFICES ASSUME [MatchNext]_allVars PROVE [Next]_vars
  OBVIOUS
<1>1. CASE HandleAndMatch
  BY <1>1 DEF HandleAndMatch, Next, Proceed
<1>2. CASE Streams \/ World
  BY <1>2 DEF Streams, World, StartMatching, Next, Proceed
<1>3. ASSUME NEW id \in Id, Initiate(id) \/ HostMove(id) PROVE UNCHANGED vars
  BY <1>3 DEF Initiate, HostMove
<1>4. CASE UNCHANGED allVars
  BY <1>4 DEF allVars
<1> QED
  BY <1>1, <1>2, <1>3, <1>4 DEF MatchNext

\* A handler that moves transfers, and hosts that do, leave the observer's own
\* behaviour as it is: all that is proved of it holds here (match.go:40-53).
THEOREM MatchingObserves == MatchSpec => Spec
<1>1. MatchInit => Init
  BY DEF MatchInit
<1> QED
  BY <1>1, MatchStepObserves, PTL DEF MatchSpec, Spec

LEMMA ObserverSafety == MatchSpec => []SafetyInv
BY MatchingObserves, Safety, PTL

-----------------------------------------------------------------------------
(* What a withdrawal is paid by. *)

\* The payment at hand is in the ledger.
AtHand == pc = "handle" => pos \in 1..Len(ledger)

Paid(id) == transfers[id].status \in {"pending_stellar", "completed"}

\* A withdrawal has a hash from when it counts as paid, and it is of its payment.
PaidOK ==
    \A id \in Id : transfers[id].kind = "withdrawal" =>
        /\ Paid(id) <=> transfers[id].txHash # NoHash
        /\ Paid(id) => \E p \in Positions : transfers[id].txHash = p /\ Names(p, id)

Transfer == [kind: Kinds \cup {"none"}, status: Statuses \cup {"none"},
             txHash: (1..MaxLedger) \cup {NoHash, Outgoing}]

MatchInv == MatchTypeOK /\ AtHand /\ PaidOK

LEMMA UnbornFacts ==
    /\ Unborn \in Transfer /\ Unborn.kind = "none" /\ Unborn.status = "none"
    /\ Unborn.txHash = NoHash
BY DEF Unborn, Transfer

\* The ledger only grows, and what is in it stays.
LEMMA LedgerGrows ==
    ASSUME SafetyInv, [Next]_vars
    PROVE  /\ Len(ledger) \in Nat /\ Len(ledger') \in Nat /\ Len(ledger) <= Len(ledger')
           /\ Len(ledger') <= MaxLedger
           /\ \A p \in Positions : ledger'[p] = ledger[p]
<1>1. /\ ledger \in Seq(Account \cup {Other}) /\ Len(ledger) \in Nat
      /\ ledger' \in Seq(Account \cup {Other}) /\ Len(ledger') \in Nat
      /\ Len(ledger') <= MaxLedger
  BY TypeStep, LenProperties DEF SafetyInv, TypeOK
<1>2. CASE Pay
  <2>1. PICK op \in Account \cup {Other} : ledger' = Append(ledger, op)
    BY <1>2 DEF Pay
  <2> QED
    BY <1>1, <2>1, AppendProperties DEF Positions
<1>3. CASE ~Pay
  <2>1. ledger' = ledger
    BY <1>3 DEF Next, Proceed, OnPayment, Stop, Cancel, Crash, Start, Leave, Connect,
         ReceivePayment, SkipOther, Handle, Advance, Save, StreamEnds, StreamFails,
         StartWaiting, Retry, settings, vars
  <2> QED
    BY <1>1, <2>1
<1> QED
  BY <1>2, <1>3

LEMMA AtHandStep == SafetyInv /\ AtHand /\ [Next]_vars => AtHand'
<1> SUFFICES ASSUME SafetyInv, AtHand, [Next]_vars, pc' = "handle"
             PROVE  pos' \in 1..Len(ledger')
  BY DEF AtHand
<1>1. Len(ledger) \in Nat /\ Len(ledger') \in Nat /\ Len(ledger) <= Len(ledger')
  BY LedgerGrows
<1>2. CASE ReceivePayment
  <2>1. pos \in Nat
    BY <1>2, CursorType DEF ReceivePayment, SafetyInv, TypeOK, CursorsOK, Streaming
  <2> QED
    BY <1>1, <1>2, <2>1 DEF ReceivePayment, settings
<1>3. CASE ~ReceivePayment
  <2>1. pc = "handle" /\ pos' = pos
    BY <1>3, NextSplit, AsideKeeps
    DEF Crash, Connect, SkipOther, Handle, Advance, Save, Streaming
  <2> QED
    BY <1>1, <2>1 DEF AtHand
<1> QED
  BY <1>2, <1>3

LEMMA NamesStays ==
    ASSUME SafetyInv, [Next]_vars, NEW id \in Id, NEW p \in Positions, Names(p, id)
    PROVE  p \in Positions' /\ Names(p, id)'
BY LedgerGrows DEF Names, Positions

\* Where no withdrawal is touched, what pays it stays.
LEMMA PaidStays ==
    ASSUME SafetyInv, PaidOK, [Next]_vars, NEW id \in Id, transfers'[id] = transfers[id],
           transfers[id].kind = "withdrawal"
    PROVE  /\ Paid(id)' <=> transfers'[id].txHash # NoHash
           /\ Paid(id)' => \E p \in Positions' : transfers'[id].txHash = p /\ Names(p, id)'
<1>1. Paid(id)' <=> Paid(id)
  BY DEF Paid
<1>2. Paid(id) => \E p \in Positions : transfers[id].txHash = p /\ Names(p, id)
  BY DEF PaidOK
<1> QED
  BY <1>1, <1>2, NamesStays DEF PaidOK

\* What a transition tells of the statuses it joins.
LEMMA TransitionFacts ==
    ASSUME NEW from, NEW to, ValidateTransition(from, to)
    PROVE  /\ from \in Statuses /\ to \in Statuses
           /\ from # "completed"
           /\ to = "completed" => from = "pending_stellar"
           /\ from = "pending_stellar" => to \in {"completed", "failed"}
BY DEF ValidateTransition, legalTransitions, Statuses, Terminal

LEMMA BirthFacts ==
    ASSUME NEW kind \in Kinds, NEW mode \in Modes
    PROVE  /\ BirthStatus(kind, mode) \in Statuses
           /\ BirthStatus(kind, mode) \notin {"pending_stellar", "completed"}
BY DEF BirthStatus, Kinds, Modes, Statuses, Terminal

\* What a step does to one transfer.
Kept(id) == transfers'[id] = transfers[id]

Credited(id, p) ==
    /\ Accepts(id, p)
    /\ transfers'[id].kind = transfers[id].kind
    /\ transfers'[id].status = "pending_stellar"
    /\ transfers'[id].txHash = p

Born(id) ==
    /\ transfers[id] = Unborn
    /\ transfers'[id].status \in Statuses \ {"pending_stellar", "completed"}
    /\ transfers'[id].txHash = NoHash

Moved(id) ==
    /\ transfers'[id].kind = transfers[id].kind
    /\ transfers'[id].status \in HostCalls(transfers[id].kind)
    /\ ValidateTransition(transfers[id].status, transfers'[id].status)
    /\ transfers[id].kind = "withdrawal" => transfers'[id].txHash = transfers[id].txHash

LEMMA OfferChanges ==
    ASSUME MatchTypeOK, NEW p \in 1..MaxLedger, Offer(p)
    PROVE  /\ MatchTypeOK'
           /\ \A id \in Id : Kept(id) \/ Credited(id, p)
<1>1. transfers \in [Id -> Transfer] /\ offered \subseteq 1..MaxLedger
  BY DEF MatchTypeOK, Transfer
<1>2. ASSUME NEW id \in Id
      PROVE  transfers'[id] \in Transfer /\ (Kept(id) \/ Credited(id, p))
  <2>1. transfers[id] \in Transfer
    BY <1>1
  <2>2. CASE Accepts(id, p)
    <3>1. transfers'[id] = [transfers[id] EXCEPT !.status = "pending_stellar",
                                                 !.txHash = p]
      BY <2>2 DEF Offer
    <3> QED
      BY <2>1, <2>2, <3>1 DEF Transfer, Credited, Statuses
  <2>3. CASE ~Accepts(id, p)
    BY <2>1, <2>3 DEF Offer, Kept
  <2> QED
    BY <2>2, <2>3
<1>3. transfers' \in [Id -> Transfer]
  <2>1. transfers' = [id \in Id |-> transfers'[id]]
    BY DEF Offer
  <2> QED
    BY <1>2, <2>1
<1>4. offered' \subseteq 1..MaxLedger
  BY <1>1 DEF Offer
<1> QED
  BY <1>2, <1>3, <1>4 DEF MatchTypeOK, Transfer

LEMMA InitiateChanges ==
    ASSUME MatchTypeOK, NEW one \in Id, Initiate(one)
    PROVE  /\ MatchTypeOK'
           /\ \A id \in Id : Kept(id) \/ Born(id)
<1>1. transfers \in [Id -> Transfer]
  BY DEF MatchTypeOK, Transfer
<1>2. PICK kind \in Kinds, mode \in Modes :
        transfers' = [transfers EXCEPT ![one].kind = kind,
                                       ![one].status = BirthStatus(kind, mode)]
  BY DEF Initiate
<1>3. /\ BirthStatus(kind, mode) \in Statuses
      /\ BirthStatus(kind, mode) \notin {"pending_stellar", "completed"}
  BY BirthFacts
<1>4. transfers[one] = Unborn /\ UNCHANGED offered
  BY DEF Initiate
<1>5. /\ transfers'[one] \in Transfer
      /\ transfers'[one].status = BirthStatus(kind, mode)
      /\ transfers'[one].txHash = NoHash
  BY <1>1, <1>2, <1>3, <1>4, UnbornFacts DEF Transfer
<1>6. Born(one)
  BY <1>3, <1>4, <1>5 DEF Born
<1>7. \A id \in Id \ {one} : Kept(id)
  BY <1>1, <1>2 DEF Kept
<1>8. transfers' \in [Id -> Transfer]
  BY <1>1, <1>2, <1>5, <1>7 DEF Kept
<1> QED
  BY <1>4, <1>6, <1>7, <1>8 DEF MatchTypeOK, Transfer

LEMMA HostChanges ==
    ASSUME MatchTypeOK, NEW one \in Id, HostMove(one)
    PROVE  /\ MatchTypeOK'
           /\ \A id \in Id : Kept(id) \/ Moved(id)
<1>1. transfers \in [Id -> Transfer] /\ transfers[one] \in Transfer
  BY DEF MatchTypeOK, Transfer
<1>2. PICK to \in HostCalls(transfers[one].kind) :
        /\ ValidateTransition(transfers[one].status, to)
        /\ transfers' = [transfers EXCEPT
              ![one].status = to,
              ![one].txHash = IF to = "completed" /\ transfers[one].kind = "deposit"
                              THEN Outgoing ELSE @]
  BY DEF HostMove
<1>3. to \in Statuses
  BY <1>2, TransitionFacts
<1>4. /\ transfers'[one] \in Transfer
      /\ transfers'[one].kind = transfers[one].kind
      /\ transfers'[one].status = to
      /\ transfers[one].kind # "deposit" => transfers'[one].txHash = transfers[one].txHash
  BY <1>1, <1>2, <1>3 DEF Transfer
<1>5. Moved(one)
  BY <1>2, <1>4 DEF Moved
<1>6. \A id \in Id \ {one} : Kept(id)
  BY <1>1, <1>2 DEF Kept
<1>7. transfers' \in [Id -> Transfer] /\ UNCHANGED offered
  BY <1>1, <1>2, <1>4, <1>6 DEF Kept, HostMove
<1> QED
  BY <1>5, <1>6, <1>7 DEF MatchTypeOK, Transfer

\* A payment the matcher credits is one to the distribution account that names
\* the transfer.
LEMMA CreditedIsNamed ==
    ASSUME NEW p \in Positions, Wants(Matcher, p), NEW id \in Id, Accepts(id, p)
    PROVE  Names(p, id)
<1>1. ledger[p] \in Account /\ ledger[p].to = Distribution
  BY MatchingAssumption DEF Wants
<1>2. ledger[p] # Other
  BY <1>1, ConstantsAssumption
<1>3. ledger[p].memo = id
  BY MatchingAssumption DEF Accepts, Memo
<1>4. p <= Len(ledger)
  BY DEF Positions
<1> QED
  BY <1>1, <1>2, <1>3, <1>4 DEF Names

\* What one step makes of a withdrawal that is paid, or is not.
LEMMA WithdrawalStep ==
    ASSUME SafetyInv, MatchTypeOK, PaidOK, [Next]_vars, NEW id \in Id,
           \/ Kept(id)
           \/ \E p \in Positions : Credited(id, p) /\ Names(p, id)
           \/ Born(id)
           \/ Moved(id),
           transfers'[id].kind = "withdrawal"
    PROVE  /\ Paid(id)' <=> transfers'[id].txHash # NoHash
           /\ Paid(id)' => \E p \in Positions' : transfers'[id].txHash = p /\ Names(p, id)'
<1>1. CASE Kept(id)
  BY <1>1, PaidStays DEF Kept
<1>2. CASE \E p \in Positions : Credited(id, p) /\ Names(p, id)
  <2>1. PICK p \in Positions : Credited(id, p) /\ Names(p, id)
    BY <1>2
  <2>2. p \in Positions' /\ Names(p, id)'
    BY <2>1, NamesStays
  <2>3. p \in Nat
    BY LenProperties DEF Positions, SafetyInv, TypeOK
  <2>4. Paid(id)' /\ transfers'[id].txHash = p /\ p # NoHash
    BY <2>1, <2>3, MatchingAssumption DEF Paid, Credited
  <2> QED
    BY <2>2, <2>4
<1>3. CASE Born(id)
  BY <1>3 DEF Born, Paid
<1>4. CASE Moved(id)
  <2>1. transfers[id].kind = "withdrawal" /\ transfers'[id].txHash = transfers[id].txHash
    BY <1>4 DEF Moved
  <2>2. transfers'[id].status \in {"cancelled", "denied", "completed", "pending_external"}
    BY <1>4, <2>1 DEF Moved, HostCalls
  <2>3. Paid(id)' <=> Paid(id)
    BY <1>4, <2>2, TransitionFacts DEF Moved, Paid
  <2>4. Paid(id) => \E p \in Positions : transfers[id].txHash = p /\ Names(p, id)
    BY <2>1 DEF PaidOK
  <2>5. Paid(id) <=> transfers[id].txHash # NoHash
    BY <2>1 DEF PaidOK
  <2> QED
    BY <2>1, <2>3, <2>4, <2>5, NamesStays
<1> QED
  BY <1>1, <1>2, <1>3, <1>4

\* Each step of the composition does one of these things to each transfer.
LEMMA StepChanges ==
    ASSUME SafetyInv, MatchInv, [MatchNext]_allVars
    PROVE  /\ MatchTypeOK'
           /\ \A id \in Id : \/ Kept(id)
                             \/ \E p \in Positions : Credited(id, p) /\ Names(p, id)
                             \/ Born(id)
                             \/ Moved(id)
<1>0. MatchTypeOK
  BY DEF MatchInv
<1>1. CASE UNCHANGED matchVars
  BY <1>0, <1>1 DEF matchVars, MatchTypeOK, Kept
<1>2. CASE HandleAndMatch /\ handlers[next] = Matcher /\ Wants(Matcher, pos)
  <2>1. pos \in Positions
    BY <1>2 DEF HandleAndMatch, Handle, MatchInv, AtHand, Positions
  <2>2. pos \in 1..MaxLedger
    BY <2>1, LenProperties, ConstantsAssumption DEF Positions, SafetyInv, TypeOK
  <2>3. Offer(pos)
    BY <1>2 DEF HandleAndMatch
  <2>4. MatchTypeOK' /\ \A id \in Id : Kept(id) \/ Credited(id, pos)
    BY <1>0, <2>2, <2>3, OfferChanges
  <2>5. ASSUME NEW id \in Id, Credited(id, pos) PROVE Names(pos, id)
    BY <1>2, <2>1, <2>5, CreditedIsNamed DEF Credited
  <2> QED
    BY <2>1, <2>4, <2>5
<1>3. CASE \E one \in Id : Initiate(one)
  BY <1>0, <1>3, InitiateChanges
<1>4. CASE \E one \in Id : HostMove(one)
  BY <1>0, <1>4, HostChanges
<1>5. CASE HandleAndMatch /\ ~(handlers[next] = Matcher /\ Wants(Matcher, pos))
  BY <1>1, <1>5 DEF HandleAndMatch
<1> QED
  BY <1>1, <1>2, <1>3, <1>4, <1>5 DEF MatchNext, allVars

LEMMA MatchStep == SafetyInv /\ MatchInv /\ [MatchNext]_allVars => MatchInv'
<1> SUFFICES ASSUME SafetyInv, MatchInv, [MatchNext]_allVars PROVE MatchInv'
  OBVIOUS
<1>1. [Next]_vars
  BY MatchStepObserves
<1>2. MatchTypeOK'
  BY StepChanges
<1>3. AtHand'
  BY <1>1, AtHandStep DEF MatchInv
<1>4. ASSUME NEW id \in Id, transfers'[id].kind = "withdrawal"
      PROVE  /\ Paid(id)' <=> transfers'[id].txHash # NoHash
             /\ Paid(id)' => \E p \in Positions' : transfers'[id].txHash = p
                                                   /\ Names(p, id)'
  BY <1>1, <1>4, StepChanges, WithdrawalStep DEF MatchInv
<1>5. PaidOK'
  BY <1>4 DEF PaidOK
<1> QED
  BY <1>2, <1>3, <1>5 DEF MatchInv

LEMMA MatchStart == MatchInit => MatchInv
<1> SUFFICES ASSUME MatchInit PROVE MatchInv
  OBVIOUS
<1>1. \A id \in Id : transfers[id] = Unborn
  BY DEF MatchInit
<1>2. MatchTypeOK
  BY UnbornFacts DEF MatchInit, MatchTypeOK, Transfer
<1>3. PaidOK
  BY <1>1, UnbornFacts DEF PaidOK
<1>4. AtHand
  BY DEF MatchInit, Init, AtHand
<1> QED
  BY <1>2, <1>3, <1>4 DEF MatchInv

LEMMA MatchSafety == MatchSpec => [](SafetyInv /\ MatchInv)
BY MatchStart, MatchStep, ObserverSafety, PTL DEF MatchSpec

\* Every state is well typed (PaymentMatching!MatchTypeOK).
THEOREM MatchTypesHold == MatchSpec => []MatchTypeOK
BY MatchSafety, PTL DEF MatchInv

\* No withdrawal is taken for paid but for a payment that names it
\* (match.go:49-79), over any filters, broken streams and restarts.
THEOREM PaymentsComeFirst == MatchSpec => []PaidBeforeDisbursed
<1>1. MatchInv => PaidBeforeDisbursed
  BY DEF MatchInv, PaidOK, PaidBeforeDisbursed, Paid
<1> QED
  BY <1>1, MatchSafety, PTL

\* The same payment again, or another with the same memo, changes nothing that
\* matters (match.go:73-77).
THEOREM PaymentsCountOnce == MatchSpec => OnePaymentCounts
<1> DEFINE Once ==
      \A id \in Id : transfers[id].kind = "withdrawal" /\ transfers[id].txHash # NoHash =>
          /\ transfers'[id].txHash = transfers[id].txHash
          /\ transfers'[id].status \in {transfers[id].status, "completed"}
<1>1. SafetyInv /\ MatchInv /\ [MatchNext]_allVars => Once
  <2> SUFFICES ASSUME SafetyInv, MatchInv, [MatchNext]_allVars, NEW id \in Id,
                      transfers[id].kind = "withdrawal", transfers[id].txHash # NoHash
               PROVE  /\ transfers'[id].txHash = transfers[id].txHash
                      /\ transfers'[id].status \in {transfers[id].status, "completed"}
    OBVIOUS
  <2>1. Paid(id)
    BY DEF MatchInv, PaidOK
  <2>2. ASSUME NEW p, Credited(id, p) PROVE FALSE
    BY <2>1, <2>2, TransitionFacts DEF Credited, Accepts, Paid
  <2>3. ~Born(id)
    BY UnbornFacts DEF Born
  <2>4. CASE Moved(id)
    <3>1. transfers'[id].status \in {"cancelled", "denied", "completed", "pending_external"}
      BY <2>4 DEF Moved, HostCalls
    <3> QED
      BY <2>1, <2>4, <3>1, TransitionFacts DEF Moved, Paid
  <2> QED
    BY <2>2, <2>3, <2>4, StepChanges DEF Kept
<1> QED
  BY <1>1, MatchSafety, PTL DEF MatchSpec, OnePaymentCounts

-----------------------------------------------------------------------------
(* What the persisted cursor covers, for an observer that starts at a position *)
(* and not at "now".                                                       *)

\* The matcher registers before Start, deals with all that it hears, and has
\* dealt with what came before the cursor or before it registered.
CoverInv ==
    /\ pc # "down" => Registered(Matcher)
    /\ heard[Matcher] \subseteq offered
    /\ \A p \in Positions : Wants(Matcher, p) /\ p <= cursor => p \in offered
    /\ Registered(Matcher) =>
         \A p \in Positions : Wants(Matcher, p) /\ p <= joined[Matcher] => p \in offered

ObsInv == SafetyInv /\ DeliveryInv

LEMMA WantedIsPayment ==
    ASSUME NEW p \in Positions, Wants(Matcher, p)
    PROVE  ledger[p] # Other
BY MatchingAssumption, ConstantsAssumption DEF Wants

LEMMA BoundsFacts ==
    ASSUME ObsInv
    PROVE  /\ pos \in Nat /\ cursor \in Nat /\ saved \in Nat /\ Len(ledger) \in Nat
           /\ saved <= cursor /\ cursor <= pos /\ pos <= Len(ledger)
           /\ \A h \in Handler : joined[h] \in Nat /\ joined[h] <= Len(ledger)
BY LenProperties DEF ObsInv, SafetyInv, TypeOK, DeliveryInv, Bounds

\* The payments there were are wanted as they were.
LEMMA OldWanted ==
    ASSUME ObsInv, [Next]_vars, NEW p \in Positions', NEW q \in Nat, p <= q,
           q <= Len(ledger), Wants(Matcher, p)'
    PROVE  p \in Positions /\ Wants(Matcher, p)
<1>1. p \in Positions
  BY LedgerGrows DEF Positions, ObsInv
<1>2. ledger'[p] = ledger[p]
  BY <1>1, LedgerGrows DEF ObsInv
<1> QED
  BY <1>1, <1>2 DEF Wants

\* Where neither the cursor, nor the handlers, nor what they heard changes.
LEMMA CoverFrame ==
    ASSUME ObsInv, CoverInv, [Next]_vars, offered \subseteq offered',
           UNCHANGED <<cursor, handlers, joined, heard>>,
           pc' # "down" => pc # "down" \/ Registered(Matcher)
    PROVE  CoverInv'
<1>1. Registered(Matcher)' <=> Registered(Matcher)
  BY DEF Registered
<1>2. pc' # "down" => Registered(Matcher)'
  BY <1>1 DEF CoverInv
<1>3. heard'[Matcher] \subseteq offered'
  BY DEF CoverInv
<1>4. ASSUME NEW p \in Positions', Wants(Matcher, p)', p <= cursor PROVE p \in offered'
  <2>1. p \in Positions /\ Wants(Matcher, p)
    BY <1>4, BoundsFacts, OldWanted
  <2> QED
    BY <1>4, <2>1 DEF CoverInv
<1>5. ASSUME NEW p \in Positions', Wants(Matcher, p)', p <= joined[Matcher],
             Registered(Matcher)
      PROVE  p \in offered'
  <2>1. p \in Positions /\ Wants(Matcher, p)
    BY <1>5, BoundsFacts, OldWanted, MatchingAssumption
  <2> QED
    BY <1>5, <2>1 DEF CoverInv
<1> QED
  BY <1>1, <1>2, <1>3, <1>4, <1>5 DEF CoverInv

\* The matcher registers while no stream is open: between the cursor and where
\* the last one was there is no payment.
LEMMA CoverRegister ==
    ASSUME ObsInv, CoverInv, NEW h \in Handler, OnPayment(h), UNCHANGED offered
    PROVE  CoverInv'
<1>1. /\ handlers \in Seq(Handler) /\ Len(handlers) \in Nat
      /\ handlers' = Append(handlers, h) /\ Len(handlers') = Len(handlers) + 1
      /\ handlers'[Len(handlers) + 1] = h
      /\ \A i \in 1..Len(handlers) : handlers'[i] = handlers[i]
  BY AppendProperties, LenProperties DEF OnPayment, ObsInv, SafetyInv, TypeOK
<1>2. /\ UNCHANGED <<ledger, cursor, pc, pos, heard>>
      /\ joined' = [joined EXCEPT ![h] = pos]
      /\ joined \in [Handler -> Cursors]
  BY DEF OnPayment, settings, ObsInv, SafetyInv, TypeOK
<1>3. Registered(Matcher) => Registered(Matcher)'
  BY <1>1 DEF Registered
<1>4. Registered(Matcher)' => Registered(Matcher) \/ h = Matcher
  BY <1>1 DEF Registered
<1>5. h = Matcher => ~Registered(Matcher)
  BY DEF OnPayment, Registered
<1>6. Positions' = Positions /\ \A p \in Positions : Wants(Matcher, p)' <=> Wants(Matcher, p)
  BY <1>2 DEF Positions, Wants
<1>7. ASSUME NEW p \in Positions, Wants(Matcher, p), Registered(Matcher)',
             p <= joined'[Matcher]
      PROVE  p \in offered
  <2>1. CASE h = Matcher
    <3>1. pc = "down" /\ p <= pos
      BY <1>2, <1>5, <1>7, <2>1, MatchingAssumption DEF CoverInv
    <3>2. p <= cursor
      <4>1. p \in Nat
        BY BoundsFacts DEF Positions
      <4>2. ~(cursor < p /\ p <= pos)
        BY <1>7, <3>1, WantedIsPayment DEF ObsInv, DeliveryInv, NothingBehind
      <4> QED
        BY <3>1, <4>1, <4>2, BoundsFacts
    <3> QED
      BY <1>7, <3>2 DEF CoverInv
  <2>2. CASE h # Matcher
    BY <1>2, <1>4, <1>7, <2>2, MatchingAssumption DEF CoverInv
  <2> QED
    BY <2>1, <2>2
<1> QED
  BY <1>2, <1>3, <1>6, <1>7 DEF CoverInv

\* The cursor of the next process is behind this one's.
LEMMA CoverCrash ==
    ASSUME ObsInv, CoverInv, Crash, UNCHANGED offered
    PROVE  CoverInv'
<1>1. Len(handlers') = 0
  BY DEF Crash
<1>2. ~Registered(Matcher)' /\ pc' = "down" /\ heard'[Matcher] = {}
  BY <1>1, MatchingAssumption DEF Registered, Crash
<1>3. cursor' = saved /\ UNCHANGED ledger
  BY DEF Crash
<1>4. ASSUME NEW p \in Positions, Wants(Matcher, p), p <= saved PROVE p \in offered
  <2>1. p \in Nat /\ p <= cursor
    BY <1>4, BoundsFacts DEF Positions
  <2> QED
    BY <1>4, <2>1 DEF CoverInv
<1> QED
  BY <1>2, <1>3, <1>4 DEF CoverInv, Positions, Wants

\* What the cursor is moved over has been heard, if it is wanted and came after
\* the matcher registered.
LEMMA CoverAdvance ==
    ASSUME ObsInv, CoverInv, Advance, UNCHANGED offered
    PROVE  CoverInv'
<1>1. /\ pc = "handle" /\ next > last /\ cursor' = pos /\ pc' = "save"
      /\ UNCHANGED <<ledger, handlers, joined, heard>>
  BY DEF Advance, settings
<1>2. Registered(Matcher)
  BY <1>1 DEF CoverInv
<1>3. next \in Nat /\ last \in Nat
  BY DEF ObsInv, SafetyInv, TypeOK
<1>4. ~Pending(Matcher)
  BY <1>1, <1>3 DEF Pending
<1>5. ASSUME NEW p \in Positions, Wants(Matcher, p), p <= pos PROVE p \in offered
  <2>1. p \in Nat /\ joined[Matcher] \in Nat
    BY BoundsFacts, MatchingAssumption DEF Positions
  <2>2. CASE p <= joined[Matcher]
    BY <1>2, <1>5, <2>2 DEF CoverInv
  <2>3. CASE joined[Matcher] < p
    <3>1. p \in heard[Matcher]
      BY <1>2, <1>4, <1>5, <2>1, <2>3, MatchingAssumption DEF ObsInv, DeliveryInv, Heard
    <3> QED
      BY <3>1 DEF CoverInv
  <2> QED
    BY <2>1, <2>2, <2>3
<1>6. Registered(Matcher)'
  BY <1>1, <1>2 DEF Registered
<1> QED
  BY <1>1, <1>2, <1>5, <1>6 DEF CoverInv, Positions, Wants

LEMMA CoverHandle ==
    ASSUME ObsInv, CoverInv, HandleAndMatch
    PROVE  CoverInv'
<1>1. /\ UNCHANGED <<ledger, handlers, cursor, pc, joined>> /\ pc = "handle"
      /\ heard' = IF Wants(handlers[next], pos)
                  THEN [heard EXCEPT ![handlers[next]] = @ \cup {pos}] ELSE heard
      /\ heard \in [Handler -> SUBSET (1..MaxLedger)]
  BY DEF HandleAndMatch, Handle, settings, ObsInv, SafetyInv, TypeOK
<1>2. offered \subseteq offered'
  BY DEF HandleAndMatch, Offer, matchVars
<1>3. heard'[Matcher] \subseteq offered'
  <2>1. CASE handlers[next] = Matcher /\ Wants(Matcher, pos)
    <3>1. offered' = offered \cup {pos}
      BY <2>1 DEF HandleAndMatch, Offer
    <3>2. heard'[Matcher] = heard[Matcher] \cup {pos}
      BY <1>1, <2>1, MatchingAssumption
    <3> QED
      BY <3>1, <3>2 DEF CoverInv
  <2>2. CASE ~(handlers[next] = Matcher /\ Wants(Matcher, pos))
    <3>1. heard'[Matcher] = heard[Matcher]
      BY <1>1, <2>2
    <3> QED
      BY <1>2, <3>1 DEF CoverInv
  <2> QED
    BY <2>1, <2>2
<1>4. Registered(Matcher)' <=> Registered(Matcher)
  BY <1>1 DEF Registered
<1> QED
  BY <1>1, <1>2, <1>3, <1>4 DEF CoverInv, Positions, Wants

\* A stream that is opened again leaves where the matcher joined as it was.
LEMMA CoverConnect ==
    ASSUME ObsInv, CoverInv, Connect, UNCHANGED offered
    PROVE  CoverInv'
<1>1. /\ UNCHANGED <<ledger, handlers, cursor, heard>> /\ pc = "check"
      /\ joined' = [h \in Handler |-> IF joined[h] = Now THEN pos' ELSE joined[h]]
  BY DEF Connect, settings
<1>2. joined'[Matcher] = joined[Matcher]
  BY <1>1, BoundsFacts, MatchingAssumption, ConstantsAssumption
<1>3. Registered(Matcher)' <=> Registered(Matcher)
  BY <1>1 DEF Registered
<1> QED
  BY <1>1, <1>2, <1>3 DEF CoverInv, Positions, Wants

LEMMA CoverStep == ObsInv /\ CoverInv /\ [MatchNext]_allVars => CoverInv'
<1> SUFFICES ASSUME ObsInv, CoverInv, [MatchNext]_allVars PROVE CoverInv'
  OBVIOUS
<1>0. [Next]_vars
  BY MatchStepObserves
<1>1. CASE HandleAndMatch
  BY <1>1, CoverHandle
<1>2. CASE Streams /\ UNCHANGED matchVars
  <2>1. CASE Connect
    BY <1>2, <2>1, CoverConnect DEF matchVars
  <2>2. CASE Advance
    BY <1>2, <2>2, CoverAdvance DEF matchVars
  <2>3. CASE Leave \/ ReceivePayment \/ SkipOther \/ Save \/ StreamEnds \/ StartWaiting
             \/ Retry
    <3>1. UNCHANGED <<cursor, handlers, joined, heard>> /\ pc # "down"
      BY <2>3 DEF Leave, ReceivePayment, SkipOther, Save, StreamEnds, StartWaiting, Retry
    <3> QED
      BY <1>0, <1>2, <3>1, CoverFrame DEF matchVars
  <2> QED
    BY <1>2, <2>1, <2>2, <2>3 DEF Streams
<1>3. CASE World /\ UNCHANGED matchVars
  <2>1. CASE Crash
    BY <1>3, <2>1, CoverCrash DEF matchVars
  <2>2. CASE \E h \in Handler : OnPayment(h)
    BY <1>3, <2>2, CoverRegister DEF matchVars
  <2>3. CASE StartMatching
    <3>1. UNCHANGED <<cursor, handlers, joined, heard>> /\ Registered(Matcher)
      BY <2>3 DEF StartMatching, Start, MatcherRegistered, Registered
    <3> QED
      BY <1>0, <1>3, <3>1, CoverFrame DEF matchVars
  <2>4. CASE Pay \/ Stop \/ Cancel \/ StreamFails
    <3>1. UNCHANGED <<cursor, handlers, joined, heard>> /\ (pc' # "down" => pc # "down")
      BY <2>4 DEF Pay, Stop, Cancel, StreamFails
    <3> QED
      BY <1>0, <1>3, <3>1, CoverFrame DEF matchVars
  <2> QED
    BY <1>3, <2>1, <2>2, <2>3, <2>4 DEF World
<1>4. CASE (\E id \in Id : Initiate(id) \/ HostMove(id)) \/ UNCHANGED allVars
  <2>1. UNCHANGED vars /\ UNCHANGED offered
    BY <1>4 DEF Initiate, HostMove, allVars, matchVars
  <2>2. UNCHANGED <<cursor, handlers, joined, heard, pc>>
    BY <2>1 DEF vars
  <2> QED
    BY <1>0, <2>1, <2>2, CoverFrame
<1> QED
  BY <1>1, <1>2, <1>3, <1>4 DEF MatchNext

LEMMA CoverStart == MatchInit => CoverInv
<1> SUFFICES ASSUME MatchInit PROVE CoverInv
  OBVIOUS
<1>1. Len(ledger) = 0 /\ Len(handlers) = 0
  BY DEF MatchInit, Init
<1>2. Positions = {} /\ ~Registered(Matcher)
  BY <1>1 DEF Positions, Registered
<1> QED
  BY <1>2, MatchingAssumption DEF MatchInit, Init, CoverInv

\* The cursor never gets ahead of the matcher: no payment is passed over, however
\* often the stream breaks or the process restarts (match.go:22-24,
\* horizon.go:159-172).
THEOREM CursorIsCovered ==
    ASSUME StartCursor = 0
    PROVE  MatchSpec => []PersistedIsOffered
<1>1. MatchInit => DeliveryInv
  BY InitDelivery DEF MatchInit
<1>2. SafetyInv /\ DeliveryInv /\ [MatchNext]_allVars => DeliveryInv'
  BY MatchStepObserves, DeliveryStep
<1>3. SafetyInv /\ DeliveryInv /\ CoverInv /\ [MatchNext]_allVars => CoverInv'
  BY CoverStep DEF ObsInv
<1>4. SafetyInv /\ DeliveryInv /\ CoverInv => PersistedIsOffered
  <2> SUFFICES ASSUME SafetyInv, DeliveryInv, CoverInv, NEW p \in Positions,
                      p <= saved, Wants(Matcher, p)
               PROVE  p \in offered
    BY DEF PersistedIsOffered
  <2>1. p \in Nat /\ p <= cursor
    BY BoundsFacts DEF ObsInv, Positions
  <2> QED
    BY <2>1 DEF CoverInv
<1> QED
  BY <1>1, <1>2, <1>3, <1>4, CoverStart, ObserverSafety, PTL DEF MatchSpec
=============================================================================

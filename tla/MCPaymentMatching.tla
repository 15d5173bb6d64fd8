-------------------------- MODULE MCPaymentMatching --------------------------
(* PaymentMatching for TLC: payments with and without the memo of a transfer, *)
(* to the anchor and to somebody else; a handler that takes all beside the    *)
(* matcher.                                                                   *)
EXTENDS PaymentMatching

CONSTANTS anchor, stranger, t1, matcher, auditor

Payments == {[to |-> anchor, memo |-> t1], [to |-> anchor, memo |-> NoMemo],
             [to |-> stranger, memo |-> t1]}

Filters == [h \in {matcher, auditor} |->
               IF h = matcher THEN {a \in Payments : a.to = anchor} ELSE Payments]
=============================================================================

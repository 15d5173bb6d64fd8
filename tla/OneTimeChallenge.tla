--------------------------- MODULE OneTimeChallenge ---------------------------
(***************************************************************************)
(* What web authentication promises about each challenge: it is issued     *)
(* once, presented successfully at most once, and pays for at most one     *)
(* JWT.  A challenge that is refused, that expires or that a restart wipes *)
(* out is void and never comes back.                                       *)
(***************************************************************************)
CONSTANT Nonce

VARIABLE stage

Stages == {"unissued", "open", "presented", "granted", "void"}

Init == stage = [n \in Nonce |-> "unissued"]

Issue(n) ==
    /\ stage[n] = "unissued"
    /\ stage' = [stage EXCEPT ![n] = "open"]

Present(n) ==
    /\ stage[n] = "open"
    /\ stage' = [stage EXCEPT ![n] = "presented"]

Grant(n) ==
    /\ stage[n] = "presented"
    /\ stage' = [stage EXCEPT ![n] = "granted"]

\* Time or a restart may void many challenges at once.
Void(S) ==
    /\ \A n \in S : stage[n] \in {"open", "presented"}
    /\ stage' = [n \in Nonce |-> IF n \in S THEN "void" ELSE stage[n]]

Next ==
    \/ \E n \in Nonce : Issue(n) \/ Present(n) \/ Grant(n)
    \/ \E S \in SUBSET Nonce : Void(S)

Spec == Init /\ [][Next]_stage
=============================================================================

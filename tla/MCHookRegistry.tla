---------------------------- MODULE MCHookRegistry ----------------------------
(* HookRegistry for TLC: two goroutines, two transfers, three handlers, one   *)
(* of which may panic and one moves the second transfer after the first.      *)
EXTENDS HookRegistry

CONSTANTS t1, t2, logger, auditor, chain

Deeds ==
    [h \in {logger, auditor, chain} |->
       [id \in {t1, t2} |->
          CASE h = auditor /\ id = t2 -> "panics"
            [] h = chain /\ id = t1 -> t2
            [] OTHER -> "returns"]]
=============================================================================

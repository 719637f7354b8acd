----------------------------- MODULE QwkHubMC -----------------------------
(* Instances of QwkHub for TLC.                                            *)
EXTENDS QwkHub, TLC

CONSTANTS n1, a1, a2, k1, r1

(* Areas tagged with two different conference numbers, and a node that is  *)
(* subscribed to both.                                                     *)
Tagged == a1 :> 1 @@ a2 :> 2

Both == <<[node |-> n1, area |-> a1, conf |-> 1, mark |-> 0],
          [node |-> n1, area |-> a2, conf |-> 2, mark |-> 0]>>

OneMessage == {<<[conf |-> 1, key |-> k1]>>}
=============================================================================

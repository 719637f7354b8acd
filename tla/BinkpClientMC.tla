---------------------------- MODULE BinkpClientMC ----------------------------
(***************************************************************************)
(* Instances of BinkpClient: outbound jobs in the order poll() sends them. *)
(***************************************************************************)
EXTENDS BinkpClient

PacketHatch == <<"packet", "hatch">>

LooseRequest == <<"loose", "request">>

(* Files that can complete meet failures and retries; one that cannot is    *)
(* offered, together with those, until the first of them.                   *)
InScope ==
  \/ peer.offered \subseteq Sized
  \/ cli.pc = "import"
  \/ faults = 0 /\ \A j \in Jobs : tries[j] = 0
=============================================================================

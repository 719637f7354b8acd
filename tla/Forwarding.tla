----------------------------- MODULE Forwarding -----------------------------
(***************************************************************************)
(* What this system promises a peer, without saying how: once a message is *)
(* owed to a node it stays owed until that node has received it or a sysop *)
(* withdraws it.  Sessions, packets, acknowledgements, retries and crashes *)
(* do not appear here.  HubToss implements this specification towards the  *)
(* downstream nodes (HubToss!ForwardingSpec), UpstreamLink towards the hub *)
(* of a network (UpstreamLink!ForwardingSpec).                             *)
(***************************************************************************)

CONSTANT Deliveries   \* <<node, message>> pairs, or messages for one node

VARIABLES
  owed,       \* deliveries still to be made
  received,   \* deliveries whose node has the message
  withdrawn   \* deliveries a sysop took off the queue, or whose message is gone

vars == <<owed, received, withdrawn>>

Init ==
  /\ owed = {}
  /\ received = {}
  /\ withdrawn = {}

(* New mail, a catch-up or a rescan puts deliveries on the queue.           *)
Owe(D) ==
  /\ owed' = owed \union D
  /\ withdrawn' = withdrawn \ D
  /\ UNCHANGED received

(* A node gets a packet, whether or not its answer arrives.                 *)
Receive(D) ==
  /\ received' = received \union D
  /\ UNCHANGED <<owed, withdrawn>>

(* A delivery is forgotten only when the node has it.                       *)
Settle(D) ==
  /\ D \subseteq received
  /\ owed' = owed \ D
  /\ UNCHANGED <<received, withdrawn>>

(* A node gets a packet and its acknowledgement is recorded at once.        *)
Deliver(D) ==
  /\ received' = received \union D
  /\ owed' = owed \ D
  /\ UNCHANGED withdrawn

(* The sysop takes deliveries back.                                         *)
Withdraw(D) ==
  /\ owed' = owed \ D
  /\ withdrawn' = withdrawn \union D
  /\ UNCHANGED received

Next ==
  \E D \in SUBSET Deliveries :
    Owe(D) \/ Receive(D) \/ Settle(D) \/ Deliver(D) \/ Withdraw(D)

Spec == Init /\ [][Next]_vars
=============================================================================

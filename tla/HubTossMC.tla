----------------------------- MODULE HubTossMC -----------------------------
(***************************************************************************)
(* Small instances of HubToss for TLC.                                     *)
(***************************************************************************)
EXTENDS HubToss, TLC

CONSTANTS a, b, hub, local, addrA, addrB, addrHub

SameWorkers == Permutations(Workers)

MCNodes == {a, b}
MCAddrs == {addrA, addrB, addrHub}
MCBareAddr == (a :> addrA) @@ (b :> addrB) @@ (hub :> addrHub)

(* What arrives: mail whose sender put itself into SEEN-BY or did not.      *)
NoSeenBy == {{}}
SomeSeenBys == {{}, {addrB}}

(* One message meets sessions, edits and failures in every order.  Of two   *)
(* messages we follow one session at a time with an edit somewhere in it,   *)
(* and sessions with the nodes that cross each other while the sysop is     *)
(* away.                                                                    *)
Alone ==
  \A v \in Workers, w \in Workers : v = w \/ ses[v].pc = "idle" \/ ses[w].pc = "idle"

InScope ==
  \/ lastId <= 1 /\ edits + faults <= 2
  \/ /\ faults = 0 /\ \A m \in Ids : seen[m] = {}
     /\ \/ Alone /\ edits <= 1
        \/ edits = 0 /\ \A w \in Workers : ses[w].peer # Hub

(* Both nodes are there and subscribed from the start; the rest is done by  *)
(* the sysop.                                                               *)
Configured == Init /\ active = MCNodes /\ subs = MCNodes \X Areas
ConfiguredSpec == Configured /\ [][Next]_vars
ConfiguredFairSpec == ConfiguredSpec /\ Fairness
=============================================================================

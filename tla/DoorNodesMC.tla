---------------------------- MODULE DoorNodesMC ----------------------------
(* Instances of DoorNodes for TLC.                                         *)
EXTENDS DoorNodes

CONSTANT Terminal
TwoProcs == {Web, Terminal}
=============================================================================

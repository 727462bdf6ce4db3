------------------------------ MODULE MCMirror ------------------------------
(***************************************************************************)
(* Small instances of SnapshotMirror: one section (key 1) with up to two   *)
(* subnets (2 and 3) whose documents have one file name.                   *)
(***************************************************************************)
EXTENDS SnapshotMirror, TLC

InOneSection == [k \in Subnet |-> 1]

\* Subnets 2 and 3 slug to one file name.
SharedPath == 1 :> 1 @@ 2 :> 2 @@ 3 :> 2

AnyPhase == Phase
=============================================================================

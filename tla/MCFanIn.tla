------------------------------- MODULE MCFanIn -------------------------------
(***************************************************************************)
(* Small instances of L2Import: a master with the sources e and w, each of *)
(* which calls its one section "net"; on the master they are A and B.      *)
(* Snapshots are what ipam_export.py makes of an instance.                 *)
(***************************************************************************)
EXTENDS L2Import, TLC

Rows == [i \in {} |-> {}]

DefaultRow == [name |-> "default", sections |-> {}, fields |-> 1]

\* An instance with the given domains, VLANs, VRFs and subnets besides domain 1.
Instance(sects, domains, vlans, vrfs, subnets) ==
  [sects |-> sects, domains |-> (DefaultDomain :> DefaultRow) @@ domains, vlans |-> vlans,
   vrfs |-> vrfs, subnets |-> subnets, nextId |-> 10]

Campus(sections, f) == [name |-> "campus", sections |-> sections, fields |-> f]

Vlan(d, f) == [domainId |-> d, number |-> 7, fields |-> f]

Red(sections, f) == [name |-> "red", sections |-> sections, fields |-> f]

Linked(s, cidr, vlan, vrf) == [section |-> s, cidr |-> cidr, vlanId |-> vlan, vrfId |-> vrf]

\* Damaged on the way: nothing is known of what it held.
Unreadable == [state |-> "unreadable", docs |-> EmptyMap, subnets |-> {}]

Malformed(p) == [p EXCEPT !.state = "malformed"]

Valid(c) == [sources |-> c, create_missing_sections |-> TRUE]

ToA == [sections |-> {"net"}, section_map |-> "net" :> "A"]

ToB == [sections |-> {"net"}, section_map |-> "net" :> "B"]

BothMapped == Valid("e" :> ToA @@ "w" :> ToB)

\* Section A twice: once by name and once mapped to.
Overlapping == Valid("e" :> [ToA EXCEPT !.sections = {"A"}] @@ "w" :> [ToB EXCEPT !.section_map = "net" :> "A"])

Strictly(c) == [c EXCEPT !.create_missing_sections = FALSE]

InTurn == << "e", "w" >>

-----------------------------------------------------------------------------
(***************************************************************************)
(* Both sources have VLAN 7 of the domain "campus", a VRF "red" and a      *)
(* subnet that uses them; or the site has been taken out of the campus.    *)
(***************************************************************************)
OnCampus(cidr) ==
  ExportSnapshot(
    Instance({"net"}, 2 :> Campus({"net"}, 1), 3 :> Vlan(2, 1), 4 :> Red({"net"}, 1),
             5 :> Linked("net", cidr, 3, 4)), {"net"})

OffCampus(cidr) ==
  ExportSnapshot(Instance({"net"}, Rows, Rows, Rows, 5 :> Linked("net", cidr, NoId, NoId)), {"net"})

MainSnapshots ==
  "e" :> {OnCampus(1), OffCampus(1), Malformed(OnCampus(1))} @@ "w" :> {OnCampus(2), Unreadable}

\* The master: with what e's site had a while ago, and without w's section; with
\* both sites on it, and the campus assigned to none of them.
OldMaster ==
  Instance({"A"}, Rows, Rows, 4 :> Red({"A"}, 2), 5 :> Linked("A", 1, NoId, 4))

BothSites(f) ==
  Instance({"A", "B"}, 2 :> Campus({}, f), 3 :> Vlan(2, f),
           4 :> Red({"A"}, 1) @@ 6 :> Red({"B"}, 1),
           5 :> Linked("A", 1, 3, NoId) @@ 7 :> Linked("B", 2, 3, 6))

FullMaster == BothSites(2)

MainTargets == {OldMaster, FullMaster}

MainConfigs == {BothMapped, Strictly(BothMapped), Overlapping}

-----------------------------------------------------------------------------
(***************************************************************************)
(* The sites' snapshots do not change, and both use the campus.            *)
(*   Unassigned: all that the master lacks of it is the assignments.       *)
(*   Scope: w's exporter is told to export a second section, which is      *)
(*     called "A" like the section of the master that is e's.              *)
(*   Hollow: e's site has nothing left, and the master has VRF "red" of it *)
(*     and no subnet.                                                      *)
(***************************************************************************)
SteadySnapshots == "e" :> {OnCampus(1)} @@ "w" :> {OnCampus(2)}

JustMapped == {BothMapped}

FullMasterOnly == {FullMaster}

UnassignedCampus == {BothSites(1)}

ScopeSnapshots ==
  "e" :> {OnCampus(1)} @@
  "w" :> {ExportSnapshot(Instance({"net", "A"}, Rows, Rows, 4 :> Red({"A"}, 2),
                                  5 :> Linked("A", 1, NoId, NoId)), {"net", "A"})}

HollowSnapshots ==
  "e" :> {ExportSnapshot(Instance({"net"}, Rows, Rows, Rows, Rows), {"net"})}
    @@ "w" :> {OnCampus(2)}

HollowTargets == {Instance({"A", "B"}, Rows, Rows, 4 :> Red({"A"}, 1), Rows)}
=============================================================================

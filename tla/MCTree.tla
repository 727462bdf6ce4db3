------------------------------- MODULE MCTree -------------------------------
(***************************************************************************)
(* Small instances of TreeImport.  The trees are built the way phpIPAM     *)
(* itself lets them be built: a subnet lies under the smallest network     *)
(* that contains it, in its own folder or outside every folder, so no two  *)
(* siblings overlap.  A snapshot is what ipam_export.py records of such a  *)
(* tree, a target is such a tree with ids.                                 *)
(***************************************************************************)
EXTENDS TreeImport, OrderDocuments, TLC

Smallest(S) == CHOOSE d \in S : \A e \in S \ {d} : << d, e >> \in Within

\* loc gives each subnet of S the folder it is filed under.
TreeParent(S, loc, c) ==
  LET up == {d \in S : << c, d >> \in Within /\ loc[d] = loc[c]}
  IN  IF up = {} THEN None ELSE Smallest(up)

TreeFolder(S, loc, c) ==
  IF TreeParent(S, loc, c) = None THEN loc[c] ELSE NoFolder

Documents(s, S, loc, fields, addresses) ==
  {[section |-> s, cidr |-> c, fields |-> fields[c],
    master_subnet |-> TreeParent(S, loc, c), parent_folder |-> TreeFolder(S, loc, c),
    addresses |-> addresses[c]] : c \in S}

NoFolders == [s \in Section |-> {}]

\* Ids of the initial rows: the networks keep their number, folder p comes
\* after all of them.
FolderIdOf(p) == 10 * Len(p) + p[Len(p)]

InitialRows(t, S, paths, loc, fields, addresses) ==
  [i \in S \cup {FolderIdOf(p) : p \in paths} |->
     IF i \in S
     THEN [SubnetRow(t, i,
                     IF TreeParent(S, loc, i) # None THEN TreeParent(S, loc, i)
                     ELSE IF loc[i] # NoFolder THEN FolderIdOf(loc[i]) ELSE None,
                     fields[i]) EXCEPT !.addresses = addresses[i]]
     ELSE LET p == CHOOSE q \in paths : FolderIdOf(q) = i
          IN  FolderRow(t, p[Len(p)],
                        IF Len(p) = 1 THEN None ELSE FolderIdOf(SubSeq(p, 1, Len(p) - 1)))]

FirstFreeId == 40

NoLoc == [c \in Cidr |-> NoFolder]

-----------------------------------------------------------------------------
(***************************************************************************)
(* Nested networks in one section: a /16 (1) over a /22 (2) over two /24s  *)
(* (3 and 4).  The /16 is always there, everything below it comes and      *)
(* goes; subnet 3 has an address.                                          *)
(***************************************************************************)
NestedWithin == {<< 2, 1 >>, << 3, 1 >>, << 4, 1 >>, << 3, 2 >>, << 4, 2 >>}

NestedPrefix == 1 :> 16 @@ 2 :> 22 @@ 3 :> 24 @@ 4 :> 24

NestedTrees == {{1} \cup X : X \in SUBSET {2, 3, 4}}

NestedFields(f) == [c \in Cidr |-> IF c = 3 THEN f ELSE 1]

NestedAddresses(v) == [c \in Cidr |-> [ip \in Ip |-> IF c = 3 THEN v ELSE None]]

\* The value of subnet 3's fields and of its address.
NestedValues == {<< 1, None >>, << 1, 1 >>, << 2, 2 >>}

NestedSnapshots ==
  {[sections |-> {1}, folders |-> NoFolders,
    documents |-> Documents(1, S, NoLoc, NestedFields(v[1]), NestedAddresses(v[2]))] :
     S \in NestedTrees, v \in NestedValues}

NestedTargets ==
  {[sects |-> {"east"}, nextId |-> FirstFreeId,
    rows |-> InitialRows("east", S, {}, NoLoc, NestedFields(v[1]), NestedAddresses(v[2]))] :
     S \in NestedTrees, v \in NestedValues}

OneSection == 1 :> "east"

-----------------------------------------------------------------------------
(***************************************************************************)
(* Folders: a folder 1 and a folder 1/2 in it, and two networks, disjoint, *)
(* that lie anywhere.                                                      *)
(***************************************************************************)
FilingPaths == {<< 1 >>, << 1, 2 >>}

FilingPrefix == 1 :> 22 @@ 2 :> 24

PathSets == {P \in SUBSET FilingPaths : << 1, 2 >> \in P => << 1 >> \in P}

\* A set of folders, a non-empty set of networks, and where each is filed.
Filings ==
  UNION {{<< P, S, loc >> : S \in SUBSET Cidr \ {{}}, loc \in [Cidr -> P \cup {NoFolder}]} :
         P \in PathSets}

Plain == [c \in Cidr |-> 1]

Unused == [c \in Cidr |-> NoAddresses]

FilingSnapshots ==
  {[sections |-> {1}, folders |-> [s \in Section |-> f[1]],
    documents |-> Documents(1, f[2], f[3], Plain, Unused)] : f \in Filings}

FilingTargets ==
  {[sects |-> {"east"}, nextId |-> FirstFreeId,
    rows |-> InitialRows("east", f[2], f[1], f[3], Plain, Unused)] : f \in Filings}

-----------------------------------------------------------------------------
(***************************************************************************)
(* Two source sections mapped to "east" and "west", beside a third section *)
(* "other" of the target that belongs to somebody else and uses network 1  *)
(* as well.  In the split snapshots no network is in both source sections, *)
(* and no exported section is empty; in the shared ones the sections are   *)
(* both exported and may have networks in common.                          *)
(***************************************************************************)
TwoSections == 1 :> "east" @@ 2 :> "west"

SplitPrefix == 1 :> 24 @@ 2 :> 24

\* Network 2 lies in network 1.
AggregateWithin == {<< 2, 1 >>}

AggregatePrefix == 1 :> 22 @@ 2 :> 24

TwoSectionSnapshot(Q, own) ==
  [sections |-> Q, folders |-> NoFolders,
   documents |-> UNION {Documents(s, own[s], NoLoc, Plain, Unused) : s \in Q}]

Owned == [Section -> SUBSET Cidr \ {{}}]

SplitSnapshots ==
  {TwoSectionSnapshot({s}, own) : s \in Section, own \in Owned}
    \cup {TwoSectionSnapshot(Section, own) :
            own \in {o \in Owned : o[1] \cap o[2] = {}}}

SharedSnapshots == {TwoSectionSnapshot(Section, own) : own \in Owned}

\* placed is a set of pairs <<section, network>>; the fields differ from those exported.
IdBase == "east" :> 0 @@ "west" :> 10 @@ "other" :> 20

PlacedRows(placed) ==
  [i \in {IdBase[p[1]] + p[2] : p \in placed} |->
     LET p == CHOOSE q \in placed : IdBase[q[1]] + q[2] = i
         parent == TreeParent({q[2] : q \in {r \in placed : r[1] = p[1]}}, NoLoc, p[2])
     IN  SubnetRow(p[1], p[2], IF parent = None THEN None ELSE IdBase[p[1]] + parent, 2)]

PlacedTarget(present, placed) ==
  [sects |-> present, nextId |-> FirstFreeId, rows |-> PlacedRows(placed)]

SplitTargets ==
  {PlacedTarget({"east", "other"}, ({"east"} \X S) \cup {<< "other", 1 >>}) :
     S \in SUBSET Cidr}
    \cup {PlacedTarget({"east", "west", "other"},
                       ({"east"} \X S) \cup {<< "west", 2 >>, << "other", 1 >>}) :
            S \in SUBSET Cidr}

\* An empty folder in "east" that the source does not have.
OldFolders == {<< 1 >>}

FolderTarget ==
  [PlacedTarget({"east", "west", "other"}, {<< "east", 1 >>, << "other", 1 >>}) EXCEPT
     !.rows = 30 :> FolderRow("east", 1, None) @@ @]

SectionTargets == SplitTargets \cup {FolderTarget}

SharedTargets ==
  {PlacedTarget({"east", "west"}, ({"east"} \X S) \cup ({"west"} \X W)) :
     S \in SUBSET Cidr, W \in SUBSET Cidr}

-----------------------------------------------------------------------------
(***************************************************************************)
(* Deletions at the limit: one unlisted subnet with six addresses in it,   *)
(* beside a listed one.                                                    *)
(***************************************************************************)
CrowdedTargets ==
  {[sects |-> {"east"}, nextId |-> FirstFreeId,
    rows |-> 1 :> SubnetRow("east", 1, None, 1)
               @@ 2 :> [SubnetRow("east", 2, None, 1) EXCEPT
                          !.addresses = [ip \in Ip |-> 1]]]}

CrowdedSnapshots ==
  {[sections |-> {1}, folders |-> NoFolders,
    documents |-> Documents(1, {1}, NoLoc, Plain, Unused)]}
=============================================================================

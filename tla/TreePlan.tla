------------------------------ MODULE TreePlan ------------------------------
(***************************************************************************)
(* The planner of the importer, ipamsync/plan.py, for the part of a        *)
(* section that forms a tree: folders, subnets and the addresses in them.  *)
(* Every operator is a function of a snapshot and of a listing of the      *)
(* target's `subnets` table; nothing here changes state.                   *)
(*                                                                         *)
(* build_plan concatenates lists of actions.  Here a plan is a SET of      *)
(* actions, each carrying the `rank` that fixes its place in the list the  *)
(* code builds; Before is the order of that list.                          *)
(*                                                                         *)
(* Data abstraction.  Section names, CIDRs and IPs are positive numbers,   *)
(* numbered in the order in which the code sorts their spelling.  What the *)
(* planner knows of a network is its place in that order, its prefix       *)
(* length and which networks contain it.  All replicated fields of a       *)
(* record are one value.  0 stands for "none", <<>> for "no folder".       *)
(***************************************************************************)
EXTENDS Integers, FiniteSets, Sequences

CONSTANTS
  Section,         \* section names of the source instance
  TargetSection,   \* section names of the target instance
  TargetOf,        \* [Section -> TargetSection], the config's section_map
  Cidr,            \* networks, numbered in string order
  Within,          \* {<<c, d>> : c is a proper part of d}
  PrefixLen,       \* [Cidr -> Nat]
  Ip,              \* addresses
  FieldValue,      \* values of a record's replicated fields
  FolderPath,      \* folder paths: non-empty sequences of names
  CreateMissing,   \* options.create_missing_sections
  DeleteFloor,     \* DELETE_LIMIT_FLOOR
  LimitPercent     \* 100 * options.delete_limit_fraction

None == 0
NoFolder == << >>

ASSUME PlanAssumption ==
  /\ Section \subseteq Nat \ {None}
  /\ TargetOf \in [Section -> TargetSection]
  /\ Cidr \subseteq Nat \ {None} /\ IsFiniteSet(Cidr)
  /\ Within \subseteq Cidr \X Cidr
  /\ PrefixLen \in [Cidr -> 0 .. 128]
  /\ Ip \subseteq Nat \ {None}
  /\ FieldValue \subseteq Nat \ {None}
  /\ FolderPath \subseteq Seq(Nat) \ {NoFolder}
  /\ CreateMissing \in BOOLEAN
  /\ DeleteFloor \in Nat
  /\ LimitPercent \in 0 .. 100

(***************************************************************************)
(* The two sides that are compared.  A subnet document of the snapshot     *)
(* names its parent by CIDR or by folder path, never by id.  A row of the  *)
(* target is a subnet or a folder; it names its parent by the id of        *)
(* another row.  An address is a value in the row of its subnet.           *)
(***************************************************************************)
AddressTable == [Ip -> FieldValue \cup {None}]

Document ==
  [section : Section, cidr : Cidr, fields : FieldValue,
   master_subnet : Cidr \cup {None}, parent_folder : FolderPath \cup {NoFolder},
   addresses : AddressTable]

Snapshot ==
  [sections : SUBSET Section,                  \* sections with a section document
   folders : [Section -> SUBSET FolderPath],   \* what those documents list
   documents : SUBSET Document]

Row ==
  {r \in [section : TargetSection, isFolder : BOOLEAN, cidr : Cidr \cup {None},
          name : Nat, masterSubnetId : Nat, fields : FieldValue \cup {None},
          addresses : AddressTable] : r.isFolder <=> r.cidr = None}

(***************************************************************************)
(* The target's rows seen through natural keys.  L is a listing: a         *)
(* function from the ids of one section's rows to those rows.              *)
(***************************************************************************)
\* Mutant of Listing: the subnets of all sections are indexed together.
ListingOfAllSections(rows, t) == rows

Listing(rows, t) == [i \in {j \in DOMAIN rows : rows[j].section = t} |-> rows[i]]

SubnetRows(L) == {i \in DOMAIN L : ~ L[i].isFolder}

FolderRows(L) == {i \in DOMAIN L : L[i].isFolder}

\* Some member of S, or None.  Two rows under one key are indexed in the
\* order the API lists them, which nothing fixes; which one the index keeps is
\* therefore an arbitrary choice.
Pick(S) == IF S = {} THEN None ELSE CHOOSE i \in S : TRUE

SubnetIds(L, c) == {i \in SubnetRows(L) : L[i].cidr = c}

SubnetId(L, c) == Pick(SubnetIds(L, c))

CidrsOf(L) == {L[i].cidr : i \in SubnetRows(L)}

\* Row i is the folder at path p: a chain of folders, named as p names them,
\* leads from a folder that lies in no folder down to i.
IsFolderAt(L, i, p) ==
  \E chain \in [1 .. Len(p) -> FolderRows(L)] :
    /\ chain[Len(p)] = i
    /\ \A k \in 1 .. Len(p) : L[chain[k]].name = p[k]
    /\ L[chain[1]].masterSubnetId \notin FolderRows(L)
    /\ \A k \in 2 .. Len(p) : L[chain[k]].masterSubnetId = chain[k - 1]

FolderId(L, p) == Pick({i \in FolderRows(L) : IsFolderAt(L, i, p)})

FoldersOf(L) == {p \in FolderPath : \E i \in FolderRows(L) : IsFolderAt(L, i, p)}

FolderOf(L, id) ==
  IF \E p \in FolderPath : id \in FolderRows(L) /\ IsFolderAt(L, id, p)
  THEN CHOOSE p \in FolderPath : IsFolderAt(L, id, p)
  ELSE NoFolder

CurrentParent(L, i) ==
  IF L[i].masterSubnetId \in SubnetRows(L)
  THEN L[L[i].masterSubnetId].cidr ELSE None

-----------------------------------------------------------------------------
(***************************************************************************)
(* order_documents.  Its index is keyed by CIDR alone, so of two documents *)
(* with one CIDR in two sections only the last read, the one of the        *)
(* greater section, is ordered.                                            *)
(***************************************************************************)
Ordered(docs) ==
  {d \in docs : \A e \in docs : e.cidr = d.cidr => e.section <= d.section}

\* The least set that holds c and the parent of each of its members that has
\* a document.
Lineage(docs, c) ==
  LET Cidrs == {d.cidr : d \in docs}
      Closed(S) == \A d \in docs : (d.cidr \in S /\ d.master_subnet \in Cidrs)
                                     => d.master_subnet \in S
  IN  {x \in Cidrs : \A S \in SUBSET Cidrs : (c \in S /\ Closed(S)) => x \in S}

\* The documents are visited in string order, and a visit places the parents
\* first: a document's place is fixed by the first visit that reaches it and,
\* within that visit, by its depth.
Place(docs, c) ==
  LET Visits == {x \in {d.cidr : d \in docs} : c \in Lineage(docs, x)}
  IN  << CHOOSE x \in Visits : \A y \in Visits : x <= y,
         Cardinality(Lineage(docs, c)) >>

-----------------------------------------------------------------------------
ActionKind ==
  {"create_section", "detach_subnet", "create_folder", "create_subnet",
   "update_subnet", "reparent_subnet", "create_address", "update_address",
   "delete_address", "delete_subnet", "delete_folder"}

DeleteKind == {"delete_address", "delete_subnet", "delete_folder"}

\* Actions that concern no subnet; all others name one by its CIDR.
SubnetlessKind == {"create_section", "create_folder", "delete_folder"}

ActionRecord ==
  [kind : ActionKind, section : Section, cidr : Cidr \cup {None},
   ip : Ip \cup {None}, fields : FieldValue \cup {None},
   master_subnet : Cidr \cup {None}, folder : FolderPath \cup {NoFolder},
   rank : [1 .. 5 -> Int]]

Action ==
  {a \in ActionRecord : /\ a.cidr = None <=> a.kind \in SubnetlessKind
                        /\ a.kind = "create_folder" => a.folder # NoFolder}

Blank(kind, s, rank) ==
  [kind |-> kind, section |-> s, cidr |-> None, ip |-> None, fields |-> None,
   master_subnet |-> None, folder |-> NoFolder, rank |-> rank]

OnSubnet(kind, d, docs, phase, step, ip) ==
  LET at == Place(docs, d.cidr)
  IN  [Blank(kind, d.section, << phase, at[1], at[2], step, ip >>)
         EXCEPT !.cidr = d.cidr, !.ip = ip]

Before(a, b) ==
  \E k \in 1 .. 5 : /\ a.rank[k] < b.rank[k]
                    /\ \A j \in 1 .. (k - 1) : a.rank[j] = b.rank[j]

\* The sections the run resolves, and those of them the target lacks.
SectionsNeeded(snap) == {d.section : d \in Ordered(snap.documents)} \cup snap.sections

Unresolved(snap, sects) == {s \in SectionsNeeded(snap) : TargetOf[s] \notin sects}

SectionCreates(snap, sects) ==
  {Blank("create_section", s, << 0, s, 0, 0, 0 >>) : s \in Unresolved(snap, sects)}

\* Mutant of FolderCreates: only top-level folders are recognised.
FolderCreatesByTopLevel(snap, rows) ==
  UNION {{[Blank("create_folder", s, << 2, s, Len(p), 0, 0 >>) EXCEPT !.folder = p] :
            p \in {q \in snap.folders[s] :
                    Len(q) > 1 \/ q \notin FoldersOf(Listing(rows, TargetOf[s]))}} :
         s \in snap.sections}

FolderCreates(snap, rows) ==
  UNION {{[Blank("create_folder", s, << 2, s, Len(p), 0, 0 >>) EXCEPT !.folder = p] :
            p \in snap.folders[s] \ FoldersOf(Listing(rows, TargetOf[s]))} :
         s \in snap.sections}

\* The documents the target has no subnet for, and those it has one for.
Missing(docs, rows) ==
  {d \in docs : SubnetIds(Listing(rows, TargetOf[d.section]), d.cidr) = {}}

SubnetCreates(docs, rows) ==
  {[OnSubnet("create_subnet", d, docs, 3, 0, None) EXCEPT
      !.fields = d.fields, !.master_subnet = d.master_subnet,
      !.folder = d.parent_folder] : d \in Missing(docs, rows)}

Current(d, rows) ==
  LET L == Listing(rows, TargetOf[d.section]) IN L[SubnetId(L, d.cidr)]

SubnetUpdates(docs, rows) ==
  {[OnSubnet("update_subnet", d, docs, 3, 0, None) EXCEPT !.fields = d.fields] :
     d \in {e \in docs \ Missing(docs, rows) : e.fields # Current(e, rows).fields}}

(***************************************************************************)
(* Re-parenting.  A move into, out of or between folders is planned as one *)
(* reparent_subnet; a move between subnets as a detach_subnet, unless the  *)
(* subnet is top-level already, and a reparent_subnet.  A move under a     *)
(* subnet that neither exists nor has a document is only noted.            *)
(***************************************************************************)
CurrentFolder(d, rows) ==
  FolderOf(Listing(rows, TargetOf[d.section]), Current(d, rows).masterSubnetId)

CurrentMaster(d, rows) ==
  LET L == Listing(rows, TargetOf[d.section])
  IN  IF CurrentFolder(d, rows) # NoFolder THEN None
      ELSE CurrentParent(L, SubnetId(L, d.cidr))

\* Mutants of FolderMoves: a subnet that belongs in a folder is always moved; a
\* move out of every folder goes unnoticed.
FolderMovesAlways(docs, rows) ==
  {d \in docs \ Missing(docs, rows) : d.parent_folder # NoFolder}

FolderMovesIntoFolders(docs, rows) ==
  {d \in docs \ Missing(docs, rows) : d.parent_folder \notin {NoFolder, CurrentFolder(d, rows)}}

FolderMoves(docs, rows) ==
  {d \in docs \ Missing(docs, rows) : d.parent_folder # CurrentFolder(d, rows)}

Resolvable(d, docs, rows) ==
  \/ d.master_subnet = None
  \/ d.master_subnet \in CidrsOf(Listing(rows, TargetOf[d.section]))
  \/ \E e \in docs : e.section = d.section /\ e.cidr = d.master_subnet

\* Mutants of SubnetMoves: every subnet below another is moved; only moves under a
\* new subnet are noticed.
SubnetMovesAlways(docs, rows) ==
  {d \in docs \ Missing(docs, rows) : d.parent_folder = NoFolder /\ d.master_subnet # None}

SubnetMovesUnderNew(docs, rows) ==
  {d \in docs \ Missing(docs, rows) :
     \E e \in Missing(docs, rows) : e.section = d.section /\ e.cidr = d.master_subnet}

SubnetMoves(docs, rows) ==
  {d \in docs \ Missing(docs, rows) :
     /\ d.parent_folder = NoFolder
     /\ CurrentFolder(d, rows) = NoFolder
     /\ d.master_subnet # CurrentMaster(d, rows)
     /\ Resolvable(d, docs, rows)}

\* Mutant of Detaches: a subnet is moved in one step.
NoDetaches(docs, rows) == {}

Detaches(docs, rows) ==
  {OnSubnet("detach_subnet", d, docs, 1, 0, None) :
     d \in {e \in SubnetMoves(docs, rows) : CurrentMaster(e, rows) # None}}

Reparents(docs, rows) ==
  {[OnSubnet("reparent_subnet", d, docs, 3, 1, None) EXCEPT
      !.master_subnet = d.master_subnet, !.folder = d.parent_folder] :
     d \in FolderMoves(docs, rows) \cup SubnetMoves(docs, rows)}

(***************************************************************************)
(* Addresses.  `present` is what the target holds for the document's CIDR. *)
(***************************************************************************)
Present(d, docs, rows) ==
  IF d \in Missing(docs, rows) THEN [ip \in Ip |-> None]
  ELSE Current(d, rows).addresses

OnAddress(kind, d, docs, phase, ip) ==
  [OnSubnet(kind, d, docs, phase, 2, ip) EXCEPT !.fields = d.addresses[ip]]

AddressCreates(docs, rows) ==
  {OnAddress("create_address", p[1], docs, 3, p[2]) :
     p \in {q \in docs \X Ip : /\ q[1].addresses[q[2]] # None
                               /\ Present(q[1], docs, rows)[q[2]] = None}}

AddressUpdates(docs, rows) ==
  {OnAddress("update_address", p[1], docs, 3, p[2]) :
     p \in {q \in docs \X Ip :
              /\ q[1].addresses[q[2]] # None
              /\ Present(q[1], docs, rows)[q[2]]
                   \notin {None, q[1].addresses[q[2]]}}}

(***************************************************************************)
(* Orphans: on the target, absent from the snapshot.  The subnets of a     *)
(* section are compared only when some document of that section is         *)
(* ordered; its folders, when it has a section document.                   *)
(***************************************************************************)
AddressOrphans(docs, rows) ==
  {OnAddress("delete_address", p[1], docs, 4, p[2]) :
     p \in {q \in docs \X Ip : /\ q[1].addresses[q[2]] = None
                               /\ Present(q[1], docs, rows)[q[2]] # None}}

\* Mutant of SubnetOrphans: shallowest first.
SubnetOrphansShallowestFirst(docs, rows) ==
  UNION {{[Blank("delete_subnet", s, << 5, PrefixLen[c], s, c, 0 >>) EXCEPT !.cidr = c] :
            c \in CidrsOf(Listing(rows, TargetOf[s]))
                    \ {d.cidr : d \in {e \in docs : e.section = s}}} :
         s \in {d.section : d \in docs}}

SubnetOrphans(docs, rows) ==
  UNION {{[Blank("delete_subnet", s, << 5, - PrefixLen[c], s, c, 0 >>)
             EXCEPT !.cidr = c] :
            c \in CidrsOf(Listing(rows, TargetOf[s]))
                    \ {d.cidr : d \in {e \in docs : e.section = s}}} :
         s \in {d.section : d \in docs}}

FolderOrphans(snap, rows) ==
  UNION {{[Blank("delete_folder", s, << 6, - Len(p), s, 0, 0 >>)
             EXCEPT !.folder = p] :
            p \in FoldersOf(Listing(rows, TargetOf[s])) \ snap.folders[s]} :
         s \in snap.sections}

Deletes(snap, rows) ==
  LET docs == Ordered(snap.documents)
  IN  AddressOrphans(docs, rows) \cup SubnetOrphans(docs, rows)
        \cup FolderOrphans(snap, rows)

(***************************************************************************)
(* build_plan and _check_delete_limit.                                     *)
(***************************************************************************)
\* Mutants of Plan: orphans are deleted in an additive run, subnets or addresses.
PlanMirroringSubnets(snap, sects, rows, deleting) ==
  LET docs == Ordered(snap.documents)
  IN  SubnetCreates(docs, rows) \cup SubnetOrphans(docs, rows)

PlanMirroringAddresses(snap, sects, rows, deleting) ==
  LET docs == Ordered(snap.documents)
  IN  SubnetCreates(docs, rows) \cup AddressCreates(docs, rows) \cup AddressOrphans(docs, rows)

Plan(snap, sects, rows, deleting) ==
  LET docs == Ordered(snap.documents)
  IN  SectionCreates(snap, sects) \cup Detaches(docs, rows)
        \cup FolderCreates(snap, rows)
        \cup SubnetCreates(docs, rows) \cup SubnetUpdates(docs, rows)
        \cup Reparents(docs, rows)
        \cup AddressCreates(docs, rows) \cup AddressUpdates(docs, rows)
        \cup (IF deleting THEN Deletes(snap, rows) ELSE {})

\* The subnets and addresses of the sections in scope, one entry for each
\* source section they are in scope of; of two subnets with one CIDR only the
\* one that is indexed counts.
InScope(snap, rows) ==
  UNION {LET L == Listing(rows, TargetOf[s])
             Indexed == {SubnetId(L, c) : c \in CidrsOf(L)}
         IN  {<< s, i, None >> : i \in Indexed}
               \cup {<< s, p[1], p[2] >> :
                       p \in {q \in Indexed \X Ip :
                                L[q[1]].addresses[q[2]] # None}} :
         s \in SectionsNeeded(snap)}

Allowed(inScope) ==
  LET share == (inScope * LimitPercent) \div 100
  IN  IF share > DeleteFloor THEN share ELSE DeleteFloor

OverLimit(snap, rows) ==
  Cardinality(Deletes(snap, rows)) > Allowed(Cardinality(InScope(snap, rows)))
=============================================================================

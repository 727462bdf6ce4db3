-------------------------- MODULE TreeImport_proofs --------------------------
(***************************************************************************)
(* Theorems about the planner and the importer, for every snapshot, every  *)
(* target, every map of sections and any number of faults, edits and       *)
(* deliveries.  First what build_plan returns: a set of well-formed        *)
(* actions, of which those that write to a subnet or to an address name a  *)
(* document of the snapshot.                                               *)
(***************************************************************************)
EXTENDS TreeImport, Extremes, FiniteSetTheorems, TLAPS

(***************************************************************************)
(* Types of what a plan is made from.                                      *)
(***************************************************************************)
SnapshotOK(source) ==
  /\ source.sections \subseteq Section
  /\ source.folders \in [Section -> SUBSET FolderPath]
  /\ source.documents \subseteq Document

RowsOK(table) == table \in [DOMAIN table -> Row] /\ DOMAIN table \subseteq Nat \ {None}

\* The place of a document is a pair of integers.
LEMMA PlaceType ==
  ASSUME NEW docs, docs \subseteq Document, NEW d \in docs
  PROVE  /\ Place(docs, d.cidr)[1] \in Int
         /\ Place(docs, d.cidr)[2] \in Int
<1> DEFINE Cidrs == {e.cidr : e \in docs}
           Visits == {x \in Cidrs : d.cidr \in Lineage(docs, x)}
<1>0. Cidr \subseteq Nat
  BY PlanAssumption DEF PlanAssumption
<1>1. Cidrs \subseteq Cidr
  BY DEF Document
<1>2. Lineage(docs, d.cidr) \subseteq Cidrs
  BY DEF Lineage
<1>3. d.cidr \in Lineage(docs, d.cidr)
  BY DEF Lineage
<1>4. \E x \in Visits : \A y \in Visits : x <= y
  <2>1. Visits \subseteq Nat
    BY <1>0, <1>1
  <2>2. Visits # {}
    BY <1>3
  <2> QED BY <2>1, <2>2, LeastExists
<1>5. Place(docs, d.cidr)[1] \in Visits
  BY <1>4 DEF Place
<1>6. IsFiniteSet(Lineage(docs, d.cidr))
  BY <1>1, <1>2, FS_Subset, PlanAssumption DEF PlanAssumption
<1>7. Cardinality(Lineage(docs, d.cidr)) \in Nat
  BY <1>6, FS_CardinalityType
<1>8. Place(docs, d.cidr)[1] \in Int
  <2>1. Place(docs, d.cidr)[1] \in Cidrs
    BY <1>5
  <2>2. Place(docs, d.cidr)[1] \in Nat
    BY <1>0, <1>1, <2>1
  <2> QED BY <2>2
<1>9. Place(docs, d.cidr)[2] = Cardinality(Lineage(docs, d.cidr))
  BY DEF Place
<1> QED BY <1>7, <1>8, <1>9

(***************************************************************************)
(* Every part of the plan consists of well-formed actions.                 *)
(***************************************************************************)
\* The action that the planner makes for a subnet, before its particulars are
\* filled in.
LEMMA OnSubnetType ==
  ASSUME NEW docs \in SUBSET Document, NEW d \in docs,
         NEW kind \in ActionKind \ SubnetlessKind, NEW phase \in Int, NEW step \in Int,
         NEW ip \in Ip \cup {None}
  PROVE  /\ OnSubnet(kind, d, docs, phase, step, ip) \in Action
         /\ OnSubnet(kind, d, docs, phase, step, ip).kind = kind
         /\ OnSubnet(kind, d, docs, phase, step, ip).section = d.section
         /\ OnSubnet(kind, d, docs, phase, step, ip).cidr = d.cidr
         /\ OnSubnet(kind, d, docs, phase, step, ip).ip = ip
<1> DEFINE p1 == Place(docs, d.cidr)[1]
           p2 == Place(docs, d.cidr)[2]
           b == Blank(kind, d.section, << phase, p1, p2, step, ip >>)
           o == OnSubnet(kind, d, docs, phase, step, ip)
<1>1. ip \in Int /\ d.cidr # None
  BY PlanAssumption DEF PlanAssumption, Document, None
<1>2. p1 \in Int /\ p2 \in Int
  BY PlaceType
<1>3. << phase, p1, p2, step, ip >> \in [1 .. 5 -> Int]
  BY <1>1, <1>2
<1>4. b \in ActionRecord /\ b.kind = kind /\ b.section = d.section
  BY <1>3 DEF Blank, ActionRecord, Document
<1>5. o = [b EXCEPT !.cidr = d.cidr, !.ip = ip]
  BY DEF OnSubnet
<1>6. d.cidr \in Cidr
  BY DEF Document
<1>7. /\ o \in ActionRecord /\ o.kind = kind /\ o.section = d.section
      /\ o.cidr = d.cidr /\ o.ip = ip
  BY <1>4, <1>5, <1>6 DEF ActionRecord
<1> QED BY <1>1, <1>7 DEF Action, SubnetlessKind


(***************************************************************************)
(* Names(a, docs): one of the documents has the subnet that a writes to,   *)
(* and the address, when it is an address that a writes to.                *)
(***************************************************************************)
Names(a, docs) ==
  \E d \in docs : /\ d.section = a.section
                  /\ d.cidr = a.cidr
                  /\ a.ip # None => d.addresses[a.ip] # None

\* A set of actions, all of one kind, that write to what the documents list.
Writes(A, kind, docs) ==
  /\ A \subseteq Action
  /\ \A a \in A : a.kind = kind /\ Names(a, docs)

\* The writes to subnets.
LEMMA SubnetWrites ==
  ASSUME NEW docs \in SUBSET Document, NEW table
  PROVE  /\ Writes(SubnetCreates(docs, table), "create_subnet", docs)
         /\ Writes(SubnetUpdates(docs, table), "update_subnet", docs)
         /\ Writes(Detaches(docs, table), "detach_subnet", docs)
         /\ Writes(Reparents(docs, table), "reparent_subnet", docs)
<1>1. /\ None \in Ip \cup {None} /\ {0, 1, 3} \subseteq Int
      /\ {"create_subnet", "update_subnet", "detach_subnet", "reparent_subnet"}
           \subseteq ActionKind \ SubnetlessKind
      /\ "create_folder" \notin {"create_subnet", "update_subnet", "detach_subnet",
                                 "reparent_subnet"}
  BY DEF ActionKind, SubnetlessKind
<1>2. ASSUME NEW d \in docs, NEW a \in Action, a.section = d.section,
             a.cidr = d.cidr, a.ip = None
      PROVE  Names(a, docs)
  BY <1>2 DEF Names
<1>3. Writes(SubnetCreates(docs, table), "create_subnet", docs)
  <2> SUFFICES ASSUME NEW d \in docs
               PROVE  LET o == OnSubnet("create_subnet", d, docs, 3, 0, None)
                          a == [o EXCEPT !.fields = d.fields,
                                         !.master_subnet = d.master_subnet,
                                         !.folder = d.parent_folder]
                      IN  a \in Action /\ a.kind = "create_subnet" /\ Names(a, docs)
    BY DEF Writes, SubnetCreates, Missing
  <2> DEFINE o == OnSubnet("create_subnet", d, docs, 3, 0, None)
             a == [o EXCEPT !.fields = d.fields, !.master_subnet = d.master_subnet,
                            !.folder = d.parent_folder]
  <2>1. /\ o \in Action /\ o.kind = "create_subnet" /\ o.section = d.section
        /\ o.cidr = d.cidr /\ o.ip = None
    BY <1>1, OnSubnetType
  <2> HIDE DEF o
  <2>2. /\ a \in Action /\ a.kind = "create_subnet" /\ a.section = d.section
        /\ a.cidr = d.cidr /\ a.ip = None
    BY <2>1 DEF Action, ActionRecord, Document
  <2> QED BY <2>2, <1>2 DEF o
<1>4. Writes(SubnetUpdates(docs, table), "update_subnet", docs)
  <2> SUFFICES ASSUME NEW d \in docs
               PROVE  LET o == OnSubnet("update_subnet", d, docs, 3, 0, None)
                          a == [o EXCEPT !.fields = d.fields]
                      IN  a \in Action /\ a.kind = "update_subnet" /\ Names(a, docs)
    BY DEF Writes, SubnetUpdates, Missing
  <2> DEFINE o == OnSubnet("update_subnet", d, docs, 3, 0, None)
             a == [o EXCEPT !.fields = d.fields]
  <2>1. /\ o \in Action /\ o.kind = "update_subnet" /\ o.section = d.section
        /\ o.cidr = d.cidr /\ o.ip = None
    BY <1>1, OnSubnetType
  <2> HIDE DEF o
  <2>2. /\ a \in Action /\ a.kind = "update_subnet" /\ a.section = d.section
        /\ a.cidr = d.cidr /\ a.ip = None
    BY <2>1 DEF Action, ActionRecord, Document
  <2> QED BY <2>2, <1>2 DEF o
<1>5. Writes(Detaches(docs, table), "detach_subnet", docs)
  <2> SUFFICES ASSUME NEW d \in docs
               PROVE  LET o == OnSubnet("detach_subnet", d, docs, 1, 0, None)
                      IN  o \in Action /\ o.kind = "detach_subnet" /\ Names(o, docs)
    BY DEF Writes, Detaches, SubnetMoves, Missing
  <2> QED BY <1>1, <1>2, OnSubnetType
<1>6. Writes(Reparents(docs, table), "reparent_subnet", docs)
  <2> SUFFICES ASSUME NEW d \in docs
               PROVE  LET o == OnSubnet("reparent_subnet", d, docs, 3, 1, None)
                          a == [o EXCEPT !.master_subnet = d.master_subnet,
                                         !.folder = d.parent_folder]
                      IN  a \in Action /\ a.kind = "reparent_subnet" /\ Names(a, docs)
    BY DEF Writes, Reparents, FolderMoves, SubnetMoves, Missing
  <2> DEFINE o == OnSubnet("reparent_subnet", d, docs, 3, 1, None)
             a == [o EXCEPT !.master_subnet = d.master_subnet,
                            !.folder = d.parent_folder]
  <2>1. /\ o \in Action /\ o.kind = "reparent_subnet" /\ o.section = d.section
        /\ o.cidr = d.cidr /\ o.ip = None
    BY <1>1, OnSubnetType
  <2> HIDE DEF o
  <2>2. /\ a \in Action /\ a.kind = "reparent_subnet" /\ a.section = d.section
        /\ a.cidr = d.cidr /\ a.ip = None
    BY <2>1 DEF Action, ActionRecord, Document
  <2> QED BY <2>2, <1>2 DEF o
<1> QED BY <1>3, <1>4, <1>5, <1>6


\* The writes to addresses: created or updated, they are in the document.
LEMMA AddressWrites ==
  ASSUME NEW docs \in SUBSET Document, NEW table
  PROVE  /\ Writes(AddressCreates(docs, table), "create_address", docs)
         /\ Writes(AddressUpdates(docs, table), "update_address", docs)
<1>1. ASSUME NEW kind \in {"create_address", "update_address"},
             NEW d \in docs, NEW ip \in Ip, d.addresses[ip] # None
      PROVE  /\ OnAddress(kind, d, docs, 3, ip) \in Action
             /\ OnAddress(kind, d, docs, 3, ip).kind = kind
             /\ Names(OnAddress(kind, d, docs, 3, ip), docs)
  <2> DEFINE o == OnSubnet(kind, d, docs, 3, 2, ip)
             a == [o EXCEPT !.fields = d.addresses[ip]]
  <2>1. kind \in ActionKind \ SubnetlessKind /\ kind # "create_folder"
    BY DEF ActionKind, SubnetlessKind
  <2>2. o \in Action /\ o.kind = kind /\ o.section = d.section /\ o.cidr = d.cidr /\ o.ip = ip
    BY <2>1, OnSubnetType
  <2>3. d.addresses[ip] \in FieldValue \cup {None}
    BY DEF Document, AddressTable
  <2> HIDE DEF o
  <2>4. a \in Action /\ a.kind = kind /\ a.section = d.section /\ a.cidr = d.cidr /\ a.ip = ip
    BY <2>1, <2>2, <2>3 DEF Action, ActionRecord
  <2>5. Names(a, docs)
    BY <1>1, <2>4 DEF Names
  <2> QED BY <2>4, <2>5 DEF o, OnAddress
<1>2. Writes(AddressCreates(docs, table), "create_address", docs)
  <2> SUFFICES ASSUME NEW d \in docs, NEW ip \in Ip, d.addresses[ip] # None
               PROVE  LET a == OnAddress("create_address", d, docs, 3, ip)
                      IN  a \in Action /\ a.kind = "create_address" /\ Names(a, docs)
    BY DEF Writes, AddressCreates
  <2> QED BY <1>1
<1>3. Writes(AddressUpdates(docs, table), "update_address", docs)
  <2> SUFFICES ASSUME NEW d \in docs, NEW ip \in Ip, d.addresses[ip] # None
               PROVE  LET a == OnAddress("update_address", d, docs, 3, ip)
                      IN  a \in Action /\ a.kind = "update_address" /\ Names(a, docs)
    BY DEF Writes, AddressUpdates
  <2> QED BY <1>1
<1> QED BY <1>2, <1>3

\* The sections and folders to create, and the deletions.
LEMMA OtherActions ==
  ASSUME NEW source, SnapshotOK(source), NEW table, RowsOK(table), NEW present
  PROVE  /\ SectionCreates(source, present) \subseteq {a \in Action : a.kind = "create_section"}
         /\ FolderCreates(source, table) \subseteq {a \in Action : a.kind = "create_folder"}
         /\ Deletes(source, table) \subseteq {a \in Action : a.kind \in DeleteKind}
<1>1. /\ \A s \in Section : s \in Int
      /\ \A c \in Cidr : c \in Int /\ c # None /\ - PrefixLen[c] \in Int
      /\ \A p \in FolderPath : Len(p) \in Int /\ - Len(p) \in Int /\ p # NoFolder
      /\ None = 0 /\ None \notin Cidr
  <2>1. /\ Section \subseteq Nat /\ Cidr \subseteq Nat \ {None}
        /\ PrefixLen \in [Cidr -> 0 .. 128]
        /\ FolderPath \subseteq Seq(Nat) \ {NoFolder}
    BY PlanAssumption DEF PlanAssumption
  <2>2. \A c \in Cidr : c \in Int /\ c # None /\ - PrefixLen[c] \in Int
    <3> TAKE c \in Cidr
    <3>1. PrefixLen[c] \in 0 .. 128
      BY <2>1
    <3>2. - PrefixLen[c] \in Int
      BY <3>1
    <3>3. c \in Int /\ c # None
      BY <2>1
    <3> QED BY <3>2, <3>3
  <2>3. \A p \in FolderPath : Len(p) \in Int /\ - Len(p) \in Int /\ p # NoFolder
    BY <2>1
  <2> QED BY <2>1, <2>2, <2>3 DEF None
<1>2. \A kind \in SubnetlessKind, s \in Section, r \in [1 .. 5 -> Int] :
        /\ Blank(kind, s, r) \in ActionRecord
        /\ Blank(kind, s, r).kind = kind
        /\ Blank(kind, s, r).cidr = None
  BY DEF SubnetlessKind, ActionKind, ActionRecord, Blank, None
<1>3. /\ source.sections \subseteq Section
      /\ Ordered(source.documents) \in SUBSET Document
      /\ \A s \in source.sections : source.folders[s] \subseteq FolderPath
  BY SnapshotOK(source) DEF SnapshotOK, Ordered
<1>4. SectionCreates(source, present) \subseteq {a \in Action : a.kind = "create_section"}
  <2>1. Unresolved(source, present) \subseteq Section
    BY <1>3 DEF Unresolved, SectionsNeeded, Document
  <2>2. \A s \in Section : Blank("create_section", s, << 0, s, 0, 0, 0 >>) \in Action
    <3> TAKE s \in Section
    <3>1. << 0, s, 0, 0, 0 >> \in [1 .. 5 -> Int]
      BY <1>1
    <3> QED BY <1>2, <3>1 DEF Action, SubnetlessKind
  <2> QED BY <1>1, <1>2, <2>1, <2>2 DEF SectionCreates, Blank
<1>5. FolderCreates(source, table) \subseteq {a \in Action : a.kind = "create_folder"}
  <2> SUFFICES ASSUME NEW a \in FolderCreates(source, table)
               PROVE  a \in Action /\ a.kind = "create_folder"
    OBVIOUS
  <2> PICK s \in source.sections : \E p \in source.folders[s] :
        a = [Blank("create_folder", s, << 2, s, Len(p), 0, 0 >>) EXCEPT !.folder = p]
    BY DEF FolderCreates
  <2> PICK p \in source.folders[s] :
        a = [Blank("create_folder", s, << 2, s, Len(p), 0, 0 >>) EXCEPT !.folder = p]
    OBVIOUS
  <2> DEFINE b == Blank("create_folder", s, << 2, s, Len(p), 0, 0 >>)
  <2>1. s \in Section /\ p \in FolderPath /\ Len(p) \in Int /\ s \in Int /\ p # NoFolder
    BY <1>1, <1>3
  <2>2. b \in ActionRecord /\ b.kind = "create_folder" /\ b.cidr = None
    <3>1. << 2, s, Len(p), 0, 0 >> \in [1 .. 5 -> Int]
      BY <2>1
    <3> QED BY <1>2, <2>1, <3>1 DEF SubnetlessKind
  <2> HIDE DEF b
  <2>3. /\ [b EXCEPT !.folder = p] \in Action
        /\ [b EXCEPT !.folder = p].kind = "create_folder"
    BY <2>1, <2>2 DEF Action, ActionRecord, SubnetlessKind
  <2> QED BY <2>3 DEF b
<1>6. AddressOrphans(Ordered(source.documents), table)
        \subseteq {a \in Action : a.kind \in DeleteKind}
  <2> DEFINE docs == Ordered(source.documents)
  <2> SUFFICES ASSUME NEW x \in AddressOrphans(docs, table)
               PROVE  x \in Action /\ x.kind \in DeleteKind
    OBVIOUS
  <2> PICK d \in docs, ip \in Ip : x = OnAddress("delete_address", d, docs, 4, ip)
    BY DEF AddressOrphans
  <2> DEFINE o == OnSubnet("delete_address", d, docs, 4, 2, ip)
  <2>1. "delete_address" \in ActionKind \ SubnetlessKind
    BY DEF ActionKind, SubnetlessKind
  <2>2. o \in Action /\ o.kind = "delete_address"
    BY <1>3, <2>1, OnSubnetType
  <2>3. d.addresses[ip] \in FieldValue \cup {None}
    BY <1>3 DEF Document, AddressTable
  <2> HIDE DEF o
  <2>4. LET a == [o EXCEPT !.fields = d.addresses[ip]]
        IN  a \in Action /\ a.kind \in DeleteKind
    BY <2>2, <2>3 DEF Action, ActionRecord, DeleteKind
  <2> QED BY <2>4 DEF o, OnAddress
<1>7. SubnetOrphans(Ordered(source.documents), table)
        \subseteq {a \in Action : a.kind \in DeleteKind}
  <2> DEFINE docs == Ordered(source.documents)
  <2>1. \A t : CidrsOf(Listing(table, t)) \subseteq Cidr
    BY RowsOK(table), <1>1 DEF RowsOK, CidrsOf, SubnetRows, Listing, Row
  <2> SUFFICES ASSUME NEW x \in SubnetOrphans(docs, table)
               PROVE  x \in Action /\ x.kind \in DeleteKind
    OBVIOUS
  <2> PICK s \in {d.section : d \in docs}, c \in Cidr :
        x = [Blank("delete_subnet", s, << 5, - PrefixLen[c], s, c, 0 >>) EXCEPT !.cidr = c]
    BY <2>1 DEF SubnetOrphans
  <2> DEFINE r == << 5, - PrefixLen[c], s, c, 0 >>
             b == Blank("delete_subnet", s, r)
  <2>2. s \in Section /\ s \in Int
    BY <1>1, <1>3 DEF Document
  <2>3. r \in [1 .. 5 -> Int]
    BY <1>1, <2>2
  <2> HIDE DEF r
  <2>4. b \in ActionRecord /\ b.kind = "delete_subnet"
    BY <1>1, <2>2, <2>3 DEF Blank, ActionRecord, ActionKind
  <2> HIDE DEF b
  <2>5. LET a == [b EXCEPT !.cidr = c] IN a \in Action /\ a.kind \in DeleteKind
    BY <1>1, <2>4 DEF Action, ActionRecord, DeleteKind, SubnetlessKind
  <2> QED BY <2>5 DEF b, r
<1>8. FolderOrphans(source, table) \subseteq {a \in Action : a.kind \in DeleteKind}
  <2> SUFFICES ASSUME NEW x \in FolderOrphans(source, table)
               PROVE  x \in Action /\ x.kind \in DeleteKind
    OBVIOUS
  <2> PICK s \in source.sections, p \in FolderPath :
        x = [Blank("delete_folder", s, << 6, - Len(p), s, 0, 0 >>) EXCEPT !.folder = p]
    BY DEF FolderOrphans, FoldersOf
  <2> DEFINE b == Blank("delete_folder", s, << 6, - Len(p), s, 0, 0 >>)
  <2>1. s \in Section /\ s \in Int /\ - Len(p) \in Int
    BY <1>1, <1>3
  <2>2. b \in ActionRecord /\ b.kind = "delete_folder" /\ b.cidr = None
    <3>1. << 6, - Len(p), s, 0, 0 >> \in [1 .. 5 -> Int]
      BY <2>1
    <3> QED BY <1>2, <2>1, <3>1 DEF SubnetlessKind
  <2> HIDE DEF b
  <2>3. LET a == [b EXCEPT !.folder = p] IN a \in Action /\ a.kind \in DeleteKind
    BY <2>2 DEF Action, ActionRecord, DeleteKind, SubnetlessKind
  <2> QED BY <2>3 DEF b
<1> QED BY <1>4, <1>5, <1>6, <1>7, <1>8 DEF Deletes


\* A plan is a set of well-formed actions.  Without deletions it has no delete,
\* and each of its writes to subnets and addresses is one the snapshot names.
LEMMA PlanType ==
  ASSUME NEW source, SnapshotOK(source), NEW table, RowsOK(table), NEW present,
         NEW deleting \in BOOLEAN
  PROVE  /\ Plan(source, present, table, deleting) \subseteq Action
         /\ ~ deleting =>
              \A a \in Plan(source, present, table, deleting) :
                /\ a.kind \notin DeleteKind
                /\ a.kind \notin SubnetlessKind => Names(a, source.documents)
<1> DEFINE docs == Ordered(source.documents)
           Kept == Plan(source, present, table, FALSE)
<1>1. docs \in SUBSET Document /\ docs \subseteq source.documents
  BY SnapshotOK(source) DEF SnapshotOK, Ordered
<1>2. /\ Writes(SubnetCreates(docs, table), "create_subnet", docs)
      /\ Writes(SubnetUpdates(docs, table), "update_subnet", docs)
      /\ Writes(Detaches(docs, table), "detach_subnet", docs)
      /\ Writes(Reparents(docs, table), "reparent_subnet", docs)
      /\ Writes(AddressCreates(docs, table), "create_address", docs)
      /\ Writes(AddressUpdates(docs, table), "update_address", docs)
  BY <1>1, SubnetWrites, AddressWrites
<1>3. /\ SectionCreates(source, present) \subseteq {a \in Action : a.kind = "create_section"}
      /\ FolderCreates(source, table) \subseteq {a \in Action : a.kind = "create_folder"}
      /\ Deletes(source, table) \subseteq {a \in Action : a.kind \in DeleteKind}
  BY OtherActions, SnapshotOK(source), RowsOK(table)
<1>4. Plan(source, present, table, deleting) \subseteq Kept \cup Deletes(source, table)
  BY DEF Plan
<1>5. \A a \in Kept : /\ a \in Action
                      /\ a.kind \notin DeleteKind
                      /\ a.kind \notin SubnetlessKind => Names(a, source.documents)
  <2> SUFFICES ASSUME NEW a \in Kept
               PROVE  /\ a \in Action
                      /\ a.kind \notin DeleteKind
                      /\ a.kind \notin SubnetlessKind => Names(a, source.documents)
    OBVIOUS
  <2> HIDE DEF docs
  <2>1. CASE a \in SectionCreates(source, present) \cup FolderCreates(source, table)
    BY <1>3, <2>1 DEF DeleteKind, SubnetlessKind
  <2>2. CASE a \in SubnetCreates(docs, table) \cup SubnetUpdates(docs, table)
                     \cup Detaches(docs, table) \cup Reparents(docs, table)
                     \cup AddressCreates(docs, table) \cup AddressUpdates(docs, table)
    <3>1. a \in Action /\ Names(a, docs) /\ a.kind \notin DeleteKind
      BY <1>2, <2>2 DEF Writes, DeleteKind
    <3>2. Names(a, source.documents)
      BY <1>1, <3>1 DEF Names
    <3> QED BY <3>1, <3>2
  <2>3. a \in SectionCreates(source, present) \cup FolderCreates(source, table)
         \/ a \in SubnetCreates(docs, table) \cup SubnetUpdates(docs, table)
                     \cup Detaches(docs, table) \cup Reparents(docs, table)
                     \cup AddressCreates(docs, table) \cup AddressUpdates(docs, table)
    BY DEF Plan, docs
  <2> QED BY <2>1, <2>2, <2>3
<1>6. Plan(source, present, table, deleting) \subseteq Action
  BY <1>3, <1>4, <1>5
<1>7. ASSUME ~ deleting PROVE Plan(source, present, table, deleting) = Kept
  BY <1>7
<1> QED BY <1>5, <1>6, <1>7


(***************************************************************************)
(* The operators on tables and caches keep their types.                    *)
(***************************************************************************)
\* A listing of a section is a table.
LEMMA ListingType ==
  ASSUME NEW r, NEW n \in Nat, TableType(r, n), NEW t
  PROVE  TableType(Listing(r, t), n)
BY DEF TableType, Listing

\* A pick is a member or none.
LEMMA PickType ==
  ASSUME NEW S
  PROVE  Pick(S) \in S \cup {None}
BY DEF Pick

\* What is looked up in a table is one of its ids or none.
LEMMA LookupType ==
  ASSUME NEW L, NEW n \in Nat, TableType(L, n)
  PROVE  /\ \A c : SubnetId(L, c) \in Ids(n) \cup {None}
         /\ \A p : FolderId(L, p) \in Ids(n) \cup {None}
         /\ Ids(n) \cup {None} \subseteq Nat
<1>1. \A c : SubnetId(L, c) \in DOMAIN L \cup {None}
  BY PickType DEF SubnetId, SubnetIds, SubnetRows
<1>2. \A p : FolderId(L, p) \in DOMAIN L \cup {None}
  BY PickType DEF FolderId, FolderRows
<1> QED BY <1>1, <1>2 DEF TableType, Ids, None

\* A table stays a table when ids are given out.
LEMMA TableGrows ==
  ASSUME NEW r, NEW n \in Nat, TableType(r, n), NEW m \in Nat, n <= m
  PROVE  TableType(r, m)
<1>1. Ids(n) \subseteq Ids(m)
  BY DEF Ids
<1> QED BY <1>1 DEF TableType

\* A table with a row entered under the next id.
LEMMA TableEntry ==
  ASSUME NEW r, NEW n \in Nat \ {None}, TableType(r, n), NEW row \in Row
  PROVE  TableType(Put(r, n, row), n + 1)
<1>1. n \in Ids(n + 1) /\ Ids(n) \subseteq Ids(n + 1)
  BY DEF Ids, None
<1> QED BY <1>1 DEF TableType, Put

\* A table with one row changed.
LEMMA TableUpdate ==
  ASSUME NEW r, NEW n, TableType(r, n), NEW i \in DOMAIN r
  PROVE  /\ \A f \in FieldValue \cup {None} :
              TableType([r EXCEPT ![i].fields = f], n)
         /\ \A p \in Nat : TableType([r EXCEPT ![i].masterSubnetId = p], n)
         /\ \A ip, v : v \in FieldValue \cup {None} =>
              TableType([r EXCEPT ![i].addresses[ip] = v], n)
<1>1. r[i] \in Row
  BY DEF TableType
<1>2. \A f \in FieldValue \cup {None} : [r[i] EXCEPT !.fields = f] \in Row
  BY <1>1 DEF Row
<1>3. \A p \in Nat : [r[i] EXCEPT !.masterSubnetId = p] \in Row
  BY <1>1 DEF Row
<1>4. \A ip, v : v \in FieldValue \cup {None} =>
         [r[i] EXCEPT !.addresses = [@ EXCEPT ![ip] = v]] \in Row
  <2> SUFFICES ASSUME NEW ip, NEW v \in FieldValue \cup {None}
               PROVE  [r[i] EXCEPT !.addresses = [@ EXCEPT ![ip] = v]] \in Row
    OBVIOUS
  <2>1. r[i].addresses \in AddressTable
    BY <1>1 DEF Row
  <2>2. [r[i].addresses EXCEPT ![ip] = v] \in AddressTable
    BY <2>1 DEF AddressTable
  <2> QED BY <1>1, <2>2 DEF Row
<1>5. \A row \in Row : TableType([r EXCEPT ![i] = row], n)
  BY DEF TableType
<1> QED BY <1>2, <1>3, <1>4, <1>5

\* The cache keeps its type when ids are given out.
LEMMA CacheGrows ==
  ASSUME NEW c, NEW n \in Nat, CacheType(c, n), NEW m \in Nat, n <= m
  PROVE  CacheType(c, m)
<1>1. Ids(n) \subseteq Ids(m)
  BY DEF Ids
<1>2. \A k \in DOMAIN c.listings : TableType(c.listings[k], m)
  BY TableGrows DEF CacheType
<1> QED BY <1>1, <1>2 DEF CacheType

\* The cache keeps its type under each of the operations a handler performs on it.
LEMMA CacheOperations ==
  ASSUME NEW c, NEW n, CacheType(c, n)
  PROVE  /\ \A k \in TargetSection \X Index : \A L :
              TableType(L, n) => CacheType([c EXCEPT !.listings = Put(@, k, L)], n)
         /\ \A t : CacheType(Dropped(c, t), n)
         /\ \A t \in TargetSection, x \in Index : \A after :
              TableType(Listing(after, t), n) => CacheType(Reread(c, t, x, after), n)
         /\ \A k \in TargetSection \X Cidr, id \in Ids(n) :
              CacheType([c EXCEPT !.ids = Put(@, k, id)], n)
         /\ \A k : CacheType([c EXCEPT !.ids = Pop(@, k)], n)
         /\ \A id \in Ids(n), table \in AddressTable :
              CacheType([c EXCEPT !.addresses = Put(@, id, table)], n)
         /\ \A id : CacheType([c EXCEPT !.addresses = Pop(@, id)], n)
         /\ \A S \in SUBSET TargetSection : CacheType([c EXCEPT !.sections = S], n)
<1>1. ASSUME NEW d, CacheType(d, n), NEW k \in TargetSection \X Index, NEW L, TableType(L, n)
      PROVE  CacheType([d EXCEPT !.listings = Put(@, k, L)], n)
  BY <1>1 DEF CacheType, Put
<1>2. ASSUME NEW t PROVE CacheType(Dropped(c, t), n)
  BY DEF CacheType, Dropped
<1>8. ASSUME NEW t \in TargetSection, NEW x \in Index, NEW after,
             TableType(Listing(after, t), n)
      PROVE  CacheType(Reread(c, t, x, after), n)
  BY <1>1, <1>2, <1>8 DEF Reread
<1>3. ASSUME NEW k \in TargetSection \X Cidr, NEW id \in Ids(n)
      PROVE  CacheType([c EXCEPT !.ids = Put(@, k, id)], n)
  BY DEF CacheType, Put
<1>4. ASSUME NEW k PROVE CacheType([c EXCEPT !.ids = Pop(@, k)], n)
  BY DEF CacheType, Pop
<1>5. ASSUME NEW id \in Ids(n), NEW table \in AddressTable
      PROVE  CacheType([c EXCEPT !.addresses = Put(@, id, table)], n)
  BY DEF CacheType, Put
<1>6. ASSUME NEW id PROVE CacheType([c EXCEPT !.addresses = Pop(@, id)], n)
  BY DEF CacheType, Pop
<1>7. ASSUME NEW S \in SUBSET TargetSection PROVE CacheType([c EXCEPT !.sections = S], n)
  BY DEF CacheType
<1> QED BY <1>1, <1>2, <1>3, <1>4, <1>5, <1>6, <1>7, <1>8

(***************************************************************************)
(* What a handler sees has the right type.                                 *)
(***************************************************************************)
\* The section and the key of an action.
LEMMA ActionFacts ==
  ASSUME NEW a \in Action
  PROVE  /\ T(a) \in TargetSection
         /\ a.fields \in FieldValue \cup {None}
         /\ a.kind \notin SubnetlessKind => a.cidr \in Cidr /\ Key(a) \in TargetSection \X Cidr
         /\ a.kind = "create_folder" => a.folder \in FolderPath
<1>1. TargetOf \in [Section -> TargetSection]
  BY PlanAssumption DEF PlanAssumption
<1>2. a.section \in Section /\ T(a) \in TargetSection
  BY <1>1 DEF T, Action, ActionRecord
<1> QED BY <1>2 DEF Key, Action, ActionRecord

\* What a handler looks up, and the caches after its lookups.
LEMMA Seen ==
  ASSUME TypeOK, NEW a \in Action
  PROVE  /\ target.nextId \in Nat \ {None}
         /\ TableType(rows, target.nextId)
         /\ \A x \in Index : TableType(Listed(T(a), x), target.nextId)
         /\ \A x \in Index : CacheType(Looked(cache, a, x), target.nextId)
         /\ CacheType(ParentLooked(cache, a), target.nextId)
         /\ KnownId(a) \in Ids(target.nextId) \cup {None}
         /\ a.kind \notin SubnetlessKind => CacheType(Resolved(a), target.nextId)
         /\ (a.kind \notin SubnetlessKind /\ KnownId(a) # None) =>
              CacheType(WithAddresses(a), target.nextId)
         /\ a.kind \notin SubnetlessKind =>
              CacheType(ParentLooked(Resolved(a), a), target.nextId)
<1> DEFINE n == target.nextId
<1>1. /\ n \in Nat \ {None} /\ n \in Nat
      /\ TableType(rows, n)
      /\ CacheType(cache, n)
  BY DEF TypeOK, TargetType, rows
<1>2. T(a) \in TargetSection
  BY ActionFacts
<1>3. \A x \in Index : TableType(Listed(T(a), x), n)
  BY <1>1, ListingType DEF Listed, CacheType
<1>4. ASSUME NEW c, CacheType(c, n)
      PROVE  /\ \A x \in Index : CacheType(Looked(c, a, x), n)
             /\ CacheType(ParentLooked(c, a), n)
  <2>1. ASSUME NEW x \in Index PROVE CacheType(Looked(c, a, x), n)
    BY <1>2, <1>3, <1>4, CacheOperations DEF Looked
  <2> QED BY <1>4, <2>1 DEF ParentLooked, Index
<1>5. KnownId(a) \in Ids(n) \cup {None}
  <2>1. Key(a) \in DOMAIN cache.ids => cache.ids[Key(a)] \in Ids(n)
    BY <1>1 DEF CacheType
  <2>2. SubnetId(Listed(T(a), "subnets"), a.cidr) \in Ids(n) \cup {None}
    BY <1>1, <1>3, LookupType DEF Index
  <2> QED BY <2>1, <2>2 DEF KnownId
<1>6. ASSUME a.kind \notin SubnetlessKind PROVE CacheType(Resolved(a), n)
  <2>1. Key(a) \in TargetSection \X Cidr
    BY <1>6, ActionFacts
  <2>2. CacheType(Looked(cache, a, "subnets"), n)
    BY <1>1, <1>4 DEF Index
  <2>3. KnownId(a) # None =>
          CacheType([Looked(cache, a, "subnets") EXCEPT !.ids = Put(@, Key(a), KnownId(a))], n)
    BY <1>5, <2>1, <2>2, CacheOperations
  <2> QED BY <1>1, <2>2, <2>3 DEF Resolved
<1>7. ASSUME a.kind \notin SubnetlessKind, KnownId(a) # None
      PROVE  CacheType(WithAddresses(a), n)
  <2>1. AddressesListed(KnownId(a)) \in AddressTable
    BY <1>1 DEF AddressesListed, CacheType, TableType, Row, NoAddresses, AddressTable
  <2> QED BY <1>5, <1>6, <1>7, <2>1, CacheOperations DEF WithAddresses
<1> QED BY <1>1, <1>3, <1>4, <1>5, <1>6, <1>7

(***************************************************************************)
(* What a write makes of the target has the right type, and so have the    *)
(* caches afterwards.  Grown(after, fresh) says both.                      *)
(***************************************************************************)
Grown(after, fresh) ==
  /\ TargetType(after)
  /\ after.nextId >= target.nextId
  /\ CacheType(fresh, after.nextId)

\* The target after a row was entered, changed or taken out.
LEMMA TargetOperations ==
  ASSUME TargetType(target)
  PROVE  /\ \A row \in Row : TargetType(Created(row)) /\ Created(row).nextId = target.nextId + 1
         /\ \A r : TableType(r, target.nextId) =>
              /\ TargetType([target EXCEPT !.rows = r])
              /\ [target EXCEPT !.rows = r].nextId = target.nextId
         /\ \A id : TargetType(Deleted(id)) /\ Deleted(id).nextId = target.nextId
         /\ \A S \in SUBSET TargetSection :
              /\ TargetType([target EXCEPT !.sects = S])
              /\ [target EXCEPT !.sects = S].sects = S
              /\ [target EXCEPT !.sects = S].nextId = target.nextId
<1>1. /\ target \in [sects : SUBSET TargetSection, rows : {rows}, nextId : Nat \ {None}]
      /\ TableType(rows, target.nextId)
  BY DEF TargetType, rows
<1>2. ASSUME NEW row \in Row
      PROVE  TargetType(Created(row)) /\ Created(row).nextId = target.nextId + 1
  <2>1. TableType(Put(rows, target.nextId, row), target.nextId + 1)
    BY <1>1, TableEntry
  <2>2. /\ Created(row) \in [sects : SUBSET TargetSection,
                             rows : {Put(rows, target.nextId, row)}, nextId : Nat \ {None}]
        /\ Created(row).nextId = target.nextId + 1
    <3> DEFINE r == Put(rows, target.nextId, row)
    <3>1. Created(row) = [target EXCEPT !.rows = r, !.nextId = target.nextId + 1]
      BY DEF Created, rows
    <3>2. target.nextId + 1 \in Nat \ {None}
      BY <1>1 DEF None
    <3> HIDE DEF r
    <3>3. /\ Created(row) \in [sects : SUBSET TargetSection, rows : {r}, nextId : Nat \ {None}]
          /\ Created(row).rows = r
          /\ Created(row).nextId = target.nextId + 1
      BY <1>1, <3>1, <3>2
    <3> QED BY <3>3 DEF r
  <2> QED BY <2>1, <2>2 DEF TargetType
<1>3. ASSUME NEW r, TableType(r, target.nextId)
      PROVE  /\ TargetType([target EXCEPT !.rows = r])
             /\ [target EXCEPT !.rows = r].nextId = target.nextId
  BY <1>1, <1>3 DEF TargetType
<1>4. ASSUME NEW id
      PROVE  TargetType(Deleted(id)) /\ Deleted(id).nextId = target.nextId
  <2>1. TableType(RowsWithout(id), target.nextId)
    BY <1>1 DEF TableType, RowsWithout
  <2> QED BY <1>3, <2>1 DEF Deleted
<1>5. ASSUME NEW S \in SUBSET TargetSection
      PROVE  /\ TargetType([target EXCEPT !.sects = S])
             /\ [target EXCEPT !.sects = S].sects = S
             /\ [target EXCEPT !.sects = S].nextId = target.nextId
  BY <1>1 DEF TargetType, rows
<1> QED BY <1>2, <1>3, <1>4, <1>5

\* The deletion of a folder ends without a write or with the one that deletes it,
\* and only of a folder found empty with that one carried out.
LEMMA FolderDeletion ==
  ASSUME NEW a, DoDeleteFolder(a)
  PROVE  /\ \/ Done(a, Looked(cache, a, "folders"))
            \/ Write(a, FoundFolder(a) \in DOMAIN rows, Deleted(FoundFolder(a)),
                     Looked(cache, a, "folders"), Dropped(Looked(cache, a, "folders"), T(a)))
         /\ target' = target \/ a \in foundEmpty
<1> DEFINE looked == Looked(cache, a, "folders")
           id == FoundFolder(a)
<1>1. CASE a \notin foundEmpty /\ Done(a, looked)
  BY <1>1 DEF Done, LookupLost
<1>2. CASE a \notin foundEmpty /\ Lost(a) /\ cache' \in {cache, looked} /\ UNCHANGED target
  <2> HIDE DEF looked, id
  <2>1. ASSUME NEW after, NEW fresh, NEW accepted PROVE Write(a, accepted, after, looked, fresh)
    BY <1>2 DEF Write, WriteAndConfirm, LookupLost
  <2> QED BY <1>2, <2>1 DEF looked
<1>3. CASE a \in foundEmpty /\ Write(a, id \in DOMAIN rows, Deleted(id), looked,
                                    Dropped(looked, T(a)))
  BY <1>3
<1> QED BY <1>1, <1>2, <1>3 DEF DoDeleteFolder

\* The ways a handler ends.
LEMMA Endings ==
  ASSUME TypeOK, NEW a \in pending, NEW looked, CacheType(looked, target.nextId)
  PROVE  /\ Done(a, looked) => TypeOK'
         /\ \A why \in Why : Fail(a, why, looked) => TypeOK'
         /\ \A after, dropped, fresh, confirmed, accepted :
              /\ accepted => Grown(after, fresh) /\ (dropped = looked \/ Grown(after, dropped))
              /\ WriteAndConfirm(a, accepted, after, looked, dropped, fresh, confirmed)
              => TypeOK'
         /\ \A after, fresh, accepted :
              (accepted => Grown(after, fresh)) /\ Write(a, accepted, after, looked, fresh)
              => TypeOK'
<1> USE DEF TypeOK
<1>1. a \in Action /\ pending \ {a} \subseteq Action
  OBVIOUS
<1>2. \A why \in Why : errors \cup {[action |-> a, why |-> why]} \subseteq Error
  BY <1>1 DEF Error
<1>6. /\ MaxFaults \in Nat /\ faults \in 0 .. MaxFaults
      /\ Lost(a) => faults' \in 0 .. MaxFaults
  BY ImportAssumption DEF ImportAssumption, Lost
<1>9. target.nextId \in Nat /\ target.nextId >= target.nextId
  BY DEF TargetType
<1>8. Taken(a) => /\ foundEmpty' \subseteq Action
                  /\ target'.nextId >= target.nextId /\ TargetType(target') =>
                       renumbered' \cup filed' \subseteq Ids(target'.nextId)
  <2> SUFFICES ASSUME Taken(a), target'.nextId >= target.nextId, TargetType(target')
               PROVE  renumbered' \cup filed' \subseteq Ids(target'.nextId)
    BY DEF Taken
  <2>1. target'.nextId \in Nat
    BY DEF TargetType
  <2>2. Ids(target.nextId) \subseteq Ids(target'.nextId)
    BY <1>9, <2>1 DEF Ids
  <2>3. renumbered' = renumbered /\ filed' = {}
    BY DEF Taken
  <2> QED BY <2>2, <2>3
<1>7. LookupLost(a, looked) => TypeOK'
  <2>1. LookupLost(a, looked) => pending' \subseteq Action /\ errors' \subseteq Error
    BY <1>1, <1>2 DEF LookupLost, Lost, Taken, Recorded, Why
  <2>2. LookupLost(a, looked) => Taken(a) /\ target' = target
    BY DEF LookupLost, Lost
  <2> QED BY <1>6, <1>8, <1>9, <2>1, <2>2 DEF LookupLost, Lost, Taken
<1>3. Done(a, looked) => TypeOK'
  BY <1>1, <1>7, <1>8, <1>9 DEF Done, Taken
<1>4. ASSUME NEW why \in Why, Fail(a, why, looked)
      PROVE  TypeOK'
  <2>1. CASE LookupLost(a, looked)
    BY <1>7, <2>1
  <2>2. CASE ~ LookupLost(a, looked)
    BY <1>1, <1>2, <1>4, <1>8, <1>9, <2>2 DEF Fail, Taken, Recorded
  <2> QED BY <2>1, <2>2
<1>5. ASSUME NEW after, NEW dropped, NEW fresh, NEW confirmed, NEW accepted,
             accepted => Grown(after, fresh) /\ (dropped = looked \/ Grown(after, dropped)),
             WriteAndConfirm(a, accepted, after, looked, dropped, fresh, confirmed)
      PROVE  TypeOK'
  <2>1. /\ pending' \subseteq Action
        /\ UNCHANGED << snap, mode, running, outcome, edits, arrivals >>
        /\ Taken(a)
    BY <1>1, <1>5 DEF WriteAndConfirm, LookupLost, Lost, Taken
  <2>2. errors' \subseteq Error
    BY <1>2, <1>5 DEF WriteAndConfirm, LookupLost, Lost, Recorded, Why
  <2>3. faults' \in 0 .. MaxFaults
    BY <1>5, <1>6 DEF WriteAndConfirm, LookupLost
  <2>4. target.nextId \in Nat
    BY DEF TargetType
  <2>5. /\ TargetType(target') /\ CacheType(cache', target'.nextId)
        /\ target'.nextId >= target.nextId
    <3>1. CASE accepted /\ target' = after /\ cache' = fresh
      BY <1>5, <3>1 DEF Grown
    <3>2. CASE target' = target /\ cache' \in {looked, cache}
      BY <1>9, <3>2
    <3>3. CASE accepted /\ target' = after /\ cache' = looked
      <4>1. TargetType(after) /\ after.nextId >= target.nextId
        BY <1>5, <3>3 DEF Grown
      <4>2. after.nextId \in Nat
        BY <4>1 DEF TargetType
      <4> QED BY <2>4, <3>3, <4>1, <4>2, CacheGrows
    <3>4. CASE accepted /\ target' = after /\ cache' = dropped
      <4>1. CASE dropped = looked
        BY <3>3, <3>4, <4>1
      <4>2. CASE Grown(after, dropped)
        BY <3>4, <4>2 DEF Grown
      <4> QED BY <1>5, <3>4, <4>1, <4>2
    <3> QED BY <1>5, <3>1, <3>2, <3>3, <3>4 DEF WriteAndConfirm, LookupLost
  <2> QED BY <1>8, <2>1, <2>2, <2>3, <2>5
<1> QED BY <1>3, <1>4, <1>5 DEF Write

\* A row entered, with the indexes dropped and one of them read afresh.
LEMMA EntryGrows ==
  ASSUME TypeOK, NEW a \in Action, NEW row \in Row, NEW c, CacheType(c, target.nextId)
  PROVE  /\ Grown(Created(row), Dropped(c, T(a)))
         /\ \A x \in Index : Grown(Created(row), Reread(c, T(a), x, Created(row).rows))
<1> DEFINE after == Created(row)
<1>1. /\ TargetType(after) /\ after.nextId = target.nextId + 1
      /\ target.nextId \in Nat /\ after.nextId \in Nat
  BY TargetOperations, Seen DEF TypeOK
<1>2. CacheType(c, after.nextId)
  BY <1>1, CacheGrows
<1>3. TableType(Listing(after.rows, T(a)), after.nextId)
  BY <1>1, ListingType DEF TargetType
<1>4. /\ CacheType(Dropped(c, T(a)), after.nextId)
      /\ \A x \in Index : CacheType(Reread(c, T(a), x, after.rows), after.nextId)
  BY <1>2, <1>3, ActionFacts, CacheOperations
<1> HIDE DEF after
<1>5. after.nextId >= target.nextId
  BY <1>1
<1> QED BY <1>1, <1>4, <1>5 DEF Grown, after

\* A row changed in place.
LEMMA UpdateGrows ==
  ASSUME TypeOK, NEW id \in DOMAIN rows, NEW fresh, CacheType(fresh, target.nextId)
  PROVE  /\ \A f \in FieldValue \cup {None} :
              Grown([target EXCEPT !.rows[id].fields = f], fresh)
         /\ \A p \in Nat : Grown([target EXCEPT !.rows[id].masterSubnetId = p], fresh)
         /\ \A ip, v : v \in FieldValue \cup {None} =>
              Grown([target EXCEPT !.rows[id].addresses[ip] = v], fresh)
<1>1. TargetType(target) /\ TableType(target.rows, target.nextId) /\ id \in DOMAIN target.rows
      /\ target.nextId \in Nat
  BY DEF TypeOK, TargetType, rows
<1>2. \A r : TableType(r, target.nextId) => Grown([target EXCEPT !.rows = r], fresh)
  BY <1>1, TargetOperations DEF Grown
<1>3. /\ \A f \in FieldValue \cup {None} :
            TableType([target.rows EXCEPT ![id].fields = f], target.nextId)
      /\ \A p \in Nat : TableType([target.rows EXCEPT ![id].masterSubnetId = p], target.nextId)
      /\ \A ip, v : v \in FieldValue \cup {None} =>
           TableType([target.rows EXCEPT ![id].addresses[ip] = v], target.nextId)
  BY <1>1, TableUpdate
<1> QED BY <1>2, <1>3

\* Every handler keeps the types.
LEMMA HandlersKeepTypes ==
  ASSUME TypeOK, NEW a \in pending, Handle(a)
  PROVE  TypeOK'
<1> DEFINE n == target.nextId
<1>1. a \in Action
  BY DEF TypeOK
<1>2. /\ n \in Nat \ {None} /\ n \in Nat /\ T(a) \in TargetSection
      /\ TargetType(target) /\ CacheType(cache, n)
      /\ TableType(rows, n) /\ \A x \in Index : TableType(Listed(T(a), x), n)
      /\ \A x \in Index : CacheType(Looked(cache, a, x), n)
      /\ CacheType(ParentLooked(cache, a), n)
      /\ a.kind \notin SubnetlessKind => CacheType(ParentLooked(Resolved(a), a), n)
      /\ KnownId(a) \in Ids(n) \cup {None}
      /\ a.kind \notin SubnetlessKind => CacheType(Resolved(a), n)
      /\ (a.kind \notin SubnetlessKind /\ KnownId(a) # None) => CacheType(WithAddresses(a), n)
      /\ a.fields \in FieldValue \cup {None}
      /\ a.kind \notin SubnetlessKind => a.cidr \in Cidr
      /\ {"unresolved", "vanished"} \subseteq Why
      /\ "subnets" \in Index /\ "folders" \in Index
  BY <1>1, Seen, ActionFacts DEF TypeOK, Why, Index
<1>3. WantedParent(a) \in Nat
  BY <1>2, LookupType DEF WantedParent, None
<1>5. CASE DoWithoutSection(a)
  BY <1>2, <1>5, Endings DEF DoWithoutSection
<1>6. CASE DoCreateSection(a)
  <2> DEFINE S == sects \cup {T(a)}
             after == [target EXCEPT !.sects = S]
             fresh == [cache EXCEPT !.sections = S]
  <2>1. S \in SUBSET TargetSection
    BY <1>2 DEF TargetType, sects
  <2>2. TargetType(after) /\ after.nextId = n /\ after.sects = S
    BY <1>2, <2>1, TargetOperations
  <2>3. Grown(after, fresh)
    BY <1>2, <2>1, <2>2, CacheOperations DEF Grown
  <2>4. WriteAndConfirm(a, T(a) \notin sects, after, cache, fresh, fresh, TRUE)
    <3>1. [target EXCEPT !.sects = @ \cup {T(a)}] = after
      BY DEF sects
    <3> HIDE DEF after, S
    <3> QED BY <1>6, <2>2, <3>1 DEF DoCreateSection
  <2> QED BY <1>2, <2>3, <2>4, Endings
<1>7. CASE DoCreateFolder(a)
  <2> DEFINE p == a.folder
             parent == IF Len(p) > 1
                       THEN FolderId(Listed(T(a), "folders"), SubSeq(p, 1, Len(p) - 1))
                       ELSE None
             row == FolderRow(T(a), p[Len(p)], parent)
             looked == IF Len(p) > 1 THEN Looked(cache, a, "folders") ELSE cache
             reread == Reread(looked, T(a), "folders", Created(row).rows)
  <2>1. p \in FolderPath /\ FolderPath \subseteq Seq(Nat) \ {<< >>}
    BY <1>1, <1>7, ActionFacts, PlanAssumption DEF DoCreateFolder, On, PlanAssumption, NoFolder
  <2>2. p[Len(p)] \in Nat
    BY <2>1
  <2>3. parent \in Nat
    BY <1>2, LookupType DEF None
  <2> HIDE DEF parent
  <2>4. row \in Row
    BY <1>2, <2>2, <2>3 DEF FolderRow, Row, AddressTable, NoAddresses
  <2> HIDE DEF row
  <2>5. CacheType(looked, n)
    BY <1>2
  <2> HIDE DEF looked
  <2>6. Grown(Created(row), Dropped(looked, T(a))) /\ Grown(Created(row), reread)
    BY <1>1, <1>2, <2>4, <2>5, EntryGrows
  <2> HIDE DEF reread
  <2>7. Fail(a, "unresolved", looked)
        \/ WriteAndConfirm(a, AcceptsFolder(parent), Created(row), looked,
                           Dropped(looked, T(a)), reread, TRUE)
    BY <1>7 DEF DoCreateFolder, row, parent, looked, reread
  <2> QED BY <1>2, <2>5, <2>6, <2>7, Endings
<1>8. CASE DoCreateSubnet(a)
  <2> DEFINE row == SubnetRow(T(a), a.cidr, WantedParent(a), a.fields)
             looked == ParentLooked(cache, a)
             reread == Reread(looked, T(a), "subnets", Created(row).rows)
  <2>1. a.cidr \in Cidr /\ a.cidr # None
    BY <1>2, <1>8, PlanAssumption
       DEF DoCreateSubnet, On, SubnetlessKind, PlanAssumption
  <2>2. row \in Row
    BY <1>2, <1>3, <2>1 DEF SubnetRow, Row, AddressTable, NoAddresses, None
  <2> HIDE DEF row
  <2>3. CacheType(looked, n)
    BY <1>2
  <2> HIDE DEF looked
  <2>4. Grown(Created(row), Dropped(looked, T(a))) /\ Grown(Created(row), reread)
    BY <1>1, <1>2, <2>2, <2>3, EntryGrows
  <2> HIDE DEF reread
  <2>5. WriteAndConfirm(a, AcceptsSubnet(T(a), a.cidr, WantedParent(a)), Created(row),
                        looked, Dropped(looked, T(a)), reread, TRUE)
    BY <1>8 DEF DoCreateSubnet, row, looked, reread
  <2> QED BY <1>2, <2>3, <2>4, <2>5, Endings
<1>9. CASE DoUpdateSubnet(a)
  <2>1. CacheType(Resolved(a), n)
    BY <1>2, <1>9 DEF DoUpdateSubnet, On, SubnetlessKind
  <2>2. Fail(a, "unresolved", Resolved(a))
        \/ Write(a, KnownId(a) \in DOMAIN rows,
                           [target EXCEPT !.rows[KnownId(a)].fields = a.fields],
                           Resolved(a), Resolved(a))
    BY <1>9 DEF DoUpdateSubnet
  <2>3. KnownId(a) \in DOMAIN rows =>
          Grown([target EXCEPT !.rows[KnownId(a)].fields = a.fields], Resolved(a))
    BY <1>2, <2>1, UpdateGrows
  <2> QED BY <1>2, <2>1, <2>2, <2>3, Endings
<1>10. CASE DoDetachSubnet(a)
  <2>1. CacheType(Resolved(a), n)
    BY <1>2, <1>10 DEF DoDetachSubnet, On, SubnetlessKind
  <2>2. CacheType(Dropped(Resolved(a), T(a)), n)
    BY <2>1, CacheOperations
  <2>3. None \in Nat
    BY DEF None
  <2>4. Fail(a, "unresolved", Resolved(a))
        \/ Write(a, KnownId(a) \in DOMAIN rows,
                           [target EXCEPT !.rows[KnownId(a)].masterSubnetId = None],
                           Resolved(a), Dropped(Resolved(a), T(a)))
    BY <1>10 DEF DoDetachSubnet
  <2>5. KnownId(a) \in DOMAIN rows =>
          Grown([target EXCEPT !.rows[KnownId(a)].masterSubnetId = None], Dropped(Resolved(a), T(a)))
    BY <2>2, <2>3, UpdateGrows
  <2> QED BY <1>2, <2>1, <2>2, <2>3, <2>4, <2>5, Endings
<1>11. CASE DoReparentSubnet(a)
  <2> DEFINE looked == ParentLooked(Resolved(a), a)
  <2>1. CacheType(Resolved(a), n)
    BY <1>2, <1>11 DEF DoReparentSubnet, On, SubnetlessKind
  <2>2. CacheType(looked, n)
    BY <1>2, <1>11 DEF DoReparentSubnet, On, SubnetlessKind
  <2> HIDE DEF looked
  <2>3. CacheType(Dropped(looked, T(a)), n)
    BY <2>2, CacheOperations
  <2>4. \/ Fail(a, "unresolved", Resolved(a))
        \/ Done(a, looked)
        \/ Write(a, KnownId(a) \in DOMAIN rows,
                           [target EXCEPT !.rows[KnownId(a)].masterSubnetId = WantedParent(a)],
                           looked, Dropped(looked, T(a)))
    BY <1>11 DEF DoReparentSubnet, looked
  <2>5. KnownId(a) \in DOMAIN rows =>
          Grown([target EXCEPT !.rows[KnownId(a)].masterSubnetId = WantedParent(a)], Dropped(looked, T(a)))
    BY <1>3, <2>3, UpdateGrows
  <2> QED BY <1>2, <1>3, <2>1, <2>2, <2>3, <2>4, <2>5, Endings
<1>12. CASE DoCreateAddress(a)
  <2> DEFINE fresh == [Resolved(a) EXCEPT !.addresses = Pop(@, KnownId(a))]
  <2>1. CacheType(Resolved(a), n)
    BY <1>2, <1>12 DEF DoCreateAddress, On, SubnetlessKind
  <2>2. CacheType(fresh, n)
    BY <2>1, CacheOperations
  <2> HIDE DEF fresh
  <2>3. \/ Fail(a, "unresolved", Resolved(a))
        \/ Write(a, KnownId(a) \in DOMAIN rows
                                /\ rows[KnownId(a)].addresses[a.ip] = None,
                           [target EXCEPT !.rows[KnownId(a)].addresses[a.ip] = a.fields],
                           Resolved(a), fresh)
    BY <1>12 DEF DoCreateAddress, fresh
  <2>4. KnownId(a) \in DOMAIN rows =>
          Grown([target EXCEPT !.rows[KnownId(a)].addresses[a.ip] = a.fields], fresh)
    BY <1>2, <2>2, UpdateGrows
  <2> QED BY <1>2, <2>1, <2>2, <2>3, <2>4, Endings
<1>13. CASE DoUpdateAddress(a)
  <2>1. CacheType(Resolved(a), n)
    BY <1>2, <1>13 DEF DoUpdateAddress, On, SubnetlessKind
  <2>2. KnownId(a) # None => CacheType(WithAddresses(a), n)
    BY <1>2, <1>13 DEF DoUpdateAddress, On, SubnetlessKind
  <2>3. \/ Fail(a, "unresolved", Resolved(a))
        \/ KnownId(a) # None /\ Fail(a, "vanished", WithAddresses(a))
        \/ /\ KnownId(a) # None
           /\ Write(a, KnownId(a) \in DOMAIN rows
                                   /\ rows[KnownId(a)].addresses[a.ip] # None,
                              [target EXCEPT !.rows[KnownId(a)].addresses[a.ip] = a.fields],
                              WithAddresses(a), WithAddresses(a))
    BY <1>13 DEF DoUpdateAddress
  <2>4. KnownId(a) # None /\ KnownId(a) \in DOMAIN rows =>
          Grown([target EXCEPT !.rows[KnownId(a)].addresses[a.ip] = a.fields], WithAddresses(a))
    BY <1>2, <2>2, UpdateGrows
  <2> QED BY <1>2, <2>1, <2>2, <2>3, <2>4, Endings
<1>14. CASE DoDeleteAddress(a)
  <2> DEFINE fresh == [WithAddresses(a) EXCEPT !.addresses = Pop(@, KnownId(a))]
  <2>1. CacheType(Resolved(a), n)
    BY <1>2, <1>14 DEF DoDeleteAddress, On, SubnetlessKind
  <2>2. KnownId(a) # None => CacheType(WithAddresses(a), n) /\ CacheType(fresh, n)
    BY <1>2, <1>14, CacheOperations DEF DoDeleteAddress, On, SubnetlessKind
  <2> HIDE DEF fresh
  <2>3. None \in FieldValue \cup {None}
    OBVIOUS
  <2>4. \/ Fail(a, "unresolved", Resolved(a))
        \/ KnownId(a) # None /\ Done(a, WithAddresses(a))
        \/ /\ KnownId(a) # None
           /\ Write(a, KnownId(a) \in DOMAIN rows
                                   /\ rows[KnownId(a)].addresses[a.ip] # None,
                              [target EXCEPT !.rows[KnownId(a)].addresses[a.ip] = None],
                              WithAddresses(a), fresh)
    BY <1>14 DEF DoDeleteAddress, fresh
  <2>5. KnownId(a) # None /\ KnownId(a) \in DOMAIN rows =>
          Grown([target EXCEPT !.rows[KnownId(a)].addresses[a.ip] = None], fresh)
    BY <2>2, <2>3, UpdateGrows
  <2> QED BY <1>2, <2>1, <2>2, <2>3, <2>4, <2>5, Endings
<1>15. CASE DoDeleteSubnet(a)
  <2> DEFINE id == SubnetId(Listed(T(a), "subnets"), a.cidr)
             after == Deleted(id)
             looked == Looked(cache, a, "subnets")
             unread == [looked EXCEPT !.addresses = Pop(@, id)]
             popped == [looked EXCEPT !.addresses = Pop(@, id), !.ids = Pop(@, Key(a))]
             reread == Reread(popped, T(a), "subnets", after.rows)
             gone == SubnetIds(Listing(after.rows, T(a)), a.cidr) = {}
  <2>1. TargetType(after) /\ after.nextId = n
    BY <1>2, TargetOperations
  <2>2. TableType(Listing(after.rows, T(a)), n)
    BY <1>2, <2>1, ListingType DEF TargetType
  <2>3. CacheType(looked, n)
    BY <1>2
  <2> HIDE DEF looked
  <2>4. CacheType(unread, n)
    BY <2>3, CacheOperations
  <2>5. CacheType(popped, n)
    <3>1. popped = [unread EXCEPT !.ids = Pop(@, Key(a))]
      BY <2>3 DEF CacheType
    <3> HIDE DEF popped, unread
    <3> QED BY <2>4, <3>1, CacheOperations
  <2> HIDE DEF popped, after
  <2>6. CacheType(Dropped(popped, T(a)), n) /\ CacheType(reread, n)
    BY <1>2, <2>2, <2>5, CacheOperations
  <2> HIDE DEF reread
  <2>7. Grown(after, Dropped(popped, T(a))) /\ Grown(after, reread)
    BY <1>2, <2>1, <2>6 DEF Grown
  <2> HIDE DEF gone
  <2>8. \/ Done(a, looked)
        \/ WriteAndConfirm(a, id \in DOMAIN rows, after, looked, Dropped(popped, T(a)),
                           reread, gone)
    BY <1>15 DEF DoDeleteSubnet, after, looked, popped, reread, gone
  <2> QED BY <1>2, <2>3, <2>7, <2>8, Endings
<1>16. CASE DoDeleteFolder(a)
  <2> DEFINE id == FoundFolder(a)
  <2>1. TargetType(Deleted(id)) /\ Deleted(id).nextId = n
    BY <1>2, TargetOperations
  <2>2. CacheType(Dropped(Looked(cache, a, "folders"), T(a)), n)
    BY <1>2, CacheOperations
  <2>3. Grown(Deleted(id), Dropped(Looked(cache, a, "folders"), T(a)))
    BY <1>2, <2>1, <2>2 DEF Grown
  <2>4. \/ Done(a, Looked(cache, a, "folders"))
        \/ Write(a, id \in DOMAIN rows, Deleted(id), Looked(cache, a, "folders"),
                           Dropped(Looked(cache, a, "folders"), T(a)))
    BY <1>16, FolderDeletion
  <2> QED BY <1>2, <2>3, <2>4, Endings
<1> QED BY <1>5, <1>6, <1>7, <1>8, <1>9, <1>10, <1>11, <1>12, <1>13, <1>14, <1>15, <1>16
        DEF Handle

(***************************************************************************)
(* The other steps.                                                        *)
(***************************************************************************)
\* What a run reads when it starts.
LEMMA StartRunKeepsTypes ==
  ASSUME TypeOK, StartRun
  PROVE  TypeOK'
<1> DEFINE n == target.nextId
<1>1. n \in Nat \ {None} /\ n \in Nat /\ TableType(rows, n) /\ sects \subseteq TargetSection
  BY DEF TypeOK, TargetType, rows, sects
<1>2. SnapshotOK(snap)
  BY ImportAssumption DEF TypeOK, ImportAssumption, SnapshotOK
<1>3. RowsOK(rows)
  BY <1>1 DEF RowsOK, TableType, Ids, None
<1>4. CASE RefusedAs # "none"
  BY <1>4 DEF StartRun, TypeOK, RefusedAs, Outcome
<1>5. CASE RefusedAs = "none"
  <2> DEFINE start == [sections |-> sects,
                       listings |-> [k \in IndexesRead |-> Listing(rows, k[1])],
                       addresses |-> [i \in AddressesRead |-> rows[i].addresses],
                       ids |-> EmptyMap]
  <2>1. pending' \subseteq Action
    <3>1. pending' = Plan(snap, sects, rows, mode # "additive")
      BY <1>5 DEF StartRun
    <3>2. (mode # "additive") \in BOOLEAN
      OBVIOUS
    <3> QED BY <1>2, <1>3, <3>1, <3>2, PlanType
  <2>2. IndexesRead \subseteq TargetSection \X Index
    BY <1>1 DEF IndexesRead, Index
  <2>3. \A t : TableType(Listing(rows, t), n)
    BY <1>1, ListingType
  <2>4. AddressesRead \subseteq DOMAIN rows
    <3>1. \A L, c : SubnetIds(L, c) # {} => SubnetId(L, c) \in SubnetIds(L, c)
      BY DEF SubnetId, Pick
    <3>2. \A t, c : SubnetIds(Listing(rows, t), c) \subseteq DOMAIN rows
      BY DEF SubnetIds, SubnetRows, Listing
    <3>3. CASE Counting
      <4> SUFFICES ASSUME NEW r \in InScope(snap, rows) PROVE r[2] \in DOMAIN rows
        BY <3>3 DEF AddressesRead
      <4>1. PICK s \in SectionsNeeded(snap) :
              \E c \in CidrsOf(Listing(rows, TargetOf[s])) :
                r[2] = SubnetId(Listing(rows, TargetOf[s]), c)
        BY DEF InScope
      <4>2. \A c \in CidrsOf(Listing(rows, TargetOf[s])) :
              SubnetIds(Listing(rows, TargetOf[s]), c) # {}
        BY DEF CidrsOf, SubnetIds
      <4> QED BY <3>1, <3>2, <4>1, <4>2
    <3>4. CASE ~ Counting
      BY <3>1, <3>2, <3>4 DEF AddressesRead, Missing
    <3> QED BY <3>3, <3>4
  <2>5. AddressesRead \subseteq Ids(n) /\ \A i \in AddressesRead : rows[i].addresses \in AddressTable
    BY <1>1, <2>4 DEF TableType, Row
  <2>6. CacheType(start, n)
    <3>1. /\ start \in [sections : SUBSET TargetSection, listings : {start.listings},
                        addresses : {start.addresses}, ids : {start.ids}]
          /\ DOMAIN start.listings = IndexesRead
          /\ \A k \in IndexesRead : start.listings[k] = Listing(rows, k[1])
          /\ DOMAIN start.addresses = AddressesRead
          /\ start.addresses \in [AddressesRead -> AddressTable]
          /\ start.ids = EmptyMap
      BY <1>1, <2>5
    <3>2. DOMAIN EmptyMap = {} /\ EmptyMap \in [{} -> Ids(n)]
      BY DEF EmptyMap
    <3> HIDE DEF start
    <3> QED BY <2>2, <2>3, <2>5, <3>1, <3>2 DEF CacheType
  <2>7. cache' = start /\ running' = TRUE /\ outcome' = "none"
    BY <1>5 DEF StartRun
  <2> HIDE DEF start
  <2>8. /\ UNCHANGED << target, snap, mode, errors, foundEmpty, faults, edits, arrivals, filed >>
        /\ renumbered' = {}
    BY <1>5 DEF StartRun
  <2> QED BY <2>1, <2>6, <2>7, <2>8 DEF TypeOK, Outcome
<1> QED BY <1>4, <1>5

\* A run that ends, or dies, leaves no plan and no cache.
LEMMA ProcessEndsKeepsTypes ==
  ASSUME TypeOK, FinishRun \/ Crash
  PROVE  TypeOK'
<1>1. \A n : CacheType(NoCache, n)
  <2>1. DOMAIN EmptyMap = {} /\ \A S : EmptyMap \in [{} -> S]
    BY DEF EmptyMap
  <2>2. /\ NoCache.sections = {} /\ NoCache.listings = EmptyMap
        /\ NoCache.addresses = EmptyMap /\ NoCache.ids = EmptyMap
        /\ NoCache \in [sections : SUBSET TargetSection, listings : {EmptyMap},
                        addresses : {EmptyMap}, ids : {EmptyMap}]
    BY DEF NoCache
  <2> QED BY <2>1, <2>2 DEF CacheType
<1>2. /\ cache' = NoCache /\ pending' = {} /\ errors' = {} /\ running' = FALSE
      /\ foundEmpty' = {} /\ renumbered' = {} /\ filed' = {}
  BY DEF FinishRun, Crash, ProcessEnds
<1>3. outcome' \in Outcome
  BY DEF FinishRun, Crash, Outcome
<1>4. faults' \in 0 .. MaxFaults
  <2>1. MaxFaults \in Nat /\ faults \in 0 .. MaxFaults
    BY ImportAssumption DEF ImportAssumption, TypeOK
  <2>2. faults' = faults \/ (faults < MaxFaults /\ faults' = faults + 1)
    BY DEF FinishRun, Crash
  <2> QED BY <2>1, <2>2
<1>5. UNCHANGED << target, snap, mode, edits, arrivals >>
  BY DEF FinishRun, Crash
<1> QED BY <1>1, <1>2, <1>3, <1>4, <1>5 DEF TypeOK

\* An operator's edit makes a target of the target.
LEMMA OperatorKeepsTypes ==
  ASSUME TypeOK, Operator
  PROVE  TypeOK'
<1> DEFINE n == target.nextId
<1>1. /\ n \in Nat \ {None} /\ n \in Nat /\ TargetType(target) /\ TableType(rows, n)
      /\ CacheType(cache, n) /\ sects \subseteq TargetSection
  BY DEF TypeOK, TargetType, rows, sects
<1>2. ASSUME NEW after, NEW R, NEW F, Edit(after, R, F), Grown(after, cache),
             R \cup F \subseteq Ids(after.nextId)
      PROVE  TypeOK'
  <2>1. MaxEdits \in Nat /\ edits \in 0 .. MaxEdits
    BY ImportAssumption DEF ImportAssumption, TypeOK
  <2>2. edits' \in 0 .. MaxEdits
    BY <1>2, <2>1 DEF Edit
  <2>3. after.nextId >= n /\ after.nextId \in Nat
    BY <1>2 DEF Grown, TargetType
  <2>4. renumbered' \cup filed' \subseteq Ids(after.nextId)
    <3>1. Ids(n) \subseteq Ids(after.nextId)
      BY <1>1, <2>3 DEF Ids
    <3>2. renumbered \cup filed \subseteq Ids(n)
      BY DEF TypeOK
    <3> QED BY <1>2, <3>1, <3>2 DEF Edit
  <2> QED BY <1>2, <2>2, <2>4 DEF Edit, Grown, TypeOK
<1>8. \A i : Below(i) \subseteq Ids(n)
  BY <1>1 DEF Below, TableType
<1>3. CASE OperatorCreatesSubnet
  <2> PICK t \in sects, c \in Cidr, f \in FieldValue, parent \in DOMAIN rows \cup {None} :
        Edit(Created(SubnetRow(t, c, parent, f)), {}, {n})
    BY <1>3 DEF OperatorCreatesSubnet
  <2> DEFINE row == SubnetRow(t, c, parent, f)
  <2>1. parent \in Nat /\ c # None
    BY <1>1, PlanAssumption DEF TableType, Ids, None, PlanAssumption
  <2>2. row \in Row
    BY <1>1, <2>1 DEF SubnetRow, Row, AddressTable, NoAddresses, None
  <2> HIDE DEF row
  <2>3. TargetType(Created(row)) /\ Created(row).nextId = n + 1
    BY <1>1, <2>2, TargetOperations
  <2>4. CacheType(cache, n + 1)
    BY <1>1, CacheGrows
  <2>5. Grown(Created(row), cache)
    BY <1>1, <2>3, <2>4 DEF Grown
  <2>6. n \in Ids(n + 1)
    BY <1>1 DEF Ids, None
  <2> QED BY <1>2, <2>3, <2>5, <2>6 DEF row
<1>4. CASE OperatorMovesSubnet
  <2> PICK i \in DOMAIN rows, parent \in DOMAIN rows \cup {None} :
        Edit([target EXCEPT !.rows[i].masterSubnetId = parent], {}, Below(i))
    BY <1>4 DEF OperatorMovesSubnet
  <2>1. parent \in Nat
    BY <1>1 DEF TableType, Ids, None
  <2>2. Grown([target EXCEPT !.rows[i].masterSubnetId = parent], cache)
    BY <1>1, <2>1, UpdateGrows
  <2>3. [target EXCEPT !.rows[i].masterSubnetId = parent].nextId = n
    BY <1>1 DEF TargetType
  <2> QED BY <1>2, <1>8, <2>2, <2>3
<1>7. CASE OperatorMovesToSection
  <2> PICK i \in DOMAIN rows, t \in sects :
        Edit([target EXCEPT !.rows = InSection(i, t)], Below(i), Below(i))
    BY <1>7 DEF OperatorMovesToSection
  <2>1. TableType(InSection(i, t), n)
    <3>1. \A j \in DOMAIN rows : InSection(i, t)[j] \in Row
      <4> SUFFICES ASSUME NEW j \in DOMAIN rows PROVE InSection(i, t)[j] \in Row
        OBVIOUS
      <4> DEFINE s == IF j \in Below(i) THEN t ELSE rows[j].section
                 p == IF j = i THEN None ELSE rows[j].masterSubnetId
      <4>1. rows[j] \in Row
        BY <1>1 DEF TableType
      <4>2. s \in TargetSection /\ p \in Nat
        BY <1>1, <4>1 DEF Row, None
      <4>3. InSection(i, t)[j] = [rows[j] EXCEPT !.section = s, !.masterSubnetId = p]
        <5>1. /\ [rows[j] EXCEPT !.section = s].masterSubnetId = rows[j].masterSubnetId
          BY <4>1 DEF Row
        <5> QED BY <5>1 DEF InSection
      <4> HIDE DEF s, p
      <4> QED BY <4>1, <4>2, <4>3 DEF Row
    <3> QED BY <1>1, <3>1 DEF TableType, InSection
  <2>2. /\ Grown([target EXCEPT !.rows = InSection(i, t)], cache)
        /\ [target EXCEPT !.rows = InSection(i, t)].nextId = n
    BY <1>1, <2>1, TargetOperations DEF Grown
  <2> QED BY <1>2, <1>8, <2>2
<1>9. CASE OperatorResizesSubnet
  <2>6. PICK i \in DOMAIN rows, c \in Cidr :
          ~ rows[i].isFolder /\ Edit([target EXCEPT !.rows[i].cidr = c], {i}, {})
    BY <1>9 DEF OperatorResizesSubnet
  <2>1. TableType([rows EXCEPT ![i].cidr = c], n)
    <3>1. rows[i] \in Row /\ c # None
      BY <1>1, PlanAssumption DEF TableType, PlanAssumption
    <3>2. [rows[i] EXCEPT !.cidr = c] \in Row
      BY <2>6, <3>1 DEF Row
    <3> QED BY <1>1, <3>2 DEF TableType
  <2>2. [target EXCEPT !.rows[i].cidr = c] = [target EXCEPT !.rows = [rows EXCEPT ![i].cidr = c]]
    BY DEF rows
  <2>3. /\ Grown([target EXCEPT !.rows[i].cidr = c], cache)
        /\ [target EXCEPT !.rows[i].cidr = c].nextId = n
    BY <1>1, <2>1, <2>2, TargetOperations DEF Grown
  <2>4. {i} \subseteq Ids(n)
    BY <1>1 DEF TableType
  <2> QED BY <1>2, <2>3, <2>4, <2>6
<1>5. CASE OperatorSetsAddress
  <2> PICK i \in DOMAIN rows, ip \in Ip, v \in FieldValue \cup {None} :
        Edit([target EXCEPT !.rows[i].addresses[ip] = v], {}, {})
    BY <1>5 DEF OperatorSetsAddress
  <2>1. Grown([target EXCEPT !.rows[i].addresses[ip] = v], cache)
    BY <1>1, UpdateGrows
  <2> QED BY <1>2, <2>1
<1>6. CASE OperatorDeletes
  <2> PICK i \in DOMAIN rows : Edit(Deleted(i), {}, {})
    BY <1>6 DEF OperatorDeletes
  <2>1. Grown(Deleted(i), cache)
    BY <1>1, TargetOperations DEF Grown
  <2> QED BY <1>2, <2>1
<1> QED BY <1>3, <1>4, <1>5, <1>6, <1>7, <1>9 DEF Operator

\* That a folder is found empty changes the caches, in which its index is now.
LEMMA ConfirmKeepsTypes ==
  ASSUME TypeOK, ConfirmEmpty
  PROVE  TypeOK'
<1>1. PICK a \in pending : /\ On("delete_folder", a)
                           /\ foundEmpty' = {a}
                           /\ cache' = Looked(cache, a, "folders")
  BY DEF ConfirmEmpty
<1>2. a \in Action
  BY DEF TypeOK
<1>3. CacheType(Looked(cache, a, "folders"), target.nextId)
  BY <1>2, Seen DEF Index
<1>4. UNCHANGED << target, snap, mode, running, pending, errors, outcome,
                   faults, edits, arrivals, renumbered, filed >>
  BY DEF ConfirmEmpty
<1> QED BY <1>1, <1>2, <1>3, <1>4 DEF TypeOK

\* The initial types.
LEMMA InitialTypes ==
  ASSUME Init
  PROVE  TypeOK
<1>1. target \in Targets /\ TargetType(target) /\ target.nextId \in Nat
  BY ImportAssumption DEF Init, ImportAssumption, TargetType
<1>2. CacheType(NoCache, target.nextId)
  <2>1. DOMAIN EmptyMap = {} /\ \A S : EmptyMap \in [{} -> S]
    BY DEF EmptyMap
  <2>2. /\ NoCache.sections = {} /\ NoCache.listings = EmptyMap
        /\ NoCache.addresses = EmptyMap /\ NoCache.ids = EmptyMap
        /\ NoCache \in [sections : SUBSET TargetSection, listings : {EmptyMap},
                        addresses : {EmptyMap}, ids : {EmptyMap}]
    BY DEF NoCache
  <2> QED BY <2>1, <2>2 DEF CacheType
<1>3. 0 \in 0 .. MaxFaults /\ 0 \in 0 .. MaxEdits /\ 0 \in 0 .. MaxArrivals
  BY ImportAssumption DEF ImportAssumption
<1> QED BY <1>1, <1>2, <1>3 DEF Init, TypeOK, Outcome

\* Every step keeps the types.
LEMMA StepKeepsTypes ==
  ASSUME TypeOK, [Next]_vars
  PROVE  TypeOK'
<1>1. CASE StartRun
  BY <1>1, StartRunKeepsTypes
<1>2. CASE Execute
  BY <1>2, HandlersKeepTypes DEF Execute
<1>3. CASE FinishRun \/ Crash
  BY <1>3, ProcessEndsKeepsTypes
<1>4. CASE Operator
  BY <1>4, OperatorKeepsTypes
<1>5. CASE Deliver
  <2>1. MaxArrivals \in Nat /\ arrivals \in 0 .. MaxArrivals
    BY ImportAssumption DEF ImportAssumption, TypeOK
  <2>2. arrivals' \in 0 .. MaxArrivals
    BY <1>5, <2>1 DEF Deliver
  <2> QED BY <1>5, <2>2 DEF Deliver, TypeOK, Outcome
<1>6. CASE UNCHANGED vars
  BY <1>6 DEF vars, TypeOK
<1>7. CASE ConfirmEmpty
  BY <1>7, ConfirmKeepsTypes
<1> QED BY <1>1, <1>2, <1>3, <1>4, <1>5, <1>6, <1>7 DEF Next

\* Type correctness: whatever is refused, lost, edited or delivered, the target
\* stays a table of rows whose ids it gave out, what is left of the plan is a set
\* of well-formed actions, and the process remembers nothing but rows and ids the
\* target has given out (ipamsync/plan.py, ipamsync/target.py).
THEOREM TypeCorrect == Spec => []TypeOK
<1>1. Init => TypeOK
  BY InitialTypes
<1>2. TypeOK /\ [Next]_vars => TypeOK'
  BY StepKeepsTypes
<1> QED BY <1>1, <1>2, PTL DEF Spec

(***************************************************************************)
(* The caches name the right rows (IdsStayTrue).  Two facts carry the      *)
(* proof: a row that no operator resizes or moves to another section keeps *)
(* its section and its CIDR for as long as it exists, and an id is never   *)
(* given out twice.                                                        *)
(***************************************************************************)
\* From rows r to rows s, with n the next id to be given out.
Kept(r, s, n) ==
  /\ DOMAIN s \subseteq DOMAIN r \cup {n}
  /\ \A i \in DOMAIN r \cap DOMAIN s : s[i].section = r[i].section /\ s[i].cidr = r[i].cidr

\* What was remembered before a change is still true after it.
LEMMA KeptIsRemembered ==
  ASSUME NEW c, NEW r, NEW s, NEW n \in Nat, CacheType(c, n), TableType(r, n),
         Remembers(c, r), Kept(r, s, n)
  PROVE  Remembers(c, s)
<1>1. n \notin Ids(n)
  BY DEF Ids
<1>2. ASSUME NEW k \in DOMAIN c.listings
      PROVE  TrueListing(c.listings[k], k[1], s)
  <2>1. DOMAIN c.listings[k] \subseteq Ids(n)
    BY <1>2 DEF CacheType, TableType
  <2>2. TrueListing(c.listings[k], k[1], r)
    BY <1>2 DEF Remembers
  <2> QED BY <1>1, <2>1, <2>2 DEF TrueListing, Kept
<1>3. ASSUME NEW k \in DOMAIN c.ids, c.ids[k] \in DOMAIN s
      PROVE  s[c.ids[k]].section = k[1] /\ s[c.ids[k]].cidr = k[2]
  <2>1. c.ids[k] \in Ids(n)
    BY <1>3 DEF CacheType
  <2>2. c.ids[k] \in DOMAIN r
    BY <1>1, <1>3, <2>1 DEF Kept
  <2> QED BY <1>3, <2>2 DEF Remembers, Kept
<1> QED BY <1>2, <1>3 DEF Remembers

\* The operations on a cache keep it true.
LEMMA TrueOperations ==
  ASSUME NEW c, NEW n, CacheType(c, n), NEW r, Remembers(c, r)
  PROVE  /\ \A k, L : TrueListing(L, k[1], r) =>
              Remembers([c EXCEPT !.listings = Put(@, k, L)], r)
         /\ \A t : Remembers(Dropped(c, t), r)
         /\ \A t, x, s : TrueListing(Listing(s, t), t, r) => Remembers(Reread(c, t, x, s), r)
         /\ \A k, id : (id \in DOMAIN r => r[id].section = k[1] /\ r[id].cidr = k[2]) =>
              Remembers([c EXCEPT !.ids = Put(@, k, id)], r)
         /\ \A k : Remembers([c EXCEPT !.ids = Pop(@, k)], r)
         /\ \A f : Remembers([c EXCEPT !.addresses = f], r)
         /\ \A S : Remembers([c EXCEPT !.sections = S], r)
<1> USE DEF CacheType, Remembers
<1>1. ASSUME NEW d, CacheType(d, n), Remembers(d, r), NEW k, NEW L, TrueListing(L, k[1], r)
      PROVE  Remembers([d EXCEPT !.listings = Put(@, k, L)], r)
  BY <1>1 DEF Put
<1>2. ASSUME NEW t PROVE CacheType(Dropped(c, t), n) /\ Remembers(Dropped(c, t), r)
  BY DEF Dropped
<1>7. ASSUME NEW t, NEW x, NEW s, TrueListing(Listing(s, t), t, r)
      PROVE  Remembers(Reread(c, t, x, s), r)
  <2>1. << t, x >>[1] = t
    OBVIOUS
  <2> HIDE DEF CacheType, Remembers
  <2> QED BY <1>1, <1>2, <1>7, <2>1 DEF Reread
<1>3. ASSUME NEW k, NEW id, id \in DOMAIN r => r[id].section = k[1] /\ r[id].cidr = k[2]
      PROVE  Remembers([c EXCEPT !.ids = Put(@, k, id)], r)
  BY <1>3 DEF Put
<1>4. ASSUME NEW k PROVE Remembers([c EXCEPT !.ids = Pop(@, k)], r)
  BY DEF Pop
<1>5. ASSUME NEW f PROVE Remembers([c EXCEPT !.addresses = f], r)
  OBVIOUS
<1>6. ASSUME NEW S PROVE Remembers([c EXCEPT !.sections = S], r)
  OBVIOUS
<1> HIDE DEF CacheType, Remembers
<1> QED BY <1>1, <1>2, <1>3, <1>4, <1>5, <1>6, <1>7

\* A listing that is read now is true, and the id looked up for an action is the
\* id of the action's subnet or of nothing.
LEMMA SeenIsTrue ==
  ASSUME TypeOK, IdsStayTrue, NEW a \in Action
  PROVE  /\ \A t, r : TrueListing(Listing(r, t), t, Steady(r))
         /\ \A x : TrueListing(Listed(T(a), x), T(a), Steady(rows))
         /\ (KnownId(a) # None /\ KnownId(a) \in DOMAIN rows \ renumbered) =>
              rows[KnownId(a)].section = T(a) /\ rows[KnownId(a)].cidr = a.cidr
         /\ \A x \in Index : Remembers(Looked(cache, a, x), Steady(rows))
         /\ Remembers(ParentLooked(cache, a), Steady(rows))
         /\ a.kind \notin SubnetlessKind => Remembers(Resolved(a), Steady(rows))
         /\ (a.kind \notin SubnetlessKind /\ KnownId(a) # None) =>
               Remembers(WithAddresses(a), Steady(rows))
         /\ a.kind \notin SubnetlessKind => Remembers(ParentLooked(Resolved(a), a), Steady(rows))
<1>1. \A t, r : TrueListing(Listing(r, t), t, Steady(r))
  BY DEF TrueListing, Listing, Steady
<1>2. \A x : TrueListing(Listed(T(a), x), T(a), Steady(rows))
  BY <1>1 DEF Listed, IdsStayTrue, Remembers
<1>3. ASSUME KnownId(a) # None, KnownId(a) \in DOMAIN rows \ renumbered
      PROVE  rows[KnownId(a)].section = T(a) /\ rows[KnownId(a)].cidr = a.cidr
  <2>1. CASE Key(a) \in DOMAIN cache.ids
    BY <1>3, <2>1 DEF KnownId, IdsStayTrue, Remembers, Key, Steady
  <2>2. CASE Key(a) \notin DOMAIN cache.ids
    <3> DEFINE L == Listed(T(a), "subnets")
    <3>1. KnownId(a) \in SubnetIds(L, a.cidr)
      BY <1>3, <2>2, PickType DEF KnownId, SubnetId
    <3>2. KnownId(a) \in DOMAIN L /\ L[KnownId(a)].cidr = a.cidr
      BY <3>1 DEF SubnetIds, SubnetRows
    <3> QED BY <1>2, <1>3, <3>2 DEF TrueListing, Steady
  <2> QED BY <2>1, <2>2
<1>4. CacheType(cache, target.nextId) /\ Remembers(cache, Steady(rows))
  BY DEF TypeOK, IdsStayTrue
<1>9. ASSUME NEW c, CacheType(c, target.nextId), Remembers(c, Steady(rows))
      PROVE  /\ \A x : Remembers(Looked(c, a, x), Steady(rows))
             /\ Remembers(ParentLooked(c, a), Steady(rows))
  <2>1. ASSUME NEW x PROVE Remembers(Looked(c, a, x), Steady(rows))
    <3>1. << T(a), x >>[1] = T(a)
      OBVIOUS
    <3> QED BY <1>2, <1>9, <3>1, TrueOperations DEF Looked
  <2> QED BY <1>9, <2>1 DEF ParentLooked
<1>5. /\ Remembers(Looked(cache, a, "subnets"), Steady(rows))
      /\ CacheType(Looked(cache, a, "subnets"), target.nextId)
  BY <1>4, <1>9, Seen DEF Index
<1>6. ASSUME KnownId(a) # None
      PROVE  Remembers([Looked(cache, a, "subnets") EXCEPT !.ids = Put(@, Key(a), KnownId(a))], Steady(rows))
  <2>1. Key(a)[1] = T(a) /\ Key(a)[2] = a.cidr
    BY DEF Key
  <2> QED BY <1>3, <1>5, <1>6, <2>1, TrueOperations DEF Steady
<1>7. Remembers(Resolved(a), Steady(rows))
  BY <1>4, <1>5, <1>6 DEF Resolved
<1>8. ASSUME a.kind \notin SubnetlessKind PROVE Remembers(WithAddresses(a), Steady(rows))
  <2>1. CacheType(Resolved(a), target.nextId)
    BY <1>8, Seen
  <2> QED BY <1>7, <2>1, TrueOperations DEF WithAddresses
<1> QED BY <1>1, <1>2, <1>3, <1>4, <1>7, <1>8, <1>9, Seen

\* What a write may do to the rows: enter a new one, change one in place, take
\* some out.  None of it changes which subnet an id stands for.
LEMMA WritesKeep ==
  ASSUME TypeOK
  PROVE  /\ \A row : Kept(rows, Created(row).rows, target.nextId)
         /\ \A id : Kept(rows, Deleted(id).rows, target.nextId)
         /\ \A id \in DOMAIN rows : \A f :
              /\ Kept(rows, [target EXCEPT !.rows[id].fields = f].rows, target.nextId)
              /\ Kept(rows, [target EXCEPT !.rows[id].masterSubnetId = f].rows, target.nextId)
              /\ \A ip : Kept(rows, [target EXCEPT !.rows[id].addresses[ip] = f].rows,
                              target.nextId)
         /\ \A S : Kept(rows, [target EXCEPT !.sects = S].rows, target.nextId)
<1>1. /\ target.nextId \in Nat /\ TableType(rows, target.nextId)
      /\ target \in [sects : SUBSET TargetSection, rows : {rows}, nextId : Nat \ {None}]
      /\ rows = target.rows
  BY DEF TypeOK, TargetType, rows
<1>2. target.nextId \notin DOMAIN rows
  BY <1>1 DEF TableType, Ids
<1>3. ASSUME NEW row PROVE Kept(rows, Created(row).rows, target.nextId)
  <2>1. Created(row).rows = Put(rows, target.nextId, row)
    BY <1>1 DEF Created
  <2> QED BY <1>2, <2>1 DEF Put, Kept
<1>4. ASSUME NEW id PROVE Kept(rows, Deleted(id).rows, target.nextId)
  <2>1. Deleted(id).rows = RowsWithout(id)
    BY <1>1 DEF Deleted
  <2> QED BY <2>1 DEF RowsWithout, Kept
<1>5. ASSUME NEW id \in DOMAIN rows, NEW row, row.section = rows[id].section,
             row.cidr = rows[id].cidr
      PROVE  Kept(rows, [target EXCEPT !.rows = [rows EXCEPT ![id] = row]].rows, target.nextId)
  <2>1. [target EXCEPT !.rows = [rows EXCEPT ![id] = row]].rows = [rows EXCEPT ![id] = row]
    BY <1>1
  <2>2. Kept(rows, [rows EXCEPT ![id] = row], target.nextId)
    BY <1>5 DEF Kept
  <2> QED BY <2>1, <2>2
<1>6. ASSUME NEW id \in DOMAIN rows, NEW f
      PROVE  /\ Kept(rows, [target EXCEPT !.rows[id].fields = f].rows, target.nextId)
             /\ Kept(rows, [target EXCEPT !.rows[id].masterSubnetId = f].rows, target.nextId)
             /\ \A ip : Kept(rows, [target EXCEPT !.rows[id].addresses[ip] = f].rows,
                             target.nextId)
  <2>1. rows[id] \in Row
    BY <1>1 DEF TableType
  <2>2. /\ [rows[id] EXCEPT !.fields = f].section = rows[id].section
        /\ [rows[id] EXCEPT !.fields = f].cidr = rows[id].cidr
        /\ [rows[id] EXCEPT !.masterSubnetId = f].section = rows[id].section
        /\ [rows[id] EXCEPT !.masterSubnetId = f].cidr = rows[id].cidr
        /\ \A x : /\ [rows[id] EXCEPT !.addresses = x].section = rows[id].section
                  /\ [rows[id] EXCEPT !.addresses = x].cidr = rows[id].cidr
    BY <2>1 DEF Row
  <2>3. /\ [target EXCEPT !.rows[id].fields = f]
             = [target EXCEPT !.rows = [rows EXCEPT ![id] = [rows[id] EXCEPT !.fields = f]]]
        /\ [target EXCEPT !.rows[id].masterSubnetId = f]
             = [target EXCEPT !.rows = [rows EXCEPT ![id] =
                                          [rows[id] EXCEPT !.masterSubnetId = f]]]
        /\ \A ip : [target EXCEPT !.rows[id].addresses[ip] = f]
             = [target EXCEPT !.rows = [rows EXCEPT ![id] =
                  [rows[id] EXCEPT !.addresses = [rows[id].addresses EXCEPT ![ip] = f]]]]
    BY DEF rows
  <2>4. Kept(rows, [target EXCEPT !.rows[id].fields = f].rows, target.nextId)
    BY <1>5, <2>2, <2>3
  <2>5. Kept(rows, [target EXCEPT !.rows[id].masterSubnetId = f].rows, target.nextId)
    BY <1>5, <2>2, <2>3
  <2>6. ASSUME NEW ip
        PROVE  Kept(rows, [target EXCEPT !.rows[id].addresses[ip] = f].rows, target.nextId)
    <3> DEFINE row == [rows[id] EXCEPT !.addresses = [rows[id].addresses EXCEPT ![ip] = f]]
    <3>1. row.section = rows[id].section /\ row.cidr = rows[id].cidr
      BY <2>2
    <3>2. [target EXCEPT !.rows[id].addresses[ip] = f]
            = [target EXCEPT !.rows = [rows EXCEPT ![id] = row]]
      BY <2>3
    <3> HIDE DEF row
    <3> QED BY <1>5, <3>1, <3>2
  <2> QED BY <2>4, <2>5, <2>6
<1>7. ASSUME NEW S PROVE Kept(rows, [target EXCEPT !.sects = S].rows, target.nextId)
  BY <1>1 DEF Kept
<1> QED BY <1>3, <1>4, <1>6, <1>7

\* What keeps the rows keeps those that were not renumbered.
LEMMA SteadyKept ==
  ASSUME NEW r, NEW s, NEW n, Kept(r, s, n)
  PROVE  /\ Kept(Steady(r), Steady(s), n)
         /\ TableType(r, n) => TableType(Steady(r), n)
BY DEF Kept, Steady, TableType

\* Both caches a handler may end with are true, of the rows it ends with.
LEMMA EndingsRemember ==
  ASSUME TypeOK, IdsStayTrue, NEW a \in pending, NEW looked,
         CacheType(looked, target.nextId), Remembers(looked, Steady(rows))
  PROVE  /\ Done(a, looked) => IdsStayTrue'
         /\ \A why : Fail(a, why, looked) => IdsStayTrue'
         /\ \A after, dropped, fresh, confirmed, accepted :
              /\ accepted => /\ Kept(rows, after.rows, target.nextId)
                             /\ Remembers(fresh, Steady(after.rows))
                             /\ dropped = looked \/ Remembers(dropped, Steady(after.rows))
              /\ WriteAndConfirm(a, accepted, after, looked, dropped, fresh, confirmed)
              => IdsStayTrue'
         /\ \A after, fresh, accepted :
              /\ accepted => Kept(rows, after.rows, target.nextId) /\ Remembers(fresh, Steady(after.rows))
              /\ Write(a, accepted, after, looked, fresh)
              => IdsStayTrue'
<1>1. target.nextId \in Nat /\ TableType(rows, target.nextId)
  BY DEF TypeOK, TargetType, rows
<1>6. ASSUME NEW after, NEW c, Taken(a), target' = after, cache' = c,
             Remembers(c, Steady(after.rows))
      PROVE  IdsStayTrue'
  <2>1. Steady(rows)' = Steady(after.rows)
    BY <1>6 DEF Taken, Steady, rows
  <2> QED BY <1>6, <2>1 DEF IdsStayTrue
<1>7. rows = target.rows /\ Remembers(cache, Steady(target.rows))
  BY DEF IdsStayTrue, rows
<1>2. LookupLost(a, looked) => IdsStayTrue'
  BY <1>6, <1>7 DEF LookupLost, Lost
<1>3. Done(a, looked) => IdsStayTrue'
  BY <1>2, <1>6, <1>7 DEF Done
<1>4. ASSUME NEW why, Fail(a, why, looked) PROVE IdsStayTrue'
  BY <1>2, <1>4, <1>6, <1>7 DEF Fail
<1>5. ASSUME NEW after, NEW dropped, NEW fresh, NEW confirmed, NEW accepted,
             accepted => /\ Kept(rows, after.rows, target.nextId)
                         /\ Remembers(fresh, Steady(after.rows))
                         /\ dropped = looked \/ Remembers(dropped, Steady(after.rows)),
             WriteAndConfirm(a, accepted, after, looked, dropped, fresh, confirmed)
      PROVE  IdsStayTrue'
  <2>4. Taken(a)
    BY <1>5 DEF WriteAndConfirm, LookupLost, Lost
  <2>1. CASE accepted /\ target' = after /\ cache' = fresh
    BY <1>5, <1>6, <2>1, <2>4
  <2>2. CASE target' = target /\ cache' = looked
    BY <1>6, <1>7, <2>2, <2>4
  <2>3. CASE accepted /\ target' = after /\ cache' \in {looked, dropped}
    <3>1. Remembers(looked, Steady(after.rows))
      BY <1>1, <1>5, <2>3, SteadyKept, KeptIsRemembered
    <3> QED BY <1>5, <1>6, <2>3, <2>4, <3>1
  <2> QED BY <1>2, <1>5, <2>1, <2>2, <2>3 DEF WriteAndConfirm
<1> QED BY <1>3, <1>4, <1>5 DEF Write

\* A cache that is true of the rows before a write, and the listing that is read
\* afresh after it, are true of the rows after it.
LEMMA FreshIsTrue ==
  ASSUME TypeOK, NEW c, CacheType(c, target.nextId), Remembers(c, Steady(rows)), NEW after,
         Kept(rows, after.rows, target.nextId)
  PROVE  /\ Remembers(c, Steady(after.rows))
         /\ \A t : Remembers(Dropped(c, t), Steady(after.rows))
         /\ \A t, x : Remembers(Reread(c, t, x, after.rows), Steady(after.rows))
         /\ \A f : Remembers([c EXCEPT !.addresses = f], Steady(after.rows))
<1>1. target.nextId \in Nat /\ TableType(rows, target.nextId)
  BY DEF TypeOK, TargetType, rows
<1>2. Remembers(c, Steady(after.rows))
  BY <1>1, SteadyKept, KeptIsRemembered
<1>3. \A t, r : TrueListing(Listing(r, t), t, Steady(r))
  BY DEF TrueListing, Listing, Steady
<1> QED BY <1>2, <1>3, TrueOperations

\* Every handler leaves true caches.
LEMMA HandlersRemember ==
  ASSUME TypeOK, IdsStayTrue, NEW a \in pending, Handle(a)
  PROVE  IdsStayTrue'
<1> DEFINE n == target.nextId
           id == KnownId(a)
<1>1. a \in Action
  BY DEF TypeOK
<1>2. /\ CacheType(cache, n) /\ Remembers(cache, Steady(rows))
      /\ \A x \in Index :
           CacheType(Looked(cache, a, x), n) /\ Remembers(Looked(cache, a, x), Steady(rows))
      /\ CacheType(ParentLooked(cache, a), n) /\ Remembers(ParentLooked(cache, a), Steady(rows))
      /\ "subnets" \in Index /\ "folders" \in Index
      /\ a.kind \notin SubnetlessKind =>
           /\ CacheType(Resolved(a), n)
           /\ Remembers(Resolved(a), Steady(rows))
           /\ id # None => CacheType(WithAddresses(a), n) /\ Remembers(WithAddresses(a), Steady(rows))
           /\ CacheType(ParentLooked(Resolved(a), a), n)
           /\ Remembers(ParentLooked(Resolved(a), a), Steady(rows))
  BY <1>1, Seen, SeenIsTrue DEF TypeOK, IdsStayTrue, Index
<1>4. CASE DoWithoutSection(a)
  BY <1>2, <1>4, EndingsRemember DEF DoWithoutSection
<1>5. CASE DoCreateSection(a)
  <2> DEFINE after == [target EXCEPT !.sects = @ \cup {T(a)}]
             fresh == [cache EXCEPT !.sections = after.sects]
  <2>1. Kept(rows, after.rows, n)
    BY WritesKeep
  <2>2. Remembers(cache, Steady(after.rows))
    BY <1>2, <2>1, FreshIsTrue
  <2>3. Remembers(fresh, Steady(after.rows))
    BY <1>2, <2>2, TrueOperations
  <2> HIDE DEF after, fresh
  <2>4. WriteAndConfirm(a, T(a) \notin sects, after, cache, fresh, fresh, TRUE)
    BY <1>5 DEF DoCreateSection, after, fresh
  <2> QED BY <1>2, <2>1, <2>3, <2>4, EndingsRemember
<1>6. CASE DoCreateFolder(a) \/ DoCreateSubnet(a)
  <2> DEFINE True(looked) == CacheType(looked, n) /\ Remembers(looked, Steady(rows))
  <2>1. ASSUME NEW looked, True(looked), NEW row, NEW x, NEW accepted,
               WriteAndConfirm(a, accepted, Created(row), looked, Dropped(looked, T(a)),
                               Reread(looked, T(a), x, Created(row).rows), TRUE)
        PROVE  IdsStayTrue'
    <3>1. Kept(rows, Created(row).rows, n)
      BY WritesKeep
    <3>2. /\ Remembers(Dropped(looked, T(a)), Steady(Created(row).rows))
          /\ Remembers(Reread(looked, T(a), x, Created(row).rows), Steady(Created(row).rows))
      BY <2>1, <3>1, FreshIsTrue
    <3> QED BY <2>1, <3>1, <3>2, EndingsRemember
  <2>2. \E looked : /\ True(looked)
                    /\ \/ Fail(a, "unresolved", looked)
                       \/ \E row, x, accepted :
                            WriteAndConfirm(a, accepted, Created(row), looked,
                                            Dropped(looked, T(a)),
                                            Reread(looked, T(a), x, Created(row).rows), TRUE)
    <3>1. True(cache) /\ True(Looked(cache, a, "folders")) /\ True(ParentLooked(cache, a))
      BY <1>2
    <3> HIDE DEF True
    <3> QED BY <1>6, <3>1 DEF DoCreateFolder, DoCreateSubnet
  <2> QED BY <2>1, <2>2, EndingsRemember
<1>7. CASE DoUpdateSubnet(a)
  <2> DEFINE after == [target EXCEPT !.rows[id].fields = a.fields]
  <2>1. CacheType(Resolved(a), n) /\ Remembers(Resolved(a), Steady(rows))
    BY <1>2, <1>7 DEF DoUpdateSubnet, On, SubnetlessKind
  <2>2. id \in DOMAIN rows => Kept(rows, after.rows, n)
    BY WritesKeep
  <2>3. id \in DOMAIN rows => Remembers(Resolved(a), Steady(after.rows))
    BY <2>1, <2>2, FreshIsTrue
  <2> HIDE DEF after
  <2>4. Fail(a, "unresolved", Resolved(a))
        \/ Write(a, id \in DOMAIN rows, after, Resolved(a), Resolved(a))
    BY <1>7 DEF DoUpdateSubnet, after
  <2> QED BY <2>1, <2>2, <2>3, <2>4, EndingsRemember
<1>8. CASE DoDetachSubnet(a)
  <2> DEFINE after == [target EXCEPT !.rows[id].masterSubnetId = None]
  <2>1. CacheType(Resolved(a), n) /\ Remembers(Resolved(a), Steady(rows))
    BY <1>2, <1>8 DEF DoDetachSubnet, On, SubnetlessKind
  <2>2. id \in DOMAIN rows => Kept(rows, after.rows, n)
    BY WritesKeep
  <2>3. id \in DOMAIN rows => Remembers(Dropped(Resolved(a), T(a)), Steady(after.rows))
    BY <2>1, <2>2, FreshIsTrue
  <2> HIDE DEF after
  <2>4. Fail(a, "unresolved", Resolved(a))
        \/ Write(a, id \in DOMAIN rows, after, Resolved(a),
                           Dropped(Resolved(a), T(a)))
    BY <1>8 DEF DoDetachSubnet, after
  <2> QED BY <2>1, <2>2, <2>3, <2>4, EndingsRemember
<1>9. CASE DoReparentSubnet(a)
  <2> DEFINE after == [target EXCEPT !.rows[id].masterSubnetId = WantedParent(a)]
             looked == ParentLooked(Resolved(a), a)
  <2>1. CacheType(Resolved(a), n) /\ Remembers(Resolved(a), Steady(rows))
    BY <1>2, <1>9 DEF DoReparentSubnet, On, SubnetlessKind
  <2>2. CacheType(looked, n)
    BY <1>2, <1>9 DEF DoReparentSubnet, On, SubnetlessKind
  <2>3. Remembers(looked, Steady(rows))
    BY <1>2, <1>9 DEF DoReparentSubnet, On, SubnetlessKind
  <2> HIDE DEF looked
  <2>4. id \in DOMAIN rows => Kept(rows, after.rows, n)
    BY WritesKeep
  <2>5. id \in DOMAIN rows => Remembers(Dropped(looked, T(a)), Steady(after.rows))
    BY <2>2, <2>3, <2>4, FreshIsTrue
  <2> HIDE DEF after
  <2>6. \/ Fail(a, "unresolved", Resolved(a))
        \/ Done(a, looked)
        \/ Write(a, id \in DOMAIN rows, after, looked, Dropped(looked, T(a)))
    BY <1>9 DEF DoReparentSubnet, after, looked
  <2> QED BY <2>1, <2>2, <2>3, <2>4, <2>5, <2>6, EndingsRemember
<1>10. CASE DoCreateAddress(a)
  <2> DEFINE after == [target EXCEPT !.rows[id].addresses[a.ip] = a.fields]
             fresh == [Resolved(a) EXCEPT !.addresses = Pop(@, id)]
             free == id \in DOMAIN rows /\ rows[id].addresses[a.ip] = None
  <2>1. CacheType(Resolved(a), n) /\ Remembers(Resolved(a), Steady(rows))
    BY <1>2, <1>10 DEF DoCreateAddress, On, SubnetlessKind
  <2>2. free => Kept(rows, after.rows, n)
    BY WritesKeep
  <2>3. free => Remembers(fresh, Steady(after.rows))
    BY <2>1, <2>2, FreshIsTrue
  <2> HIDE DEF after, fresh, free
  <2>4. Fail(a, "unresolved", Resolved(a))
        \/ Write(a, free, after, Resolved(a), fresh)
    BY <1>10 DEF DoCreateAddress, after, fresh, free
  <2> QED BY <2>1, <2>2, <2>3, <2>4, EndingsRemember
<1>11. CASE DoUpdateAddress(a)
  <2> DEFINE after == [target EXCEPT !.rows[id].addresses[a.ip] = a.fields]
             used == id \in DOMAIN rows /\ rows[id].addresses[a.ip] # None
  <2>1. /\ CacheType(Resolved(a), n) /\ Remembers(Resolved(a), Steady(rows))
        /\ id # None => CacheType(WithAddresses(a), n) /\ Remembers(WithAddresses(a), Steady(rows))
    BY <1>2, <1>11 DEF DoUpdateAddress, On, SubnetlessKind
  <2>2. used => Kept(rows, after.rows, n)
    BY WritesKeep
  <2>3. (used /\ id # None) => Remembers(WithAddresses(a), Steady(after.rows))
    BY <2>1, <2>2, FreshIsTrue
  <2> HIDE DEF after, used
  <2>4. \/ Fail(a, "unresolved", Resolved(a))
        \/ id # None /\ Fail(a, "vanished", WithAddresses(a))
        \/ id # None /\ Write(a, used, after, WithAddresses(a), WithAddresses(a))
    BY <1>11 DEF DoUpdateAddress, after, used
  <2> QED BY <2>1, <2>2, <2>3, <2>4, EndingsRemember
<1>12. CASE DoDeleteAddress(a)
  <2> DEFINE after == [target EXCEPT !.rows[id].addresses[a.ip] = None]
             fresh == [WithAddresses(a) EXCEPT !.addresses = Pop(@, id)]
             used == id \in DOMAIN rows /\ rows[id].addresses[a.ip] # None
  <2>1. /\ CacheType(Resolved(a), n) /\ Remembers(Resolved(a), Steady(rows))
        /\ id # None => CacheType(WithAddresses(a), n) /\ Remembers(WithAddresses(a), Steady(rows))
    BY <1>2, <1>12 DEF DoDeleteAddress, On, SubnetlessKind
  <2>2. used => Kept(rows, after.rows, n)
    BY WritesKeep
  <2>3. (used /\ id # None) => Remembers(fresh, Steady(after.rows))
    BY <2>1, <2>2, FreshIsTrue
  <2> HIDE DEF after, fresh, used
  <2>4. \/ Fail(a, "unresolved", Resolved(a))
        \/ id # None /\ Done(a, WithAddresses(a))
        \/ id # None /\ Write(a, used, after, WithAddresses(a), fresh)
    BY <1>12 DEF DoDeleteAddress, after, fresh, used
  <2> QED BY <2>1, <2>2, <2>3, <2>4, EndingsRemember
<1>13. CASE DoDeleteSubnet(a)
  <2> DEFINE i == SubnetId(Listed(T(a), "subnets"), a.cidr)
             after == Deleted(i)
             looked == Looked(cache, a, "subnets")
             unread == [looked EXCEPT !.addresses = Pop(@, i)]
             popped == [looked EXCEPT !.addresses = Pop(@, i), !.ids = Pop(@, Key(a))]
             reread == Reread(popped, T(a), "subnets", after.rows)
             gone == SubnetIds(Listing(after.rows, T(a)), a.cidr) = {}
  <2>1. Kept(rows, after.rows, n)
    BY WritesKeep
  <2>2. CacheType(looked, n) /\ Remembers(looked, Steady(rows))
    BY <1>2
  <2> HIDE DEF looked, after
  <2>3. CacheType(unread, n) /\ Remembers(unread, Steady(rows))
    BY <2>2, CacheOperations, TrueOperations
  <2>4. CacheType(popped, n) /\ Remembers(popped, Steady(rows))
    <3>1. popped = [unread EXCEPT !.ids = Pop(@, Key(a))]
      BY <2>2 DEF CacheType
    <3> HIDE DEF popped, unread
    <3> QED BY <2>3, <3>1, CacheOperations, TrueOperations
  <2> HIDE DEF popped
  <2>5. Remembers(Dropped(popped, T(a)), Steady(after.rows)) /\ Remembers(reread, Steady(after.rows))
    BY <2>1, <2>4, FreshIsTrue
  <2> HIDE DEF reread, gone
  <2>6. \/ Done(a, looked)
        \/ WriteAndConfirm(a, i \in DOMAIN rows, after, looked, Dropped(popped, T(a)),
                           reread, gone)
    BY <1>13 DEF DoDeleteSubnet, after, looked, popped, reread, gone
  <2> QED BY <2>1, <2>2, <2>5, <2>6, EndingsRemember
<1>14. CASE DoDeleteFolder(a)
  <2> DEFINE i == FoundFolder(a)
  <2>1. Kept(rows, Deleted(i).rows, n)
    BY WritesKeep
  <2>2. Remembers(Dropped(Looked(cache, a, "folders"), T(a)), Steady(Deleted(i).rows))
    BY <1>2, <2>1, FreshIsTrue
  <2> HIDE DEF i
  <2>3. \/ Done(a, Looked(cache, a, "folders"))
        \/ Write(a, i \in DOMAIN rows, Deleted(i), Looked(cache, a, "folders"),
                           Dropped(Looked(cache, a, "folders"), T(a)))
    BY <1>14, FolderDeletion DEF i
  <2> QED BY <1>2, <2>1, <2>2, <2>3, EndingsRemember
<1> QED BY <1>4, <1>5, <1>6, <1>7, <1>8, <1>9, <1>10, <1>11, <1>12, <1>13, <1>14
        DEF Handle

\* What operators resize or move to another section is renumbered; the caches stay
\* true of all the rest.
LEMMA OperatorRemembers ==
  ASSUME TypeOK, IdsStayTrue, Operator
  PROVE  IdsStayTrue'
<1>1. /\ CacheType(cache, target.nextId) /\ Remembers(cache, Steady(rows))
      /\ target.nextId \in Nat /\ TableType(rows, target.nextId)
      /\ target \in [sects : SUBSET TargetSection, rows : {rows}, nextId : Nat \ {None}]
  BY DEF TypeOK, IdsStayTrue, TargetType, rows
<1> DEFINE Others(after, R) == [i \in DOMAIN after.rows \ (renumbered \cup R) |-> after.rows[i]]
           Keeps(after, R) == Kept(Steady(rows), Others(after, R), target.nextId)
<1>2. ASSUME NEW after, Kept(rows, after.rows, target.nextId) PROVE Keeps(after, {})
  BY <1>2 DEF Kept, Steady
<1>3. \E after, R, F : Edit(after, R, F) /\ Keeps(after, R)
  <2> HIDE DEF Keeps
  <2>1. CASE OperatorCreatesSubnet
    BY <1>2, <2>1, WritesKeep DEF OperatorCreatesSubnet
  <2>2. CASE OperatorMovesSubnet
    BY <1>2, <2>2, WritesKeep DEF OperatorMovesSubnet
  <2>3. CASE OperatorSetsAddress
    BY <1>2, <2>3, WritesKeep DEF OperatorSetsAddress
  <2>4. CASE OperatorDeletes
    BY <1>2, <2>4, WritesKeep DEF OperatorDeletes
  <2>5. CASE OperatorMovesToSection
    <3> PICK i \in DOMAIN rows, t \in sects :
          Edit([target EXCEPT !.rows = InSection(i, t)], Below(i), Below(i))
      BY <2>5 DEF OperatorMovesToSection
    <3>1. [target EXCEPT !.rows = InSection(i, t)].rows = InSection(i, t)
      BY <1>1
    <3>2. \A j \in DOMAIN rows \ Below(i) : /\ InSection(i, t)[j].section = rows[j].section
                                            /\ InSection(i, t)[j].cidr = rows[j].cidr
      BY <1>1 DEF InSection, TableType, Row
    <3>3. DOMAIN InSection(i, t) = DOMAIN rows
      BY DEF InSection
    <3>4. Keeps([target EXCEPT !.rows = InSection(i, t)], Below(i))
      BY <3>1, <3>2, <3>3 DEF Keeps, Kept, Steady
    <3> QED BY <3>4
  <2>6. CASE OperatorResizesSubnet
    <3> PICK i \in DOMAIN rows, c \in Cidr : Edit([target EXCEPT !.rows[i].cidr = c], {i}, {})
      BY <2>6 DEF OperatorResizesSubnet
    <3>1. [target EXCEPT !.rows[i].cidr = c].rows = [rows EXCEPT ![i].cidr = c]
      BY <1>1
    <3>2. Keeps([target EXCEPT !.rows[i].cidr = c], {i})
      BY <3>1 DEF Keeps, Kept, Steady
    <3> QED BY <3>2
  <2> QED BY <2>1, <2>2, <2>3, <2>4, <2>5, <2>6 DEF Operator
<1>4. PICK after, R, F : Edit(after, R, F) /\ Keeps(after, R)
  BY <1>3
<1>5. TableType(Steady(rows), target.nextId)
  BY <1>1 DEF Steady, TableType
<1>6. Remembers(cache, Others(after, R))
  BY <1>1, <1>4, <1>5, KeptIsRemembered
<1>7. Steady(rows)' = Others(after, R)
  BY <1>4 DEF Edit, Steady, rows
<1> QED BY <1>4, <1>6, <1>7 DEF Edit, IdsStayTrue

\* An empty cache is true of any rows.
LEMMA NoCacheRemembers == \A r : Remembers(NoCache, r)
<1>1. DOMAIN EmptyMap = {}
  BY DEF EmptyMap
<1> QED BY <1>1 DEF Remembers, NoCache

\* Whatever operators and failures do between the time an id or a listing is
\* read and the time it is used, the id denotes the subnet it was read for, or
\* nothing, or a row that an operator resized or moved to another section, or that
\* lies in one moved, while the run was under way (the caches of ipamsync/target.py).
THEOREM CachedIdsAreTrue == Spec => []IdsStayTrue
<1>1. Init => IdsStayTrue
  BY NoCacheRemembers DEF Init, IdsStayTrue
<1>2. TypeOK /\ IdsStayTrue /\ [Next]_vars => IdsStayTrue'
  <2> SUFFICES ASSUME TypeOK, IdsStayTrue, [Next]_vars
               PROVE  IdsStayTrue'
    OBVIOUS
  <2>1. CASE StartRun
    <3>1. CASE RefusedAs # "none"
      BY <2>1, <3>1 DEF StartRun, IdsStayTrue, Steady, rows
    <3>2. CASE RefusedAs = "none"
      <4> DEFINE start == [sections |-> sects,
                           listings |-> [k \in IndexesRead |-> Listing(rows, k[1])],
                           addresses |-> [i \in AddressesRead |-> rows[i].addresses],
                           ids |-> EmptyMap]
      <4>1. DOMAIN EmptyMap = {}
        BY DEF EmptyMap
      <4> DEFINE now == [i \in DOMAIN rows \ {} |-> rows[i]]
      <4>2. Remembers(start, now)
        BY <4>1 DEF Remembers, TrueListing, Listing
      <4>3. cache' = start /\ target' = target /\ renumbered' = {}
        BY <2>1, <3>2 DEF StartRun
      <4>4. Steady(rows)' = now
        BY <4>3 DEF Steady, rows
      <4> HIDE DEF start, now
      <4> QED BY <4>2, <4>3, <4>4 DEF IdsStayTrue
    <3> QED BY <3>1, <3>2
  <2>2. CASE Execute
    BY <2>2, HandlersRemember DEF Execute
  <2>3. CASE FinishRun \/ Crash
    BY <2>3, NoCacheRemembers DEF FinishRun, Crash, ProcessEnds, IdsStayTrue
  <2>4. CASE Operator
    BY <2>4, OperatorRemembers
  <2>5. CASE Deliver
    BY <2>5 DEF Deliver, IdsStayTrue, Steady, rows
  <2>6. CASE UNCHANGED vars
    BY <2>6 DEF vars, IdsStayTrue, Steady, rows
  <2>7. CASE ConfirmEmpty
    <3>1. PICK a \in pending : cache' = Looked(cache, a, "folders")
      BY <2>7 DEF ConfirmEmpty
    <3>2. Remembers(Looked(cache, a, "folders"), Steady(rows))
      BY SeenIsTrue DEF TypeOK, Index
    <3>3. Steady(rows)' = Steady(rows)
      BY <2>7 DEF ConfirmEmpty, Steady, rows
    <3> QED BY <3>1, <3>2, <3>3 DEF IdsStayTrue
  <2> QED BY <2>1, <2>2, <2>3, <2>4, <2>5, <2>6, <2>7 DEF Next
<1> QED BY <1>1, <1>2, TypeCorrect, PTL DEF Spec

\* However a handler ends, its action is taken from the plan and nothing but the
\* target, the caches and the errors changes.
LEMMA HandledIsTaken ==
  ASSUME NEW a, Handle(a)
  PROVE  Taken(a)
<1> USE DEF Write, WriteAndConfirm, Done, Fail, LookupLost, Lost
<1>1. CASE DoWithoutSection(a)
  BY <1>1 DEF DoWithoutSection
<1>2. CASE DoCreateSection(a)
  BY <1>2 DEF DoCreateSection
<1>3. CASE DoCreateFolder(a)
  BY <1>3 DEF DoCreateFolder
<1>4. CASE DoCreateSubnet(a)
  BY <1>4 DEF DoCreateSubnet
<1>5. CASE DoUpdateSubnet(a)
  BY <1>5 DEF DoUpdateSubnet
<1>6. CASE DoDetachSubnet(a)
  BY <1>6 DEF DoDetachSubnet
<1>7. CASE DoReparentSubnet(a)
  BY <1>7 DEF DoReparentSubnet
<1>8. CASE DoCreateAddress(a)
  BY <1>8 DEF DoCreateAddress
<1>9. CASE DoUpdateAddress(a)
  BY <1>9 DEF DoUpdateAddress
<1>10. CASE DoDeleteAddress(a)
  BY <1>10 DEF DoDeleteAddress
<1>11. CASE DoDeleteSubnet(a)
  BY <1>11 DEF DoDeleteSubnet
<1>12. CASE DoDeleteFolder(a)
  BY <1>12 DEF DoDeleteFolder
<1> QED BY <1>1, <1>2, <1>3, <1>4, <1>5, <1>6, <1>7, <1>8, <1>9, <1>10, <1>11, <1>12
        DEF Handle

(***************************************************************************)
(* Additive means additive (DriftUntouched).  The plan of an additive run  *)
(* has no delete and names only what the snapshot lists; by IdsStayTrue    *)
(* what is named is what is written to, unless it was renumbered.          *)
(***************************************************************************)
AdditivePlan ==
  /\ ~ running => pending = {}
  /\ mode = "additive" =>
       \A a \in pending : /\ a.kind \notin DeleteKind
                          /\ a.kind \notin SubnetlessKind => Names(a, snap.documents)

\* The plan of an additive run stays additive while it is carried out, and no plan
\* outlives its run.
LEMMA AdditivePlanInvariant == Spec => []AdditivePlan
<1>1. Init => AdditivePlan
  BY DEF Init, AdditivePlan
<1>2. TypeOK /\ AdditivePlan /\ [Next]_vars => AdditivePlan'
  <2> SUFFICES ASSUME TypeOK, AdditivePlan, [Next]_vars
               PROVE  AdditivePlan'
    OBVIOUS
  <2>1. CASE StartRun
    <3>1. SnapshotOK(snap)
      BY ImportAssumption DEF TypeOK, ImportAssumption, SnapshotOK
    <3>2. RowsOK(rows)
      BY DEF RowsOK, TypeOK, TargetType, TableType, Ids, None, rows
    <3>3. CASE RefusedAs # "none"
      BY <2>1, <3>3 DEF StartRun, AdditivePlan
    <3>4. CASE RefusedAs = "none"
      <4>1. /\ pending' = Plan(snap, sects, rows, mode # "additive") /\ running' = TRUE
            /\ UNCHANGED << snap, mode >>
        BY <2>1, <3>4 DEF StartRun
      <4>2. mode = "additive" =>
              \A a \in Plan(snap, sects, rows, mode # "additive") :
                /\ a.kind \notin DeleteKind
                /\ a.kind \notin SubnetlessKind => Names(a, snap.documents)
        <5>1. (mode # "additive") \in BOOLEAN
          OBVIOUS
        <5> QED BY <3>1, <3>2, <5>1, PlanType
      <4> QED BY <4>1, <4>2 DEF AdditivePlan
    <3> QED BY <3>3, <3>4
  <2>2. CASE Execute
    <3>1. running /\ UNCHANGED << snap, mode, running >> /\ pending' \subseteq pending
      BY <2>2, HandledIsTaken DEF Execute, Taken
    <3> QED BY <3>1 DEF AdditivePlan
  <2>3. CASE FinishRun \/ Crash
    BY <2>3 DEF FinishRun, Crash, ProcessEnds, AdditivePlan
  <2>4. CASE Operator
    BY <2>4 DEF Operator, OperatorCreatesSubnet, OperatorMovesSubnet, OperatorMovesToSection,
                OperatorResizesSubnet, OperatorSetsAddress, OperatorDeletes, Edit, AdditivePlan
  <2>5. CASE Deliver
    BY <2>5 DEF Deliver, AdditivePlan
  <2>6. CASE UNCHANGED vars
    BY <2>6 DEF vars, AdditivePlan
  <2>7. CASE ConfirmEmpty
    BY <2>7 DEF ConfirmEmpty, AdditivePlan
  <2> QED BY <2>1, <2>2, <2>3, <2>4, <2>5, <2>6, <2>7 DEF Next
<1> QED BY <1>1, <1>2, TypeCorrect, PTL DEF Spec

\* What the writes of an additive run leave alone: everything, except that a
\* documented subnet changes, and of its addresses only a documented one, or that a
\* renumbered one does.
LEMMA WritesSpare ==
  ASSUME TypeOK
  PROVE  /\ Spares(rows)
         /\ \A row : Spares(Created(row).rows)
         /\ \A S : Spares([target EXCEPT !.sects = S].rows)
         /\ \A id \in DOMAIN rows : \A f : (id \notin renumbered => Documented(id)) =>
              /\ Spares([target EXCEPT !.rows[id].fields = f].rows)
              /\ Spares([target EXCEPT !.rows[id].masterSubnetId = f].rows)
         /\ \A id \in DOMAIN rows : \A ip, f :
              (id \notin renumbered =>
                 Documented(id) /\ (ip \in Ip => DocumentedAddress(id, ip))) =>
                Spares([target EXCEPT !.rows[id].addresses[ip] = f].rows)
<1>1. /\ target.nextId \in Nat /\ TableType(rows, target.nextId)
      /\ target \in [sects : SUBSET TargetSection, rows : {rows}, nextId : Nat \ {None}]
      /\ rows = target.rows
      /\ \A i \in DOMAIN rows : rows[i] \in Row
  BY DEF TypeOK, TargetType, TableType, rows
<1>2. target.nextId \notin DOMAIN rows
  BY <1>1 DEF TableType, Ids
<1>3. Spares(rows)
  BY DEF Spares
<1>4. ASSUME NEW row PROVE Spares(Created(row).rows)
  <2>1. Created(row).rows = Put(rows, target.nextId, row)
    BY <1>1 DEF Created
  <2> QED BY <1>2, <2>1 DEF Put, Spares
<1>5. ASSUME NEW S PROVE Spares([target EXCEPT !.sects = S].rows)
  <2>1. [target EXCEPT !.sects = S].rows = rows
    BY <1>1
  <2> QED BY <1>3, <2>1
<1>6. ASSUME NEW id \in DOMAIN rows, NEW row, id \notin renumbered => Documented(id),
             id \notin renumbered =>
               \A ip \in Ip : row.addresses[ip] = rows[id].addresses[ip]
                                \/ DocumentedAddress(id, ip)
      PROVE  Spares([target EXCEPT !.rows = [rows EXCEPT ![id] = row]].rows)
  <2>1. [target EXCEPT !.rows = [rows EXCEPT ![id] = row]].rows = [rows EXCEPT ![id] = row]
    BY <1>1
  <2>2. Spares([rows EXCEPT ![id] = row])
    BY <1>6 DEF Spares
  <2> QED BY <2>1, <2>2
<1>7. ASSUME NEW id \in DOMAIN rows, NEW f, id \notin renumbered => Documented(id)
      PROVE  /\ Spares([target EXCEPT !.rows[id].fields = f].rows)
             /\ Spares([target EXCEPT !.rows[id].masterSubnetId = f].rows)
  <2>1. /\ [rows[id] EXCEPT !.fields = f].addresses = rows[id].addresses
        /\ [rows[id] EXCEPT !.masterSubnetId = f].addresses = rows[id].addresses
    BY <1>1 DEF Row
  <2>2. /\ [target EXCEPT !.rows[id].fields = f]
             = [target EXCEPT !.rows = [rows EXCEPT ![id] = [rows[id] EXCEPT !.fields = f]]]
        /\ [target EXCEPT !.rows[id].masterSubnetId = f]
             = [target EXCEPT !.rows = [rows EXCEPT ![id] =
                                          [rows[id] EXCEPT !.masterSubnetId = f]]]
    BY DEF rows
  <2>3. Spares([target EXCEPT !.rows[id].fields = f].rows)
    BY <1>6, <1>7, <2>1, <2>2
  <2>4. Spares([target EXCEPT !.rows[id].masterSubnetId = f].rows)
    BY <1>6, <1>7, <2>1, <2>2
  <2> QED BY <2>3, <2>4
<1>8. ASSUME NEW id \in DOMAIN rows, NEW ip, NEW f,
             id \notin renumbered =>
               Documented(id) /\ (ip \in Ip => DocumentedAddress(id, ip))
      PROVE  Spares([target EXCEPT !.rows[id].addresses[ip] = f].rows)
  <2> DEFINE row == [rows[id] EXCEPT !.addresses = [rows[id].addresses EXCEPT ![ip] = f]]
  <2>1. row.addresses = [rows[id].addresses EXCEPT ![ip] = f]
    BY <1>1 DEF Row
  <2>2. id \notin renumbered =>
          \A x \in Ip : row.addresses[x] = rows[id].addresses[x] \/ DocumentedAddress(id, x)
    <3>1. rows[id].addresses \in AddressTable
      BY <1>1 DEF Row
    <3> QED BY <1>8, <2>1, <3>1 DEF AddressTable
  <2>3. [target EXCEPT !.rows[id].addresses[ip] = f]
          = [target EXCEPT !.rows = [rows EXCEPT ![id] = row]]
    BY DEF rows
  <2> HIDE DEF row
  <2> QED BY <1>6, <1>8, <2>2, <2>3
<1> QED BY <1>3, <1>4, <1>5, <1>7, <1>8

\* What a handler writes to is what its action names.
LEMMA HandlersSpare ==
  ASSUME TypeOK, IdsStayTrue, NEW a \in pending, a.kind \notin DeleteKind,
         a.kind \notin SubnetlessKind => Names(a, snap.documents), Handle(a)
  PROVE  Spares(rows')
<1> DEFINE id == KnownId(a)
<1>1. a \in Action
  BY DEF TypeOK
<1>2. \A looked : Done(a, looked) \/ (\E why : Fail(a, why, looked)) => Spares(rows')
  BY WritesSpare DEF Done, Fail, LookupLost, rows
<1>3. ASSUME NEW accepted, NEW after, NEW looked, NEW dropped, NEW fresh, NEW confirmed,
             accepted => Spares(after.rows),
             \/ WriteAndConfirm(a, accepted, after, looked, dropped, fresh, confirmed)
             \/ Write(a, accepted, after, looked, fresh)
      PROVE  Spares(rows')
  <2>1. target' = target \/ (accepted /\ target' = after)
    BY <1>3 DEF Write, WriteAndConfirm, LookupLost
  <2> QED BY <1>3, <2>1, WritesSpare DEF rows
<1>4. ASSUME a.kind \notin SubnetlessKind, id # None, id \in DOMAIN rows,
             id \notin renumbered
      PROVE  Documented(id) /\ (a.ip \in Ip => DocumentedAddress(id, a.ip))
  <2>1. rows[id].section = T(a) /\ rows[id].cidr = a.cidr
    BY <1>1, <1>4, SeenIsTrue
  <2>2. PICK d \in snap.documents : /\ d.section = a.section
                                    /\ d.cidr = a.cidr
                                    /\ a.ip # None => d.addresses[a.ip] # None
    BY <1>4 DEF Names
  <2>3. a.ip \in Ip => a.ip # None
    BY PlanAssumption DEF PlanAssumption
  <2> QED BY <2>1, <2>2, <2>3 DEF Documented, DocumentedAddress, T
<1>5. CASE DoWithoutSection(a)
  BY <1>2, <1>5 DEF DoWithoutSection
<1>6. CASE DoCreateSection(a)
  <2> DEFINE after == [target EXCEPT !.sects = @ \cup {T(a)}]
  <2>1. Spares(after.rows)
    BY WritesSpare
  <2> HIDE DEF after
  <2>2. \E accepted, looked, fresh :
          WriteAndConfirm(a, accepted, after, looked, fresh, fresh, TRUE)
    BY <1>6 DEF DoCreateSection, after
  <2> QED BY <1>3, <2>1, <2>2
<1>7. CASE DoCreateFolder(a) \/ DoCreateSubnet(a)
  <2>1. \E looked :
          \/ Fail(a, "unresolved", looked)
          \/ \E row, accepted, dropped, fresh :
               WriteAndConfirm(a, accepted, Created(row), looked, dropped, fresh, TRUE)
    BY <1>7 DEF DoCreateFolder, DoCreateSubnet
  <2> QED BY <1>2, <1>3, <2>1, WritesSpare
<1>8. CASE DoUpdateSubnet(a)
  <2> DEFINE after == [target EXCEPT !.rows[id].fields = a.fields]
  <2>1. id # None /\ id \in DOMAIN rows => Spares(after.rows)
    BY <1>4, <1>8, WritesSpare DEF DoUpdateSubnet, On, SubnetlessKind
  <2> HIDE DEF after
  <2>2. \/ Fail(a, "unresolved", Resolved(a))
        \/ id # None /\ Write(a, id \in DOMAIN rows, after, Resolved(a),
                                        Resolved(a))
    BY <1>8 DEF DoUpdateSubnet, after
  <2> QED BY <1>2, <1>3, <2>1, <2>2
<1>9. CASE DoDetachSubnet(a)
  <2> DEFINE after == [target EXCEPT !.rows[id].masterSubnetId = None]
  <2>1. id # None /\ id \in DOMAIN rows => Spares(after.rows)
    BY <1>4, <1>9, WritesSpare DEF DoDetachSubnet, On, SubnetlessKind
  <2> HIDE DEF after
  <2>2. \/ Fail(a, "unresolved", Resolved(a))
        \/ id # None /\ Write(a, id \in DOMAIN rows, after, Resolved(a),
                                        Dropped(Resolved(a), T(a)))
    BY <1>9 DEF DoDetachSubnet, after
  <2> QED BY <1>2, <1>3, <2>1, <2>2
<1>10. CASE DoReparentSubnet(a)
  <2> DEFINE after == [target EXCEPT !.rows[id].masterSubnetId = WantedParent(a)]
  <2>1. id # None /\ id \in DOMAIN rows => Spares(after.rows)
    BY <1>4, <1>10, WritesSpare DEF DoReparentSubnet, On, SubnetlessKind
  <2> HIDE DEF after
  <2>2. \E looked, fresh :
          \/ Fail(a, "unresolved", looked)
          \/ Done(a, looked)
          \/ id # None /\ Write(a, id \in DOMAIN rows, after, looked, fresh)
    BY <1>10 DEF DoReparentSubnet, after
  <2> QED BY <1>2, <1>3, <2>1, <2>2
<1>11. CASE DoCreateAddress(a) \/ DoUpdateAddress(a)
  <2> DEFINE after == [target EXCEPT !.rows[id].addresses[a.ip] = a.fields]
  <2>1. id # None /\ id \in DOMAIN rows => Spares(after.rows)
    BY <1>4, <1>11, WritesSpare DEF DoCreateAddress, DoUpdateAddress, On, SubnetlessKind
  <2> HIDE DEF after
  <2>2. \E looked, fresh, accepted, why :
          \/ Fail(a, why, looked)
          \/ /\ id # None /\ (accepted => id \in DOMAIN rows)
             /\ Write(a, accepted, after, looked, fresh)
    BY <1>11 DEF DoCreateAddress, DoUpdateAddress, after
  <2> QED BY <1>2, <1>3, <2>1, <2>2
<1> QED BY <1>5, <1>6, <1>7, <1>8, <1>9, <1>10, <1>11
        DEF Handle, DoDeleteAddress, DoDeleteSubnet, DoDeleteFolder, On, DeleteKind

\* Additive means additive, for every snapshot and target and whatever operators
\* and failures do while the plan is carried out, but for the subnets that operators
\* then resize or move to another section, of which no more than the row is safe.
THEOREM AdditiveIsSafe == Spec => DriftUntouched
<1>1. TypeOK /\ IdsStayTrue /\ AdditivePlan /\ [Next]_vars
        => [(mode = "additive" /\ Execute) => Spares(rows')]_vars
  <2> SUFFICES ASSUME TypeOK, IdsStayTrue, AdditivePlan, mode = "additive", Execute
               PROVE  Spares(rows')
    OBVIOUS
  <2>1. PICK a \in pending : Handle(a)
    BY DEF Execute
  <2>2. /\ a.kind \notin DeleteKind
        /\ a.kind \notin SubnetlessKind => Names(a, snap.documents)
    BY DEF AdditivePlan
  <2> QED BY <2>1, <2>2, HandlersSpare
<1> QED BY <1>1, TypeCorrect, CachedIdsAreTrue, AdditivePlanInvariant, PTL
        DEF Spec, DriftUntouched

=============================================================================

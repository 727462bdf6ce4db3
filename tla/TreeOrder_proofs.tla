--------------------------- MODULE TreeOrder_proofs ---------------------------
(***************************************************************************)
(* A parent is never removed while a child points at it: the order of the  *)
(* plan, and that in a run nobody disturbs every move and deletion that is *)
(* to come before a deletion does take place.                              *)
(***************************************************************************)
EXTENDS TreeEffects_proofs

(***************************************************************************)
(* The phases of a plan (build_plan's lists), and what its creates and     *)
(* moves take their parents from.                                          *)
(***************************************************************************)
OrphanRank(s, c) == << 5, - PrefixLen[c], s, c, 0 >>

Phased(a) ==
  /\ a.kind = "create_section" => a.rank[1] = 0
  /\ a.kind = "detach_subnet" => a.rank[1] = 1
  /\ a.kind = "create_folder" => a = FolderAction(a.section, a.folder)
  /\ a.kind \in {"create_subnet", "update_subnet", "reparent_subnet", "create_address",
                 "update_address"} => a.rank[1] = 3
  /\ a.kind = "delete_address" => a.rank[1] = 4
  /\ a.kind = "delete_subnet" => a.rank = OrphanRank(a.section, a.cidr)
  /\ a.kind = "delete_folder" => a.rank[1] = 6

Stems(a, s) ==
  \E d \in s.documents :
    /\ a.section = d.section /\ a.cidr = d.cidr
    /\ a.master_subnet = d.master_subnet /\ a.folder = d.parent_folder

PlannedAs(a, s) ==
  /\ Phased(a)
  /\ a.kind \in {"create_subnet", "reparent_subnet"} => Stems(a, s)

\* What the planner makes for a subnet, or for an address in it, has its phase.
LEMMA SubnetPhase ==
  ASSUME NEW docs \in SUBSET Document, NEW d \in docs,
         NEW kind \in ActionKind \ SubnetlessKind, NEW phase \in Int, NEW step \in Int,
         NEW ip \in Ip \cup {None}
  PROVE  LET o == OnSubnet(kind, d, docs, phase, step, ip)
         IN  /\ o.rank[1] = phase
             /\ \A f : [o EXCEPT !.fields = f].rank[1] = phase
             /\ \A f : [o EXCEPT !.fields = f].kind = kind
             /\ \A f, m, p :
                  LET a == [o EXCEPT !.fields = f, !.master_subnet = m, !.folder = p]
                  IN  /\ a.rank[1] = phase /\ a.kind = kind
                      /\ a.section = d.section /\ a.cidr = d.cidr
                      /\ a.master_subnet = m /\ a.folder = p
             /\ \A m, p :
                  LET a == [o EXCEPT !.master_subnet = m, !.folder = p]
                  IN  /\ a.rank[1] = phase /\ a.kind = kind
                      /\ a.section = d.section /\ a.cidr = d.cidr
                      /\ a.master_subnet = m /\ a.folder = p
<1> DEFINE o == OnSubnet(kind, d, docs, phase, step, ip)
           at == Place(docs, d.cidr)
<1>1. /\ o \in Action /\ o.kind = kind /\ o.section = d.section /\ o.cidr = d.cidr
  BY OnSubnetType
<1>2. o.rank = << phase, at[1], at[2], step, ip >>
  BY DEF OnSubnet, Blank
<1>3. o.rank[1] = phase
  BY <1>2
<1> HIDE DEF o
<1>4. o \in ActionRecord
  BY <1>1 DEF Action
<1>5. \A f : [o EXCEPT !.fields = f].rank[1] = phase /\ [o EXCEPT !.fields = f].kind = kind
  BY <1>1, <1>3, <1>4 DEF ActionRecord
<1>6. ASSUME NEW f, NEW m, NEW p
      PROVE  LET a == [o EXCEPT !.fields = f, !.master_subnet = m, !.folder = p]
             IN  /\ a.rank[1] = phase /\ a.kind = kind
                 /\ a.section = d.section /\ a.cidr = d.cidr
                 /\ a.master_subnet = m /\ a.folder = p
  BY <1>1, <1>3, <1>4 DEF ActionRecord
<1>7. ASSUME NEW m, NEW p
      PROVE  LET a == [o EXCEPT !.master_subnet = m, !.folder = p]
             IN  /\ a.rank[1] = phase /\ a.kind = kind
                 /\ a.section = d.section /\ a.cidr = d.cidr
                 /\ a.master_subnet = m /\ a.folder = p
  BY <1>1, <1>3, <1>4 DEF ActionRecord
<1> QED BY <1>3, <1>5, <1>6, <1>7 DEF o

\* Every planned action is in the phase of its kind.
LEMMA PlannedPhases ==
  ASSUME NEW s, SnapshotOK(s), NEW r, RowsOK(r), NEW S, NEW deleting \in BOOLEAN,
         NEW a \in Plan(s, S, r, deleting)
  PROVE  PlannedAs(a, s)
<1> DEFINE docs == Ordered(s.documents)
<1>1. docs \in SUBSET Document /\ docs \subseteq s.documents
  BY DEF SnapshotOK, Ordered
<1>2. a.kind = "create_folder" => a = FolderAction(a.section, a.folder)
  BY PlannedFolder
<1> HIDE DEF docs
<1>3. /\ \A d \in Missing(docs, r) : d \in docs
      /\ \A d \in SubnetMoves(docs, r) \cup FolderMoves(docs, r) : d \in docs
      /\ {0, 1, 2, 3, 4} \subseteq Int /\ None \in Ip \cup {None}
      /\ ActionKind \ SubnetlessKind =
           {"detach_subnet", "create_subnet", "update_subnet", "reparent_subnet",
            "create_address", "update_address", "delete_address", "delete_subnet"}
  BY DEF Missing, SubnetMoves, FolderMoves, ActionKind, SubnetlessKind
<1>4. CASE a \in SectionCreates(s, S)
  <2>1. a.kind = "create_section" /\ a.rank[1] = 0
    BY <1>4 DEF SectionCreates, Blank
  <2> QED BY <2>1 DEF PlannedAs, Phased
<1>5. CASE a \in Detaches(docs, r)
  <2>1. PICK d \in docs : a = OnSubnet("detach_subnet", d, docs, 1, 0, None)
    BY <1>3, <1>5 DEF Detaches
  <2>2. a.kind = "detach_subnet" /\ a.rank[1] = 1
    BY <1>1, <1>3, <2>1, SubnetPhase, OnSubnetType
  <2> QED BY <2>2 DEF PlannedAs, Phased
<1>6. CASE a \in FolderCreates(s, r)
  <2>1. a.kind = "create_folder"
    BY <1>6, OtherActions
  <2> QED BY <1>2, <2>1 DEF PlannedAs, Phased
<1>7. CASE a \in SubnetCreates(docs, r)
  <2>1. PICK d \in docs :
          a = [OnSubnet("create_subnet", d, docs, 3, 0, None) EXCEPT
                 !.fields = d.fields, !.master_subnet = d.master_subnet, !.folder = d.parent_folder]
    BY <1>3, <1>7 DEF SubnetCreates
  <2>2. /\ a.kind = "create_subnet" /\ a.rank[1] = 3
        /\ a.section = d.section /\ a.cidr = d.cidr
        /\ a.master_subnet = d.master_subnet /\ a.folder = d.parent_folder
    BY <1>1, <1>3, <2>1, SubnetPhase
  <2> QED BY <1>1, <2>2 DEF PlannedAs, Phased, Stems
<1>8. CASE a \in SubnetUpdates(docs, r)
  <2>1. PICK d \in docs :
          a = [OnSubnet("update_subnet", d, docs, 3, 0, None) EXCEPT !.fields = d.fields]
    BY <1>8 DEF SubnetUpdates
  <2>2. a.kind = "update_subnet" /\ a.rank[1] = 3
    BY <1>1, <1>3, <2>1, SubnetPhase
  <2> QED BY <2>2 DEF PlannedAs, Phased
<1>9. CASE a \in Reparents(docs, r)
  <2>1. PICK d \in docs :
          a = [OnSubnet("reparent_subnet", d, docs, 3, 1, None) EXCEPT
                 !.master_subnet = d.master_subnet, !.folder = d.parent_folder]
    BY <1>3, <1>9 DEF Reparents
  <2>2. /\ a.kind = "reparent_subnet" /\ a.rank[1] = 3
        /\ a.section = d.section /\ a.cidr = d.cidr
        /\ a.master_subnet = d.master_subnet /\ a.folder = d.parent_folder
    BY <1>1, <1>3, <2>1, SubnetPhase
  <2> QED BY <1>1, <2>2 DEF PlannedAs, Phased, Stems
<1>10. ASSUME NEW kind \in {"create_address", "update_address", "delete_address"},
              NEW phase \in {3, 4}, NEW d \in docs, NEW ip \in Ip,
              a = OnAddress(kind, d, docs, phase, ip)
       PROVE  a.kind = kind /\ a.rank[1] = phase
  BY <1>1, <1>3, <1>10, SubnetPhase DEF OnAddress
<1>11. CASE a \in AddressCreates(docs, r)
  <2>1. PICK d \in docs, ip \in Ip : a = OnAddress("create_address", d, docs, 3, ip)
    BY <1>11 DEF AddressCreates
  <2>2. a.kind = "create_address" /\ a.rank[1] = 3
    BY <1>10, <2>1
  <2> QED BY <2>2 DEF PlannedAs, Phased
<1>12. CASE a \in AddressUpdates(docs, r)
  <2>1. PICK d \in docs, ip \in Ip : a = OnAddress("update_address", d, docs, 3, ip)
    BY <1>12 DEF AddressUpdates
  <2>2. a.kind = "update_address" /\ a.rank[1] = 3
    BY <1>10, <2>1
  <2> QED BY <2>2 DEF PlannedAs, Phased
<1>13. CASE a \in AddressOrphans(docs, r)
  <2>1. PICK d \in docs, ip \in Ip : a = OnAddress("delete_address", d, docs, 4, ip)
    BY <1>13 DEF AddressOrphans
  <2>2. a.kind = "delete_address" /\ a.rank[1] = 4
    BY <1>10, <2>1
  <2> QED BY <2>2 DEF PlannedAs, Phased
<1>14. CASE a \in SubnetOrphans(docs, r)
  <2>1. PICK x \in {d.section : d \in docs} :
          \E c \in CidrsOf(Listing(r, TargetOf[x])) \ {d.cidr : d \in {e \in docs : e.section = x}} :
            a = [Blank("delete_subnet", x, << 5, - PrefixLen[c], x, c, 0 >>) EXCEPT !.cidr = c]
    BY <1>14 DEF SubnetOrphans
  <2>2. PICK c : a = [Blank("delete_subnet", x, << 5, - PrefixLen[c], x, c, 0 >>) EXCEPT !.cidr = c]
    BY <2>1
  <2>3. a.kind = "delete_subnet" /\ a.section = x /\ a.cidr = c /\ a.rank = OrphanRank(x, c)
    BY <2>2 DEF Blank, OrphanRank
  <2> QED BY <2>3 DEF PlannedAs, Phased
<1>15. CASE a \in FolderOrphans(s, r)
  <2>1. PICK x \in s.sections : \E p \in FoldersOf(Listing(r, TargetOf[x])) \ s.folders[x] :
          a = [Blank("delete_folder", x, << 6, - Len(p), x, 0, 0 >>) EXCEPT !.folder = p]
    BY <1>15 DEF FolderOrphans
  <2>2. a.kind = "delete_folder" /\ a.rank[1] = 6
    BY <2>1 DEF Blank
  <2> QED BY <2>2 DEF PlannedAs, Phased
<1> QED BY <1>4, <1>5, <1>6, <1>7, <1>8, <1>9, <1>11, <1>12, <1>13, <1>14, <1>15
        DEF Plan, Deletes, docs

\* While a plan is carried out its actions are as planned, from the present snapshot.
FollowsPlan ==
  /\ ~ running => pending = {}
  /\ \A a \in pending : PlannedAs(a, snap)

LEMMA FollowsPlanInvariant == Spec => []FollowsPlan
<1>1. Init => FollowsPlan
  BY DEF Init, FollowsPlan
<1>2. TypeOK /\ FollowsPlan /\ [Next]_vars => FollowsPlan'
  <2> SUFFICES ASSUME TypeOK, FollowsPlan, [Next]_vars
               PROVE  FollowsPlan'
    OBVIOUS
  <2>1. CASE StartRun
    <3>1. snap' = snap
      BY <2>1 DEF StartRun
    <3>2. CASE RefusedAs = "none"
      <4>1. running' = TRUE /\ pending' = Plan(snap, sects, rows, mode # "additive")
        BY <2>1, <3>2 DEF StartRun
      <4>2. (mode # "additive") \in BOOLEAN
        OBVIOUS
      <4>3. ASSUME NEW a \in pending' PROVE PlannedAs(a, snap)
        BY <4>1, <4>2, PlanInputs, PlannedPhases
      <4> QED BY <3>1, <4>1, <4>3 DEF FollowsPlan
    <3>3. CASE RefusedAs # "none"
      BY <2>1, <3>1, <3>3 DEF StartRun, FollowsPlan
    <3> QED BY <3>2, <3>3
  <2>2. CASE Execute
    <3>1. running /\ pending' \subseteq pending /\ snap' = snap /\ running' = running
      BY <2>2, HandledIsTaken DEF Execute, Taken
    <3> QED BY <3>1 DEF FollowsPlan
  <2>3. CASE FinishRun \/ Crash
    BY <2>3 DEF FinishRun, Crash, ProcessEnds, FollowsPlan
  <2>4. CASE Operator
    BY <2>4, OperatorCounts DEF FollowsPlan
  <2>5. CASE Deliver \/ ConfirmEmpty
    BY <2>5 DEF Deliver, ConfirmEmpty, FollowsPlan
  <2>6. CASE UNCHANGED vars
    BY <2>6 DEF vars, FollowsPlan
  <2> QED BY <2>1, <2>2, <2>3, <2>4, <2>5, <2>6 DEF Next
<1> QED BY <1>1, <1>2, TypeCorrect, PTL DEF Spec

(***************************************************************************)
(* Where a handler puts a row.                                             *)
(***************************************************************************)
\* A parent that is found is what was looked for.
LEMMA WantedIsRight ==
  ASSUME TypeOK, IdsTrueNow, FoldersStayTrue, NEW a \in Action, WantedParent(a) \in DOMAIN rows
  PROVE  /\ rows[WantedParent(a)].section = T(a)
         /\ a.folder # NoFolder => rows[WantedParent(a)].isFolder
         /\ a.folder = NoFolder => /\ a.master_subnet # None
                                   /\ rows[WantedParent(a)].cidr = a.master_subnet
<1> DEFINE p == WantedParent(a)
<1>0. p # None
  BY TargetFacts DEF TableType, Ids, None
<1>1. CASE a.folder # NoFolder
  <2>1. p \in FolderRows(Listed(T(a), "folders"))
    BY <1>0, <1>1 DEF WantedParent, FolderId, Pick
  <2> HIDE DEF p
  <2>2. rows[p].section = T(a) /\ rows[p].isFolder
    BY <2>1, LooksAreFolderTrue DEF FolderRows, FolderTrue, p
  <2> QED BY <1>1, <2>2 DEF p
<1>2. CASE a.folder = NoFolder
  <2>1. a.master_subnet # None /\ p = SubnetId(Listed(T(a), "subnets"), a.master_subnet)
    BY <1>0, <1>2 DEF WantedParent
  <2>2. p \in SubnetIds(Listed(T(a), "subnets"), a.master_subnet)
    BY <1>0, <2>1, LookedUp
  <2>3. TrueListing(Listed(T(a), "subnets"), T(a), rows)
    BY SeenIsTrueNow
  <2> HIDE DEF p
  <2>4. rows[p].section = T(a) /\ rows[p].cidr = a.master_subnet
    BY <2>2, <2>3 DEF SubnetIds, SubnetRows, TrueListing, p
  <2> QED BY <1>2, <2>1, <2>4 DEF p
<1> QED BY <1>1, <1>2

\* What a handler makes of the parents of rows.
Places(a, s) ==
  /\ DOMAIN s \subseteq DOMAIN rows \cup {target.nextId}
  /\ target.nextId \in DOMAIN s => Creates(a, s[target.nextId])
  /\ \A j \in DOMAIN rows \cap DOMAIN s :
       /\ s[j].section = rows[j].section /\ s[j].isFolder = rows[j].isFolder
       /\ s[j].cidr = rows[j].cidr
       /\ \/ s[j].masterSubnetId = rows[j].masterSubnetId
          \/ /\ a.kind \in {"detach_subnet", "reparent_subnet"}
             /\ rows[j].section = T(a) /\ rows[j].cidr = a.cidr /\ ~ rows[j].isFolder
             /\ s[j].masterSubnetId = IF a.kind = "detach_subnet" THEN None ELSE WantedParent(a)

LEMMA RowsPlaced ==
  ASSUME TypeOK, IdsTrueNow, NEW a \in pending, Handle(a)
  PROVE  Places(a, rows')
<1>0. a \in Action
  BY DEF TypeOK
<1>1. target.nextId \notin DOMAIN rows /\ \A i \in DOMAIN rows : rows[i] \in Row
  BY TargetFacts DEF TableType
<1>2. Places(a, rows)
  BY <1>1 DEF Places
<1>3. PICK after, looked, dropped, fresh : Ended(a, after, looked, dropped, fresh)
  BY HandlerEnds
<1>4. CASE target' = target
  BY <1>2, <1>4 DEF rows
<1>5. CASE Effect(a, after, looked, dropped, fresh) /\ target' = after
  <2> DEFINE s == after.rows
  <2>0. rows' = s
    BY <1>5 DEF rows
  <2>1. CASE s = rows
    BY <1>2, <2>0, <2>1
  <2>2. CASE Entered(a, after)
    <3>1. PICK row : Creates(a, row) /\ s = Put(rows, target.nextId, row)
      BY <2>2 DEF Entered
    <3> HIDE DEF s
    <3>2. /\ DOMAIN s = DOMAIN rows \cup {target.nextId} /\ s[target.nextId] = row
          /\ \A i \in DOMAIN rows : s[i] = rows[i]
      BY <1>1, <3>1 DEF Put
    <3>3. Places(a, s)
      BY <1>1, <3>1, <3>2 DEF Places
    <3> QED BY <2>0, <3>3
  <2>3. CASE Changed(a, after, looked, fresh)
    <3> DEFINE id == KnownId(a)
    <3>1. PICK row : Changes(a, id, row, looked, fresh) /\ s = [rows EXCEPT ![id] = row]
      BY <2>3 DEF Changed
    <3>2. /\ id \in DOMAIN rows /\ rows[id].section = T(a) /\ rows[id].cidr = a.cidr
          /\ a.kind \notin SubnetlessKind
      BY <2>3 DEF Changed
    <3> HIDE DEF id, s
    <3>3. rows[id] \in Row /\ ~ rows[id].isFolder
      BY <1>0, <1>1, <3>2 DEF Row, Action
    <3>4. /\ row.section = rows[id].section /\ row.isFolder = rows[id].isFolder
          /\ row.cidr = rows[id].cidr
          /\ \/ row.masterSubnetId = rows[id].masterSubnetId
             \/ /\ a.kind \in {"detach_subnet", "reparent_subnet"}
                /\ row.masterSubnetId = IF a.kind = "detach_subnet" THEN None ELSE WantedParent(a)
      BY <3>1, <3>3 DEF Changes, WithAddress, Row
    <3>5. Places(a, s)
      BY <1>1, <3>1, <3>2, <3>3, <3>4 DEF Places
    <3> QED BY <2>0, <3>5
  <2>4. CASE TakenOut(a, after)
    <3>1. DOMAIN s \subseteq DOMAIN rows /\ \A i \in DOMAIN s : s[i] = rows[i]
      BY <2>4 DEF TakenOut, RowsWithout
    <3> HIDE DEF s
    <3>2. Places(a, s)
      BY <1>1, <3>1 DEF Places
    <3> QED BY <2>0, <3>2
  <2> QED BY <1>0, <1>5, <2>1, <2>2, <2>3, <2>4, EffectOnRows
<1> QED BY <1>3, <1>4, <1>5 DEF Ended

\* A row that lies below a subnet after a handler lay there before, or was put there
\* by a create or a move that names that subnet.
LEMMA ChildrenAfter ==
  ASSUME TypeOK, IdsTrueNow, FoldersStayTrue, Housed(target), NEW a \in pending, Handle(a),
         NEW i \in DOMAIN rows', NEW j \in DOMAIN rows', rows'[j].masterSubnetId = i,
         ~ rows'[i].isFolder
  PROVE  /\ i \in DOMAIN rows /\ ~ rows[i].isFolder
         /\ rows'[i].section = rows[i].section /\ rows'[i].cidr = rows[i].cidr
         /\ \/ /\ j \in DOMAIN rows /\ rows[j].masterSubnetId = i
               /\ rows'[j].isFolder = rows[j].isFolder /\ rows'[j].cidr = rows[j].cidr
               /\ rows'[j].section = rows[j].section
            \/ /\ a.kind \in {"create_subnet", "reparent_subnet"}
               /\ i = WantedParent(a)
               /\ a.folder = NoFolder /\ a.master_subnet # None
               /\ rows[i].section = T(a) /\ rows[i].cidr = a.master_subnet
               /\ ~ rows'[j].isFolder /\ rows'[j].cidr = a.cidr
<1> DEFINE n == target.nextId
<1>0. a \in Action
  BY DEF TypeOK
<1>1. /\ n \notin DOMAIN rows /\ n \notin Ids(n) \cup {None} /\ None \notin DOMAIN rows
      /\ DOMAIN rows \subseteq Ids(n) /\ n # None
  BY TargetFacts DEF TableType, Ids, None
<1>2. Places(a, rows')
  BY RowsPlaced
<1>3. WantedParent(a) \in Ids(n) \cup {None}
  BY <1>0, ParentsFacts, ParentsAreHoused
<1>4. CASE j = n
  <2>1. Creates(a, rows'[n])
    BY <1>2, <1>4 DEF Places
  <2>2. CASE a.kind = "create_subnet"
    <3>1. /\ rows'[j].masterSubnetId = WantedParent(a) /\ ~ rows'[j].isFolder
          /\ rows'[j].cidr = a.cidr
      BY <1>4, <2>1, <2>2 DEF Creates, SubnetRow
    <3>2. i \in DOMAIN rows
      BY <1>1, <1>2, <1>3, <3>1 DEF Places
    <3>3. /\ rows'[i].section = rows[i].section /\ rows'[i].cidr = rows[i].cidr
          /\ rows'[i].isFolder = rows[i].isFolder
      BY <1>2, <3>2 DEF Places
    <3> QED BY <1>0, <2>2, <3>1, <3>2, <3>3, WantedIsRight
  <2>3. CASE a.kind = "create_folder"
    <3>1. AcceptsFolder(i)
      BY <1>4, <2>1, <2>3 DEF Creates, FolderRow
    <3>2. i \in DOMAIN rows' /\ (i = None \/ (i \in DOMAIN rows /\ rows[i].isFolder))
      BY <3>1 DEF AcceptsFolder
    <3>3. i # None
      BY <1>1, <1>2, <3>2 DEF Places
    <3> QED BY <1>2, <3>2, <3>3 DEF Places
  <2> QED BY <2>1, <2>2, <2>3 DEF Creates
<1>5. CASE j # n
  <2>1. j \in DOMAIN rows \cap DOMAIN rows'
    BY <1>2, <1>5 DEF Places
  <2>2. rows[j].masterSubnetId \in Ids(n) \cup {None}
    BY <2>1 DEF Housed, rows
  <2>3. CASE rows'[j].masterSubnetId = rows[j].masterSubnetId
    <3>1. i \in DOMAIN rows
      BY <1>1, <1>2, <2>2, <2>3 DEF Places
    <3> QED BY <1>2, <2>1, <2>3, <3>1 DEF Places
  <2>4. CASE rows'[j].masterSubnetId # rows[j].masterSubnetId
    <3>1. /\ a.kind \in {"detach_subnet", "reparent_subnet"}
          /\ i = IF a.kind = "detach_subnet" THEN None ELSE WantedParent(a)
          /\ rows'[j].cidr = a.cidr /\ ~ rows'[j].isFolder
      BY <1>2, <2>1, <2>4 DEF Places
    <3>2. i # None
      BY <1>1, <1>2 DEF Places
    <3>3. a.kind = "reparent_subnet" /\ i = WantedParent(a)
      BY <3>1, <3>2
    <3>4. i \in DOMAIN rows
      BY <1>1, <1>2, <1>3, <3>3 DEF Places
    <3>5. /\ rows'[i].section = rows[i].section /\ rows'[i].cidr = rows[i].cidr
          /\ rows'[i].isFolder = rows[i].isFolder
      BY <1>2, <3>4 DEF Places
    <3> QED BY <1>0, <3>1, <3>3, <3>4, <3>5, WantedIsRight
  <2> QED BY <2>3, <2>4
<1> QED BY <1>4, <1>5

(***************************************************************************)
(* Nesting outlasts every handler, over faults and crashes.                *)
(***************************************************************************)
NestedRows == edits = 0 => Nested(rows)

LEMMA HandlersNest ==
  ASSUME TypeOK, IdsTrueNow, FoldersStayTrue, Housed(target), FollowsPlan, Nested(rows),
         NEW a \in pending, Handle(a)
  PROVE  Nested(rows')
<1> SUFFICES ASSUME NEW i \in DOMAIN rows', NEW j \in DOMAIN rows', rows'[j].masterSubnetId = i,
                    ~ rows'[i].isFolder
             PROVE  ~ rows'[j].isFolder /\ PrefixLen[rows'[i].cidr] < PrefixLen[rows'[j].cidr]
  BY DEF Nested
<1>1. /\ i \in DOMAIN rows /\ ~ rows[i].isFolder /\ rows'[i].cidr = rows[i].cidr
      /\ \/ /\ j \in DOMAIN rows /\ rows[j].masterSubnetId = i
            /\ rows'[j].isFolder = rows[j].isFolder /\ rows'[j].cidr = rows[j].cidr
         \/ /\ a.kind \in {"create_subnet", "reparent_subnet"}
            /\ a.master_subnet # None /\ rows[i].cidr = a.master_subnet
            /\ ~ rows'[j].isFolder /\ rows'[j].cidr = a.cidr
  BY ChildrenAfter
<1>2. CASE j \in DOMAIN rows /\ rows[j].masterSubnetId = i
           /\ rows'[j].isFolder = rows[j].isFolder /\ rows'[j].cidr = rows[j].cidr
  BY <1>1, <1>2 DEF Nested
<1>3. CASE /\ a.kind \in {"create_subnet", "reparent_subnet"}
           /\ a.master_subnet # None /\ rows[i].cidr = a.master_subnet
           /\ ~ rows'[j].isFolder /\ rows'[j].cidr = a.cidr
  <2>1. PICK d \in snap.documents : a.cidr = d.cidr /\ a.master_subnet = d.master_subnet
    BY <1>3 DEF FollowsPlan, PlannedAs, Stems
  <2>2. PrefixLen[d.master_subnet] < PrefixLen[d.cidr]
    BY <1>3, <2>1, ClosedAssumption DEF ClosedAssumption, Closed, TypeOK
  <2> QED BY <1>1, <1>3, <2>1, <2>2
<1> QED BY <1>1, <1>2, <1>3

LEMMA NestedRowsInvariant == Spec => []NestedRows
<1>1. Init => NestedRows
  BY NestedAssumption DEF Init, NestedRows, NestedAssumption, rows
<1>2. TypeOK /\ Unmeddled /\ FoldersTrueNow /\ FollowsPlan /\ NestedRows /\ [Next]_vars
        => NestedRows'
  <2> SUFFICES ASSUME TypeOK, Unmeddled, FoldersTrueNow, FollowsPlan, NestedRows, [Next]_vars,
                      edits' = 0
               PROVE  Nested(rows')
    BY DEF NestedRows
  <2>1. CASE Execute
    <3>1. PICK a \in pending : Handle(a)
      BY <2>1 DEF Execute
    <3>2. edits' = edits
      BY <3>1, HandledIsTaken DEF Taken
    <3>3. IdsTrueNow /\ Housed(target) /\ FoldersStayTrue /\ Nested(rows)
      BY <3>2 DEF Unmeddled, FoldersTrueNow, NestedRows
    <3> QED BY <3>1, <3>3, HandlersNest
  <2>2. CASE StartRun \/ FinishRun \/ Crash \/ Deliver \/ ConfirmEmpty
    BY <2>2 DEF StartRun, FinishRun, Crash, Deliver, ConfirmEmpty, NestedRows, rows
  <2>3. CASE Operator
    BY <2>3, OperatorCounts
  <2>4. CASE UNCHANGED vars
    BY <2>4 DEF vars, NestedRows, rows
  <2> QED BY <2>1, <2>2, <2>3, <2>4 DEF Next
<1> QED BY <1>1, <1>2, TypeCorrect, UnmeddledInvariant, FoldersTrueInvariant,
           FollowsPlanInvariant, PTL DEF Spec

(***************************************************************************)
(* What a plan is made to provide for: a section and a folder that an      *)
(* action needs is there or is created before; a child of a subnet that is *)
(* to be deleted is detached, moved to a folder or deleted before.         *)
(***************************************************************************)
FolderReady(plan, r, a, p) ==
  \/ \E i : IsFolderAt(Listing(r, T(a)), i, p)
  \/ \E b \in plan : b.kind = "create_folder" /\ b.section = a.section /\ b.folder = p

SectionsReady(plan, S) ==
  \A a \in plan : T(a) \in S \/ \E b \in plan : b.kind = "create_section" /\ T(b) = T(a)

FoldersReady(plan, r) ==
  \A a \in plan :
    /\ (a.kind = "reparent_subnet" /\ a.folder # NoFolder) => FolderReady(plan, r, a, a.folder)
    /\ (a.kind = "create_folder" /\ Len(a.folder) > 1) => FolderReady(plan, r, a, Above(a.folder))

\* Action b takes subnet c away from its parent before action a is carried out.
Clears(b, a, c) ==
  /\ T(b) = T(a) /\ b.cidr = c /\ Before(b, a)
  /\ \/ b.kind \in {"detach_subnet", "delete_subnet"}
     \/ b.kind = "reparent_subnet" /\ b.folder # NoFolder

ChildrenCleared(plan, r) ==
  \A a \in plan : a.kind = "delete_subnet" =>
    \A i \in SubnetIds(Listing(r, T(a)), a.cidr) : \A j \in DOMAIN r :
      r[j].masterSubnetId = i => \E b \in plan : Clears(b, a, r[j].cidr)

\* An action of an earlier phase is carried out before.
LEMMA EarlierPhase ==
  ASSUME NEW a, NEW b, b.rank[1] < a.rank[1]
  PROVE  Before(b, a)
<1>1. 1 \in 1 .. 5 /\ \A j \in 1 .. (1 - 1) : b.rank[j] = a.rank[j]
  OBVIOUS
<1> QED BY <1>1 DEF Before

LEMMA PlannedFoldersReady ==
  ASSUME NEW s, SnapshotOK(s), Filed(s), Closed(s), NEW r, RowsOK(r), NEW S,
         NEW deleting \in BOOLEAN
  PROVE  FoldersReady(Plan(s, S, r, deleting), r)
<1> DEFINE P == Plan(s, S, r, deleting)
<1>1. ASSUME NEW a \in P, NEW p \in s.folders[a.section], a.section \in s.sections
      PROVE  FolderReady(P, r, a, p)
  <2>0. p \in FolderPath
    BY <1>1 DEF SnapshotOK
  <2>1. CASE p \in FoldersOf(Listing(r, TargetOf[a.section]))
    BY <2>1 DEF FoldersOf, FolderReady, T
  <2>2. CASE p \notin FoldersOf(Listing(r, TargetOf[a.section]))
    <3> DEFINE b == FolderAction(a.section, p)
    <3> DEFINE Of(x) == {FolderAction(x, q) : q \in s.folders[x] \ FoldersOf(Listing(r, TargetOf[x]))}
    <3>4. FolderCreates(s, r) = UNION {Of(x) : x \in s.sections}
      BY DEF FolderCreates, FolderAction
    <3>5. b \in Of(a.section)
      BY <1>1, <2>2
    <3> HIDE DEF Of
    <3>1. b \in FolderCreates(s, r)
      BY <1>1, <3>4, <3>5
    <3>2. b \in P
      BY <3>1 DEF Plan
    <3>3. b.kind = "create_folder" /\ b.section = a.section /\ b.folder = p
      BY DEF FolderAction, Blank
    <3> HIDE DEF b, P
    <3> QED BY <3>2, <3>3 DEF FolderReady
  <2> QED BY <2>1, <2>2
<1>2. ASSUME NEW a \in P, a.kind = "reparent_subnet", a.folder # NoFolder
      PROVE  FolderReady(P, r, a, a.folder)
  <2>1. PICK d \in s.documents : a.section = d.section /\ a.folder = d.parent_folder
    BY <1>2, PlannedPhases DEF PlannedAs, Stems
  <2>2. a.folder \in s.folders[a.section] /\ a.section \in s.sections
    BY <1>2, <2>1 DEF Closed, Filed
  <2> QED BY <1>1, <2>2
<1>3. ASSUME NEW a \in P, a.kind = "create_folder", Len(a.folder) > 1
      PROVE  FolderReady(P, r, a, Above(a.folder))
  <2>1. a.section \in s.sections /\ a.folder \in s.folders[a.section]
    BY <1>3, PlannedFolder
  <2>2. Above(a.folder) \in s.folders[a.section]
    BY <1>3, <2>1 DEF Closed, Above
  <2> QED BY <1>1, <2>1, <2>2
<1> QED BY <1>2, <1>3 DEF FoldersReady

LEMMA PlannedSectionsReady ==
  ASSUME NEW s, SnapshotOK(s), NEW r, RowsOK(r), NEW S, NEW deleting \in BOOLEAN
  PROVE  SectionsReady(Plan(s, S, r, deleting), S)
<1> DEFINE P == Plan(s, S, r, deleting)
           docs == Ordered(s.documents)
<1>1. docs \in SUBSET Document
  BY DEF SnapshotOK, Ordered
<1>2. ASSUME NEW a \in P PROVE a.section \in SectionsNeeded(s)
  <2> HIDE DEF docs
  <2>1. /\ Writes(SubnetCreates(docs, r), "create_subnet", docs)
        /\ Writes(SubnetUpdates(docs, r), "update_subnet", docs)
        /\ Writes(Detaches(docs, r), "detach_subnet", docs)
        /\ Writes(Reparents(docs, r), "reparent_subnet", docs)
        /\ Writes(AddressCreates(docs, r), "create_address", docs)
        /\ Writes(AddressUpdates(docs, r), "update_address", docs)
    BY <1>1, SubnetWrites, AddressWrites
  <2>2. (\E d \in docs : d.section = a.section) \/ a.section \in s.sections
          => a.section \in SectionsNeeded(s)
    BY DEF SectionsNeeded, docs
  <2>3. CASE \E d \in docs : d.section = a.section
    BY <2>2, <2>3
  <2>4. CASE a \in SectionCreates(s, S)
    BY <2>4 DEF SectionCreates, Unresolved, Blank
  <2>5. CASE a \in FolderCreates(s, r) \cup FolderOrphans(s, r)
    <3>1. PICK x \in s.sections :
            \/ \E p \in s.folders[x] \ FoldersOf(Listing(r, TargetOf[x])) :
                 a = [Blank("create_folder", x, << 2, x, Len(p), 0, 0 >>) EXCEPT !.folder = p]
            \/ \E p \in FoldersOf(Listing(r, TargetOf[x])) \ s.folders[x] :
                 a = [Blank("delete_folder", x, << 6, - Len(p), x, 0, 0 >>) EXCEPT !.folder = p]
      BY <2>5, ZenonT(60) DEF FolderCreates, FolderOrphans
    <3>2. a.section = x
      BY <3>1 DEF Blank
    <3> QED BY <2>2, <3>2
  <2>6. CASE a \in SubnetOrphans(docs, r)
    <3>1. PICK x \in {d.section : d \in docs} :
            \E c \in CidrsOf(Listing(r, TargetOf[x])) \ {d.cidr : d \in {e \in docs : e.section = x}} :
              a = [Blank("delete_subnet", x, << 5, - PrefixLen[c], x, c, 0 >>) EXCEPT !.cidr = c]
      BY <2>6 DEF SubnetOrphans
    <3>2. a.section = x
      BY <3>1 DEF Blank
    <3> QED BY <2>2, <3>1, <3>2
  <2>7. CASE a \in AddressOrphans(docs, r)
    <3>1. PICK d \in docs, ip \in Ip : a = OnAddress("delete_address", d, docs, 4, ip)
      BY <2>7 DEF AddressOrphans
    <3> DEFINE o == OnSubnet("delete_address", d, docs, 4, 2, ip)
    <3>2. o \in Action /\ o.section = d.section
      BY <1>1, OnSubnetType DEF ActionKind, SubnetlessKind
    <3> HIDE DEF o
    <3>3. [o EXCEPT !.fields = d.addresses[ip]].section = d.section
      BY <3>2 DEF Action, ActionRecord
    <3>4. a.section = d.section
      BY <3>1, <3>3 DEF OnAddress, o
    <3> QED BY <2>2, <3>4
  <2> QED BY <2>1, <2>3, <2>4, <2>5, <2>6, <2>7 DEF Plan, Deletes, Writes, Names, docs
<1>3. ASSUME NEW a \in P, T(a) \notin S
      PROVE  \E b \in P : b.kind = "create_section" /\ T(b) = T(a)
  <2> DEFINE b == Blank("create_section", a.section, << 0, a.section, 0, 0, 0 >>)
  <2>1. b \in SectionCreates(s, S)
    BY <1>2, <1>3 DEF SectionCreates, Unresolved, T
  <2>2. b \in P
    BY <2>1 DEF Plan
  <2>3. b.kind = "create_section" /\ b.section = a.section
    BY DEF Blank
  <2> HIDE DEF b, P
  <2> QED BY <2>2, <2>3 DEF T
<1> QED BY <1>3 DEF SectionsReady

\* The planned deletion of subnet c of section x.
OrphanAction(x, c) ==
  [Blank("delete_subnet", x, << 5, - PrefixLen[c], x, c, 0 >>) EXCEPT !.cidr = c]

\* A child that is not listed is deleted before its parent: it has the longer prefix.
LEMMA DeeperFirst ==
  ASSUME NEW x \in Section, NEW c \in Cidr, NEW k \in Cidr, PrefixLen[c] < PrefixLen[k],
         NEW a, a.rank = OrphanRank(x, c)
  PROVE  LET b == OrphanAction(x, k)
         IN  b.kind = "delete_subnet" /\ b.section = x /\ b.cidr = k /\ Before(b, a)
<1> DEFINE b == OrphanAction(x, k)
<1>1. b.kind = "delete_subnet" /\ b.section = x /\ b.cidr = k /\ b.rank = OrphanRank(x, k)
  <2> SUFFICES ASSUME NEW e, e = OrphanAction(x, k)
               PROVE  e.kind = "delete_subnet" /\ e.section = x /\ e.cidr = k
                      /\ e.rank = OrphanRank(x, k)
    OBVIOUS
  <2>1. e = [Blank("delete_subnet", x, << 5, - PrefixLen[k], x, k, 0 >>) EXCEPT !.cidr = k]
    BY DEF OrphanAction
  <2> QED BY <2>1 DEF Blank, OrphanRank
<1>2. PrefixLen[c] \in Int /\ PrefixLen[k] \in Int
  <2>1. PrefixLen \in [Cidr -> 0 .. 128]
    BY PlanAssumption DEF PlanAssumption
  <2>2. PrefixLen[c] \in 0 .. 128 /\ PrefixLen[k] \in 0 .. 128
    BY <2>1
  <2> QED BY <2>2
<1> HIDE DEF b
<1>3. /\ b.rank[1] = a.rank[1] /\ b.rank[2] < a.rank[2]
  BY <1>1, <1>2 DEF OrphanRank
<1>4. Before(b, a)
  <2>1. 2 \in 1 .. 5 /\ \A j \in 1 .. (2 - 1) : j = 1
    OBVIOUS
  <2> QED BY <1>3, <2>1 DEF Before
<1> QED BY <1>1, <1>4 DEF b

LEMMA PlannedChildrenCleared ==
  ASSUME SectionsApart, TypeOK, Housed(target), Apart(snap), Closed(snap),
         Unique(rows), Nested(rows)
  PROVE  ChildrenCleared(Plan(snap, sects, rows, mode # "additive"), rows)
<1> DEFINE deleting == mode # "additive"
           P == Plan(snap, sects, rows, deleting)
           docs == Ordered(snap.documents)
<1>0. /\ SnapshotOK(snap) /\ RowsOK(rows) /\ deleting \in BOOLEAN
      /\ docs = snap.documents /\ docs \in SUBSET Document
  BY PlanInputs, ApartIsOrdered DEF SnapshotOK
<1> HIDE DEF deleting
<1> SUFFICES ASSUME NEW a \in P, a.kind = "delete_subnet",
                    NEW i \in SubnetIds(Listing(rows, T(a)), a.cidr),
                    NEW j \in DOMAIN rows, rows[j].masterSubnetId = i
             PROVE  \E b \in P : Clears(b, a, rows[j].cidr)
  BY DEF ChildrenCleared, deleting
<1> DEFINE x == a.section
           c == a.cidr
           k == rows[j].cidr
           L == Listing(rows, T(a))
<1>1. /\ a.rank = OrphanRank(x, c) /\ deleting
      /\ \A d \in docs : ~ (d.section = x /\ d.cidr = c)
      /\ \E d \in docs : d.section = x
  BY <1>0, PlannedPhases, PlannedSubnetDeletion DEF PlannedAs, Phased
<1>2. x \in Section
  BY <1>0, <1>1 DEF Document
<1>3. i \in DOMAIN rows /\ ~ rows[i].isFolder /\ rows[i].section = T(a) /\ rows[i].cidr = c
  BY DEF SubnetIds, SubnetRows, Listing
<1>4. rows[j].section = T(a)
  BY <1>3 DEF Housed, rows
<1>5. ~ rows[j].isFolder /\ PrefixLen[c] < PrefixLen[k]
  BY <1>3 DEF Nested
<1>6. c \in Cidr /\ k \in Cidr
  <2>1. rows[i] \in Row /\ rows[j] \in Row
    BY <1>3, TargetFacts DEF TableType
  <2> QED BY <1>3, <1>5, <2>1 DEF Row
<1>7. /\ j \in SubnetIds(L, k) /\ SubnetId(L, k) = j /\ k \in CidrsOf(L)
      /\ L[j] = rows[j] /\ L[i] = rows[i] /\ i \in SubnetRows(L) /\ i \notin FolderRows(L)
  <2>1. /\ j \in SubnetIds(L, k) /\ k \in CidrsOf(L)
        /\ L[j] = rows[j] /\ L[i] = rows[i] /\ i \in SubnetRows(L) /\ i \notin FolderRows(L)
    BY <1>3, <1>4, <1>5 DEF SubnetIds, SubnetRows, FolderRows, CidrsOf, Listing
  <2>2. \A m \in SubnetIds(L, k) : m = j
    BY <1>4, <1>5 DEF SubnetIds, SubnetRows, Listing, Unique
  <2> HIDE DEF L, k
  <2>3. SubnetId(L, k) \in SubnetIds(L, k)
    BY <2>1 DEF SubnetId, Pick
  <2> QED BY <2>1, <2>2, <2>3
<1>8. T(a) = TargetOf[x]
  BY DEF T
<1> HIDE DEF x, c, k, L
<1>9. ASSUME NEW b \in P, b.section = x, b.cidr = k, Before(b, a),
             \/ b.kind \in {"detach_subnet", "delete_subnet"}
             \/ b.kind = "reparent_subnet" /\ b.folder # NoFolder
      PROVE  \E e \in P : Clears(e, a, rows[j].cidr)
  BY <1>8, <1>9 DEF Clears, T, k
<1>10. CASE \A d \in docs : ~ (d.section = x /\ d.cidr = k)
  <2> DEFINE b == OrphanAction(x, k)
  <2>1. b \in SubnetOrphans(docs, rows)
    <3> DEFINE Of(y) == {OrphanAction(y, q) :
                           q \in CidrsOf(Listing(rows, TargetOf[y]))
                                   \ {d.cidr : d \in {e \in docs : e.section = y}}}
    <3>1. SubnetOrphans(docs, rows) = UNION {Of(y) : y \in {d.section : d \in docs}}
      BY DEF SubnetOrphans, OrphanAction
    <3>2. b \in Of(x)
      BY <1>7, <1>8, <1>10 DEF L
    <3>3. x \in {d.section : d \in docs}
      BY <1>1
    <3> HIDE DEF Of
    <3> QED BY <3>1, <3>2, <3>3
  <2>2. b \in P
    BY <1>1, <2>1 DEF Plan, Deletes
  <2>3. b.kind = "delete_subnet" /\ b.section = x /\ b.cidr = k /\ Before(b, a)
    BY <1>1, <1>2, <1>5, <1>6, DeeperFirst DEF c, k
  <2> HIDE DEF b, P
  <2> QED BY <1>9, <2>2, <2>3
<1>11. CASE \E d \in docs : d.section = x /\ d.cidr = k
  <2>1. PICK d \in docs : d.section = x /\ d.cidr = k
    BY <1>11
  <2>2. /\ d \in docs \ Missing(docs, rows)
        /\ SubnetId(Listing(rows, TargetOf[d.section]), d.cidr) = j
        /\ Current(d, rows) = rows[j]
    BY <1>7, <1>8, <2>1 DEF Missing, Current, L
  <2>3. CurrentFolder(d, rows) = NoFolder
    BY <1>7, <1>8, <2>1, <2>2 DEF CurrentFolder, FolderOf, L
  <2>4. CurrentMaster(d, rows) = c /\ c # None
    <3>1. CurrentParent(L, j) = c
      BY <1>3, <1>7 DEF CurrentParent, c
    <3>2. c # None
      BY <1>6, PlanAssumption DEF PlanAssumption, c
    <3> QED BY <1>8, <2>1, <2>2, <2>3, <3>1, <3>2 DEF CurrentMaster, L
  <2>5. /\ {1, 3, 0} \subseteq Int /\ None \in Ip \cup {None}
        /\ "detach_subnet" \in ActionKind \ SubnetlessKind
        /\ "reparent_subnet" \in ActionKind \ SubnetlessKind
    BY DEF ActionKind, SubnetlessKind
  <2>6. a.rank[1] = 5
    BY <1>1 DEF OrphanRank
  <2>7. CASE d.parent_folder # NoFolder
    <3> DEFINE b == [OnSubnet("reparent_subnet", d, docs, 3, 1, None) EXCEPT
                       !.master_subnet = d.master_subnet, !.folder = d.parent_folder]
    <3>1. d \in FolderMoves(docs, rows)
      BY <2>2, <2>3, <2>7 DEF FolderMoves
    <3>2. b \in P
      BY <3>1 DEF Plan, Reparents
    <3>3. /\ b.rank[1] = 3 /\ b.kind = "reparent_subnet"
          /\ b.section = d.section /\ b.cidr = d.cidr /\ b.folder = d.parent_folder
      BY <1>0, <2>5, SubnetPhase
    <3> HIDE DEF b, P
    <3>4. Before(b, a)
      BY <2>6, <3>3, EarlierPhase
    <3> QED BY <1>9, <2>1, <2>7, <3>2, <3>3, <3>4
  <2>8. CASE d.parent_folder = NoFolder
    <3> DEFINE b == OnSubnet("detach_subnet", d, docs, 1, 0, None)
    <3>0. d.master_subnet # None => \E e \in docs : e.section = x /\ e.cidr = d.master_subnet
      BY <1>0, <2>1 DEF Closed
    <3>1. /\ d.master_subnet # c /\ Resolvable(d, docs, rows)
      BY <1>1, <2>1, <2>4, <3>0 DEF Resolvable
    <3>2. d \in SubnetMoves(docs, rows)
      BY <2>2, <2>3, <2>4, <2>8, <3>1 DEF SubnetMoves
    <3>3. b \in Detaches(docs, rows)
      BY <2>4, <3>2 DEF Detaches
    <3>4. b \in P
      BY <3>3 DEF Plan
    <3>5. /\ b.rank[1] = 1 /\ b.kind = "detach_subnet"
          /\ b.section = d.section /\ b.cidr = d.cidr
      BY <1>0, <2>5, SubnetPhase, OnSubnetType
    <3> HIDE DEF b, P
    <3>6. Before(b, a)
      BY <2>6, <3>5, EarlierPhase
    <3> QED BY <1>9, <2>1, <3>4, <3>5, <3>6
  <2> QED BY <2>7, <2>8
<1> QED BY <1>10, <1>11

(***************************************************************************)
(* What a handler that nothing is lost to, and nobody disturbed, achieves. *)
(***************************************************************************)
LEMMA NotLost ==
  ASSUME faults \in Nat, faults' = faults, NEW a, NEW accepted, accepted, NEW after,
         NEW looked, NEW dropped, NEW fresh, NEW confirmed
  PROVE  /\ WriteAndConfirm(a, accepted, after, looked, dropped, fresh, confirmed) => target' = after
         /\ Write(a, accepted, after, looked, fresh) => target' = after
<1>1. ~ Lost(a)
  BY DEF Lost
<1> QED BY <1>1 DEF Write, WriteAndConfirm, LookupLost

\* The phase of each kind of action.
LEMMA PhaseOfKind ==
  ASSUME NEW a \in Action, Phased(a)
  PROVE  /\ a.kind = "create_section" => a.rank[1] = 0
         /\ a.kind # "create_section" => a.rank[1] > 0
         /\ a.kind = "create_folder" =>
              a.rank[1] = 2 /\ a.rank[2] = a.section /\ a.rank[3] = Len(a.folder)
         /\ a.kind = "reparent_subnet" => a.rank[1] = 3
         /\ a.kind = "delete_subnet" => a.rank[1] = 5
         /\ a.kind = "delete_folder" => a.rank[1] = 6
<1>1. a.kind \in ActionKind
  BY DEF Action, ActionRecord
<1>2. a.kind = "create_folder" =>
        a.rank[1] = 2 /\ a.rank[2] = a.section /\ a.rank[3] = Len(a.folder)
  <2> SUFFICES ASSUME a = FolderAction(a.section, a.folder)
               PROVE  a.rank[1] = 2 /\ a.rank[2] = a.section /\ a.rank[3] = Len(a.folder)
    BY DEF Phased
  <2> DEFINE x == a.section
             p == a.folder
  <2>1. a = [Blank("create_folder", x, << 2, x, Len(p), 0, 0 >>) EXCEPT !.folder = p]
    BY DEF FolderAction
  <2> HIDE DEF x, p
  <2>2. a.rank = << 2, x, Len(p), 0, 0 >>
    BY <2>1 DEF Blank
  <2> QED BY <2>2 DEF x, p
<1>3. a.kind = "delete_subnet" => a.rank[1] = 5
  BY DEF Phased, OrphanRank
<1> QED BY <1>1, <1>2, <1>3 DEF Phased, ActionKind

\* The next action finds its section.
LEMMA SectionIsThere ==
  ASSUME TypeOK, FollowsPlan, Agrees(cache, sects, rows), SectionsReady(pending, sects),
         NEW a \in pending, IsNext(a), a.kind # "create_section"
  PROVE  T(a) \in sects /\ T(a) \in cache.sections
<1>1. ASSUME NEW b \in pending, b.kind = "create_section" PROVE FALSE
  <2>1. b.rank[1] = 0 /\ a.rank[1] > 0
    BY <1>1, PhaseOfKind DEF FollowsPlan, PlannedAs, TypeOK
  <2>2. Before(b, a)
    BY <2>1, EarlierPhase
  <2> QED BY <1>1, <2>2 DEF IsNext
<1>2. T(a) \in sects
  BY <1>1 DEF SectionsReady
<1> QED BY <1>2 DEF Agrees

\* The next action finds the folder it needs in the target, and above it no action is
\* still to come that would create it.
LEMMA FolderIsThere ==
  ASSUME TypeOK, FollowsPlan, FoldersReady(pending, rows), NEW a \in pending, IsNext(a)
  PROVE  /\ (a.kind = "reparent_subnet" /\ a.folder # NoFolder) =>
              \E i : IsFolderAt(Listing(rows, T(a)), i, a.folder)
         /\ (a.kind = "create_folder" /\ Len(a.folder) > 1) =>
              \E i : IsFolderAt(Listing(rows, T(a)), i, Above(a.folder))
<1>0. a \in Action
  BY DEF TypeOK
<1>1. ASSUME NEW b \in pending, b.kind = "create_folder",
             \/ a.kind = "reparent_subnet"
             \/ a.kind = "create_folder" /\ b.section = a.section
                /\ Len(a.folder) > 1 /\ b.folder = Above(a.folder)
      PROVE  FALSE
  <2>1. b.rank[1] = 2 /\ b.rank[2] = b.section /\ b.rank[3] = Len(b.folder)
    BY <1>1, PhaseOfKind DEF FollowsPlan, PlannedAs, TypeOK
  <2>2. CASE a.kind = "reparent_subnet"
    <3>1. a.rank[1] = 3
      BY <2>2, PhaseOfKind DEF FollowsPlan, PlannedAs, TypeOK
    <3>2. Before(b, a)
      BY <2>1, <3>1, EarlierPhase
    <3> QED BY <3>2 DEF IsNext
  <2>3. CASE /\ a.kind = "create_folder" /\ b.section = a.section
             /\ Len(a.folder) > 1 /\ b.folder = Above(a.folder)
    <3>1. a.rank[1] = 2 /\ a.rank[2] = a.section /\ a.rank[3] = Len(a.folder)
      BY <2>3, PhaseOfKind DEF FollowsPlan, PlannedAs, TypeOK
    <3>2. a.folder \in Seq(Nat) /\ Len(a.folder) \in Nat
      BY <1>0, <2>3, FolderPaths
    <3>3. Len(b.folder) = Len(a.folder) - 1
      BY <2>3, <3>2, AbovePath
    <3>4. b.rank[3] < a.rank[3]
      BY <2>1, <3>1, <3>2, <3>3
    <3>5. 3 \in 1 .. 5 /\ \A j \in 1 .. (3 - 1) : j = 1 \/ j = 2
      OBVIOUS
    <3>6. Before(b, a)
      BY <2>1, <2>3, <3>1, <3>4, <3>5 DEF Before
    <3> QED BY <3>6 DEF IsNext
  <2> QED BY <1>1, <2>2, <2>3
<1> QED BY <1>1 DEF FoldersReady, FolderReady

\* Listings that look alike have the same folders.
LEMMA AlikeFolders ==
  ASSUME NEW L, NEW M, Shape(L) = Shape(M), NEW i, NEW p \in Seq(Nat) \ {NoFolder},
         IsFolderAt(L, i, p)
  PROVE  IsFolderAt(M, i, p)
<1>1. Alike(L, M) /\ FolderRows(L) = FolderRows(M)
  BY ShapesAlike, AlikeSubnets
<1>2. \A x \in FolderRows(L) : M[x].name = L[x].name /\ M[x].masterSubnetId = L[x].masterSubnetId
  BY <1>1 DEF Alike, FolderRows
<1>3. PICK c : Chain(L, p, c) /\ c[Len(p)] = i
  BY ChainAt
<1> DEFINE m == Len(p)
<1>4. m \in Nat /\ m # 0
  BY DEF NoFolder
<1>5. /\ c \in [1 .. m -> FolderRows(L)]
      /\ \A k \in 1 .. m : L[c[k]].name = p[k]
      /\ L[c[1]].masterSubnetId \notin FolderRows(L)
      /\ \A k \in 2 .. m : L[c[k]].masterSubnetId = c[k - 1]
  BY <1>3 DEF Chain
<1> HIDE DEF m
<1>6. /\ c \in [1 .. m -> FolderRows(M)]
      /\ \A k \in 1 .. m : M[c[k]].name = p[k]
      /\ M[c[1]].masterSubnetId \notin FolderRows(M)
      /\ \A k \in 2 .. m : M[c[k]].masterSubnetId = c[k - 1]
  <2>1. \A k \in 1 .. m : c[k] \in FolderRows(L)
    BY <1>5
  <2>2. 1 \in 1 .. m /\ \A k \in 2 .. m : k \in 1 .. m
    BY <1>4
  <2> QED BY <1>1, <1>2, <1>5, <2>1, <2>2
<1>7. Chain(M, p, c)
  BY <1>6 DEF Chain, m
<1> QED BY <1>3, <1>7, ChainAt

\* The last folder of a path is a folder.
LEMMA FolderAtPath ==
  ASSUME NEW L, NEW i, NEW p \in Seq(Nat) \ {NoFolder}, IsFolderAt(L, i, p)
  PROVE  i \in FolderRows(L)
<1>1. PICK c : Chain(L, p, c) /\ c[Len(p)] = i
  BY ChainAt
<1>2. Len(p) \in 1 .. Len(p)
  BY PathLength
<1> QED BY <1>1, <1>2 DEF Chain

\* A folder of the target is found by its path.
LEMMA FolderIsFound ==
  ASSUME TypeOK, Agrees(cache, sects, rows), NEW a \in Action,
         NEW p \in Seq(Nat) \ {NoFolder}, \E i : IsFolderAt(Listing(rows, T(a)), i, p)
  PROVE  LET q == FolderId(Listed(T(a), "folders"), p)
         IN  /\ q # None /\ q \in DOMAIN rows /\ rows[q].isFolder /\ rows[q].section = T(a)
             /\ IsFolderAt(Listing(rows, T(a)), q, p)
<1> DEFINE L == Listed(T(a), "folders")
           M == Listing(rows, T(a))
           q == FolderId(L, p)
<1>1. Shape(L) = Shape(M)
  BY DEF Agrees, Listed
<1> HIDE DEF L
<1>2. PICK i : IsFolderAt(M, i, p)
  OBVIOUS
<1> HIDE DEF M
<1>3. IsFolderAt(L, i, p)
  BY <1>1, <1>2, AlikeFolders
<1>4. i \in FolderRows(L)
  BY <1>3, FolderAtPath
<1>5. q \in FolderRows(L) /\ IsFolderAt(L, q, p)
  BY <1>3, <1>4 DEF FolderId, Pick
<1> HIDE DEF q
<1>6. IsFolderAt(M, q, p)
  BY <1>1, <1>5, AlikeFolders
<1>7. q \in FolderRows(M)
  BY <1>6, FolderAtPath
<1>8. q \in DOMAIN rows /\ rows[q].isFolder /\ rows[q].section = T(a)
  BY <1>7 DEF M, FolderRows, Listing
<1>9. None \notin DOMAIN rows
  BY TargetFacts DEF TableType, Ids, None
<1> QED BY <1>6, <1>8, <1>9 DEF q, L, M

\* A subnet of the target is found by its CIDR.
LEMMA SubnetIsFound ==
  ASSUME TypeOK, Agrees(cache, sects, rows), Unique(rows), NEW a \in Action,
         NEW j \in SubnetIds(Listing(rows, T(a)), a.cidr)
  PROVE  /\ j # None /\ j \in DOMAIN rows
         /\ SubnetId(Listed(T(a), "subnets"), a.cidr) = j
         /\ KnownId(a) = j
<1> DEFINE L == Listed(T(a), "subnets")
           M == Listing(rows, T(a))
<1>1. \A k \in SubnetIds(M, a.cidr) : k = j
  BY DEF SubnetIds, SubnetRows, Listing, Unique
<1>2. j \in DOMAIN rows
  BY DEF SubnetIds, SubnetRows, Listing
<1>3. None \notin DOMAIN rows
  BY TargetFacts DEF TableType, Ids, None
<1>4. Shape(L) = Shape(M)
  BY DEF Agrees, Listed
<1>5. Key(a) \in DOMAIN cache.ids => cache.ids[Key(a)] \in SubnetIds(M, a.cidr)
  BY DEF Agrees, Key
<1> HIDE DEF L, M
<1>6. SubnetIds(L, a.cidr) = SubnetIds(M, a.cidr)
  BY <1>4, AlikeSubnets
<1>7. SubnetId(L, a.cidr) \in SubnetIds(M, a.cidr)
  BY <1>6 DEF SubnetId, Pick, M
<1> QED BY <1>1, <1>2, <1>3, <1>5, <1>7 DEF KnownId, L

\* A handler that deletes nothing leaves every folder at its path.
LEMMA NothingGoes ==
  ASSUME TypeOK, IdsTrueNow, NEW a \in pending, Handle(a),
         a.kind \notin {"delete_subnet", "delete_folder"}
  PROVE  DOMAIN rows \subseteq DOMAIN rows'
<1>1. PICK after, looked, dropped, fresh : Ended(a, after, looked, dropped, fresh)
  BY HandlerEnds
<1>2. a \in Action
  BY DEF TypeOK
<1>3. CASE target' = target
  BY <1>3 DEF rows
<1>4. CASE Effect(a, after, looked, dropped, fresh) /\ target' = after
  <2>1. rows' = after.rows
    BY <1>4 DEF rows
  <2>2. DOMAIN rows \subseteq DOMAIN after.rows
    <3>1. CASE Entered(a, after)
      BY <3>1 DEF Entered, Put
    <3>2. CASE Changed(a, after, looked, fresh)
      BY <3>2 DEF Changed
    <3> QED BY <1>2, <1>4, <3>1, <3>2, EffectOnRows DEF TakenOut
  <2> QED BY <2>1, <2>2
<1> QED BY <1>1, <1>3, <1>4 DEF Ended

LEMMA FolderStays ==
  ASSUME TypeOK, IdsTrueNow, Housed(target), NEW a \in pending, Handle(a),
         a.kind \notin {"delete_subnet", "delete_folder"},
         NEW t, NEW i, NEW p \in Seq(Nat) \ {NoFolder}, IsFolderAt(Listing(rows, t), i, p)
  PROVE  IsFolderAt(Listing(rows', t), i, p)
<1> DEFINE n == target.nextId
           L == Listing(rows, t)
<1>1. PICK after, looked, dropped, fresh : Ended(a, after, looked, dropped, fresh)
  BY HandlerEnds
<1>2. a \in Action /\ n \in Nat /\ DOMAIN rows \subseteq Ids(n)
  BY TargetFacts DEF TypeOK, TableType
<1>3. CASE target' = target
  BY <1>3 DEF rows
<1>4. CASE Effect(a, after, looked, dropped, fresh) /\ target' = after
  <2>1. rows' = after.rows
    BY <1>4 DEF rows
  <2>2. FoldersKept(rows, rows', n)
    BY <1>2, <1>4, <2>1, EffectKeepsFolders
  <2>3. FolderTrue(L, t, rows) /\ DOMAIN L \subseteq Ids(n)
    BY <1>2, ListingIsFolderTrue DEF Listing
  <2>4. i \in DOMAIN rows'
    <3>1. i \in FolderRows(L)
      BY FolderAtPath
    <3>2. i \in DOMAIN rows
      BY <3>1 DEF FolderRows, Listing
    <3> QED BY <3>2, NothingGoes
  <2> HIDE DEF L, n
  <2>5. FolderTrue(L, t, rows')
    BY <1>2, <2>2, <2>3, KeptIsFolderTrue
  <2> QED BY <2>4, <2>5, FoundIsThere DEF L
<1> QED BY <1>1, <1>3, <1>4 DEF Ended

\* A folder that is created is there afterwards.
LEMMA FolderAppears ==
  ASSUME TypeOK, IdsTrueNow, Housed(target), Agrees(cache, sects, rows),
         NEW a \in pending, a.kind = "create_folder", Handle(a), faults' = faults,
         T(a) \in cache.sections,
         Len(a.folder) > 1 => \E i : IsFolderAt(Listing(rows, T(a)), i, Above(a.folder))
  PROVE  \E i : IsFolderAt(Listing(rows', T(a)), i, a.folder)
<1> DEFINE p == a.folder
           m == Len(p)
           n == target.nextId
           nested == m > 1
           parent == IF nested
                     THEN FolderId(Listed(T(a), "folders"), SubSeq(p, 1, m - 1))
                     ELSE None
           looked == IF nested THEN Looked(cache, a, "folders") ELSE cache
           row == FolderRow(T(a), p[m], parent)
           after == Created(row)
           dropped == Dropped(looked, T(a))
           fresh == Reread(looked, T(a), "folders", after.rows)
           M == Listing(rows', T(a))
<1>0. a \in Action /\ faults \in Nat
  BY ImportAssumption DEF TypeOK, ImportAssumption
<1>1. p \in Seq(Nat) \ {NoFolder} /\ m \in Nat /\ (m = 1 \/ m > 1)
  BY <1>0, FolderPaths
<1>2. nested => /\ parent # None /\ parent \in DOMAIN rows /\ rows[parent].isFolder
                /\ rows[parent].section = T(a)
                /\ IsFolderAt(Listing(rows, T(a)), parent, Above(p))
                /\ Above(p) \in Seq(Nat) \ {NoFolder}
  <2> SUFFICES ASSUME nested
               PROVE  LET q == FolderId(Listed(T(a), "folders"), Above(p))
                      IN  /\ q # None /\ q \in DOMAIN rows /\ rows[q].isFolder
                          /\ rows[q].section = T(a)
                          /\ IsFolderAt(Listing(rows, T(a)), q, Above(p))
                          /\ Above(p) \in Seq(Nat) \ {NoFolder}
    BY DEF Above
  <2>1. Above(p) \in Seq(Nat) \ {NoFolder}
    BY <1>1, AbovePath
  <2> QED BY <1>0, <2>1, FolderIsFound
<1>3. /\ n \notin DOMAIN rows /\ None \notin DOMAIN rows /\ n # None
  BY TargetFacts DEF TableType, Ids, None
<1>4. DoCreateFolder(a)
  BY DEF Handle, DoWithoutSection, DoCreateSection, DoCreateSubnet, DoUpdateSubnet,
         DoDetachSubnet, DoReparentSubnet, DoCreateAddress, DoUpdateAddress, DoDeleteAddress,
         DoDeleteSubnet, DoDeleteFolder, On
<1>5. IF nested /\ parent = None THEN Fail(a, "unresolved", looked)
      ELSE WriteAndConfirm(a, AcceptsFolder(parent), after, looked, dropped, fresh, TRUE)
  BY <1>4 DEF DoCreateFolder
<1>6. parent = None <=> ~ nested
  BY <1>2
<1>7. after.rows = Put(rows, n, row)
  BY TargetFacts
<1>8. /\ row.isFolder /\ row.section = T(a) /\ row.name = p[m] /\ row.masterSubnetId = parent
  BY DEF FolderRow
<1> HIDE DEF parent, looked, after, dropped, fresh, row
<1>9. AcceptsFolder(parent)
  BY <1>2, <1>6 DEF AcceptsFolder
<1>10. target' = after
  BY <1>0, <1>2, <1>5, <1>9, NotLost
<1>11. /\ DOMAIN rows' = DOMAIN rows \cup {n} /\ rows'[n] = row
       /\ \A i \in DOMAIN rows : rows'[i] = rows[i]
  BY <1>3, <1>7, <1>10 DEF Put, rows
<1>12. /\ n \in FolderRows(M) /\ M[n].name = p[m] /\ M[n].masterSubnetId = parent
  BY <1>8, <1>11 DEF FolderRows, Listing
<1>13. CASE m = 1
  <2>1. parent = None
    BY <1>6, <1>13
  <2>2. None \notin FolderRows(M)
    BY <1>3, <1>11 DEF FolderRows, Listing
  <2> HIDE DEF M
  <2>3. IsFolderAt(M, n, p)
    BY <1>1, <1>12, <1>13, <2>1, <2>2, ChainBegins
  <2> QED BY <2>3 DEF M
<1>14. CASE nested
  <2>1. IsFolderAt(M, parent, Above(p))
    BY <1>2, <1>14, FolderStays
  <2> HIDE DEF M
  <2>2. IsFolderAt(M, n, p)
    BY <1>1, <1>12, <1>14, <2>1, ChainGrows
  <2> QED BY <2>2 DEF M
<1> QED BY <1>1, <1>13, <1>14

\* A subnet that is detached, moved to a folder that is there, or deleted is no
\* child of a subnet afterwards.
LEMMA ChildIsTakenAway ==
  ASSUME TypeOK, IdsTrueNow, Agrees(cache, sects, rows), Unique(rows),
         NEW a \in pending, Handle(a), faults' = faults, T(a) \in cache.sections,
         \/ a.kind \in {"detach_subnet", "delete_subnet"}
         \/ /\ a.kind = "reparent_subnet" /\ a.folder # NoFolder
            /\ \E i : IsFolderAt(Listing(rows, T(a)), i, a.folder),
         NEW j \in SubnetIds(Listing(rows, T(a)), a.cidr), j \in DOMAIN rows',
         NEW i \in DOMAIN rows, ~ rows[i].isFolder
  PROVE  rows'[j].masterSubnetId # i
<1> DEFINE id == KnownId(a)
<1>0. a \in Action /\ faults \in Nat
  BY ImportAssumption DEF TypeOK, ImportAssumption
<1>1. /\ j # None /\ j \in DOMAIN rows
      /\ SubnetId(Listed(T(a), "subnets"), a.cidr) = j /\ id = j
  BY <1>0, SubnetIsFound
<1>2. i # None
  BY TargetFacts DEF TableType, Ids, None
<1> HIDE DEF id
<1>3. CASE a.kind = "detach_subnet"
  <2>1. DoDetachSubnet(a)
    BY <1>3 DEF Handle, DoWithoutSection, DoCreateSection, DoCreateSubnet, DoUpdateSubnet,
           DoCreateFolder, DoReparentSubnet, DoCreateAddress, DoUpdateAddress, DoDeleteAddress,
           DoDeleteSubnet, DoDeleteFolder, On
  <2> DEFINE after == [target EXCEPT !.rows[id].masterSubnetId = None]
             fresh == Dropped(Resolved(a), T(a))
  <2>2. Write(a, id \in DOMAIN rows, after, Resolved(a), fresh)
    BY <1>1, <2>1 DEF DoDetachSubnet, id
  <2>3. after.rows = [rows EXCEPT ![id] = [rows[id] EXCEPT !.masterSubnetId = None]]
    BY RowWrites, TargetFacts
  <2> HIDE DEF after, fresh
  <2>4. target' = after
    BY <1>0, <1>1, <2>2, NotLost
  <2>5. rows[j] \in Row
    BY <1>1, TargetFacts DEF TableType
  <2>6. rows'[j].masterSubnetId = None
    BY <1>1, <2>3, <2>4, <2>5 DEF rows, Row
  <2> QED BY <1>2, <2>6
<1>4. CASE a.kind = "delete_subnet"
  <2>1. DoDeleteSubnet(a)
    BY <1>4 DEF Handle, DoWithoutSection, DoCreateSection, DoCreateSubnet, DoUpdateSubnet,
           DoCreateFolder, DoReparentSubnet, DoCreateAddress, DoUpdateAddress, DoDeleteAddress,
           DoDetachSubnet, DoDeleteFolder, On
  <2> DEFINE after == Deleted(j)
             looked == Looked(cache, a, "subnets")
             popped == [looked EXCEPT !.addresses = Pop(@, j), !.ids = Pop(@, Key(a))]
             fresh == Reread(popped, T(a), "subnets", after.rows)
             gone == SubnetIds(Listing(after.rows, T(a)), a.cidr) = {}
  <2>2. WriteAndConfirm(a, j \in DOMAIN rows, after, looked, Dropped(popped, T(a)), fresh, gone)
    BY <1>1, <2>1 DEF DoDeleteSubnet
  <2>3. after.rows = RowsWithout(j)
    BY TargetFacts
  <2> HIDE DEF after, looked, popped, fresh, gone
  <2>4. target' = after
    BY <1>0, <1>1, <2>2, NotLost
  <2>5. j \notin DOMAIN RowsWithout(j)
    BY DEF RowsWithout, Below
  <2> QED BY <2>3, <2>4, <2>5 DEF rows
<1>5. CASE /\ a.kind = "reparent_subnet" /\ a.folder # NoFolder
           /\ \E q : IsFolderAt(Listing(rows, T(a)), q, a.folder)
  <2>1. DoReparentSubnet(a)
    BY <1>5 DEF Handle, DoWithoutSection, DoCreateSection, DoCreateSubnet, DoUpdateSubnet,
           DoCreateFolder, DoDetachSubnet, DoCreateAddress, DoUpdateAddress, DoDeleteAddress,
           DoDeleteSubnet, DoDeleteFolder, On
  <2> DEFINE parent == WantedParent(a)
             looked == ParentLooked(Resolved(a), a)
             after == [target EXCEPT !.rows[id].masterSubnetId = parent]
             fresh == Dropped(looked, T(a))
  <2>2. parent # None /\ parent \in DOMAIN rows /\ rows[parent].isFolder
    <3>1. a.folder \in Seq(Nat) \ {NoFolder}
      <4>1. a.folder \in FolderPath
        BY <1>0, <1>5 DEF Action, ActionRecord
      <4> QED BY <4>1, PlanAssumption DEF PlanAssumption
    <3> QED BY <1>0, <1>5, <3>1, FolderIsFound DEF WantedParent
  <2>3. Write(a, id \in DOMAIN rows, after, looked, fresh)
    BY <1>1, <2>1, <2>2 DEF DoReparentSubnet, id
  <2>4. after.rows = [rows EXCEPT ![id] = [rows[id] EXCEPT !.masterSubnetId = parent]]
    BY RowWrites, TargetFacts
  <2> HIDE DEF after, looked, fresh, parent
  <2>5. target' = after
    BY <1>0, <1>1, <2>3, NotLost
  <2>6. rows[j] \in Row
    BY <1>1, TargetFacts DEF TableType
  <2>7. rows'[j].masterSubnetId = parent
    BY <1>1, <2>4, <2>5, <2>6 DEF rows, Row
  <2> QED BY <2>2, <2>7
<1> QED BY <1>3, <1>4, <1>5

(***************************************************************************)
(* What a plan provides for stays provided for while the plan is carried   *)
(* out and nobody disturbs it.                                             *)
(***************************************************************************)
Prepared ==
  (running /\ Undisturbed) =>
    /\ SectionsReady(pending, sects)
    /\ FoldersReady(pending, rows)
    /\ ChildrenCleared(pending, rows)

\* What is taken out then is one row that nothing points at.
LEMMA ChildlessGoes ==
  ASSUME TypeOK, Housed(target), ChildrenCleared(pending, rows), NEW a \in pending, IsNext(a),
         NEW after, TakenOut(a, after)
  PROVE  \E id \in DOMAIN rows :
           /\ \A j \in DOMAIN rows : rows[j].masterSubnetId # id
           /\ \A i \in DOMAIN rows \ DOMAIN after.rows : i = id
<1>0. a \in Action
  BY DEF TypeOK
<1>1. PICK id \in DOMAIN rows :
        /\ rows[id].section = T(a)
        /\ a.kind = "delete_subnet" => rows[id].cidr = a.cidr
        /\ a.kind = "delete_folder" =>
             \A j \in DOMAIN Listing(rows, T(a)) : rows[j].masterSubnetId # id
        /\ after.rows = RowsWithout(id)
  BY DEF TakenOut
<1>2. ASSUME NEW j \in DOMAIN rows, rows[j].masterSubnetId = id PROVE FALSE
  <2>1. CASE a.kind = "delete_subnet"
    <3>1. a.cidr # None
      BY <1>0, <2>1 DEF Action, SubnetlessKind
    <3>2. rows[id] \in Row
      BY TargetFacts DEF TableType
    <3>3. ~ rows[id].isFolder
      BY <1>1, <2>1, <3>1, <3>2 DEF Row
    <3>4. id \in SubnetIds(Listing(rows, T(a)), a.cidr)
      BY <1>1, <2>1, <3>3 DEF SubnetIds, SubnetRows, Listing
    <3>5. PICK b \in pending : Clears(b, a, rows[j].cidr)
      BY <1>2, <2>1, <3>4 DEF ChildrenCleared
    <3> QED BY <3>5 DEF Clears, IsNext
  <2>2. CASE a.kind = "delete_folder"
    <3>1. rows[j].section = T(a)
      BY <1>1, <1>2 DEF Housed, rows
    <3> QED BY <1>1, <1>2, <2>2, <3>1 DEF Listing
  <2> QED BY <2>1, <2>2 DEF TakenOut
<1>3. Below(id) \subseteq {id}
  <2> DEFINE S == {id}
  <2>1. S \in SUBSET DOMAIN rows /\ id \in S
    OBVIOUS
  <2>2. \A k \in DOMAIN rows : rows[k].masterSubnetId \in S => k \in S
    BY <1>2
  <2> HIDE DEF S
  <2>3. Below(id) \subseteq S
    BY <2>1, <2>2 DEF Below
  <2> QED BY <2>3 DEF S
<1>4. \A i \in DOMAIN rows \ DOMAIN after.rows : i = id
  BY <1>1, <1>3 DEF RowsWithout
<1> QED BY <1>2, <1>4

LEMMA UndisturbedDeletions ==
  ASSUME TypeOK, IdsTrueNow, Housed(target), Prepared, Execute, Undisturbed,
         NEW i \in DOMAIN rows \ DOMAIN rows'
  PROVE  /\ \A j \in DOMAIN rows : rows[j].masterSubnetId # i
         /\ \A j \in DOMAIN rows \ DOMAIN rows' : i = j
<1>1. PICK a \in pending : IsNext(a) /\ Handle(a)
  BY DEF Execute
<1>2. PICK after, looked, dropped, fresh : Ended(a, after, looked, dropped, fresh)
  BY <1>1, HandlerEnds
<1>3. a \in Action /\ ChildrenCleared(pending, rows)
  BY DEF TypeOK, Prepared, Execute
<1>4. Effect(a, after, looked, dropped, fresh) /\ rows' = after.rows
  BY <1>2 DEF Ended, rows
<1>5. TakenOut(a, after)
  <2>1. CASE DOMAIN rows \subseteq DOMAIN after.rows
    BY <1>4, <2>1
  <2>2. CASE Entered(a, after)
    BY <2>1, <2>2 DEF Entered, Put
  <2>3. CASE Changed(a, after, looked, fresh)
    BY <2>1, <2>3 DEF Changed
  <2> QED BY <1>3, <1>4, <2>1, <2>2, <2>3, EffectOnRows
<1>6. PICK id \in DOMAIN rows :
        /\ \A j \in DOMAIN rows : rows[j].masterSubnetId # id
        /\ \A k \in DOMAIN rows \ DOMAIN after.rows : k = id
  BY <1>1, <1>3, <1>5, ChildlessGoes
<1> QED BY <1>4, <1>6

\* What an action still to come needs, or clears, is there, or still to come, after
\* the next action.
LEMMA FoldersStayReady ==
  ASSUME TypeOK, IdsTrueNow, Housed(target), FollowsPlan, Agrees(cache, sects, rows),
         SectionsReady(pending, sects), FoldersReady(pending, rows),
         NEW c \in pending, IsNext(c), Handle(c), faults' = faults
  PROVE  FoldersReady(pending \ {c}, rows')
<1>0. \A a \in pending : a \in Action /\ Phased(a)
  BY DEF TypeOK, FollowsPlan, PlannedAs
<1>1. ASSUME NEW a \in pending \ {c}, NEW p \in Seq(Nat) \ {NoFolder},
             FolderReady(pending, rows, a, p), a.kind \in {"reparent_subnet", "create_folder"}
      PROVE  FolderReady(pending \ {c}, rows', a, p)
  <2>1. c.kind \notin {"delete_subnet", "delete_folder"}
    <3> SUFFICES ASSUME c.kind \in {"delete_subnet", "delete_folder"} PROVE FALSE
      OBVIOUS
    <3>1. a.rank[1] < c.rank[1]
      BY <1>0, <1>1, PhaseOfKind
    <3> QED BY <3>1, EarlierPhase DEF IsNext
  <2>2. CASE \E i : IsFolderAt(Listing(rows, T(a)), i, p)
    <3>1. PICK i : IsFolderAt(Listing(rows, T(a)), i, p)
      BY <2>2
    <3>2. IsFolderAt(Listing(rows', T(a)), i, p)
      BY <2>1, <3>1, FolderStays
    <3> QED BY <3>2 DEF FolderReady
  <2>3. CASE \E b \in pending : b.kind = "create_folder" /\ b.section = a.section /\ b.folder = p
    <3>1. PICK b \in pending : b.kind = "create_folder" /\ b.section = a.section /\ b.folder = p
      BY <2>3
    <3>2. CASE b # c
      BY <3>1, <3>2 DEF FolderReady
    <3>3. CASE b = c
      <4>1. T(c) \in cache.sections
        BY <3>1, <3>3, SectionIsThere
      <4>2. Len(c.folder) > 1 => \E i : IsFolderAt(Listing(rows, T(c)), i, Above(c.folder))
        BY <3>1, <3>3, FolderIsThere
      <4>3. \E i : IsFolderAt(Listing(rows', T(c)), i, c.folder)
        BY <3>1, <3>3, <4>1, <4>2, FolderAppears
      <4>4. T(a) = T(c) /\ c.folder = p
        BY <3>1, <3>3 DEF T
      <4> QED BY <4>3, <4>4 DEF FolderReady
    <3> QED BY <3>2, <3>3
  <2> QED BY <1>1, <2>2, <2>3 DEF FolderReady
<1>2. ASSUME NEW a \in pending \ {c}, a.kind = "reparent_subnet", a.folder # NoFolder
      PROVE  FolderReady(pending \ {c}, rows', a, a.folder)
  <2>1. a.folder \in FolderPath
    BY <1>0, <1>2 DEF Action, ActionRecord
  <2>2. a.folder \in Seq(Nat) \ {NoFolder}
    BY <2>1, PlanAssumption DEF PlanAssumption
  <2> QED BY <1>1, <1>2, <2>2 DEF FoldersReady
<1>3. ASSUME NEW a \in pending \ {c}, a.kind = "create_folder", Len(a.folder) > 1
      PROVE  FolderReady(pending \ {c}, rows', a, Above(a.folder))
  <2>1. a.folder \in Seq(Nat)
    BY <1>0, <1>3, FolderPaths
  <2>2. Above(a.folder) \in Seq(Nat) \ {NoFolder}
    BY <1>3, <2>1, AbovePath
  <2> QED BY <1>1, <1>3, <2>2 DEF FoldersReady
<1> QED BY <1>2, <1>3 DEF FoldersReady

LEMMA SectionsStayReady ==
  ASSUME TypeOK, SectionsReady(pending, sects), NEW c \in pending, Handle(c), faults' = faults
  PROVE  SectionsReady(pending \ {c}, sects')
<1>0. faults \in Nat
  BY ImportAssumption DEF TypeOK, ImportAssumption
<1>1. c.kind = "create_section" => T(c) \in sects'
  <2> SUFFICES ASSUME c.kind = "create_section" PROVE T(c) \in sects'
    OBVIOUS
  <2>1. DoCreateSection(c)
    BY DEF Handle, DoWithoutSection, DoDetachSubnet, DoCreateSubnet, DoUpdateSubnet,
           DoCreateFolder, DoReparentSubnet, DoCreateAddress, DoUpdateAddress, DoDeleteAddress,
           DoDeleteSubnet, DoDeleteFolder, On
  <2> DEFINE after == [target EXCEPT !.sects = @ \cup {T(c)}]
             read == [cache EXCEPT !.sections = after.sects]
  <2>2. WriteAndConfirm(c, T(c) \notin sects, after, cache, read, read, TRUE)
    BY <2>1 DEF DoCreateSection
  <2>3. after = [target EXCEPT !.sects = sects \cup {T(c)}]
    BY DEF TypeOK, TargetType, sects
  <2>4. after.sects = sects \cup {T(c)}
    BY <2>3, TargetFacts
  <2> HIDE DEF after, read
  <2>5. CASE T(c) \notin sects
    <3>1. target' = after
      BY <1>0, <2>2, <2>5, NotLost
    <3> QED BY <2>4, <3>1 DEF sects
  <2>6. CASE T(c) \in sects
    <3>1. target' = target \/ target' = after
      BY <2>2 DEF WriteAndConfirm, LookupLost
    <3> QED BY <2>4, <2>6, <3>1 DEF sects
  <2> QED BY <2>5, <2>6
<1>2. sects \subseteq sects'
  <2>1. PICK after, looked, dropped, fresh : Ended(c, after, looked, dropped, fresh)
    BY HandlerEnds
  <2>2. CASE target' = target
    BY <2>2 DEF sects
  <2>3. CASE Effect(c, after, looked, dropped, fresh) /\ target' = after
    <3>1. \/ after = [target EXCEPT !.sects = sects \cup {T(c)}]
          \/ \E row : after = Created(row)
          \/ \E id, row : after = WithRow(id, row)
          \/ \E id : after = Deleted(id)
      BY <2>3 DEF Effect
    <3>2. sects \subseteq after.sects
      <4>1. CASE after = [target EXCEPT !.sects = sects \cup {T(c)}]
        BY <4>1, TargetFacts
      <4>2. ASSUME NEW row, after = Created(row) PROVE after.sects = sects
        BY <4>2, TargetFacts
      <4>3. ASSUME NEW id, NEW row, after = WithRow(id, row) PROVE after.sects = sects
        <5>1. WithRow(id, row).sects = sects
          BY TargetFacts
        <5> QED BY <4>3, <5>1
      <4>4. ASSUME NEW id, after = Deleted(id) PROVE after.sects = sects
        BY <4>4, TargetFacts
      <4> QED BY <3>1, <4>1, <4>2, <4>3, <4>4
    <3> QED BY <2>3, <3>2 DEF sects
  <2> QED BY <2>1, <2>2, <2>3 DEF Ended
<1> QED BY <1>1, <1>2 DEF SectionsReady

LEMMA ChildrenStayCleared ==
  ASSUME SectionsApart, TypeOK, IdsTrueNow, FoldersStayTrue, Housed(target), FollowsPlan,
         OrphansPlanned, Unique(rows), Nested(rows), Agrees(cache, sects, rows),
         SectionsReady(pending, sects), FoldersReady(pending, rows), ChildrenCleared(pending, rows),
         NEW c \in pending, IsNext(c), Handle(c), faults' = faults
  PROVE  ChildrenCleared(pending \ {c}, rows')
<1> SUFFICES ASSUME NEW a \in pending \ {c}, a.kind = "delete_subnet",
                    NEW i \in SubnetIds(Listing(rows', T(a)), a.cidr),
                    NEW j \in DOMAIN rows', rows'[j].masterSubnetId = i
             PROVE  \E b \in pending \ {c} : Clears(b, a, rows'[j].cidr)
  BY DEF ChildrenCleared
<1>0. /\ a \in Action /\ c \in Action /\ a.section \in Section /\ c.section \in Section
      /\ Closed(snap)
  BY ClosedAssumption DEF TypeOK, Action, ActionRecord, ClosedAssumption
<1>1. i \in DOMAIN rows' /\ ~ rows'[i].isFolder /\ rows'[i].section = T(a) /\ rows'[i].cidr = a.cidr
  BY DEF SubnetIds, SubnetRows, Listing
<1>2. /\ i \in DOMAIN rows /\ ~ rows[i].isFolder
      /\ rows'[i].section = rows[i].section /\ rows'[i].cidr = rows[i].cidr
      /\ \/ /\ j \in DOMAIN rows /\ rows[j].masterSubnetId = i
            /\ rows'[j].isFolder = rows[j].isFolder /\ rows'[j].cidr = rows[j].cidr
            /\ rows'[j].section = rows[j].section
         \/ /\ c.kind \in {"create_subnet", "reparent_subnet"}
            /\ c.master_subnet # None
            /\ rows[i].section = T(c) /\ rows[i].cidr = c.master_subnet
  BY <1>1, ChildrenAfter
<1>3. CASE /\ c.kind \in {"create_subnet", "reparent_subnet"}
           /\ c.master_subnet # None
           /\ rows[i].section = T(c) /\ rows[i].cidr = c.master_subnet
  <2>1. PICK d \in snap.documents : c.section = d.section /\ c.master_subnet = d.master_subnet
    BY <1>3 DEF FollowsPlan, PlannedAs, Stems
  <2>2. PICK e \in snap.documents : e.section = d.section /\ e.cidr = d.master_subnet
    BY <1>0, <1>3, <2>1 DEF Closed
  <2>3. a.section = c.section
    BY <1>0, <1>1, <1>2, <1>3 DEF SectionsApart, T
  <2>4. e.section = a.section /\ e.cidr = a.cidr
    BY <1>1, <1>2, <1>3, <2>1, <2>2, <2>3
  <2> QED BY <2>4 DEF OrphansPlanned, MatchedBySection
<1>4. CASE /\ j \in DOMAIN rows /\ rows[j].masterSubnetId = i
           /\ rows'[j].isFolder = rows[j].isFolder /\ rows'[j].cidr = rows[j].cidr
           /\ rows'[j].section = rows[j].section
  <2>1. i \in SubnetIds(Listing(rows, T(a)), a.cidr)
    BY <1>1, <1>2 DEF SubnetIds, SubnetRows, Listing
  <2>2. PICK b \in pending : Clears(b, a, rows[j].cidr)
    BY <1>4, <2>1 DEF ChildrenCleared
  <2>3. CASE b # c
    BY <1>4, <2>2, <2>3
  <2>4. CASE b = c
    <3>1. /\ T(c) = T(a) /\ c.cidr = rows[j].cidr
          /\ \/ c.kind \in {"detach_subnet", "delete_subnet"}
             \/ c.kind = "reparent_subnet" /\ c.folder # NoFolder
      BY <2>2, <2>4 DEF Clears
    <3>2. rows[j].section = T(a) /\ ~ rows[j].isFolder
      BY <1>1, <1>2, <1>4 DEF Housed, Nested, rows
    <3>3. j \in SubnetIds(Listing(rows, T(c)), c.cidr)
      BY <1>4, <3>1, <3>2 DEF SubnetIds, SubnetRows, Listing
    <3>4. T(c) \in cache.sections
      BY <3>1, SectionIsThere
    <3>5. (c.kind = "reparent_subnet" /\ c.folder # NoFolder) =>
            \E q : IsFolderAt(Listing(rows, T(c)), q, c.folder)
      BY FolderIsThere
    <3>6. rows'[j].masterSubnetId # i
      BY <1>2, <3>1, <3>3, <3>4, <3>5, ChildIsTakenAway
    <3> QED BY <3>6
  <2> QED BY <2>3, <2>4
<1> QED BY <1>2, <1>3, <1>4

LEMMA PreparedKept ==
  ASSUME SectionsApart, TypeOK, Unmeddled, FoldersTrueNow, FollowsPlan,
         OrphansPlanned, NetworksOnce, NestedRows, Apart(snap), CacheCoherent, Prepared,
         [Next]_vars
  PROVE  Prepared'
<1>0. /\ Filed(snap) /\ Closed(snap)
      /\ Undisturbed => IdsTrueNow /\ Housed(target) /\ FoldersStayTrue
  BY FiledAssumption, ClosedAssumption
     DEF TypeOK, FiledAssumption, ClosedAssumption, Unmeddled, FoldersTrueNow, Undisturbed
<1> SUFFICES ASSUME running', Undisturbed'
             PROVE  /\ SectionsReady(pending', sects')
                    /\ FoldersReady(pending', rows')
                    /\ ChildrenCleared(pending', rows')
  BY DEF Prepared
<1>1. CASE StartRun
  <2>1. ~ running /\ target' = target /\ edits' = edits
    BY <1>1 DEF StartRun
  <2>2. /\ rows' = rows /\ sects' = sects /\ Unique(rows) /\ Nested(rows)
        /\ Housed(target) /\ FoldersStayTrue
    BY <2>1 DEF Undisturbed, NetworksOnce, NestedRows, Unmeddled, FoldersTrueNow, rows, sects
  <2>3. pending' = Plan(snap, sects, rows, mode # "additive") /\ (mode # "additive") \in BOOLEAN
    BY <1>1, <2>1 DEF StartRun
  <2>4. SnapshotOK(snap) /\ RowsOK(rows)
    BY PlanInputs
  <2>5. SectionsReady(pending', sects)
    BY <2>3, <2>4, PlannedSectionsReady
  <2>6. FoldersReady(pending', rows)
    BY <1>0, <2>3, <2>4, PlannedFoldersReady
  <2>7. ChildrenCleared(pending', rows)
    BY <1>0, <2>2, <2>3, PlannedChildrenCleared
  <2> QED BY <2>2, <2>5, <2>6, <2>7
<1>2. CASE Execute
  <2>1. PICK c \in pending : IsNext(c) /\ Handle(c)
    BY <1>2 DEF Execute
  <2>2. Undisturbed /\ faults' = faults /\ running
    BY <1>2, <2>1, StaysUndisturbed DEF Execute
  <2>3. /\ SectionsReady(pending, sects) /\ FoldersReady(pending, rows)
        /\ ChildrenCleared(pending, rows)
    BY <2>2 DEF Prepared
  <2>4. Agrees(cache, sects, rows)
    BY <2>2 DEF CacheCoherent, Agrees
  <2>5. Unique(rows) /\ Nested(rows)
    BY <2>2 DEF Undisturbed, NetworksOnce, NestedRows
  <2>6. pending' = pending \ {c}
    BY <2>1, HandledIsTaken DEF Taken
  <2>7. SectionsReady(pending \ {c}, sects')
    BY <2>1, <2>2, <2>3, SectionsStayReady
  <2>8. FoldersReady(pending \ {c}, rows')
    BY <1>0, <2>1, <2>2, <2>3, <2>4, FoldersStayReady
  <2>9. ChildrenCleared(pending \ {c}, rows')
    BY <1>0, <2>1, <2>2, <2>3, <2>4, <2>5, ChildrenStayCleared
  <2> QED BY <2>6, <2>7, <2>8, <2>9
<1>3. CASE FinishRun \/ Crash
  BY <1>3 DEF FinishRun, Crash, ProcessEnds
<1>4. CASE Operator
  BY <1>4, OperatorCounts DEF Undisturbed
<1>5. CASE Deliver \/ ConfirmEmpty
  BY <1>5 DEF Deliver, ConfirmEmpty, Prepared, Undisturbed, rows, sects
<1>6. CASE UNCHANGED vars
  BY <1>6 DEF vars, Prepared, Undisturbed, rows, sects
<1> QED BY <1>1, <1>2, <1>3, <1>4, <1>5, <1>6 DEF Next

\* Coherent caches and a prepared plan keep each other: the handlers that provide find
\* their way by the caches, and the caches stay coherent while nothing is taken along.
Undisturbedly == CacheCoherent /\ Prepared

LEMMA UndisturbedInvariant ==
  ASSUME SectionsApart, \A s \in Snapshots : Apart(s), \A t \in Targets : Unique(t.rows)
  PROVE  Spec => []Undisturbedly
<1>1. Init => Undisturbedly
  BY DEF Init, Undisturbedly, CacheCoherent, Prepared
<1>2. TypeOK /\ Unmeddled /\ FoldersTrueNow /\ UpdatesGiven /\ FollowsPlan
        /\ OrphansPlanned /\ NetworksOnce /\ NestedRows /\ Undisturbedly /\ [Next]_vars
        => Undisturbedly'
  <2> SUFFICES ASSUME TypeOK, Unmeddled, FoldersTrueNow, UpdatesGiven, FollowsPlan, OrphansPlanned,
                      NetworksOnce, NestedRows, Undisturbedly, [Next]_vars
               PROVE  Undisturbedly'
    OBVIOUS
  <2>1. /\ Apart(snap) /\ CacheCoherent /\ Prepared
        /\ Undisturbed => IdsTrueNow /\ Housed(target)
    BY DEF TypeOK, Undisturbedly, Unmeddled, Undisturbed
  <2>2. RemovesOne
    BY <2>1, UndisturbedDeletions DEF RemovesOne
  <2>3. CacheCoherent'
    BY <2>1, <2>2, AgreementKept
  <2>4. Prepared'
    BY <2>1, PreparedKept
  <2> QED BY <2>3, <2>4 DEF Undisturbedly
<1>3. Spec => []NetworksOnce
  BY NetworksOnceInvariant
<1>4. Spec => []OrphansPlanned
  BY OrphansPlannedInvariant
<1> QED BY <1>1, <1>2, <1>3, <1>4, TypeCorrect, UnmeddledInvariant, FoldersTrueInvariant,
           UpdatesGivenInvariant, FollowsPlanInvariant, NestedRowsInvariant,
           PTL DEF Spec

\* Also where deleting a subnet takes what lies below along, the caches of a run that
\* nobody disturbs agree with the target: the order of the plan sees to it that
\* nothing lies below (TargetView, Executor._subnet_ids; ipamsync/target.py).  It
\* takes for granted that the target's rows lie in rows of their own section, and
\* that what lies in a subnet is a smaller one (HousedAssumption, NestedAssumption):
\* phpIPAM's interface sees to both, its API does not on a PATCH of masterSubnetId.
THEOREM CachesAgreeWithCascades ==
  ASSUME SectionsApart, \A s \in Snapshots : Apart(s), \A t \in Targets : Unique(t.rows)
  PROVE  Spec => []CacheCoherent
<1>1. Spec => []Undisturbedly
  BY UndisturbedInvariant
<1>2. Undisturbedly => CacheCoherent
  BY DEF Undisturbedly
<1> QED BY <1>1, <1>2, PTL

\* "A parent is never removed while a child still points at it" (plan.py:46): in a run
\* that nobody disturbs every child that a deleted subnet has on the target was
\* detached, moved into a folder that was there by then, or deleted before, by phase
\* and, among deletions, by the longer prefix; no create or move puts another below,
\* and a folder goes only when the live table shows nothing in it.  The target's rows
\* are taken to be nested as phpIPAM's interface has them (HousedAssumption,
\* NestedAssumption): below a subnet that another API writer gave a parent no larger
\* than itself, deepest first is not children first.
THEOREM ParentsGoLast ==
  ASSUME SectionsApart, \A s \in Snapshots : Apart(s), \A t \in Targets : Unique(t.rows)
  PROVE  Spec => ParentOutlivesChild
<1> DEFINE Childless ==
      \A i \in DOMAIN rows \ DOMAIN rows' : \A j \in DOMAIN rows : rows[j].masterSubnetId # i
<1>1. TypeOK /\ Unmeddled /\ Undisturbedly => [(Execute /\ Undisturbed) => Childless]_vars
  <2> SUFFICES ASSUME TypeOK, IdsTrueNow, Housed(target), Prepared, Execute, Undisturbed
               PROVE  Childless
    BY DEF Unmeddled, Undisturbed, Undisturbedly
  <2> QED BY UndisturbedDeletions
<1>2. Spec => []Undisturbedly
  BY UndisturbedInvariant
<1> QED BY <1>1, <1>2, TypeCorrect, UnmeddledInvariant, PTL DEF Spec, ParentOutlivesChild

\* No step of the process takes away a subnet that has a document, whatever was edited
\* since the plan was made or lost on the way (Executor, ipamsync/target.py; plan.py,
\* "Deleting"); in a run that nobody disturbs phpIPAM's cascades take none either.  Three
\* kinds of rows it does not speak for: those an operator filed in a folder between the
\* two requests of its deletion, which the folder takes along; those that were resized
\* or moved to another section while the run was under way, or that lie in such a row;
\* and, in a disturbed run, those that lie below a subnet without a document.
\* Of two documents of one CIDR in two sections only one is ordered and the subnet of
\* the other would go (MCShared), as it would in a section that two sections of the
\* source map to.  Nothing is said of other API writers, who can give a row a parent
\* that phpIPAM's own interface refuses (HousedAssumption, NestedAssumption).
THEOREM OnlyOrphansGo ==
  ASSUME SectionsApart, \A s \in Snapshots : Apart(s),
         CascadeSubnets => \A t \in Targets : Unique(t.rows)
  PROVE  Spec => OnlyOrphansRemoved
<1> DEFINE MustStay(i) ==
             ~ (rows[i].isFolder \/ ~ Documented(i) \/ i \in filed \/ ~ Settled(i))
           Orphans ==
             \A i \in DOMAIN rows \ DOMAIN rows' : MustStay(i) => TakenAlong(i)
           Known == TypeOK /\ IdsStayTrue /\ Window /\ Unmeddled /\ OrphansPlanned
<1>1. Spec => []Known
  <2>1. Spec => []OrphansPlanned
    BY OrphansPlannedInvariant
  <2> QED BY <2>1, TypeCorrect, CachedIdsAreTrue, WindowInvariant, UnmeddledInvariant, PTL
\* A run that nobody disturbs takes one row at a time, if subnets cascade.
<1>2. ASSUME CascadeSubnets, Known, Undisturbedly, Execute, Undisturbed
      PROVE  Orphans
  <2>1. TypeOK /\ IdsTrueNow /\ Housed(target) /\ OrphansPlanned /\ Prepared
    BY <1>2 DEF Unmeddled, Undisturbed, Undisturbedly
  <2>2. \A i, j \in DOMAIN rows \ DOMAIN rows' : i = j
    BY <1>2, <2>1, UndisturbedDeletions
  <2> QED BY <1>2, <2>1, <2>2, RemovedAloneIsOrphan
<1>3. ASSUME Known, Execute, ~ (CascadeSubnets /\ Undisturbed)
      PROVE  Orphans
  <2> SUFFICES ASSUME NEW i \in DOMAIN rows \ DOMAIN rows', MustStay(i)
               PROVE  TakenAlong(i)
    OBVIOUS
  <2>1. /\ CascadeSubnets
        /\ \E j \in (DOMAIN rows \ DOMAIN rows') \ {i} :
             i \in Below(j) /\ ~ rows[j].isFolder /\ ~ Documented(j)
    BY <1>3, RemovedIsOrphan
  <2> QED BY <1>3, <2>1 DEF TakenAlong
<1> HIDE DEF Orphans, Known
<1>4. Spec => [](CascadeSubnets => Undisturbedly)
  <2>1. CASE CascadeSubnets
    <3>1. Spec => []Undisturbedly
      BY <2>1, UndisturbedInvariant
    <3> QED BY <3>1, PTL
  <2>2. CASE ~ CascadeSubnets
    BY <2>2, PTL
  <2>3. CascadeSubnets \in BOOLEAN
    BY ImportAssumption DEF ImportAssumption
  <2> QED BY <2>1, <2>2, <2>3
<1>5. Known /\ (CascadeSubnets => Undisturbedly) => [Execute => Orphans]_vars
  BY <1>2, <1>3
<1>6. [Execute => Orphans]_vars =>
        [Execute =>
           \A i \in DOMAIN rows \ DOMAIN rows' :
             \/ rows[i].isFolder \/ ~ Documented(i)
             \/ i \in filed \/ ~ Settled(i) \/ TakenAlong(i)]_vars
  BY DEF Orphans
<1> QED BY <1>1, <1>4, <1>5, <1>6, PTL DEF Spec, OnlyOrphansRemoved
=============================================================================

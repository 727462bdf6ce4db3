--------------------------- MODULE L2Import_proofs ---------------------------
(***************************************************************************)
(* Theorems about a master with several sources, for every configuration,  *)
(* every snapshot, every target it may start from, and any number of       *)
(* faults, edits and deliveries.                                           *)
(***************************************************************************)
EXTENDS L2Import, L2Plan_proofs

(***************************************************************************)
(* The source at hand.                                                     *)
(***************************************************************************)
\* A source keeps a section under its own name or gives it another.
LEMMA TargetNameType ==
  ASSUME NEW c, SourceConfig(c), NEW s \in Section
  PROVE  TargetName(c, s) \in Section
BY DEF SourceConfig, IsMap, TargetName

\* Its configuration and its snapshot.
LEMMA CurrentType ==
  ASSUME TypeOK, queue # << >>
  PROVE  /\ Current \in Source
         /\ Tail(queue) \in Seq(Source)
         /\ SourceConfig(C)
         /\ SnapshotType(P)
         /\ \A s \in Section : TargetName(C, s) \in Section
<1>1. queue \in Seq(Source) /\ config \in Configs /\ \A n \in Source : snap[n] \in Snapshots[n]
  BY DEF TypeOK
<1>2. Current \in Source /\ Tail(queue) \in Seq(Source)
  BY <1>1 DEF Current
<1>3. SourceConfig(C) /\ SnapshotType(P)
  BY <1>1, <1>2, FanInAssumption DEF FanInAssumption, C, P
<1> QED BY <1>2, <1>3, TargetNameType

(***************************************************************************)
(* The operators on the view keep its type.                                *)
(***************************************************************************)
\* The view keeps its type when ids are given out.
LEMMA ViewGrows ==
  ASSUME NEW v, NEW n \in Nat, ViewType(v, n), NEW m \in Nat, n <= m
  PROVE  ViewType(v, m)
<1>1. \A x \in v.l2 : L2Type(x, m)
  BY L2Grows DEF ViewType
<1>2. \A s \in DOMAIN v.subnets : TableType(v.subnets[s], SubnetRow, m)
  BY TableGrows DEF ViewType
<1> QED BY <1>1, <1>2 DEF ViewType

\* The view keeps its type under each of the operations performed on it.
LEMMA ViewOperations ==
  ASSUME NEW v, NEW n, ViewType(v, n)
  PROVE  /\ \A S \in SUBSET Section : ViewType([v EXCEPT !.sects = {S}], n)
         /\ ViewType([v EXCEPT !.sects = {}], n)
         /\ \A x : L2Type(x, n) => ViewType([v EXCEPT !.l2 = {x}], n)
         /\ ViewType(L2Dropped(v), n)
         /\ \A s, r : TableType(r, SubnetRow, n) => ViewType([v EXCEPT !.subnets = Put(@, s, r)], n)
         /\ \A s : ViewType(SubnetsDropped(v, s), n)
<1>1. v \in [sects : SUBSET SUBSET Section, l2 : {v.l2}, subnets : {v.subnets}]
  BY DEF ViewType
<1>2. ASSUME NEW S \in SUBSET Section
      PROVE  ViewType([v EXCEPT !.sects = {S}], n)
  BY <1>1 DEF ViewType
<1>3. ViewType([v EXCEPT !.sects = {}], n)
  BY <1>1 DEF ViewType
<1>4. ASSUME NEW x, L2Type(x, n) PROVE ViewType([v EXCEPT !.l2 = {x}], n)
  BY <1>1, <1>4 DEF ViewType
<1>5. ViewType(L2Dropped(v), n)
  BY <1>1 DEF ViewType, L2Dropped
<1>6. ASSUME NEW s, NEW r, TableType(r, SubnetRow, n)
      PROVE  ViewType([v EXCEPT !.subnets = Put(@, s, r)], n)
  <2>1. \A k \in DOMAIN Put(v.subnets, s, r) : TableType(Put(v.subnets, s, r)[k], SubnetRow, n)
    BY <1>6 DEF ViewType, Put
  <2> QED BY <1>1, <2>1 DEF ViewType
<1>7. ASSUME NEW s PROVE ViewType(SubnetsDropped(v, s), n)
  <2>1. \A k \in DOMAIN Pop(v.subnets, s) : TableType(Pop(v.subnets, s)[k], SubnetRow, n)
    BY DEF ViewType, Pop
  <2> QED BY <1>1, <2>1 DEF ViewType, SubnetsDropped
<1> QED BY <1>2, <1>3, <1>4, <1>5, <1>6, <1>7

\* What is seen through the view, and the view after it was consulted.
LEMMA SeenType ==
  ASSUME TypeOK
  PROVE  /\ target.nextId \in Nat \ {NoId} /\ target.nextId \in Nat
         /\ SectsSeen \in SUBSET Section
         /\ L2Type(L2Seen, target.nextId)
         /\ \A s : TableType(ListingSeen(s), SubnetRow, target.nextId)
         /\ ViewType(Sectioned, target.nextId)
         /\ \A v : ViewType(v, target.nextId) =>
              /\ ViewType(L2Looked(v), target.nextId)
              /\ \A s : ViewType(SubnetsLooked(v, s), target.nextId)
<1> DEFINE n == target.nextId
<1>1. /\ n \in Nat \ {NoId} /\ n \in Nat
      /\ target.sects \in SUBSET Section
      /\ L2Type(target, n) /\ TableType(target.subnets, SubnetRow, n)
      /\ ViewType(view, n)
  BY DEF TypeOK, TargetType
<1>2. SectsSeen \in SUBSET Section
  <2>1. \A x \in view.sects : x \in SUBSET Section
    BY <1>1 DEF ViewType
  <2> QED BY <1>1, <2>1 DEF SectsSeen, Content
<1>3. L2Type(L2Seen, n)
  <2>1. L2Type(L2Of(target), n)
    BY <1>1 DEF L2Type, L2Of
  <2>2. \A x \in view.l2 : L2Type(x, n)
    BY <1>1 DEF ViewType
  <2> HIDE DEF n
  <2> QED BY <2>1, <2>2 DEF L2Seen, Content
<1>4. ASSUME NEW s PROVE TableType(ListingSeen(s), SubnetRow, n)
  <2>1. TableType(SubnetsOf(target, s), SubnetRow, n)
    BY <1>1 DEF TableType, SubnetsOf
  <2> QED BY <1>1, <2>1 DEF ListingSeen, ViewType
<1>5. ViewType(Sectioned, n)
  BY <1>1, <1>2, ViewOperations DEF Sectioned
<1>6. ASSUME NEW v, ViewType(v, n)
      PROVE  ViewType(L2Looked(v), n) /\ \A s : ViewType(SubnetsLooked(v, s), n)
  BY <1>3, <1>4, <1>6, ViewOperations DEF L2Looked, SubnetsLooked
<1> QED BY <1>1, <1>2, <1>3, <1>4, <1>5, <1>6

(***************************************************************************)
(* What a write makes of the target has the right type, and so have the    *)
(* views afterwards.  Grown(after, fresh) says both.                       *)
(***************************************************************************)
Grown(after, fresh) ==
  /\ TargetType(after)
  /\ after.nextId >= target.nextId
  /\ ViewType(fresh, after.nextId)

\* The target with one of its tables, or its sections, replaced.
LEMMA TargetTables ==
  ASSUME TargetType(target)
  PROVE  /\ \A S \in SUBSET Section :
              LET t == [target EXCEPT !.sects = S]
              IN  TargetType(t) /\ t.nextId = target.nextId /\ t.sects = S
         /\ \A r : TableType(r, DomainRow, target.nextId) =>
              LET t == [target EXCEPT !.domains = r]
              IN  TargetType(t) /\ t.nextId = target.nextId
         /\ \A r : TableType(r, VlanRow, target.nextId) =>
              LET t == [target EXCEPT !.vlans = r]
              IN  TargetType(t) /\ t.nextId = target.nextId
         /\ \A r : TableType(r, VrfRow, target.nextId) =>
              LET t == [target EXCEPT !.vrfs = r]
              IN  TargetType(t) /\ t.nextId = target.nextId
         /\ \A r : TableType(r, SubnetRow, target.nextId) =>
              LET t == [target EXCEPT !.subnets = r]
              IN  TargetType(t) /\ t.nextId = target.nextId
<1>1. target \in [sects : SUBSET Section, domains : {target.domains}, vlans : {target.vlans},
                  vrfs : {target.vrfs}, subnets : {target.subnets}, nextId : Nat \ {NoId}]
  BY DEF TargetType
<1>2. ASSUME NEW S \in SUBSET Section
      PROVE  LET t == [target EXCEPT !.sects = S]
             IN  TargetType(t) /\ t.nextId = target.nextId /\ t.sects = S
  BY <1>1 DEF TargetType, L2Type
<1>3. ASSUME NEW r, TableType(r, DomainRow, target.nextId)
      PROVE  LET t == [target EXCEPT !.domains = r] IN TargetType(t) /\ t.nextId = target.nextId
  BY <1>1, <1>3 DEF TargetType, L2Type
<1>4. ASSUME NEW r, TableType(r, VlanRow, target.nextId)
      PROVE  LET t == [target EXCEPT !.vlans = r] IN TargetType(t) /\ t.nextId = target.nextId
  BY <1>1, <1>4 DEF TargetType, L2Type
<1>5. ASSUME NEW r, TableType(r, VrfRow, target.nextId)
      PROVE  LET t == [target EXCEPT !.vrfs = r] IN TargetType(t) /\ t.nextId = target.nextId
  BY <1>1, <1>5 DEF TargetType, L2Type
<1>6. ASSUME NEW r, TableType(r, SubnetRow, target.nextId)
      PROVE  LET t == [target EXCEPT !.subnets = r] IN TargetType(t) /\ t.nextId = target.nextId
  BY <1>1, <1>6 DEF TargetType, L2Type
<1> QED BY <1>2, <1>3, <1>4, <1>5, <1>6

\* The target after a row was added to one of its tables.
LEMMA AddedFields ==
  ASSUME TargetType(target)
  PROVE  /\ \A row : LET t == Added("domains", row)
                    IN  /\ t = [target EXCEPT !.domains = Put(target.domains, target.nextId, row),
                                             !.nextId = target.nextId + 1]
                        /\ t.domains = Put(target.domains, target.nextId, row)
                        /\ t.vlans = target.vlans /\ t.vrfs = target.vrfs
                        /\ t.subnets = target.subnets /\ t.sects = target.sects
                        /\ t.nextId = target.nextId + 1
         /\ \A row : LET t == Added("vlans", row)
                    IN  /\ t = [target EXCEPT !.vlans = Put(target.vlans, target.nextId, row),
                                             !.nextId = target.nextId + 1]
                        /\ t.vlans = Put(target.vlans, target.nextId, row)
                        /\ t.domains = target.domains /\ t.vrfs = target.vrfs
                        /\ t.subnets = target.subnets /\ t.sects = target.sects
                        /\ t.nextId = target.nextId + 1
         /\ \A row : LET t == Added("vrfs", row)
                    IN  /\ t = [target EXCEPT !.vrfs = Put(target.vrfs, target.nextId, row),
                                             !.nextId = target.nextId + 1]
                        /\ t.vrfs = Put(target.vrfs, target.nextId, row)
                        /\ t.domains = target.domains /\ t.vlans = target.vlans
                        /\ t.subnets = target.subnets /\ t.sects = target.sects
                        /\ t.nextId = target.nextId + 1
         /\ \A row : LET t == Added("subnets", row)
                    IN  /\ t = [target EXCEPT !.subnets = Put(target.subnets, target.nextId, row),
                                             !.nextId = target.nextId + 1]
                        /\ t.subnets = Put(target.subnets, target.nextId, row)
                        /\ t.domains = target.domains /\ t.vlans = target.vlans
                        /\ t.vrfs = target.vrfs /\ t.sects = target.sects
                        /\ t.nextId = target.nextId + 1
<1>1. target \in [sects : SUBSET Section, domains : {target.domains}, vlans : {target.vlans},
                  vrfs : {target.vrfs}, subnets : {target.subnets}, nextId : Nat \ {NoId}]
  BY DEF TargetType
<1>2. ASSUME NEW row
      PROVE  LET t == Added("domains", row)
             IN  /\ t = [target EXCEPT !.domains = Put(target.domains, target.nextId, row),
                                      !.nextId = target.nextId + 1]
                 /\ t.domains = Put(target.domains, target.nextId, row)
                 /\ t.vlans = target.vlans /\ t.vrfs = target.vrfs
                 /\ t.subnets = target.subnets /\ t.sects = target.sects
                 /\ t.nextId = target.nextId + 1
  <2>1. Added("domains", row) = [target EXCEPT !.domains = Put(target.domains, target.nextId, row),
                                             !.nextId = target.nextId + 1]
    BY <1>1 DEF Added
  <2> QED BY <1>1, <2>1
<1>3. ASSUME NEW row
      PROVE  LET t == Added("vlans", row)
             IN  /\ t = [target EXCEPT !.vlans = Put(target.vlans, target.nextId, row),
                                      !.nextId = target.nextId + 1]
                 /\ t.vlans = Put(target.vlans, target.nextId, row)
                 /\ t.domains = target.domains /\ t.vrfs = target.vrfs
                 /\ t.subnets = target.subnets /\ t.sects = target.sects
                 /\ t.nextId = target.nextId + 1
  <2>1. Added("vlans", row) = [target EXCEPT !.vlans = Put(target.vlans, target.nextId, row),
                                             !.nextId = target.nextId + 1]
    BY <1>1 DEF Added
  <2> QED BY <1>1, <2>1
<1>4. ASSUME NEW row
      PROVE  LET t == Added("vrfs", row)
             IN  /\ t = [target EXCEPT !.vrfs = Put(target.vrfs, target.nextId, row),
                                      !.nextId = target.nextId + 1]
                 /\ t.vrfs = Put(target.vrfs, target.nextId, row)
                 /\ t.domains = target.domains /\ t.vlans = target.vlans
                 /\ t.subnets = target.subnets /\ t.sects = target.sects
                 /\ t.nextId = target.nextId + 1
  <2>1. Added("vrfs", row) = [target EXCEPT !.vrfs = Put(target.vrfs, target.nextId, row),
                                             !.nextId = target.nextId + 1]
    BY <1>1 DEF Added
  <2> QED BY <1>1, <2>1
<1>5. ASSUME NEW row
      PROVE  LET t == Added("subnets", row)
             IN  /\ t = [target EXCEPT !.subnets = Put(target.subnets, target.nextId, row),
                                      !.nextId = target.nextId + 1]
                 /\ t.subnets = Put(target.subnets, target.nextId, row)
                 /\ t.domains = target.domains /\ t.vlans = target.vlans
                 /\ t.vrfs = target.vrfs /\ t.sects = target.sects
                 /\ t.nextId = target.nextId + 1
  <2>1. Added("subnets", row) = [target EXCEPT !.subnets = Put(target.subnets, target.nextId, row),
                                             !.nextId = target.nextId + 1]
    BY <1>1 DEF Added
  <2> QED BY <1>1, <2>1
<1> QED BY <1>2, <1>3, <1>4, <1>5

\* It has the right type.
LEMMA AddedType ==
  ASSUME TargetType(target)
  PROVE  /\ \A row \in DomainRow : TargetType(Added("domains", row))
         /\ \A row \in VlanRow : TargetType(Added("vlans", row))
         /\ \A row \in VrfRow : TargetType(Added("vrfs", row))
         /\ \A row \in SubnetRow : TargetType(Added("subnets", row))
<1> DEFINE n == target.nextId
<1>1. /\ n \in Nat \ {NoId} /\ n \in Nat /\ n + 1 \in Nat \ {NoId} /\ n <= n + 1
      /\ target \in [sects : SUBSET Section, domains : {target.domains}, vlans : {target.vlans},
                     vrfs : {target.vrfs}, subnets : {target.subnets}, nextId : Nat \ {NoId}]
      /\ TableType(target.domains, DomainRow, n) /\ TableType(target.vlans, VlanRow, n)
      /\ TableType(target.vrfs, VrfRow, n) /\ TableType(target.subnets, SubnetRow, n)
  BY DEF TargetType, L2Type, NoId
<1>2. /\ TableType(target.domains, DomainRow, n + 1) /\ TableType(target.vlans, VlanRow, n + 1)
      /\ TableType(target.vrfs, VrfRow, n + 1) /\ TableType(target.subnets, SubnetRow, n + 1)
  BY <1>1, TableGrows
<1>3. /\ \A row \in DomainRow : TableType(Put(target.domains, n, row), DomainRow, n + 1)
      /\ \A row \in VlanRow : TableType(Put(target.vlans, n, row), VlanRow, n + 1)
      /\ \A row \in VrfRow : TableType(Put(target.vrfs, n, row), VrfRow, n + 1)
      /\ \A row \in SubnetRow : TableType(Put(target.subnets, n, row), SubnetRow, n + 1)
  BY <1>1, TableEntry
<1>4. ASSUME NEW t,
             t.sects = target.sects, t.nextId = n + 1,
             t \in [sects : SUBSET Section, domains : {t.domains}, vlans : {t.vlans},
                    vrfs : {t.vrfs}, subnets : {t.subnets}, nextId : Nat \ {NoId}],
             TableType(t.domains, DomainRow, n + 1), TableType(t.vlans, VlanRow, n + 1),
             TableType(t.vrfs, VrfRow, n + 1), TableType(t.subnets, SubnetRow, n + 1)
      PROVE  TargetType(t)
  BY <1>4 DEF TargetType, L2Type
<1>5. ASSUME NEW row \in DomainRow PROVE TargetType(Added("domains", row))
  <2> DEFINE t == Added("domains", row)
  <2>1. /\ t = [target EXCEPT !.domains = Put(target.domains, n, row), !.nextId = n + 1]
        /\ t.domains = Put(target.domains, n, row)
        /\ t.vlans = target.vlans /\ t.vrfs = target.vrfs
        /\ t.subnets = target.subnets /\ t.sects = target.sects /\ t.nextId = n + 1
    BY AddedFields
  <2> HIDE DEF t, n
  <2>2. t \in [sects : SUBSET Section, domains : {t.domains}, vlans : {t.vlans},
               vrfs : {t.vrfs}, subnets : {t.subnets}, nextId : Nat \ {NoId}]
    BY <1>1, <2>1
  <2>3. TargetType(t)
    BY <1>2, <1>3, <1>4, <2>1, <2>2
  <2> QED BY <2>3 DEF t
<1>6. ASSUME NEW row \in VlanRow PROVE TargetType(Added("vlans", row))
  <2> DEFINE t == Added("vlans", row)
  <2>1. /\ t = [target EXCEPT !.vlans = Put(target.vlans, n, row), !.nextId = n + 1]
        /\ t.vlans = Put(target.vlans, n, row)
        /\ t.domains = target.domains /\ t.vrfs = target.vrfs
        /\ t.subnets = target.subnets /\ t.sects = target.sects /\ t.nextId = n + 1
    BY AddedFields
  <2> HIDE DEF t, n
  <2>2. t \in [sects : SUBSET Section, domains : {t.domains}, vlans : {t.vlans},
               vrfs : {t.vrfs}, subnets : {t.subnets}, nextId : Nat \ {NoId}]
    BY <1>1, <2>1
  <2>3. TargetType(t)
    BY <1>2, <1>3, <1>4, <2>1, <2>2
  <2> QED BY <2>3 DEF t
<1>7. ASSUME NEW row \in VrfRow PROVE TargetType(Added("vrfs", row))
  <2> DEFINE t == Added("vrfs", row)
  <2>1. /\ t = [target EXCEPT !.vrfs = Put(target.vrfs, n, row), !.nextId = n + 1]
        /\ t.vrfs = Put(target.vrfs, n, row)
        /\ t.domains = target.domains /\ t.vlans = target.vlans
        /\ t.subnets = target.subnets /\ t.sects = target.sects /\ t.nextId = n + 1
    BY AddedFields
  <2> HIDE DEF t, n
  <2>2. t \in [sects : SUBSET Section, domains : {t.domains}, vlans : {t.vlans},
               vrfs : {t.vrfs}, subnets : {t.subnets}, nextId : Nat \ {NoId}]
    BY <1>1, <2>1
  <2>3. TargetType(t)
    BY <1>2, <1>3, <1>4, <2>1, <2>2
  <2> QED BY <2>3 DEF t
<1>8. ASSUME NEW row \in SubnetRow PROVE TargetType(Added("subnets", row))
  <2> DEFINE t == Added("subnets", row)
  <2>1. /\ t = [target EXCEPT !.subnets = Put(target.subnets, n, row), !.nextId = n + 1]
        /\ t.subnets = Put(target.subnets, n, row)
        /\ t.domains = target.domains /\ t.vlans = target.vlans
        /\ t.vrfs = target.vrfs /\ t.sects = target.sects /\ t.nextId = n + 1
    BY AddedFields
  <2> HIDE DEF t, n
  <2>2. t \in [sects : SUBSET Section, domains : {t.domains}, vlans : {t.vlans},
               vrfs : {t.vrfs}, subnets : {t.subnets}, nextId : Nat \ {NoId}]
    BY <1>1, <2>1
  <2>3. TargetType(t)
    BY <1>2, <1>3, <1>4, <2>1, <2>2
  <2> QED BY <2>3 DEF t
<1> QED BY <1>5, <1>6, <1>7, <1>8

\* The subnets after the links to one record were cleared.
Unlinked(id) ==
  [i \in DOMAIN target.subnets |->
     IF target.subnets[i].vlanId = id
     THEN [target.subnets[i] EXCEPT !.vlanId = NoId] ELSE target.subnets[i]]

Unrouted(id) ==
  [i \in DOMAIN target.subnets |->
     IF target.subnets[i].vrfId = id
     THEN [target.subnets[i] EXCEPT !.vrfId = NoId] ELSE target.subnets[i]]

\* The target without a VLAN or a VRF.
LEMMA WithoutFields ==
  ASSUME TargetType(target), NEW id
  PROVE  /\ LET t == WithoutVlan(id)
            IN  /\ t = [target EXCEPT !.vlans = Pop(target.vlans, id), !.subnets = Unlinked(id)]
                /\ t.vlans = Pop(target.vlans, id) /\ t.subnets = Unlinked(id)
                /\ t.sects = target.sects /\ t.domains = target.domains /\ t.vrfs = target.vrfs
                /\ t.nextId = target.nextId
         /\ LET t == WithoutVrf(id)
            IN  /\ t = [target EXCEPT !.vrfs = Pop(target.vrfs, id), !.subnets = Unrouted(id)]
                /\ t.vrfs = Pop(target.vrfs, id) /\ t.subnets = Unrouted(id)
                /\ t.sects = target.sects /\ t.domains = target.domains /\ t.vlans = target.vlans
                /\ t.nextId = target.nextId
<1>1. target \in [sects : SUBSET Section, domains : {target.domains}, vlans : {target.vlans},
                  vrfs : {target.vrfs}, subnets : {target.subnets}, nextId : Nat \ {NoId}]
  BY DEF TargetType
<1>2. WithoutVlan(id) = [target EXCEPT !.vlans = Pop(target.vlans, id), !.subnets = Unlinked(id)]
  BY <1>1 DEF WithoutVlan, Unlinked
<1>3. WithoutVrf(id) = [target EXCEPT !.vrfs = Pop(target.vrfs, id), !.subnets = Unrouted(id)]
  BY <1>1 DEF WithoutVrf, Unrouted
<1> QED BY <1>1, <1>2, <1>3

\* The same, table by table.
LEMMA WithoutTables ==
  ASSUME TargetType(target), NEW id
  PROVE  /\ WithoutVlan(id).vlans = Pop(target.vlans, id)
         /\ WithoutVlan(id).subnets = Unlinked(id)
         /\ WithoutVlan(id).sects = target.sects /\ WithoutVlan(id).domains = target.domains
         /\ WithoutVlan(id).vrfs = target.vrfs /\ WithoutVlan(id).nextId = target.nextId
         /\ WithoutVrf(id).vrfs = Pop(target.vrfs, id)
         /\ WithoutVrf(id).subnets = Unrouted(id)
         /\ WithoutVrf(id).sects = target.sects /\ WithoutVrf(id).domains = target.domains
         /\ WithoutVrf(id).vlans = target.vlans /\ WithoutVrf(id).nextId = target.nextId
BY WithoutFields

\* It has the right type.
LEMMA WithoutType ==
  ASSUME TargetType(target), NEW id
  PROVE  /\ TargetType(WithoutVlan(id)) /\ WithoutVlan(id).nextId = target.nextId
         /\ TargetType(WithoutVrf(id)) /\ WithoutVrf(id).nextId = target.nextId
<1> DEFINE n == target.nextId
<1>1. /\ n \in Nat \ {NoId}
      /\ target \in [sects : SUBSET Section, domains : {target.domains}, vlans : {target.vlans},
                     vrfs : {target.vrfs}, subnets : {target.subnets}, nextId : Nat \ {NoId}]
      /\ TableType(target.domains, DomainRow, n) /\ TableType(target.vlans, VlanRow, n)
      /\ TableType(target.vrfs, VrfRow, n) /\ TableType(target.subnets, SubnetRow, n)
  BY DEF TargetType, L2Type
<1>2. TableType(Pop(target.vlans, id), VlanRow, n) /\ TableType(Pop(target.vrfs, id), VrfRow, n)
  BY <1>1, TableUpdate
<1>3. TableType(Unlinked(id), SubnetRow, n) /\ TableType(Unrouted(id), SubnetRow, n)
  BY <1>1 DEF TableType, SubnetRow, NoId, Unlinked, Unrouted
<1> QED BY <1>1, <1>2, <1>3, WithoutFields, ZenonT(60) DEF TargetType, L2Type

(***************************************************************************)
(* What the handlers do, apart from how their requests fail.               *)
(***************************************************************************)
\* The views that the lookups of an action may leave.
Looks(a) ==
  LET found == SubnetsLooked(Sectioned, T(a))
  IN  {view, Sectioned, L2Looked(view), L2Looked(Sectioned), found, L2Looked(found)}

\* What an action makes of the tables of L2 records, if its request is accepted.
L2Effect(a, after) ==
  \/ /\ a.kind = "create_l2domain" /\ T(a) \in SectsSeen
     /\ after = Added("domains", [name |-> a.domain, sections |-> {T(a)}, fields |-> a.fields])
  \/ /\ a.kind \in {"update_l2domain", "attach_l2domain"}
     /\ LET id == DomainId(L2Seen, a.domain)
            row == IF a.kind = "update_l2domain"
                   THEN [target.domains[id] EXCEPT !.fields = a.fields]
                   ELSE [target.domains[id] EXCEPT !.sections = ListedThen(a, id)]
        IN  /\ id # NoId /\ id \in DOMAIN target.domains
            /\ after = [target EXCEPT !.domains = [target.domains EXCEPT ![id] = row]]
  \/ /\ a.kind = "create_vlan"
     /\ LET id == DomainId(L2Seen, a.vlan[1])
        IN  /\ id # NoId
            /\ after = Added("vlans", [domainId |-> id, number |-> a.vlan[2], fields |-> a.fields])
  \/ /\ a.kind = "update_vlan"
     /\ LET id == VlanId(L2Seen, a.vlan)
            row == [target.vlans[id] EXCEPT !.fields = a.fields]
        IN  /\ id # NoId /\ id \in DOMAIN target.vlans
            /\ after = [target EXCEPT !.vlans = [target.vlans EXCEPT ![id] = row]]
  \/ /\ a.kind = "create_vrf" /\ T(a) \in SectsSeen
     /\ after = Added("vrfs", [name |-> a.vrf, sections |-> {T(a)}, fields |-> a.fields])
  \/ /\ a.kind = "update_vrf"
     /\ LET id == VrfId(L2Seen, a.vrf, T(a))
            row == [target.vrfs[id] EXCEPT !.fields = a.fields]
        IN  /\ id # NoId /\ id \in DOMAIN target.vrfs
            /\ after = [target EXCEPT !.vrfs = [target.vrfs EXCEPT ![id] = row]]
  \/ /\ a.kind = "delete_vlan"
     /\ LET id == VlanId(L2Seen, a.vlan)
        IN  id # NoId /\ id \in DOMAIN target.vlans /\ after = WithoutVlan(id)
  \/ /\ a.kind = "delete_vrf"
     /\ LET id == VrfId(L2Seen, a.vrf, T(a))
        IN  id # NoId /\ id \in DOMAIN target.vrfs /\ after = WithoutVrf(id)

\* The subnet that an action creates, and what a link makes of one.
NewSubnet(a) == [section |-> T(a), cidr |-> a.cidr, vlanId |-> NoId, vrfId |-> NoId]

Relinked(id, row) ==
  /\ id # NoId /\ id \in DOMAIN target.subnets
  /\ \E x, y \in Nat :
       row = [target.subnets[id] EXCEPT !.vlanId = x, !.vrfId = y]

\* What an action makes of the target and of the view.
Effect(a, after, looked, dropped, fresh) ==
  \/ /\ a.kind = "create_section"
     /\ after = [target EXCEPT !.sects = target.sects \cup {T(a)}]
     /\ looked = view
     /\ dropped = [view EXCEPT !.sects = {}]
     /\ fresh = [view EXCEPT !.sects = {target.sects \cup {T(a)}}]
  \/ /\ L2Effect(a, after)
     /\ looked \in Looks(a)
     /\ dropped = L2Dropped(looked)
     /\ fresh \in {dropped, L2Reread(looked, after)}
  \/ /\ a.kind = "create_subnet"
     /\ SubnetId(target.subnets, T(a), a.cidr) = NoId
     /\ after = Added("subnets", NewSubnet(a))
     /\ looked = Sectioned
     /\ dropped = SubnetsDropped(looked, T(a))
     /\ fresh = [dropped EXCEPT !.subnets = Put(@, T(a), SubnetsOf(after, T(a)))]
  \/ /\ a.kind = "link_subnet"
     /\ LET id == SubnetId(ListingSeen(T(a)), T(a), a.cidr)
        IN  \E row : /\ Relinked(id, row)
                     /\ after = [target EXCEPT !.subnets = [target.subnets EXCEPT ![id] = row]]
     /\ looked \in Looks(a)
     /\ dropped = SubnetsDropped(looked, T(a))
     /\ fresh = dropped

\* How it ends: it is taken off the plan, with nothing written, or with `after`.
Ended(a, after, looked, dropped, fresh) ==
  /\ Taken(a)
  /\ errors' \in {errors, errors \cup {Current}}
  /\ faults' = faults \/ Fault
  /\ \/ target' = target /\ view' \in {view, looked}
     \/ /\ Effect(a, after, looked, dropped, fresh)
        /\ target' = after
        /\ view' \in {looked, dropped, fresh}
        /\ faults' = faults => view' = fresh

\* Nothing to write, no record to write to, or a request that may fail: it is one of these.
LEMMA Endings ==
  ASSUME TypeOK, NEW a, NEW accepted, NEW after, NEW looked, NEW dropped, NEW fresh
  PROVE  /\ Done(a, looked) => Ended(a, after, looked, dropped, fresh)
         /\ Fail(a, looked) => Ended(a, after, looked, dropped, fresh)
         /\ (accepted => Effect(a, after, looked, dropped, fresh))
              /\ WriteAndConfirm(a, accepted, after, looked, dropped, fresh)
              => Ended(a, after, looked, dropped, fresh)
         /\ (accepted => Effect(a, after, looked, dropped, dropped))
              /\ Write(a, accepted, after, looked, dropped)
              => Ended(a, after, looked, dropped, dropped)
<1>1. Fault => faults' # faults
  BY FanInAssumption DEF FanInAssumption, Fault, TypeOK
<1>2. LookupLost(a, looked) => Ended(a, after, looked, dropped, fresh)
  BY DEF LookupLost, Lost, Ended, Recorded
<1>3. Done(a, looked) => Ended(a, after, looked, dropped, fresh)
  BY <1>2 DEF Done, Ended
<1>4. Fail(a, looked) => Ended(a, after, looked, dropped, fresh)
  BY <1>2 DEF Fail, Ended, Recorded
<1>5. ASSUME NEW anew, accepted => Effect(a, after, looked, dropped, anew),
             WriteAndConfirm(a, accepted, after, looked, dropped, anew)
      PROVE  Ended(a, after, looked, dropped, anew)
  <2>1. Taken(a)
    BY <1>5 DEF WriteAndConfirm, LookupLost, Lost
  <2>2. errors' \in {errors, errors \cup {Current}}
    BY <1>5 DEF WriteAndConfirm, LookupLost, Lost, Recorded
  <2>3. faults' = faults \/ Fault
    BY <1>5 DEF WriteAndConfirm, LookupLost, Lost
  <2>4. \/ target' = target /\ view' \in {view, looked}
        \/ /\ accepted /\ target' = after
           /\ view' \in {looked, dropped, anew}
           /\ faults' = faults => view' = anew
    BY <1>1, <1>5 DEF WriteAndConfirm, LookupLost, Lost
  <2> QED BY <1>5, <2>1, <2>2, <2>3, <2>4 DEF Ended
<1> QED BY <1>3, <1>4, <1>5 DEF Write

\* Every handler ends so.
LEMMA HandlerEnds ==
  ASSUME TypeOK, NEW a \in pending, Handle(a)
  PROVE  \E after, looked, dropped, fresh :
           looked \in Looks(a) /\ Ended(a, after, looked, dropped, fresh)
<1> DEFINE Goal == \E after, looked, dropped, fresh :
                     looked \in Looks(a) /\ Ended(a, after, looked, dropped, fresh)
<1>1. /\ {view, Sectioned, L2Looked(view), L2Looked(Sectioned)} \subseteq Looks(a)
      /\ {SubnetsLooked(Sectioned, T(a)), L2Looked(SubnetsLooked(Sectioned, T(a)))} \subseteq Looks(a)
  BY DEF Looks
<1>2. ASSUME NEW looked \in Looks(a), Done(a, looked) \/ Fail(a, looked) PROVE Goal
  <2>1. Ended(a, target, looked, view, view)
    BY <1>2, Endings
  <2> QED BY <2>1
<1>3. ASSUME NEW accepted, NEW after, NEW looked \in Looks(a), NEW dropped, NEW fresh,
             accepted => Effect(a, after, looked, dropped, fresh),
             WriteAndConfirm(a, accepted, after, looked, dropped, fresh)
      PROVE  Goal
  <2>1. Ended(a, after, looked, dropped, fresh)
    BY <1>3, Endings
  <2> QED BY <2>1
<1>4. ASSUME NEW accepted, NEW after, NEW looked \in Looks(a), NEW dropped,
             accepted => Effect(a, after, looked, dropped, dropped),
             Write(a, accepted, after, looked, dropped)
      PROVE  Goal
  BY <1>3, <1>4 DEF Write
<1>5. ASSUME NEW accepted, NEW after, NEW looked \in Looks(a), accepted => L2Effect(a, after),
             Write(a, accepted, after, looked, L2Dropped(looked))
      PROVE  Goal
  BY <1>4, <1>5 DEF Effect
<1>6. ASSUME NEW after, NEW looked \in Looks(a), L2Effect(a, after),
             CreateAndReread(a, after, looked)
      PROVE  Goal
  BY <1>3, <1>6 DEF Effect, CreateAndReread
<1> HIDE DEF Goal
<1>7. CASE SectionMissing(a)
  <2> DEFINE looked == IF a.kind = "attach_l2domain" THEN L2Looked(Sectioned) ELSE Sectioned
  <2>1. Fail(a, looked)
    BY <1>7 DEF Handle
  <2>2. looked \in Looks(a)
    BY <1>1
  <2> HIDE DEF looked
  <2> QED BY <1>2, <2>1, <2>2 DEF Goal
<1> SUFFICES ASSUME ~ SectionMissing(a) PROVE Goal
  BY <1>7 DEF Goal
<1>8. a.kind \in {"create_l2domain", "create_vrf"} => T(a) \in SectsSeen
  BY DEF SectionMissing, NeedsSection
<1>9. CASE a.kind = "create_section" /\ CreateSection(a)
  <2> DEFINE S == target.sects \cup {T(a)}
             after == [target EXCEPT !.sects = S]
             dropped == [view EXCEPT !.sects = {}]
             fresh == [view EXCEPT !.sects = {S}]
  <2>1. after.sects = S
    BY DEF TypeOK, TargetType
  <2>2. WriteAndConfirm(a, TRUE, after, view, dropped, fresh)
    <3>1. WriteAndConfirm(a, TRUE, after, view, dropped, [view EXCEPT !.sects = {after.sects}])
      BY <1>9 DEF CreateSection
    <3> HIDE DEF after, S
    <3> QED BY <2>1, <3>1
  <2>3. Effect(a, after, view, dropped, fresh)
    BY <1>9 DEF Effect
  <2> HIDE DEF S, after, dropped, fresh
  <2> QED BY <1>1, <1>3, <2>2, <2>3
<1>10. CASE a.kind = "create_l2domain" /\ CreateL2Domain(a)
  <2> DEFINE after == Added("domains", [name |-> a.domain, sections |-> {T(a)}, fields |-> a.fields])
  <2>1. L2Effect(a, after)
    BY <1>8, <1>10 DEF L2Effect
  <2>2. CreateAndReread(a, after, Sectioned)
    BY <1>10 DEF CreateL2Domain
  <2> HIDE DEF after
  <2> QED BY <1>1, <1>6, <2>1, <2>2
<1>11. CASE a.kind = "update_l2domain" /\ UpdateL2Domain(a)
  <2> DEFINE id == DomainId(L2Seen, a.domain)
             row == [target.domains[id] EXCEPT !.fields = a.fields]
             after == [target EXCEPT !.domains = [target.domains EXCEPT ![id] = row]]
  <2>1. id # NoId /\ id \in DOMAIN target.domains => L2Effect(a, after)
    BY <1>11 DEF L2Effect
  <2>2. IF id = NoId THEN Fail(a, L2Looked(view))
        ELSE Write(a, id \in DOMAIN target.domains, after, L2Looked(view), L2Dropped(L2Looked(view)))
    BY <1>11 DEF UpdateL2Domain, WriteFields, WriteRow
  <2> HIDE DEF id, after
  <2> QED BY <1>1, <1>2, <1>5, <2>1, <2>2
<1>12. CASE a.kind = "attach_l2domain" /\ AttachL2Domain(a)
  <2> DEFINE id == DomainId(L2Seen, a.domain)
             row == [target.domains[id] EXCEPT !.sections = ListedThen(a, id)]
             after == [target EXCEPT !.domains = [target.domains EXCEPT ![id] = row]]
             looked == L2Looked(Sectioned)
  <2>1. id # NoId /\ id \in DOMAIN target.domains => L2Effect(a, after)
    BY <1>12 DEF L2Effect
  <2>2. IF id = NoId THEN Fail(a, looked)
        ELSE Write(a, id \in DOMAIN target.domains, after, looked, L2Dropped(looked))
    BY <1>12 DEF AttachL2Domain, WriteRow
  <2>3. looked \in Looks(a)
    BY <1>1
  <2> HIDE DEF id, after, looked
  <2> QED BY <1>2, <1>5, <2>1, <2>2, <2>3
<1>13. CASE a.kind = "create_vlan" /\ CreateVlan(a)
  <2> DEFINE id == DomainId(L2Seen, a.vlan[1])
             after == Added("vlans", [domainId |-> id, number |-> a.vlan[2], fields |-> a.fields])
  <2>1. id # NoId => L2Effect(a, after)
    BY <1>13 DEF L2Effect
  <2>2. IF id = NoId THEN Fail(a, L2Looked(view)) ELSE CreateAndReread(a, after, L2Looked(view))
    BY <1>13 DEF CreateVlan
  <2> HIDE DEF id, after
  <2> QED BY <1>1, <1>2, <1>6, <2>1, <2>2
<1>14. CASE a.kind = "update_vlan" /\ UpdateVlan(a)
  <2> DEFINE id == VlanId(L2Seen, a.vlan)
             row == [target.vlans[id] EXCEPT !.fields = a.fields]
             after == [target EXCEPT !.vlans = [target.vlans EXCEPT ![id] = row]]
  <2>1. id # NoId /\ id \in DOMAIN target.vlans => L2Effect(a, after)
    BY <1>14 DEF L2Effect
  <2>2. IF id = NoId THEN Fail(a, L2Looked(view))
        ELSE Write(a, id \in DOMAIN target.vlans, after, L2Looked(view), L2Dropped(L2Looked(view)))
    BY <1>14 DEF UpdateVlan, WriteFields, WriteRow
  <2> HIDE DEF id, after
  <2> QED BY <1>1, <1>2, <1>5, <2>1, <2>2
<1>15. CASE a.kind = "create_vrf" /\ CreateVrf(a)
  <2> DEFINE after == Added("vrfs", [name |-> a.vrf, sections |-> {T(a)}, fields |-> a.fields])
  <2>1. L2Effect(a, after)
    BY <1>8, <1>15 DEF L2Effect
  <2>2. CreateAndReread(a, after, Sectioned)
    BY <1>15 DEF CreateVrf
  <2> HIDE DEF after
  <2> QED BY <1>1, <1>6, <2>1, <2>2
<1>16. CASE a.kind = "update_vrf" /\ UpdateVrf(a)
  <2> DEFINE id == VrfId(L2Seen, a.vrf, T(a))
             row == [target.vrfs[id] EXCEPT !.fields = a.fields]
             after == [target EXCEPT !.vrfs = [target.vrfs EXCEPT ![id] = row]]
             looked == L2Looked(Sectioned)
  <2>1. id # NoId /\ id \in DOMAIN target.vrfs => L2Effect(a, after)
    BY <1>16 DEF L2Effect
  <2>2. IF id = NoId THEN Fail(a, looked)
        ELSE Write(a, id \in DOMAIN target.vrfs, after, looked, L2Dropped(looked))
    BY <1>16 DEF UpdateVrf, WriteFields, WriteRow
  <2>3. looked \in Looks(a)
    BY <1>1
  <2> HIDE DEF id, after, looked
  <2> QED BY <1>2, <1>5, <2>1, <2>2, <2>3
<1>17. CASE a.kind = "create_subnet" /\ CreateSubnet(a)
  <2> DEFINE after == Added("subnets", NewSubnet(a))
             dropped == SubnetsDropped(Sectioned, T(a))
             fresh == [dropped EXCEPT !.subnets = Put(@, T(a), SubnetsOf(after, T(a)))]
             accepted == SubnetId(target.subnets, T(a), a.cidr) = NoId
  <2>1. accepted => Effect(a, after, Sectioned, dropped, fresh)
    BY <1>17 DEF Effect
  <2>2. WriteAndConfirm(a, accepted, after, Sectioned, dropped, fresh)
    BY <1>17 DEF CreateSubnet, NewSubnet
  <2> HIDE DEF accepted, after, dropped, fresh
  <2> QED BY <1>1, <1>3, <2>1, <2>2
<1>18. CASE a.kind = "link_subnet" /\ LinkSubnet(a)
  <2> DEFINE id == SubnetId(ListingSeen(T(a)), T(a), a.cidr)
             vlan == IF a.vlan = NoVlan THEN NoId ELSE VlanId(L2Seen, a.vlan)
             vrf == IF a.vrf = NoName THEN NoId ELSE VrfId(L2Seen, a.vrf, T(a))
             asksVlan == "vlan" \in a.sets /\ a.vlan # NoVlan
             asksVrf == "vrf" \in a.sets /\ a.vrf # NoName
             setsVlan == "vlan" \in a.sets /\ (asksVlan => vlan # NoId)
             setsVrf == "vrf" \in a.sets /\ (asksVrf => vrf # NoId)
             found == SubnetsLooked(Sectioned, T(a))
             looked == IF asksVlan \/ asksVrf THEN L2Looked(found) ELSE found
             row == [target.subnets[id] EXCEPT
                       !.vlanId = IF setsVlan THEN vlan ELSE target.subnets[id].vlanId,
                       !.vrfId = IF setsVrf THEN vrf ELSE target.subnets[id].vrfId]
             after == [target EXCEPT !.subnets = [target.subnets EXCEPT ![id] = row]]
  <2>1. looked \in Looks(a) /\ found \in Looks(a)
    BY <1>1
  <2>2. vlan \in Nat /\ vrf \in Nat
    <3>1. target.nextId \in Nat /\ L2Type(L2Seen, target.nextId)
      BY SeenType
    <3> QED BY <3>1, VlanLookup, VrfLookup DEF NoId
  <2>3. id # NoId /\ id \in DOMAIN target.subnets =>
          Effect(a, after, looked, SubnetsDropped(looked, T(a)), SubnetsDropped(looked, T(a)))
    <3> SUFFICES ASSUME id # NoId, id \in DOMAIN target.subnets
                 PROVE  Effect(a, after, looked, SubnetsDropped(looked, T(a)),
                               SubnetsDropped(looked, T(a)))
      OBVIOUS
    <3>1. target.subnets[id] \in SubnetRow
      BY DEF TypeOK, TargetType, TableType
    <3>2. Relinked(id, row)
      <4> DEFINE x == IF setsVlan THEN vlan ELSE target.subnets[id].vlanId
                 y == IF setsVrf THEN vrf ELSE target.subnets[id].vrfId
      <4>1. x \in Nat /\ y \in Nat
        BY <2>2, <3>1 DEF SubnetRow
      <4>2. row = [target.subnets[id] EXCEPT !.vlanId = x, !.vrfId = y]
        OBVIOUS
      <4> HIDE DEF x, y, id, row
      <4> QED BY <4>1, <4>2 DEF Relinked
    <3> HIDE DEF looked, row
    <3> QED BY <1>18, <2>1, <3>2 DEF Effect
  <2>4. after = [target EXCEPT !.subnets[id].vlanId = IF setsVlan THEN vlan ELSE @,
                               !.subnets[id].vrfId = IF setsVrf THEN vrf ELSE @]
    <3> HIDE DEF setsVlan, setsVrf, vlan, vrf, id
    <3> QED BY ZenonT(60) DEF TypeOK, TargetType, TableType, SubnetRow
  <2>5. \/ id = NoId /\ Fail(a, found)
        \/ Done(a, looked)
        \/ id # NoId /\ Write(a, id \in DOMAIN target.subnets, after, looked, SubnetsDropped(looked, T(a)))
    <3>1. IF id = NoId THEN Fail(a, found)
          ELSE IF ~ setsVlan /\ ~ setsVrf THEN Done(a, looked)
          ELSE Write(a, id \in DOMAIN target.subnets,
                     [target EXCEPT !.subnets[id].vlanId = IF setsVlan THEN vlan ELSE @,
                                    !.subnets[id].vrfId = IF setsVrf THEN vrf ELSE @],
                     looked, SubnetsDropped(looked, T(a)))
      BY <1>18 DEF LinkSubnet
    <3> HIDE DEF after, looked, id, setsVlan, setsVrf, found
    <3> QED BY <2>4, <3>1
  <2> HIDE DEF looked, found, after, id
  <2> QED BY <1>2, <1>4, <2>1, <2>3, <2>5
<1>19. CASE a.kind = "delete_vlan" /\ DeleteVlan(a)
  <2> DEFINE id == VlanId(L2Seen, a.vlan)
  <2>1. id # NoId /\ id \in DOMAIN target.vlans => L2Effect(a, WithoutVlan(id))
    BY <1>19 DEF L2Effect
  <2>2. IF id = NoId THEN Done(a, L2Looked(view))
        ELSE Write(a, id \in DOMAIN target.vlans, WithoutVlan(id), L2Looked(view),
                   L2Dropped(L2Looked(view)))
    BY <1>19 DEF DeleteVlan, DeleteRow
  <2> HIDE DEF id
  <2> QED BY <1>1, <1>2, <1>5, <2>1, <2>2
<1>20. CASE a.kind = "delete_vrf" /\ DeleteVrf(a)
  <2> DEFINE id == VrfId(L2Seen, a.vrf, T(a))
             looked == L2Looked(Sectioned)
  <2>1. id # NoId /\ id \in DOMAIN target.vrfs => L2Effect(a, WithoutVrf(id))
    BY <1>20 DEF L2Effect
  <2>2. IF id = NoId THEN Done(a, looked)
        ELSE Write(a, id \in DOMAIN target.vrfs, WithoutVrf(id), looked, L2Dropped(looked))
    BY <1>20 DEF DeleteVrf, DeleteRow
  <2>3. looked \in Looks(a)
    BY <1>1
  <2> HIDE DEF id, looked
  <2> QED BY <1>2, <1>5, <2>1, <2>2, <2>3
<1> QED
  BY <1>9, <1>10, <1>11, <1>12, <1>13, <1>14, <1>15, <1>16, <1>17, <1>18, <1>19, <1>20 DEF Handle

(***************************************************************************)
(* Types.                                                                  *)
(***************************************************************************)
\* The lookups of an action leave a view.
LEMMA LooksType ==
  ASSUME TypeOK, NEW a
  PROVE  \A looked \in Looks(a) : ViewType(looked, target.nextId)
<1>1. ViewType(view, target.nextId)
  BY DEF TypeOK
<1>2. /\ ViewType(Sectioned, target.nextId)
      /\ \A v : ViewType(v, target.nextId) =>
           /\ ViewType(L2Looked(v), target.nextId)
           /\ \A s : ViewType(SubnetsLooked(v, s), target.nextId)
  BY SeenType
<1>3. ViewType(SubnetsLooked(Sectioned, T(a)), target.nextId)
  BY <1>2
<1> QED BY <1>1, <1>2, <1>3 DEF Looks

\* What it makes of the L2 tables are such tables.
LEMMA L2EffectType ==
  ASSUME TypeOK, NEW a \in Action, T(a) \in Section, NEW after, L2Effect(a, after)
  PROVE  TargetType(after) /\ after.nextId \in {target.nextId, target.nextId + 1}
<1> DEFINE n == target.nextId
<1>1. /\ n \in Nat \ {NoId} /\ n \in Nat
      /\ TargetType(target)
      /\ TableType(target.domains, DomainRow, n) /\ TableType(target.vlans, VlanRow, n)
      /\ TableType(target.vrfs, VrfRow, n) /\ TableType(target.subnets, SubnetRow, n)
  BY DEF TypeOK, TargetType, L2Type
<1>2. L2Type(L2Seen, n)
  BY SeenType
<1>3. /\ a.kind \in OnDomain => a.domain \in Domain
      /\ a.kind \in OnVlan => a.vlan \in VlanKey
      /\ a.kind \in OnVrf => a.vrf \in Vrf
      /\ a.kind \in SetsFields => a.fields \in FieldValue
  BY DEF Action
<1>4. CASE a.kind = "create_l2domain" /\
           after = Added("domains", [name |-> a.domain, sections |-> {T(a)}, fields |-> a.fields])
  <2>1. [name |-> a.domain, sections |-> {T(a)}, fields |-> a.fields] \in DomainRow
    BY <1>3, <1>4 DEF DomainRow, OnDomain, SetsFields
  <2>2. TargetType(after)
    BY <1>1, <1>4, <2>1, AddedType
  <2> QED BY <1>1, <1>4, <2>2, AddedFields
<1>5. CASE a.kind \in {"update_l2domain", "attach_l2domain"}
  <2> DEFINE id == DomainId(L2Seen, a.domain)
             row == IF a.kind = "update_l2domain"
                    THEN [target.domains[id] EXCEPT !.fields = a.fields]
                    ELSE [target.domains[id] EXCEPT !.sections = ListedThen(a, id)]
             rows == [target.domains EXCEPT ![id] = row]
  <2>1. id # NoId /\ id \in DOMAIN target.domains /\ after = [target EXCEPT !.domains = rows]
    BY <1>5 DEF L2Effect
  <2>2. target.domains[id] \in DomainRow
    BY <1>1, <2>1 DEF TableType
  <2>3. ListedThen(a, id) \in SUBSET Section
    <3>1. id \in DOMAIN L2Seen.domains
      BY <1>1, <1>2, <2>1, DomainLookup
    <3>2. L2Seen.domains[id] \in DomainRow
      BY <1>2, <3>1 DEF L2Type, TableType
    <3> HIDE DEF id
    <3> QED BY <3>2 DEF ListedThen, DomainRow
  <2>4. row \in DomainRow
    <3> HIDE DEF id
    <3> QED BY <1>3, <1>5, <2>2, <2>3 DEF DomainRow, OnDomain, SetsFields
  <2>5. TableType(rows, DomainRow, n)
    <3> HIDE DEF id, row
    <3> QED BY <1>1, <2>4, TableUpdate
  <2> HIDE DEF rows
  <2> QED BY <1>1, <2>1, <2>5, TargetTables
<1>6. CASE a.kind = "create_vlan"
  <2> DEFINE id == DomainId(L2Seen, a.vlan[1])
  <2>1. /\ id # NoId
        /\ after = Added("vlans", [domainId |-> id, number |-> a.vlan[2], fields |-> a.fields])
    BY <1>6 DEF L2Effect
  <2>2. id \in Nat \ {NoId}
    BY <1>1, <1>2, <2>1, DomainLookup
  <2>3. a.vlan[2] \in Number /\ a.fields \in FieldValue
    BY <1>3, <1>6 DEF OnVlan, SetsFields, VlanKey
  <2> HIDE DEF id
  <2>4. [domainId |-> id, number |-> a.vlan[2], fields |-> a.fields] \in VlanRow
    BY <2>2, <2>3 DEF VlanRow
  <2>5. TargetType(after)
    BY <1>1, <2>1, <2>4, AddedType
  <2> QED BY <1>1, <2>1, <2>5, AddedFields
<1>7. CASE a.kind = "update_vlan"
  <2> DEFINE id == VlanId(L2Seen, a.vlan)
             row == [target.vlans[id] EXCEPT !.fields = a.fields]
             rows == [target.vlans EXCEPT ![id] = row]
  <2>1. id \in DOMAIN target.vlans /\ after = [target EXCEPT !.vlans = rows]
    BY <1>7 DEF L2Effect
  <2>2. row \in VlanRow
    <3>1. target.vlans[id] \in VlanRow
      BY <1>1, <2>1 DEF TableType
    <3> HIDE DEF id
    <3> QED BY <1>3, <1>7, <3>1 DEF VlanRow, SetsFields
  <2>3. TableType(rows, VlanRow, n)
    <3> HIDE DEF id, row
    <3> QED BY <1>1, <2>2, TableUpdate
  <2> HIDE DEF rows
  <2> QED BY <1>1, <2>1, <2>3, TargetTables
<1>8. CASE a.kind = "create_vrf" /\
           after = Added("vrfs", [name |-> a.vrf, sections |-> {T(a)}, fields |-> a.fields])
  <2>1. [name |-> a.vrf, sections |-> {T(a)}, fields |-> a.fields] \in VrfRow
    BY <1>3, <1>8 DEF VrfRow, OnVrf, SetsFields
  <2>2. TargetType(after)
    BY <1>1, <1>8, <2>1, AddedType
  <2> QED BY <1>1, <1>8, <2>2, AddedFields
<1>9. CASE a.kind = "update_vrf"
  <2> DEFINE id == VrfId(L2Seen, a.vrf, T(a))
             row == [target.vrfs[id] EXCEPT !.fields = a.fields]
             rows == [target.vrfs EXCEPT ![id] = row]
  <2>1. id \in DOMAIN target.vrfs /\ after = [target EXCEPT !.vrfs = rows]
    BY <1>9 DEF L2Effect
  <2>2. row \in VrfRow
    <3>1. target.vrfs[id] \in VrfRow
      BY <1>1, <2>1 DEF TableType
    <3> HIDE DEF id
    <3> QED BY <1>3, <1>9, <3>1 DEF VrfRow, SetsFields
  <2>3. TableType(rows, VrfRow, n)
    <3> HIDE DEF id, row
    <3> QED BY <1>1, <2>2, TableUpdate
  <2> HIDE DEF rows
  <2> QED BY <1>1, <2>1, <2>3, TargetTables
<1>10. CASE \E id : after = WithoutVlan(id) \/ after = WithoutVrf(id)
  BY <1>1, <1>10, WithoutType
<1> QED BY <1>4, <1>5, <1>6, <1>7, <1>8, <1>9, <1>10 DEF L2Effect

\* So are the target and the view after any effect.
LEMMA EffectType ==
  ASSUME TypeOK, NEW a \in Action, T(a) \in Section, NEW after, NEW looked \in Looks(a),
         NEW dropped, NEW fresh, Effect(a, after, looked, dropped, fresh)
  PROVE  Grown(after, looked) /\ Grown(after, dropped) /\ Grown(after, fresh)
<1> DEFINE n == target.nextId
<1>1. /\ n \in Nat \ {NoId} /\ n \in Nat /\ n + 1 \in Nat /\ n <= n + 1 /\ n <= n
      /\ TargetType(target) /\ target.sects \in SUBSET Section
      /\ TableType(target.subnets, SubnetRow, n)
  BY DEF TypeOK, TargetType
<1>2. ViewType(looked, n) /\ ViewType(view, n)
  BY LooksType DEF TypeOK
<1>3. ViewType(looked, n + 1)
  BY <1>1, <1>2, ViewGrows
<1>4. CASE a.kind = "create_section" /\ Effect(a, after, looked, dropped, fresh)
  <2> DEFINE S == target.sects \cup {T(a)}
  <2>1. /\ after = [target EXCEPT !.sects = S] /\ S \in SUBSET Section
        /\ looked = view /\ dropped = [view EXCEPT !.sects = {}] /\ fresh = [view EXCEPT !.sects = {S}]
    BY <1>1, <1>4 DEF Effect, L2Effect
  <2> HIDE DEF S
  <2>2. TargetType(after) /\ after.nextId = n
    BY <1>1, <2>1, TargetTables
  <2> QED BY <1>1, <1>2, <2>1, <2>2, ViewOperations DEF Grown
<1>5. CASE L2Effect(a, after) /\ dropped = L2Dropped(looked) /\ fresh \in {dropped, L2Reread(looked, after)}
  <2>1. TargetType(after) /\ after.nextId \in {n, n + 1}
    BY <1>5, L2EffectType
  <2>2. ViewType(looked, after.nextId)
    BY <1>2, <1>3, <2>1
  <2>3. L2Type(L2Of(after), after.nextId)
    BY <2>1 DEF TargetType, L2Type, L2Of
  <2>4. ViewType(dropped, after.nextId) /\ ViewType(fresh, after.nextId)
    <3>1. ViewType(L2Dropped(looked), after.nextId)
      BY <2>2, ViewOperations
    <3>2. ViewType(L2Reread(looked, after), after.nextId)
      BY <2>2, <2>3, ViewOperations DEF L2Reread
    <3> QED BY <1>5, <3>1, <3>2
  <2> HIDE DEF n
  <2> QED BY <1>1, <2>1, <2>2, <2>4 DEF Grown, n
<1>6. CASE a.kind = "create_subnet" /\ Effect(a, after, looked, dropped, fresh)
  <2>1. /\ after = Added("subnets", NewSubnet(a))
        /\ dropped = SubnetsDropped(looked, T(a))
        /\ fresh = [dropped EXCEPT !.subnets = Put(@, T(a), SubnetsOf(after, T(a)))]
    BY <1>6 DEF Effect, L2Effect
  <2>2. NewSubnet(a) \in SubnetRow
    BY <1>6 DEF NewSubnet, SubnetRow, Action, OnSubnet, NoId
  <2>3. TargetType(after) /\ after.nextId = n + 1
    BY <1>1, <2>1, <2>2, AddedType, AddedFields
  <2>4. TableType(SubnetsOf(after, T(a)), SubnetRow, n + 1)
    BY <2>3 DEF TargetType, TableType, SubnetsOf
  <2>5. ViewType(dropped, n + 1)
    BY <1>3, <2>1, ViewOperations
  <2>6. ViewType(fresh, n + 1)
    BY <2>1, <2>4, <2>5, ViewOperations
  <2> QED BY <1>1, <1>3, <2>3, <2>5, <2>6 DEF Grown
<1>7. CASE a.kind = "link_subnet" /\ Effect(a, after, looked, dropped, fresh)
  <2> DEFINE id == SubnetId(ListingSeen(T(a)), T(a), a.cidr)
  <2>1. dropped = SubnetsDropped(looked, T(a)) /\ fresh = dropped
    BY <1>7 DEF Effect, L2Effect
  <2>2. PICK row : /\ Relinked(id, row)
                   /\ after = [target EXCEPT !.subnets = [target.subnets EXCEPT ![id] = row]]
    BY <1>7 DEF Effect, L2Effect
  <2> HIDE DEF id
  <2>3. row \in SubnetRow
    BY <1>1, <2>2 DEF Relinked, TableType, SubnetRow
  <2>4. TableType([target.subnets EXCEPT ![id] = row], SubnetRow, n)
    BY <1>1, <2>3, TableUpdate
  <2>5. TargetType(after) /\ after.nextId = n
    BY <1>1, <2>2, <2>4, TargetTables
  <2> QED BY <1>1, <1>2, <2>1, <2>5, ViewOperations DEF Grown
<1> QED BY <1>4, <1>5, <1>6, <1>7 DEF Effect

\* What a handler changes at all.
LEMMA HandlersChange ==
  ASSUME TypeOK, NEW a \in pending, Handle(a)
  PROVE  /\ pending' = pending \ {a}
         /\ UNCHANGED << config, snap, mode, running, queue, applying, failed, outcome,
                         edits, arrivals, begun >>
BY HandlerEnds DEF Ended, Taken

\* Every handler keeps the types.
LEMMA HandlersKeepTypes ==
  ASSUME TypeOK, queue # << >>, NEW a \in pending, Handle(a)
  PROVE  TypeOK'
<1>1. PICK after, looked, dropped, fresh :
        looked \in Looks(a) /\ Ended(a, after, looked, dropped, fresh)
  BY HandlerEnds
<1>2. a \in Action /\ T(a) \in Section /\ Current \in Source
  BY CurrentType DEF TypeOK, T, Action, ActionRecord
<1>3. TargetType(target') /\ ViewType(view', target'.nextId)
  <2>1. CASE target' = target /\ view' \in {view, looked}
    BY <1>1, <2>1, LooksType DEF TypeOK
  <2>2. CASE Effect(a, after, looked, dropped, fresh) /\ target' = after
             /\ view' \in {looked, dropped, fresh}
    <3>1. Grown(after, looked) /\ Grown(after, dropped) /\ Grown(after, fresh)
      BY <1>1, <1>2, <2>2, EffectType
    <3> QED BY <2>2, <3>1 DEF Grown
  <2> QED BY <1>1, <2>1, <2>2 DEF Ended
<1>4. faults' \in 0 .. MaxFaults
  BY <1>1, FanInAssumption DEF Ended, Fault, TypeOK, FanInAssumption
<1>5. errors' \subseteq Source
  BY <1>1, <1>2 DEF Ended, TypeOK
<1>6. pending' \subseteq Action
  BY <1>1 DEF Ended, Taken, TypeOK
<1>7. UNCHANGED << config, snap, mode, running, queue, applying, failed, outcome,
                   edits, arrivals, begun >>
  BY <1>1 DEF Ended, Taken
<1> QED BY <1>3, <1>4, <1>5, <1>6, <1>7 DEF TypeOK

\* What planning leaves in the view.
LEMMA PlannedType ==
  ASSUME TypeOK
  PROVE  ViewType(Planned(view), target.nextId)
<1>1. /\ SectsSeen \in SUBSET Section /\ L2Type(L2Seen, target.nextId)
      /\ \A s : TableType(ListingSeen(s), SubnetRow, target.nextId)
  BY SeenType
<1>2. \E S : Planned(view) = [sects |-> {SectsSeen}, l2 |-> {L2Seen},
                              subnets |-> [s \in S |-> ListingSeen(s)]]
  BY DEF Planned
<1> QED BY <1>1, <1>2 DEF ViewType

\* What is planned are actions.
LEMMA PlannedActions ==
  ASSUME TypeOK, queue # << >>
  PROVE  \A a \in Plan(C, P, Seen, Deleting) : a \in Action /\ a.section \in Documented(P)
<1>1. L2Type(Seen, target.nextId) /\ target.nextId \in Nat
  BY SeenType DEF Seen, L2Type
<1>2. SnapshotType(P)
  BY CurrentType
<1> QED BY <1>1, <1>2, PlanType

\* A job that ends leaves nothing behind.
LEMMA JobEndsKeepsTypes ==
  ASSUME TypeOK, FinishJob \/ JobAborts \/ Crash
  PROVE  TypeOK'
<1>1. JobEnds /\ outcome' \in Outcome
  BY DEF FinishJob, JobAborts, Crash, Outcome
<1>2. faults' \in 0 .. MaxFaults
  BY FanInAssumption DEF FanInAssumption, FinishJob, JobAborts, Crash, Fault, TypeOK
<1>3. \A n : ViewType(NoView, n)
  BY DEF ViewType, NoView, EmptyMap
<1>4. TargetType(target') /\ ViewType(view', target'.nextId)
  BY <1>1, <1>3 DEF TypeOK, JobEnds
<1>5. /\ config' \in Configs /\ mode' \in Modes /\ begun' \subseteq Section
      /\ DOMAIN snap' = Source /\ \A n \in Source : snap'[n] \in Snapshots[n]
      /\ edits' \in 0 .. MaxEdits /\ arrivals' \in 0 .. MaxArrivals
  BY <1>1 DEF TypeOK, JobEnds
<1>6. /\ running' = FALSE /\ applying' = FALSE /\ queue' = << >> /\ pending' = {}
      /\ failed' = {} /\ errors' = {} /\ queue' \in Seq(Source)
  BY <1>1 DEF JobEnds
<1> QED BY <1>1, <1>2, <1>4, <1>5, <1>6 DEF TypeOK

\* What an operator makes of the target has the right type.
LEMMA OperatorEdits ==
  ASSUME TypeOK, Operator
  PROVE  \E t : Edit(t) /\ TargetType(t) /\ t.nextId = target.nextId
<1> DEFINE n == target.nextId
<1>1. /\ n \in Nat \ {NoId} /\ n \in Nat /\ TargetType(target) /\ target.sects \in SUBSET Section
      /\ TableType(target.domains, DomainRow, n) /\ TableType(target.vlans, VlanRow, n)
      /\ TableType(target.vrfs, VrfRow, n) /\ TableType(target.subnets, SubnetRow, n)
  BY DEF TypeOK, TargetType, L2Type
<1>2. CASE \E i \in DOMAIN target.subnets : RelinkSubnet(i)
  <2>1. PICK i \in DOMAIN target.subnets : RelinkSubnet(i)
    BY <1>2
  <2>2. target.subnets[i] \in SubnetRow
    BY <1>1 DEF TableType
  <2>3. PICK id \in Nat :
          \/ Edit([target EXCEPT !.subnets = [target.subnets EXCEPT
                                               ![i] = [target.subnets[i] EXCEPT !.vlanId = id]]])
          \/ Edit([target EXCEPT !.subnets = [target.subnets EXCEPT
                                               ![i] = [target.subnets[i] EXCEPT !.vrfId = id]]])
    <3>1. \A s : ExportedVlans(target, s) \cup {NoId} \subseteq Nat
      BY <1>1 DEF ExportedVlans, TableType, NoId
    <3>2. \A s : ExportedVrfs(target, s) \cup {NoId} \subseteq Nat
      BY <1>1 DEF ExportedVrfs, TableType, NoId
    <3>3. CASE \E id \in Nat : Edit([target EXCEPT !.subnets[i].vlanId = id])
      BY <3>3
    <3>4. CASE \E id \in Nat : Edit([target EXCEPT !.subnets[i].vrfId = id])
      BY <3>4
    <3> QED BY <2>1, <3>1, <3>2, <3>3, <3>4 DEF RelinkSubnet
  <2>4. PICK row \in SubnetRow : Edit([target EXCEPT !.subnets = [target.subnets EXCEPT ![i] = row]])
    BY <2>2, <2>3 DEF SubnetRow
  <2>5. TableType([target.subnets EXCEPT ![i] = row], SubnetRow, n)
    BY <1>1, TableUpdate
  <2> QED BY <1>1, <2>4, <2>5, TargetTables
<1>3. CASE \E id : RemoveVlan(id) \/ RemoveVrf(id)
  BY <1>1, <1>3, WithoutType DEF RemoveVlan, RemoveVrf
<1>4. CASE \E id \in DOMAIN target.vrfs, x \in target.sects : ShareVrf(id, x)
  <2>1. PICK id \in DOMAIN target.vrfs, x \in target.sects : ShareVrf(id, x)
    BY <1>4
  <2> DEFINE row == [target.vrfs[id] EXCEPT !.sections = @ \cup {x}]
  <2>2. target.vrfs[id] \in VrfRow
    BY <1>1 DEF TableType
  <2>3. row \in VrfRow /\ Edit([target EXCEPT !.vrfs = [target.vrfs EXCEPT ![id] = row]])
    BY <1>1, <2>1, <2>2 DEF ShareVrf, VrfRow
  <2> HIDE DEF row
  <2>4. TableType([target.vrfs EXCEPT ![id] = row], VrfRow, n)
    BY <1>1, <2>3, TableUpdate
  <2> QED BY <1>1, <2>3, <2>4, TargetTables
<1>5. CASE \E id \in DOMAIN target.domains, x \in target.sects : ShareDomain(id, x)
  <2>1. PICK id \in DOMAIN target.domains, x \in target.sects : ShareDomain(id, x)
    BY <1>5
  <2> DEFINE row == [target.domains[id] EXCEPT !.sections = @ \cup {x}]
  <2>2. target.domains[id] \in DomainRow
    BY <1>1 DEF TableType
  <2>3. row \in DomainRow /\ Edit([target EXCEPT !.domains = [target.domains EXCEPT ![id] = row]])
    BY <1>1, <2>1, <2>2 DEF ShareDomain, DomainRow
  <2> HIDE DEF row
  <2>4. TableType([target.domains EXCEPT ![id] = row], DomainRow, n)
    BY <1>1, <2>3, TableUpdate
  <2> QED BY <1>1, <2>3, <2>4, TargetTables
<1> QED BY <1>2, <1>3, <1>4, <1>5 DEF Operator

\* Every step keeps the types.
LEMMA StepKeepsTypes ==
  ASSUME TypeOK, [Next]_vars
  PROVE  TypeOK'
<1>1. CASE StartJob
  <2>1. Sources \in Seq(Source) /\ target.sects \subseteq Section
    BY FanInAssumption DEF FanInAssumption, TypeOK, TargetType
  <2>2. applying = FALSE
    BY <1>1 DEF StartJob, TypeOK
  <2> QED BY <1>1, <2>1, <2>2 DEF StartJob, TypeOK, Outcome
<1>2. CASE PlanSource
  <2>1. queue # << >> /\ running
    BY <1>2 DEF PlanSource, Waiting
  <2>2. Plan(C, P, Seen, Deleting) \subseteq Action /\ ViewType(Planned(view), target.nextId)
    BY <2>1, PlannedActions, PlannedType
  <2> QED BY <1>2, <2>1, <2>2 DEF PlanSource, TypeOK
<1>3. CASE SourceFails
  <2>1. queue # << >> /\ applying = FALSE
    BY <1>3 DEF SourceFails, Waiting, TypeOK
  <2>2. Current \in Source /\ Tail(queue) \in Seq(Source)
    BY <2>1, CurrentType
  <2>3. ViewType(view', target.nextId) /\ UNCHANGED target
    BY <1>3, PlannedType DEF SourceFails, GiveUp, TypeOK
  <2>4. faults' \in 0 .. MaxFaults
    BY <1>3, FanInAssumption DEF FanInAssumption, SourceFails, Fault, TypeOK
  <2> QED BY <1>3, <2>1, <2>2, <2>3, <2>4 DEF SourceFails, GiveUp, TypeOK
<1>4. CASE FinishSource
  <2>1. Tail(queue) \in Seq(Source)
    BY <1>4, CurrentType DEF FinishSource, TypeOK
  <2> QED BY <1>4, <2>1 DEF FinishSource, TypeOK
<1>5. CASE FinishJob \/ JobAborts \/ Crash
  BY <1>5, JobEndsKeepsTypes
<1>6. CASE Execute
  BY <1>6, HandlersKeepTypes DEF Execute, TypeOK
<1>7. CASE Operator
  <2>1. PICK t : Edit(t) /\ TargetType(t) /\ t.nextId = target.nextId
    BY <1>7, OperatorEdits
  <2>2. edits' \in 0 .. MaxEdits
    BY <2>1, FanInAssumption DEF FanInAssumption, Edit, TypeOK
  <2> QED BY <2>1, <2>2 DEF Edit, TypeOK
<1>8. CASE \E n \in Source : Deliver(n)
  <2>1. PICK n \in Source : Deliver(n)
    BY <1>8
  <2>2. arrivals' \in 0 .. MaxArrivals
    BY <2>1, FanInAssumption DEF FanInAssumption, Deliver, TypeOK
  <2>3. DOMAIN snap' = Source /\ \A m \in Source : snap'[m] \in Snapshots[m]
    BY <2>1 DEF Deliver, TypeOK
  <2> QED BY <2>1, <2>2, <2>3 DEF Deliver, TypeOK
<1>9. CASE UNCHANGED vars
  BY <1>9 DEF vars, TypeOK
<1> QED BY <1>1, <1>2, <1>3, <1>4, <1>5, <1>6, <1>7, <1>8, <1>9 DEF Next, JobStep

\* The first state has the right types.
LEMMA InitialTypes ==
  ASSUME Init
  PROVE  TypeOK
<1>1. TargetType(target)
  BY FanInAssumption DEF FanInAssumption, Init
<1>2. ViewType(view, target.nextId)
  BY DEF Init, ViewType, NoView, EmptyMap
<1>3. faults \in 0 .. MaxFaults /\ edits \in 0 .. MaxEdits /\ arrivals \in 0 .. MaxArrivals
  BY FanInAssumption DEF FanInAssumption, Init
<1>4. DOMAIN snap = Source /\ \A n \in Source : snap[n] \in Snapshots[n]
  BY DEF Init
<1>5. target.sects \subseteq Section
  BY <1>1 DEF TargetType
<1>6. /\ config \in Configs /\ mode \in Modes /\ begun \subseteq Section
      /\ running = FALSE /\ applying = FALSE /\ queue = << >> /\ pending = {}
      /\ failed = {} /\ errors = {} /\ outcome \in Outcome /\ queue \in Seq(Source)
  BY <1>5 DEF Init, Outcome
<1> QED BY <1>1, <1>2, <1>3, <1>4, <1>6 DEF TypeOK

(***************************************************************************)
(* Every variable of the master keeps its type: no record is given a       *)
(* domain, a name or a link that is none, however stale the view that it   *)
(* was resolved through.                                                   *)
(***************************************************************************)
THEOREM TypeCorrect == Spec => []TypeOK
BY InitialTypes, StepKeepsTypes, PTL DEF Spec

(***************************************************************************)
(* The view shows the target.                                              *)
(***************************************************************************)
\* Tables of subnets that agree in everything but the links.
SameSubnets(r, u) ==
  /\ DOMAIN r = DOMAIN u
  /\ \A i \in DOMAIN r : r[i].section = u[i].section /\ r[i].cidr = u[i].cidr

\* A view that shows a target shows all of it that was looked up since.
LEMMA LooksShow ==
  ASSUME TypeOK, Shows(view, target)
  PROVE  /\ SectsSeen = target.sects
         /\ L2Seen = L2Of(target)
         /\ \A a : \A looked \in Looks(a) : Shows(looked, target)
         /\ Shows(Planned(view), target)
<1>1. SectsSeen = target.sects /\ L2Seen = L2Of(target)
  BY DEF Shows, SectsSeen, L2Seen, Content
<1>2. \A s : /\ DOMAIN ListingSeen(s) = DOMAIN SubnetsOf(target, s)
             /\ \A i \in DOMAIN ListingSeen(s) : ListingSeen(s)[i].cidr = target.subnets[i].cidr
  BY DEF Shows, ListingSeen, SubnetsOf
<1>3. view \in [sects : SUBSET SUBSET Section, l2 : {view.l2}, subnets : {view.subnets}]
  BY DEF TypeOK, ViewType
<1>4. ASSUME NEW v, Shows(v, target),
             v \in [sects : SUBSET SUBSET Section, l2 : {v.l2}, subnets : {v.subnets}]
      PROVE  /\ Shows(L2Looked(v), target)
             /\ \A s : Shows(SubnetsLooked(v, s), target)
  <2>1. Shows(L2Looked(v), target)
    BY <1>1, <1>4 DEF Shows, L2Looked
  <2>2. ASSUME NEW s PROVE Shows(SubnetsLooked(v, s), target)
    <3>1. /\ SubnetsLooked(v, s).sects = v.sects /\ SubnetsLooked(v, s).l2 = v.l2
          /\ SubnetsLooked(v, s).subnets = Put(v.subnets, s, ListingSeen(s))
      BY <1>4 DEF SubnetsLooked
    <3>2. \A k \in DOMAIN Put(v.subnets, s, ListingSeen(s)) :
             Put(v.subnets, s, ListingSeen(s))[k] = IF k = s THEN ListingSeen(s) ELSE v.subnets[k]
      BY DEF Put
    <3>3. \A k \in DOMAIN Put(v.subnets, s, ListingSeen(s)) : k = s \/ k \in DOMAIN v.subnets
      BY DEF Put
    <3> QED BY <1>2, <1>4, <3>1, <3>2, <3>3 DEF Shows
  <2> QED BY <2>1, <2>2
<1>5. /\ Shows(Sectioned, target)
      /\ Sectioned \in [sects : SUBSET SUBSET Section, l2 : {Sectioned.l2},
                        subnets : {Sectioned.subnets}]
  <2>1. SectsSeen \in SUBSET Section
    BY SeenType
  <2> QED BY <1>1, <1>3, <2>1 DEF Shows, Sectioned
<1>6. ASSUME NEW a PROVE \A looked \in Looks(a) : Shows(looked, target)
  <2> DEFINE found == SubnetsLooked(Sectioned, T(a))
  <2>1. /\ Shows(found, target)
        /\ found \in [sects : SUBSET SUBSET Section, l2 : {found.l2}, subnets : {found.subnets}]
    BY <1>4, <1>5 DEF SubnetsLooked
  <2>2. Shows(L2Looked(view), target) /\ Shows(L2Looked(Sectioned), target)
    BY <1>3, <1>4, <1>5
  <2>3. Shows(L2Looked(found), target)
    <3> HIDE DEF found
    <3> QED BY <1>4, <2>1
  <2> QED BY <1>5, <2>1, <2>2, <2>3 DEF Looks
<1>7. Shows(Planned(view), target)
  <2>1. \E S : Planned(view) = [sects |-> {SectsSeen}, l2 |-> {L2Seen},
                                subnets |-> [s \in S |-> ListingSeen(s)]]
    BY DEF Planned
  <2> QED BY <1>1, <1>2, <2>1 DEF Shows
<1> QED BY <1>1, <1>6, <1>7

\* What an action on the L2 tables leaves alone.
LEMMA L2EffectElsewhere ==
  ASSUME TypeOK, NEW a, NEW after, L2Effect(a, after)
  PROVE  after.sects = target.sects /\ SameSubnets(after.subnets, target.subnets)
<1>1. target \in [sects : SUBSET Section, domains : {target.domains}, vlans : {target.vlans},
                  vrfs : {target.vrfs}, subnets : {target.subnets}, nextId : Nat \ {NoId}]
  BY DEF TypeOK, TargetType
<1>2. SameSubnets(target.subnets, target.subnets)
  BY DEF SameSubnets
<1>3. CASE \E row : \/ after = Added("domains", row)
                    \/ after = Added("vlans", row)
                    \/ after = Added("vrfs", row)
  <2>1. TargetType(target)
    BY DEF TypeOK
  <2>2. PICK row : \/ after = Added("domains", row)
                   \/ after = Added("vlans", row)
                   \/ after = Added("vrfs", row)
    BY <1>3
  <2>3. after.sects = target.sects /\ after.subnets = target.subnets
    <3>1. CASE after = Added("domains", row)
      BY <2>1, <3>1, AddedFields
    <3>2. CASE after = Added("vlans", row)
      BY <2>1, <3>2, AddedFields
    <3>3. CASE after = Added("vrfs", row)
      BY <2>1, <3>3, AddedFields
    <3> QED BY <2>2, <3>1, <3>2, <3>3
  <2> QED BY <1>2, <2>3
<1>4. CASE \E r : \/ after = [target EXCEPT !.domains = r]
                  \/ after = [target EXCEPT !.vlans = r]
                  \/ after = [target EXCEPT !.vrfs = r]
  BY <1>1, <1>2, <1>4
<1>5. CASE \E id : after = WithoutVlan(id) \/ after = WithoutVrf(id)
  <2>1. PICK id : after = WithoutVlan(id) \/ after = WithoutVrf(id)
    BY <1>5
  <2>2. \A i \in DOMAIN target.subnets : target.subnets[i] \in SubnetRow
    BY DEF TypeOK, TargetType, TableType
  <2>3. after.sects = target.sects /\ after.subnets \in {Unlinked(id), Unrouted(id)}
    BY <2>1, WithoutTables DEF TypeOK
  <2>4. SameSubnets(Unlinked(id), target.subnets) /\ SameSubnets(Unrouted(id), target.subnets)
    BY <2>2 DEF SameSubnets, SubnetRow, Unlinked, Unrouted
  <2> QED BY <2>3, <2>4
<1> QED BY <1>3, <1>4, <1>5 DEF L2Effect

\* A view stays true to the subnets while only their links change.
LEMMA SameListings ==
  ASSUME NEW v, NEW t, NEW u, Shows(v, t), SameSubnets(u.subnets, t.subnets)
  PROVE  \A s \in DOMAIN v.subnets :
           /\ DOMAIN v.subnets[s] = DOMAIN SubnetsOf(u, s)
           /\ \A i \in DOMAIN v.subnets[s] : v.subnets[s][i].cidr = u.subnets[i].cidr
<1>1. \A s : DOMAIN SubnetsOf(u, s) = DOMAIN SubnetsOf(t, s)
  BY DEF SameSubnets, SubnetsOf
<1>2. \A s : DOMAIN SubnetsOf(t, s) \subseteq DOMAIN t.subnets
  BY DEF SubnetsOf
<1> QED BY <1>1, <1>2 DEF Shows, SameSubnets

\* The view that an action leaves shows what the action has made of the target.
LEMMA EffectShows ==
  ASSUME TypeOK, Shows(view, target), NEW a \in Action, NEW after, NEW looked \in Looks(a),
         NEW dropped, NEW fresh, Effect(a, after, looked, dropped, fresh)
  PROVE  Shows(fresh, after)
<1>1. /\ target \in [sects : SUBSET Section, domains : {target.domains}, vlans : {target.vlans},
                     vrfs : {target.vrfs}, subnets : {target.subnets}, nextId : Nat \ {NoId}]
      /\ TargetType(target)
  BY DEF TypeOK, TargetType
<1>2. Shows(looked, target)
  BY LooksShow
<1>3. looked \in [sects : SUBSET SUBSET Section, l2 : {looked.l2}, subnets : {looked.subnets}]
  BY LooksType DEF ViewType
<1>4. CASE L2Effect(a, after) /\ dropped = L2Dropped(looked) /\ fresh \in {dropped, L2Reread(looked, after)}
  <2>1. after.sects = target.sects /\ SameSubnets(after.subnets, target.subnets)
    BY <1>4, L2EffectElsewhere
  <2>2. fresh.sects = looked.sects /\ fresh.subnets = looked.subnets /\ fresh.l2 \subseteq {L2Of(after)}
    BY <1>3, <1>4 DEF L2Dropped, L2Reread
  <2>3. \A s \in DOMAIN looked.subnets :
          /\ DOMAIN looked.subnets[s] = DOMAIN SubnetsOf(after, s)
          /\ \A i \in DOMAIN looked.subnets[s] : looked.subnets[s][i].cidr = after.subnets[i].cidr
    <3>1. SameSubnets(after.subnets, target.subnets)
      BY <2>1
    <3> QED BY <1>2, <3>1, SameListings
  <2> QED BY <1>2, <2>1, <2>2, <2>3 DEF Shows
<1>5. CASE a.kind = "create_section" /\ Effect(a, after, looked, dropped, fresh)
  <2> DEFINE S == target.sects \cup {T(a)}
  <2>1. /\ after = [target EXCEPT !.sects = S] /\ fresh = [view EXCEPT !.sects = {S}]
    BY <1>5 DEF Effect, L2Effect
  <2> HIDE DEF S
  <2>2. /\ after.sects = S /\ L2Of(after) = L2Of(target) /\ after.subnets = target.subnets
    BY <1>1, <2>1 DEF L2Of
  <2>3. fresh.sects = {S} /\ fresh.l2 = view.l2 /\ fresh.subnets = view.subnets
    BY <2>1 DEF TypeOK, ViewType
  <2> QED BY <2>2, <2>3 DEF Shows, SubnetsOf
<1>6. CASE a.kind = "link_subnet" /\ Effect(a, after, looked, dropped, fresh)
  <2> DEFINE id == SubnetId(ListingSeen(T(a)), T(a), a.cidr)
  <2>1. fresh = SubnetsDropped(looked, T(a))
    BY <1>6 DEF Effect, L2Effect
  <2>2. PICK row : /\ Relinked(id, row)
                   /\ after = [target EXCEPT !.subnets = [target.subnets EXCEPT ![id] = row]]
    BY <1>6 DEF Effect, L2Effect
  <2> HIDE DEF id
  <2>3. /\ after.sects = target.sects /\ L2Of(after) = L2Of(target)
        /\ after.subnets = [target.subnets EXCEPT ![id] = row]
    BY <1>1, <2>2 DEF L2Of
  <2>4. row.section = target.subnets[id].section /\ row.cidr = target.subnets[id].cidr
    BY <2>2 DEF Relinked, TypeOK, TargetType, TableType, SubnetRow
  <2>5. SameSubnets(after.subnets, target.subnets)
    BY <2>2, <2>3, <2>4 DEF SameSubnets
  <2>6. \A s \in DOMAIN looked.subnets :
          /\ DOMAIN looked.subnets[s] = DOMAIN SubnetsOf(after, s)
          /\ \A i \in DOMAIN looked.subnets[s] : looked.subnets[s][i].cidr = after.subnets[i].cidr
    BY <1>2, <2>5, SameListings
  <2>7. /\ fresh.sects = looked.sects /\ fresh.l2 = looked.l2
        /\ fresh.subnets = Pop(looked.subnets, T(a))
    BY <1>3, <2>1 DEF SubnetsDropped
  <2> QED BY <1>2, <2>3, <2>6, <2>7 DEF Shows, Pop
<1>7. CASE a.kind = "create_subnet" /\ Effect(a, after, looked, dropped, fresh)
  <2> DEFINE n == target.nextId
             row == NewSubnet(a)
             listing == SubnetsOf(after, T(a))
  <2>1. /\ after = Added("subnets", row)
        /\ dropped = SubnetsDropped(looked, T(a))
        /\ fresh = [dropped EXCEPT !.subnets = Put(@, T(a), listing)]
    BY <1>7 DEF Effect, L2Effect
  <2>2. /\ after.subnets = Put(target.subnets, n, row)
        /\ after.sects = target.sects /\ L2Of(after) = L2Of(target)
    BY <1>1, <2>1, AddedFields DEF L2Of
  <2>3. n \notin DOMAIN target.subnets /\ row.section = T(a)
    BY DEF TypeOK, TargetType, TableType, NewSubnet
  <2>4. ASSUME NEW s, s # T(a)
        PROVE  /\ DOMAIN SubnetsOf(after, s) = DOMAIN SubnetsOf(target, s)
               /\ \A i \in DOMAIN SubnetsOf(target, s) : after.subnets[i].cidr = target.subnets[i].cidr
    <3> HIDE DEF n, row
    <3> QED BY <2>2, <2>3, <2>4 DEF SubnetsOf, Put
  <2>5. /\ fresh.sects = looked.sects /\ fresh.l2 = looked.l2
        /\ fresh.subnets = Put(Pop(looked.subnets, T(a)), T(a), listing)
    BY <1>3, <2>1 DEF SubnetsDropped
  <2>6. \A i \in DOMAIN listing : listing[i] = after.subnets[i]
    BY DEF SubnetsOf
  <2>7. \A s \in DOMAIN fresh.subnets :
          \/ s = T(a) /\ fresh.subnets[s] = SubnetsOf(after, s)
          \/ s # T(a) /\ s \in DOMAIN looked.subnets /\ fresh.subnets[s] = looked.subnets[s]
    BY <2>5 DEF Put, Pop
  <2> HIDE DEF n, row, listing
  <2> QED BY <1>2, <2>2, <2>4, <2>5, <2>6, <2>7 DEF Shows, listing
<1> QED BY <1>4, <1>5, <1>6, <1>7 DEF Effect

\* Nothing that fails goes uncounted.
LEMMA StillFaultless ==
  ASSUME TypeOK, Fault
  PROVE  faults' # 0
BY FanInAssumption DEF FanInAssumption, TypeOK, Fault

\* A handler that nothing disturbs leaves a view that shows the target.
LEMMA HandlersShow ==
  ASSUME TypeOK, Shows(view, target), NEW a \in pending, Handle(a), faults' = faults
  PROVE  Shows(view', target')
<1>1. PICK after, looked, dropped, fresh :
        looked \in Looks(a) /\ Ended(a, after, looked, dropped, fresh)
  BY HandlerEnds
<1>2. CASE target' = target /\ view' \in {view, looked}
  BY <1>1, <1>2, LooksShow
<1>3. CASE Effect(a, after, looked, dropped, fresh) /\ target' = after /\ view' = fresh
  <2>1. a \in Action
    BY DEF TypeOK
  <2> QED BY <1>1, <1>3, <2>1, EffectShows
<1> QED BY <1>1, <1>2, <1>3 DEF Ended

\* No step leaves the view behind the target.
LEMMA StepKeepsCoherence ==
  ASSUME TypeOK, ViewCoherent, [Next]_vars
  PROVE  ViewCoherent'
<1> SUFFICES ASSUME faults' = 0, edits' = 0
             PROVE  Shows(view', target')
  BY DEF ViewCoherent, Shows, SubnetsOf, L2Of
<1>1. faults \in Nat /\ edits \in Nat
  BY FanInAssumption DEF FanInAssumption, TypeOK
<1>2. ~ Fault
  BY StillFaultless
<1>3. CASE JobEnds
  BY <1>3 DEF JobEnds, NoView, EmptyMap, Shows
<1>4. CASE Operator
  BY <1>1, <1>4, OperatorEdits DEF Edit
<1>5. CASE Execute
  <2>1. PICK a \in pending : Handle(a)
    BY <1>5 DEF Execute
  <2>2. edits' = edits /\ faults' = faults
    BY <1>2, <2>1, HandlerEnds DEF Ended, Taken
  <2>3. Shows(view, target)
    BY <2>2 DEF ViewCoherent
  <2> QED BY <2>1, <2>2, <2>3, HandlersShow
<1>6. CASE PlanSource \/ SourceFails
  <2>1. UNCHANGED << target, edits, faults >> /\ view' \in {view, Planned(view)}
    BY <1>2, <1>6 DEF PlanSource, SourceFails, GiveUp
  <2>2. Shows(view, target)
    BY <2>1 DEF ViewCoherent
  <2> QED BY <2>1, <2>2, LooksShow
<1>7. CASE UNCHANGED << target, view, edits, faults >>
  BY <1>7 DEF ViewCoherent
<1>8. \/ JobEnds \/ Operator \/ Execute \/ PlanSource \/ SourceFails
      \/ UNCHANGED << target, view, edits, faults >>
  BY DEF Next, JobStep, StartJob, FinishSource, FinishJob, JobAborts, Crash, Deliver, vars
<1> QED BY <1>3, <1>4, <1>5, <1>6, <1>7, <1>8

(***************************************************************************)
(* While nothing fails and nobody else writes, the one view that the       *)
(* sources of a job share shows the target as it is (ipam_import.py:       *)
(* 305-308, target.py:284): every handler drops or rereads what it wrote.  *)
(***************************************************************************)
THEOREM ViewStaysCoherent == Spec => []ViewCoherent
<1>1. Init => ViewCoherent
  BY DEF Init, ViewCoherent, Shows, NoView, EmptyMap
<1> QED BY <1>1, TypeCorrect, StepKeepsCoherence, PTL DEF Spec

(***************************************************************************)
(* Lists of sections.                                                      *)
(***************************************************************************)
\* Every row of `rows` that is still in `then` lists the sections that it did.
ListsKept(rows, then) ==
  \A i \in DOMAIN rows \cap DOMAIN then : rows[i].sections \subseteq then[i].sections

\* An action that leaves the tables alone, adds a row or takes one away, takes no list apart.
LEMMA TablesKept ==
  ASSUME NEW Row, NEW rows, NEW n, TableType(rows, Row, n)
  PROVE  /\ ListsKept(rows, rows)
         /\ \A row : ListsKept(rows, Put(rows, n, row))
         /\ \A id : ListsKept(rows, Pop(rows, id))
         /\ \A id \in DOMAIN rows : \A row :
              rows[id].sections \subseteq row.sections => ListsKept(rows, [rows EXCEPT ![id] = row])
<1>1. \A i \in DOMAIN rows : i # n
  BY DEF TableType
<1> QED BY <1>1 DEF ListsKept, Put, Pop

\* What an action makes of the domains and the VRFs, resolved through a view that shows them.
LEMMA EffectKeepsLists ==
  ASSUME TypeOK, Shows(view, target), NEW a \in Action, NEW after, NEW looked, NEW dropped,
         NEW fresh, Effect(a, after, looked, dropped, fresh)
  PROVE  ListsKept(target.domains, after.domains) /\ ListsKept(target.vrfs, after.vrfs)
<1> DEFINE n == target.nextId
           Kept == ListsKept(target.domains, after.domains) /\ ListsKept(target.vrfs, after.vrfs)
<1>1. /\ TargetType(target)
      /\ target \in [sects : SUBSET Section, domains : {target.domains}, vlans : {target.vlans},
                     vrfs : {target.vrfs}, subnets : {target.subnets}, nextId : Nat \ {NoId}]
      /\ TableType(target.domains, DomainRow, n) /\ TableType(target.vrfs, VrfRow, n)
  BY DEF TypeOK, TargetType, L2Type
<1>2. /\ ListsKept(target.domains, target.domains) /\ ListsKept(target.vrfs, target.vrfs)
      /\ \A row : ListsKept(target.domains, Put(target.domains, n, row))
      /\ \A row : ListsKept(target.vrfs, Put(target.vrfs, n, row))
      /\ \A id : ListsKept(target.vrfs, Pop(target.vrfs, id))
      /\ \A id \in DOMAIN target.domains : \A row :
           target.domains[id].sections \subseteq row.sections
           => ListsKept(target.domains, [target.domains EXCEPT ![id] = row])
      /\ \A id \in DOMAIN target.vrfs : \A row :
           target.vrfs[id].sections \subseteq row.sections
           => ListsKept(target.vrfs, [target.vrfs EXCEPT ![id] = row])
  BY <1>1, TablesKept
<1>3. CASE \/ \E S : after = [target EXCEPT !.sects = S]
           \/ \E r : after = [target EXCEPT !.vlans = r]
           \/ \E r : after = [target EXCEPT !.subnets = r]
  <2>1. after.domains = target.domains /\ after.vrfs = target.vrfs
    BY <1>1, <1>3
  <2> QED BY <1>2, <2>1
<1>4. CASE \E row : \/ after = Added("domains", row) \/ after = Added("vlans", row)
                    \/ after = Added("vrfs", row) \/ after = Added("subnets", row)
  <2>1. PICK row : \/ after = Added("domains", row) \/ after = Added("vlans", row)
                   \/ after = Added("vrfs", row) \/ after = Added("subnets", row)
    BY <1>4
  <2>2. \/ after.domains = Put(target.domains, n, row) /\ after.vrfs = target.vrfs
        \/ after.domains = target.domains /\ after.vrfs = Put(target.vrfs, n, row)
        \/ after.domains = target.domains /\ after.vrfs = target.vrfs
    <3>1. CASE after = Added("domains", row)
      BY <1>1, <3>1, AddedFields
    <3>2. CASE after = Added("vlans", row)
      BY <1>1, <3>2, AddedFields
    <3>3. CASE after = Added("vrfs", row)
      BY <1>1, <3>3, AddedFields
    <3>4. CASE after = Added("subnets", row)
      BY <1>1, <3>4, AddedFields
    <3> QED BY <2>1, <3>1, <3>2, <3>3, <3>4
  <2>3. /\ ListsKept(target.domains, target.domains) /\ ListsKept(target.vrfs, target.vrfs)
        /\ ListsKept(target.domains, Put(target.domains, n, row))
        /\ ListsKept(target.vrfs, Put(target.vrfs, n, row))
    BY <1>2
  <2> HIDE DEF n
  <2> QED BY <2>2, <2>3
<1>5. CASE \E id : after = WithoutVlan(id) \/ after = WithoutVrf(id)
  <2>1. PICK id : after = WithoutVlan(id) \/ after = WithoutVrf(id)
    BY <1>5
  <2>2. CASE after = WithoutVlan(id)
    <3>1. after.domains = target.domains /\ after.vrfs = target.vrfs
      BY <1>1, <2>2, WithoutTables
    <3> QED BY <1>2, <3>1
  <2>3. CASE after = WithoutVrf(id)
    <3>1. after.domains = target.domains /\ after.vrfs = Pop(target.vrfs, id)
      BY <1>1, <2>3, WithoutTables
    <3> QED BY <1>2, <3>1
  <2> QED BY <2>1, <2>2, <2>3
<1>6. CASE a.kind \in {"update_l2domain", "attach_l2domain"} /\ L2Effect(a, after)
  <2> DEFINE id == DomainId(L2Seen, a.domain)
             row == IF a.kind = "update_l2domain"
                    THEN [target.domains[id] EXCEPT !.fields = a.fields]
                    ELSE [target.domains[id] EXCEPT !.sections = ListedThen(a, id)]
  <2>1. /\ id \in DOMAIN target.domains
        /\ after = [target EXCEPT !.domains = [target.domains EXCEPT ![id] = row]]
    BY <1>6 DEF L2Effect
  <2>2. target.domains[id] \in DomainRow
    BY <1>1, <2>1 DEF TableType
  <2>3. ListedThen(a, id) = target.domains[id].sections \cup {T(a)}
    BY LooksShow DEF ListedThen, L2Of
  <2>4. target.domains[id].sections \subseteq row.sections
    <3> HIDE DEF id
    <3> QED BY <2>2, <2>3 DEF DomainRow
  <2> HIDE DEF id, row
  <2>5. after.domains = [target.domains EXCEPT ![id] = row] /\ after.vrfs = target.vrfs
    BY <1>1, <2>1
  <2> QED BY <1>2, <2>1, <2>4, <2>5
<1>7. CASE a.kind = "update_vrf" /\ L2Effect(a, after)
  <2> DEFINE id == VrfId(L2Seen, a.vrf, T(a))
             row == [target.vrfs[id] EXCEPT !.fields = a.fields]
  <2>1. /\ id \in DOMAIN target.vrfs
        /\ after = [target EXCEPT !.vrfs = [target.vrfs EXCEPT ![id] = row]]
    BY <1>7 DEF L2Effect
  <2>2. target.vrfs[id].sections \subseteq row.sections
    <3>1. target.vrfs[id] \in VrfRow
      BY <1>1, <2>1 DEF TableType
    <3> HIDE DEF id
    <3> QED BY <3>1 DEF VrfRow
  <2> HIDE DEF id, row
  <2>3. after.vrfs = [target.vrfs EXCEPT ![id] = row] /\ after.domains = target.domains
    BY <1>1, <2>1
  <2> QED BY <1>2, <2>1, <2>2, <2>3
<1>8. L2Effect(a, after) =>
        \/ \E row : \/ after = Added("domains", row) \/ after = Added("vlans", row)
                    \/ after = Added("vrfs", row)
        \/ a.kind \in {"update_l2domain", "attach_l2domain", "update_vrf"}
        \/ \E r : after = [target EXCEPT !.vlans = r]
        \/ \E id : after = WithoutVlan(id) \/ after = WithoutVrf(id)
  BY DEF L2Effect
<1>9. Effect(a, after, looked, dropped, fresh) =>
        \/ L2Effect(a, after)
        \/ \E S : after = [target EXCEPT !.sects = S]
        \/ \E r : after = [target EXCEPT !.subnets = r]
        \/ \E row : after = Added("subnets", row)
  BY DEF Effect
<1> QED BY <1>3, <1>4, <1>5, <1>6, <1>7, <1>8, <1>9

\* No step takes a section off a list.
LEMMA StepKeepsLists ==
  ASSUME TypeOK, ViewCoherent, [Next]_vars, faults' = 0, edits' = 0
  PROVE  ListsGrow("domains") /\ ListsGrow("vrfs")
<1>1. faults \in Nat /\ edits \in Nat
  BY FanInAssumption DEF FanInAssumption, TypeOK
<1>2. ~ Fault
  BY StillFaultless
<1>3. ListsKept(target.domains, target'.domains) /\ ListsKept(target.vrfs, target'.vrfs)
      => ListsGrow("domains") /\ ListsGrow("vrfs")
  <2>1. /\ target \in [sects : SUBSET Section, domains : {target.domains}, vlans : {target.vlans},
                       vrfs : {target.vrfs}, subnets : {target.subnets}, nextId : Nat \ {NoId}]
        /\ target' \in [sects : SUBSET Section, domains : {target'.domains},
                        vlans : {target'.vlans}, vrfs : {target'.vrfs},
                        subnets : {target'.subnets}, nextId : Nat \ {NoId}]
    BY StepKeepsTypes DEF TypeOK, TargetType
  <2> QED BY <2>1 DEF ListsKept, ListsGrow
<1>4. CASE UNCHANGED target
  BY <1>3, <1>4 DEF ListsKept
<1>5. CASE Execute
  <2>1. PICK a \in pending : Handle(a)
    BY <1>5 DEF Execute
  <2>2. PICK after, looked, dropped, fresh :
          looked \in Looks(a) /\ Ended(a, after, looked, dropped, fresh)
    BY <2>1, HandlerEnds
  <2>3. CASE target' = target
    BY <1>4, <2>3
  <2>4. CASE Effect(a, after, looked, dropped, fresh) /\ target' = after
    <3>1. Shows(view, target) /\ a \in Action
      BY <1>2, <2>2 DEF ViewCoherent, Ended, Taken, TypeOK
    <3> QED BY <1>3, <2>4, <3>1, EffectKeepsLists
  <2> QED BY <2>2, <2>3, <2>4 DEF Ended
<1>6. CASE Operator
  BY <1>1, <1>6, OperatorEdits DEF Edit
<1> QED
  BY <1>4, <1>5, <1>6
  DEF Next, JobStep, StartJob, PlanSource, SourceFails, GiveUp, FinishSource, FinishJob, JobAborts,
      Crash, JobEnds, Deliver, vars

(***************************************************************************)
(* "Both lists are only ever added to on the target" (README.md:208-210;   *)
(* target.py:603-609), as long as nothing has failed and nobody else has   *)
(* written: the list that is written is the one in the view, and the view  *)
(* shows the target.                                                       *)
(***************************************************************************)
THEOREM ListsOnlyGrow == Spec => SectionListsGrow
<1>1. ASSUME TypeOK, ViewCoherent, [Next]_vars
      PROVE  [faults' = 0 /\ edits' = 0 => ListsGrow("domains") /\ ListsGrow("vrfs")]_vars
  BY <1>1, StepKeepsLists
<1> QED BY <1>1, TypeCorrect, ViewStaysCoherent, PTL DEF Spec, SectionListsGrow

(***************************************************************************)
(* One source at a time.  The inductive invariant is that the job's        *)
(* sources are those of a valid configuration, that the actions are in     *)
(* sections the current source exports, and that the view, stale as it may *)
(* be, has no VRF in a section and no subnet under an id that the target   *)
(* does not have there: nothing takes a section off a VRF's list, moves a  *)
(* subnet, or gives out an id again.                                       *)
(***************************************************************************)
\* The mirrors deliver what the configurations say that the sources export.
SnapshotsInScope ==
  \A c \in Configs : ValidSources(c.sources) =>
    \A n \in Source : \A p \in Snapshots[n] : Documented(p) \subseteq c.sources[n].sections

\* What the view v remembers of the target t is still so, where it is there at all.
Remembers(v, t) ==
  /\ \A x \in v.l2 : \A i \in DOMAIN x.vrfs \cap DOMAIN t.vrfs :
       x.vrfs[i].sections \subseteq t.vrfs[i].sections
  /\ \A s \in DOMAIN v.subnets : \A i \in DOMAIN v.subnets[s] \cap DOMAIN t.subnets :
       v.subnets[s][i].section = t.subnets[i].section

ScopeInv ==
  /\ running => ValidSources(config.sources)
  /\ applying => \A a \in pending : a.section \in C.sections
  /\ Remembers(view, target)

\* What a step may make of the VRFs and the subnets of the target t.
Evolves(t, u) ==
  /\ \A i \in DOMAIN u.vrfs :
       \/ i \in DOMAIN t.vrfs /\ t.vrfs[i].sections \subseteq u.vrfs[i].sections
       \/ i = t.nextId
  /\ \A i \in DOMAIN u.subnets :
       \/ i \in DOMAIN t.subnets /\ t.subnets[i].section = u.subnets[i].section
       \/ i = t.nextId

\* Whatever a step makes of them, the view remembers no less.
LEMMA StillRemembers ==
  ASSUME NEW v, NEW t, NEW u, Remembers(v, t), ViewType(v, t.nextId), t.nextId \in Nat, Evolves(t, u)
  PROVE  Remembers(v, u)
<1>1. \A x \in v.l2 : t.nextId \notin DOMAIN x.vrfs
  BY DEF ViewType, L2Type, TableType
<1>2. \A s \in DOMAIN v.subnets : t.nextId \notin DOMAIN v.subnets[s]
  BY DEF ViewType, TableType
<1>3. ASSUME NEW x \in v.l2, NEW i \in DOMAIN x.vrfs \cap DOMAIN u.vrfs
      PROVE  x.vrfs[i].sections \subseteq u.vrfs[i].sections
  BY <1>1, <1>3 DEF Remembers, Evolves
<1>4. ASSUME NEW s \in DOMAIN v.subnets, NEW i \in DOMAIN v.subnets[s] \cap DOMAIN u.subnets
      PROVE  v.subnets[s][i].section = u.subnets[i].section
  BY <1>2, <1>4 DEF Remembers, Evolves
<1> QED BY <1>3, <1>4 DEF Remembers

\* What an action makes of the VRFs.
LEMMA EffectOnVrfs ==
  ASSUME TypeOK, NEW a \in Action, NEW after, NEW looked, NEW dropped, NEW fresh,
         Effect(a, after, looked, dropped, fresh)
  PROVE  \/ after.vrfs = target.vrfs
         \/ \E row : /\ a.kind = "create_vrf" /\ row.name = a.vrf
                     /\ row.sections = {T(a)} /\ T(a) \in SectsSeen
                     /\ after.vrfs = Put(target.vrfs, target.nextId, row)
         \/ \E id \in DOMAIN target.vrfs : \E row :
              /\ id # NoId /\ id = VrfId(L2Seen, a.vrf, T(a))
              /\ row.name = target.vrfs[id].name /\ row.sections = target.vrfs[id].sections
              /\ after.vrfs \in {Pop(target.vrfs, id), [target.vrfs EXCEPT ![id] = row]}
<1>1. /\ TargetType(target)
      /\ target \in [sects : SUBSET Section, domains : {target.domains}, vlans : {target.vlans},
                     vrfs : {target.vrfs}, subnets : {target.subnets}, nextId : Nat \ {NoId}]
      /\ TableType(target.vrfs, VrfRow, target.nextId)
  BY DEF TypeOK, TargetType, L2Type
<1>2. CASE \/ \E S : after = [target EXCEPT !.sects = S]
           \/ \E r : after = [target EXCEPT !.domains = r]
           \/ \E r : after = [target EXCEPT !.vlans = r]
           \/ \E r : after = [target EXCEPT !.subnets = r]
  BY <1>1, <1>2
<1>3. CASE \E row : \/ after = Added("domains", row) \/ after = Added("vlans", row)
                    \/ after = Added("subnets", row)
  <2>1. PICK row : \/ after = Added("domains", row) \/ after = Added("vlans", row)
                   \/ after = Added("subnets", row)
    BY <1>3
  <2>2. CASE after = Added("domains", row)
    BY <1>1, <2>2, AddedFields
  <2>3. CASE after = Added("vlans", row)
    BY <1>1, <2>3, AddedFields
  <2>4. CASE after = Added("subnets", row)
    BY <1>1, <2>4, AddedFields
  <2> QED BY <2>1, <2>2, <2>3, <2>4
<1>4. CASE a.kind = "create_vrf" /\ L2Effect(a, after)
  <2> DEFINE row == [name |-> a.vrf, sections |-> {T(a)}, fields |-> a.fields]
  <2>1. /\ after = Added("vrfs", row) /\ T(a) \in SectsSeen
        /\ row.sections = {T(a)} /\ row.name = a.vrf
    BY <1>4 DEF L2Effect
  <2> HIDE DEF row
  <2>2. after.vrfs = Put(target.vrfs, target.nextId, row)
    BY <1>1, <2>1, AddedFields
  <2> QED BY <1>4, <2>1, <2>2
<1>5. CASE a.kind = "update_vrf" /\ L2Effect(a, after)
  <2> DEFINE id == VrfId(L2Seen, a.vrf, T(a))
             row == [target.vrfs[id] EXCEPT !.fields = a.fields]
  <2>1. /\ id # NoId /\ id \in DOMAIN target.vrfs
        /\ after = [target EXCEPT !.vrfs = [target.vrfs EXCEPT ![id] = row]]
    BY <1>5 DEF L2Effect
  <2>2. row.name = target.vrfs[id].name /\ row.sections = target.vrfs[id].sections
    <3>1. target.vrfs[id] \in VrfRow
      BY <1>1, <2>1 DEF TableType
    <3> HIDE DEF id
    <3> QED BY <3>1 DEF VrfRow
  <2> HIDE DEF row
  <2>3. after.vrfs = [target.vrfs EXCEPT ![id] = row]
    BY <1>1, <2>1
  <2> QED BY <2>1, <2>2, <2>3
<1>6. CASE a.kind = "delete_vlan" /\ L2Effect(a, after)
  <2>1. PICK id : after = WithoutVlan(id)
    BY <1>6 DEF L2Effect
  <2> QED BY <1>1, <2>1, WithoutTables
<1>7. CASE a.kind = "delete_vrf" /\ L2Effect(a, after)
  <2> DEFINE id == VrfId(L2Seen, a.vrf, T(a))
  <2>1. id # NoId /\ id \in DOMAIN target.vrfs /\ after = WithoutVrf(id)
    BY <1>7 DEF L2Effect
  <2>2. after.vrfs = Pop(target.vrfs, id)
    BY <1>1, <2>1, WithoutTables
  <2> QED BY <2>1, <2>2
<1>8. L2Effect(a, after) =>
        \/ a.kind \in {"create_vrf", "update_vrf", "delete_vlan", "delete_vrf"}
        \/ \E row : after = Added("domains", row) \/ after = Added("vlans", row)
        \/ \E r : after = [target EXCEPT !.domains = r] \/ after = [target EXCEPT !.vlans = r]
  BY DEF L2Effect
<1>9. \/ L2Effect(a, after)
      \/ \E S : after = [target EXCEPT !.sects = S]
      \/ \E r : after = [target EXCEPT !.subnets = r]
      \/ \E row : after = Added("subnets", row)
  BY DEF Effect
<1> QED BY <1>2, <1>3, <1>4, <1>5, <1>6, <1>7, <1>8, <1>9

\* And of the subnets.
LEMMA EffectOnSubnets ==
  ASSUME TypeOK, NEW a \in Action, NEW after, NEW looked, NEW dropped, NEW fresh,
         Effect(a, after, looked, dropped, fresh)
  PROVE  \/ after.subnets = target.subnets
         \/ \E id : DOMAIN after.vlans # DOMAIN target.vlans /\ after.subnets = Unlinked(id)
         \/ \E id : DOMAIN after.vrfs # DOMAIN target.vrfs /\ after.subnets = Unrouted(id)
         \/ /\ SubnetId(target.subnets, T(a), a.cidr) = NoId
            /\ after.subnets = Put(target.subnets, target.nextId, NewSubnet(a))
         \/ \E id, row : /\ id = SubnetId(ListingSeen(T(a)), T(a), a.cidr) /\ Relinked(id, row)
                         /\ after.subnets = [target.subnets EXCEPT ![id] = row]
<1>1. /\ TargetType(target)
      /\ target \in [sects : SUBSET Section, domains : {target.domains}, vlans : {target.vlans},
                     vrfs : {target.vrfs}, subnets : {target.subnets}, nextId : Nat \ {NoId}]
  BY DEF TypeOK, TargetType
<1>2. CASE \/ \E S : after = [target EXCEPT !.sects = S]
           \/ \E r : after = [target EXCEPT !.domains = r]
           \/ \E r : after = [target EXCEPT !.vlans = r]
           \/ \E r : after = [target EXCEPT !.vrfs = r]
  BY <1>1, <1>2
<1>3. CASE \E row : \/ after = Added("domains", row) \/ after = Added("vlans", row)
                    \/ after = Added("vrfs", row)
  <2>1. PICK row : \/ after = Added("domains", row) \/ after = Added("vlans", row)
                   \/ after = Added("vrfs", row)
    BY <1>3
  <2>2. CASE after = Added("domains", row)
    BY <1>1, <2>2, AddedFields
  <2>3. CASE after = Added("vlans", row)
    BY <1>1, <2>3, AddedFields
  <2>4. CASE after = Added("vrfs", row)
    BY <1>1, <2>4, AddedFields
  <2> QED BY <2>1, <2>2, <2>3, <2>4
<1>4. CASE \E id \in DOMAIN target.vlans : after = WithoutVlan(id)
  <2>1. PICK id \in DOMAIN target.vlans : after = WithoutVlan(id)
    BY <1>4
  <2>2. after.vlans = Pop(target.vlans, id) /\ after.subnets = Unlinked(id)
    BY <1>1, <2>1, WithoutTables
  <2> QED BY <2>2 DEF Pop
<1>5. CASE \E id \in DOMAIN target.vrfs : after = WithoutVrf(id)
  <2>1. PICK id \in DOMAIN target.vrfs : after = WithoutVrf(id)
    BY <1>5
  <2>2. after.vrfs = Pop(target.vrfs, id) /\ after.subnets = Unrouted(id)
    BY <1>1, <2>1, WithoutTables
  <2> QED BY <2>2 DEF Pop
<1>6. CASE /\ SubnetId(target.subnets, T(a), a.cidr) = NoId
           /\ after = Added("subnets", NewSubnet(a))
  BY <1>1, <1>6, AddedFields
<1>7. CASE a.kind = "link_subnet" /\ Effect(a, after, looked, dropped, fresh)
  <2> DEFINE id == SubnetId(ListingSeen(T(a)), T(a), a.cidr)
  <2>1. PICK row : /\ Relinked(id, row)
                   /\ after = [target EXCEPT !.subnets = [target.subnets EXCEPT ![id] = row]]
    BY <1>7 DEF Effect, L2Effect
  <2>2. after.subnets = [target.subnets EXCEPT ![id] = row]
    BY <1>1, <2>1
  <2> QED BY <2>1, <2>2
<1>8. L2Effect(a, after) =>
        \/ \E row : \/ after = Added("domains", row) \/ after = Added("vlans", row)
                    \/ after = Added("vrfs", row)
        \/ \E r : \/ after = [target EXCEPT !.domains = r] \/ after = [target EXCEPT !.vlans = r]
                  \/ after = [target EXCEPT !.vrfs = r]
        \/ \E id \in DOMAIN target.vlans : after = WithoutVlan(id)
        \/ \E id \in DOMAIN target.vrfs : after = WithoutVrf(id)
  BY DEF L2Effect
<1>9. \/ L2Effect(a, after)
      \/ \E S : after = [target EXCEPT !.sects = S]
      \/ a.kind = "link_subnet"
      \/ /\ SubnetId(target.subnets, T(a), a.cidr) = NoId
         /\ after = Added("subnets", NewSubnet(a))
  BY DEF Effect
<1> QED BY <1>2, <1>3, <1>4, <1>5, <1>6, <1>7, <1>8, <1>9

\* An action takes no section off a VRF's list, and moves no subnet.
LEMMA EffectEvolves ==
  ASSUME TypeOK, NEW a \in Action, NEW after, NEW looked, NEW dropped, NEW fresh,
         Effect(a, after, looked, dropped, fresh)
  PROVE  Evolves(target, after)
<1>1. \A i \in DOMAIN after.vrfs :
        \/ i \in DOMAIN target.vrfs /\ target.vrfs[i].sections \subseteq after.vrfs[i].sections
        \/ i = target.nextId
  <2>1. CASE after.vrfs = target.vrfs
    BY <2>1
  <2>2. CASE \E row : after.vrfs = Put(target.vrfs, target.nextId, row)
    BY <2>2 DEF Put
  <2>3. CASE \E id \in DOMAIN target.vrfs : \E row :
               /\ row.sections = target.vrfs[id].sections
               /\ after.vrfs \in {Pop(target.vrfs, id), [target.vrfs EXCEPT ![id] = row]}
    BY <2>3 DEF Pop
  <2> QED BY <2>1, <2>2, <2>3, EffectOnVrfs
<1>2. \A i \in DOMAIN target.subnets : target.subnets[i] \in SubnetRow
  BY DEF TypeOK, TargetType, TableType
<1>3. \A i \in DOMAIN after.subnets :
        \/ i \in DOMAIN target.subnets /\ target.subnets[i].section = after.subnets[i].section
        \/ i = target.nextId
  <2>1. CASE after.subnets = target.subnets
    BY <2>1
  <2>2. CASE \E id : after.subnets = Unlinked(id) \/ after.subnets = Unrouted(id)
    BY <1>2, <2>2 DEF Unlinked, Unrouted, SubnetRow
  <2>3. CASE after.subnets = Put(target.subnets, target.nextId, NewSubnet(a))
    BY <2>3 DEF Put
  <2>4. CASE \E id, row : Relinked(id, row) /\ after.subnets = [target.subnets EXCEPT ![id] = row]
    BY <1>2, <2>4 DEF Relinked, SubnetRow
  <2>5. \/ after.subnets = target.subnets
        \/ \E id : DOMAIN after.vlans # DOMAIN target.vlans /\ after.subnets = Unlinked(id)
        \/ \E id : DOMAIN after.vrfs # DOMAIN target.vrfs /\ after.subnets = Unrouted(id)
        \/ /\ SubnetId(target.subnets, T(a), a.cidr) = NoId
           /\ after.subnets = Put(target.subnets, target.nextId, NewSubnet(a))
        \/ \E id, row : /\ id = SubnetId(ListingSeen(T(a)), T(a), a.cidr) /\ Relinked(id, row)
                        /\ after.subnets = [target.subnets EXCEPT ![id] = row]
    BY EffectOnSubnets
  <2> QED BY <2>1, <2>2, <2>3, <2>4, <2>5
<1> QED BY <1>1, <1>3 DEF Evolves

\* Neither does an operator.
LEMMA OperatorEvolves ==
  ASSUME TypeOK, Operator
  PROVE  Evolves(target, target')
<1>1. /\ TargetType(target)
      /\ target \in [sects : SUBSET Section, domains : {target.domains}, vlans : {target.vlans},
                     vrfs : {target.vrfs}, subnets : {target.subnets}, nextId : Nat \ {NoId}]
      /\ \A i \in DOMAIN target.subnets : target.subnets[i] \in SubnetRow
      /\ \A i \in DOMAIN target.vrfs : target.vrfs[i] \in VrfRow
  BY DEF TypeOK, TargetType, L2Type, TableType
<1>2. CASE \E i \in DOMAIN target.subnets : RelinkSubnet(i)
  <2>1. PICK i \in DOMAIN target.subnets : RelinkSubnet(i)
    BY <1>2
  <2>2. PICK id : \/ target' = [target EXCEPT !.subnets[i].vlanId = id]
                  \/ target' = [target EXCEPT !.subnets[i].vrfId = id]
    BY <2>1 DEF RelinkSubnet, Edit
  <2>3. PICK row : row.section = target.subnets[i].section
                     /\ target' = [target EXCEPT !.subnets = [target.subnets EXCEPT ![i] = row]]
    <3>1. \A r \in {[target.subnets[i] EXCEPT !.vlanId = id], [target.subnets[i] EXCEPT !.vrfId = id]} :
            r.section = target.subnets[i].section
      BY <1>1 DEF SubnetRow
    <3> QED BY <2>2, <3>1
  <2>4. target'.vrfs = target.vrfs /\ target'.subnets = [target.subnets EXCEPT ![i] = row]
    BY <1>1, <2>3
  <2> QED BY <2>3, <2>4 DEF Evolves
<1>3. CASE \E id : RemoveVlan(id)
  <2>1. PICK id : target' = WithoutVlan(id)
    BY <1>3 DEF RemoveVlan, Edit
  <2>2. target'.vrfs = target.vrfs /\ target'.subnets = Unlinked(id)
    BY <1>1, <2>1, WithoutTables
  <2> QED BY <1>1, <2>2 DEF Evolves, Unlinked, SubnetRow
<1>4. CASE \E id : RemoveVrf(id)
  <2>1. PICK id : target' = WithoutVrf(id)
    BY <1>4 DEF RemoveVrf, Edit
  <2>2. target'.vrfs = Pop(target.vrfs, id) /\ target'.subnets = Unrouted(id)
    BY <1>1, <2>1, WithoutTables
  <2> QED BY <1>1, <2>2 DEF Evolves, Unrouted, SubnetRow, Pop
<1>5. CASE \E id \in DOMAIN target.vrfs, s \in target.sects : ShareVrf(id, s)
  <2>1. PICK id \in DOMAIN target.vrfs, s \in target.sects : ShareVrf(id, s)
    BY <1>5
  <2> DEFINE row == [target.vrfs[id] EXCEPT !.sections = target.vrfs[id].sections \cup {s}]
  <2>2. target' = [target EXCEPT !.vrfs = [target.vrfs EXCEPT ![id] = row]]
    BY <2>1 DEF ShareVrf, Edit
  <2>3. row.sections = target.vrfs[id].sections \cup {s}
    BY <1>1 DEF VrfRow
  <2> HIDE DEF row
  <2>4. target'.vrfs = [target.vrfs EXCEPT ![id] = row] /\ target'.subnets = target.subnets
    BY <1>1, <2>2
  <2> QED BY <2>3, <2>4 DEF Evolves
<1>6. CASE \E id, s : ShareDomain(id, s)
  <2>1. PICK rows : target' = [target EXCEPT !.domains = rows]
    BY <1>6 DEF ShareDomain, Edit
  <2>2. target'.vrfs = target.vrfs /\ target'.subnets = target.subnets
    BY <1>1, <2>1
  <2> QED BY <2>2 DEF Evolves
<1> QED BY <1>2, <1>3, <1>4, <1>5, <1>6 DEF Operator

\* Looking at the target adds to a view what is so.
LEMMA LooksRemember ==
  ASSUME TypeOK, Remembers(view, target)
  PROVE  /\ \A i \in DOMAIN L2Seen.vrfs \cap DOMAIN target.vrfs :
              L2Seen.vrfs[i].sections \subseteq target.vrfs[i].sections
         /\ \A s : \A i \in DOMAIN ListingSeen(s) \cap DOMAIN target.subnets :
              ListingSeen(s)[i].section = target.subnets[i].section
         /\ \A a : \A looked \in Looks(a) : Remembers(looked, target)
         /\ Remembers(Planned(view), target)
<1>1. \A i \in DOMAIN L2Seen.vrfs \cap DOMAIN target.vrfs :
        L2Seen.vrfs[i].sections \subseteq target.vrfs[i].sections
  <2>1. L2Of(target).vrfs = target.vrfs
    BY DEF L2Of
  <2>2. L2Seen \in view.l2 \/ L2Seen = L2Of(target)
    BY DEF L2Seen, Content
  <2> QED BY <2>1, <2>2 DEF Remembers
<1>2. \A s : \A i \in DOMAIN ListingSeen(s) \cap DOMAIN target.subnets :
        ListingSeen(s)[i].section = target.subnets[i].section
  BY DEF Remembers, ListingSeen, SubnetsOf
<1>3. view \in [sects : SUBSET SUBSET Section, l2 : {view.l2}, subnets : {view.subnets}]
  BY DEF TypeOK, ViewType
<1>4. ASSUME NEW v, Remembers(v, target),
             v \in [sects : SUBSET SUBSET Section, l2 : {v.l2}, subnets : {v.subnets}]
      PROVE  /\ Remembers(L2Looked(v), target)
             /\ \A s : Remembers(SubnetsLooked(v, s), target)
  <2>1. Remembers(L2Looked(v), target)
    BY <1>1, <1>4 DEF Remembers, L2Looked
  <2>2. ASSUME NEW s PROVE Remembers(SubnetsLooked(v, s), target)
    <3>1. /\ SubnetsLooked(v, s).l2 = v.l2
          /\ SubnetsLooked(v, s).subnets = Put(v.subnets, s, ListingSeen(s))
      BY <1>4 DEF SubnetsLooked
    <3>2. \A k \in DOMAIN Put(v.subnets, s, ListingSeen(s)) :
            \/ k = s /\ Put(v.subnets, s, ListingSeen(s))[k] = ListingSeen(s)
            \/ k \in DOMAIN v.subnets /\ Put(v.subnets, s, ListingSeen(s))[k] = v.subnets[k]
      BY DEF Put
    <3> QED BY <1>2, <1>4, <3>1, <3>2 DEF Remembers
  <2> QED BY <2>1, <2>2
<1>5. /\ Remembers(Sectioned, target)
      /\ Sectioned \in [sects : SUBSET SUBSET Section, l2 : {Sectioned.l2},
                        subnets : {Sectioned.subnets}]
  <2>1. SectsSeen \in SUBSET Section
    BY SeenType
  <2> QED BY <1>3, <2>1 DEF Remembers, Sectioned
<1>6. ASSUME NEW a PROVE \A looked \in Looks(a) : Remembers(looked, target)
  <2> DEFINE found == SubnetsLooked(Sectioned, T(a))
  <2>1. /\ Remembers(found, target)
        /\ found \in [sects : SUBSET SUBSET Section, l2 : {found.l2}, subnets : {found.subnets}]
    BY <1>4, <1>5 DEF SubnetsLooked
  <2>2. Remembers(L2Looked(view), target) /\ Remembers(L2Looked(Sectioned), target)
    BY <1>3, <1>4, <1>5
  <2>3. Remembers(L2Looked(found), target)
    <3> HIDE DEF found
    <3> QED BY <1>4, <2>1
  <2> QED BY <1>5, <2>1, <2>2, <2>3 DEF Looks
<1>7. Remembers(Planned(view), target)
  <2>1. PICK S : Planned(view) = [sects |-> {SectsSeen}, l2 |-> {L2Seen},
                                  subnets |-> [s \in S |-> ListingSeen(s)]]
    BY DEF Planned
  <2> QED BY <1>1, <1>2, <2>1 DEF Remembers
<1> QED BY <1>1, <1>2, <1>6, <1>7

\* So does what a handler leaves in it.
LEMMA EffectRemembers ==
  ASSUME TypeOK, Remembers(view, target), NEW a \in Action, NEW after, NEW looked \in Looks(a),
         NEW dropped, NEW fresh, Effect(a, after, looked, dropped, fresh)
  PROVE  Remembers(looked, after) /\ Remembers(dropped, after) /\ Remembers(fresh, after)
<1>1. Evolves(target, after) /\ target.nextId \in Nat /\ TargetType(target)
  BY EffectEvolves DEF TypeOK, TargetType
<1>2. /\ looked \in [sects : SUBSET SUBSET Section, l2 : {looked.l2}, subnets : {looked.subnets}]
      /\ ViewType(looked, target.nextId) /\ ViewType(view, target.nextId)
  BY LooksType DEF TypeOK, ViewType
<1>3. Remembers(looked, target)
  BY LooksRemember
<1>4. Remembers(looked, after)
  BY <1>1, <1>2, <1>3, StillRemembers
<1>5. CASE a.kind = "create_section" /\ Effect(a, after, looked, dropped, fresh)
  <2>1. dropped = [looked EXCEPT !.sects = {}]
    BY <1>5 DEF Effect, L2Effect
  <2>2. PICK S : fresh = [looked EXCEPT !.sects = S]
    BY <1>5 DEF Effect, L2Effect
  <2>3. /\ dropped.l2 = looked.l2 /\ dropped.subnets = looked.subnets
        /\ fresh.l2 = looked.l2 /\ fresh.subnets = looked.subnets
    BY <1>2, <2>1, <2>2
  <2> QED BY <1>4, <2>3 DEF Remembers
<1>6. CASE dropped = L2Dropped(looked) /\ fresh \in {dropped, L2Reread(looked, after)}
  <2>1. /\ dropped.l2 = {} /\ dropped.subnets = looked.subnets
        /\ fresh.l2 \subseteq {L2Of(after)} /\ fresh.subnets = looked.subnets
    BY <1>2, <1>6 DEF L2Dropped, L2Reread
  <2>2. L2Of(after).vrfs = after.vrfs
    BY DEF L2Of
  <2> QED BY <1>4, <2>1, <2>2 DEF Remembers
<1>7. CASE a.kind = "create_subnet" /\ Effect(a, after, looked, dropped, fresh)
  <2> DEFINE listing == SubnetsOf(after, T(a))
  <2>1. /\ dropped = SubnetsDropped(looked, T(a))
        /\ fresh = [dropped EXCEPT !.subnets = Put(@, T(a), listing)]
        /\ after = Added("subnets", NewSubnet(a))
    BY <1>7 DEF Effect, L2Effect
  <2>2. \A i \in DOMAIN listing : listing[i] = after.subnets[i]
    BY DEF SubnetsOf
  <2> HIDE DEF listing
  <2>3. dropped.l2 = looked.l2 /\ dropped.subnets = Pop(looked.subnets, T(a))
    BY <1>2, <2>1 DEF SubnetsDropped
  <2>4. fresh.l2 = looked.l2 /\ fresh.subnets = Put(Pop(looked.subnets, T(a)), T(a), listing)
    BY <1>2, <2>1 DEF SubnetsDropped
  <2>5. \A s \in DOMAIN dropped.subnets : s \in DOMAIN looked.subnets /\ dropped.subnets[s] = looked.subnets[s]
    BY <2>3 DEF Pop
  <2>6. \A s \in DOMAIN fresh.subnets :
          \/ fresh.subnets[s] = listing
          \/ s \in DOMAIN looked.subnets /\ fresh.subnets[s] = looked.subnets[s]
    BY <2>4 DEF Put, Pop
  <2> QED BY <1>4, <2>2, <2>3, <2>4, <2>5, <2>6 DEF Remembers
<1>8. CASE dropped = SubnetsDropped(looked, T(a)) /\ fresh = dropped
  <2>1. dropped.l2 = looked.l2 /\ dropped.subnets = Pop(looked.subnets, T(a))
    BY <1>2, <1>8 DEF SubnetsDropped
  <2>2. \A s \in DOMAIN dropped.subnets : s \in DOMAIN looked.subnets /\ dropped.subnets[s] = looked.subnets[s]
    BY <2>1 DEF Pop
  <2> QED BY <1>4, <1>8, <2>1, <2>2 DEF Remembers
<1> QED BY <1>4, <1>5, <1>6, <1>7, <1>8 DEF Effect

\* What is the current source's is no other's, and its actions are in its sections.
LEMMA CurrentClaims ==
  ASSUME TypeOK, ScopeInv, running, applying
  PROVE  /\ \A a \in pending : T(a) \in Claims(Current)
         /\ \A t \in Claims(Current) : t \notin OfOthers(Current)
<1>1. Current \in Source
  BY CurrentType DEF TypeOK
<1>2. \A n \in Source : Claims(n) \subseteq TargetsOf(config.sources[n])
  BY DEF Claims, TargetsOf
<1>3. \A n \in Source \ {Current} :
        TargetsOf(config.sources[Current]) \cap TargetsOf(config.sources[n]) = {}
  BY <1>1 DEF ScopeInv, ValidSources
<1>4. \A t \in Claims(Current) : t \notin OfOthers(Current)
  BY <1>1, <1>2, <1>3 DEF OfOthers
<1>5. \A a \in pending : T(a) \in Claims(Current)
  BY DEF ScopeInv, T, Claims, C
<1> QED BY <1>4, <1>5

\* An action spares what is another's.
LEMMA EffectSpares ==
  ASSUME TypeOK, ScopeInv, running, applying, NEW a \in pending,
         NEW after, NEW looked, NEW dropped, NEW fresh,
         Effect(a, after, looked, dropped, fresh), target' = after
  PROVE  SparesOthers
<1> DEFINE n == target.nextId
<1>1. a \in Action /\ T(a) \in Claims(Current) /\ \A t \in Claims(Current) : t \notin OfOthers(Current)
  BY CurrentClaims DEF TypeOK
<1>2. /\ \A i \in DOMAIN target.subnets : target.subnets[i] \in SubnetRow
      /\ n \notin DOMAIN target.subnets /\ n \notin DOMAIN target.vrfs /\ n \in Nat
  BY DEF TypeOK, TargetType, L2Type, TableType
<1>3. ASSUME NEW s \in OfOthers(Current)
      PROVE  /\ DOMAIN SubnetsOf(target', s) = DOMAIN SubnetsOf(target, s)
             /\ \A i \in DOMAIN SubnetsOf(target, s) :
                  \/ target'.subnets[i] = target.subnets[i]
                  \/ /\ DOMAIN target'.vlans # DOMAIN target.vlans
                     /\ target'.subnets[i] = [target.subnets[i] EXCEPT !.vlanId = NoId]
                  \/ /\ DOMAIN target'.vrfs # DOMAIN target.vrfs
                     /\ target'.subnets[i] = [target.subnets[i] EXCEPT !.vrfId = NoId]
  <2>1. CASE after.subnets = target.subnets
    BY <2>1 DEF SubnetsOf
  <2>2. CASE \E id : DOMAIN after.vlans # DOMAIN target.vlans /\ after.subnets = Unlinked(id)
    BY <1>2, <2>2 DEF SubnetsOf, Unlinked, SubnetRow
  <2>3. CASE \E id : DOMAIN after.vrfs # DOMAIN target.vrfs /\ after.subnets = Unrouted(id)
    BY <1>2, <2>3 DEF SubnetsOf, Unrouted, SubnetRow
  <2>4. CASE after.subnets = Put(target.subnets, n, NewSubnet(a))
    <3>1. NewSubnet(a).section # s
      BY <1>1, <1>3 DEF NewSubnet
    <3> HIDE DEF n
    <3> QED BY <1>2, <2>4, <3>1 DEF SubnetsOf, Put
  <2>5. CASE \E id, row : /\ id = SubnetId(ListingSeen(T(a)), T(a), a.cidr) /\ Relinked(id, row)
                          /\ after.subnets = [target.subnets EXCEPT ![id] = row]
    <3>1. PICK id, row : /\ id = SubnetId(ListingSeen(T(a)), T(a), a.cidr) /\ Relinked(id, row)
                         /\ after.subnets = [target.subnets EXCEPT ![id] = row]
      BY <2>5
    <3>2. TableType(ListingSeen(T(a)), SubnetRow, n)
      BY SeenType
    <3>3. id # NoId /\ id \in DOMAIN target.subnets
      BY <3>1 DEF Relinked
    <3>4. id \in DOMAIN ListingSeen(T(a)) /\ ListingSeen(T(a))[id].section = T(a)
      BY <1>2, <3>1, <3>2, <3>3, SubnetLookup
    <3>5. target.subnets[id].section = T(a)
      BY <3>3, <3>4, LooksRemember DEF ScopeInv
    <3>6. row.section = T(a) /\ T(a) # s
      BY <1>1, <1>2, <1>3, <3>1, <3>3, <3>5 DEF Relinked, SubnetRow
    <3> QED BY <3>1, <3>3, <3>5, <3>6 DEF SubnetsOf
  <2> QED BY <1>1, <2>1, <2>2, <2>3, <2>4, <2>5, EffectOnSubnets
<1>4. ASSUME NEW id \in DOMAIN target.vrfs, id # NoId, id = VrfId(L2Seen, a.vrf, T(a))
      PROVE  Scoped(target.vrfs, id, Claims(Current))
  <2>1. L2Type(L2Seen, n)
    BY SeenType
  <2>2. id \in DOMAIN L2Seen.vrfs /\ T(a) \in L2Seen.vrfs[id].sections
    BY <1>2, <1>4, <2>1, VrfLookup
  <2>3. T(a) \in target.vrfs[id].sections
    BY <1>4, <2>2, LooksRemember DEF ScopeInv
  <2> QED BY <1>1, <1>4, <2>3 DEF Scoped
<1>5. /\ \A i \in DOMAIN target.vrfs :
           \/ Scoped(target.vrfs, i, Claims(Current))
           \/ i \in DOMAIN target'.vrfs /\ target'.vrfs[i] = target.vrfs[i]
      /\ \A i \in DOMAIN target'.vrfs \ DOMAIN target.vrfs :
           ~ Scoped(target'.vrfs, i, OfOthers(Current))
  <2>1. CASE after.vrfs = target.vrfs
    BY <2>1
  <2>2. CASE \E row : row.sections = {T(a)} /\ after.vrfs = Put(target.vrfs, n, row)
    <3> HIDE DEF n
    <3> QED BY <1>1, <1>2, <2>2 DEF Put, Scoped
  <2>3. CASE \E id \in DOMAIN target.vrfs : \E row :
               /\ id # NoId /\ id = VrfId(L2Seen, a.vrf, T(a))
               /\ after.vrfs \in {Pop(target.vrfs, id), [target.vrfs EXCEPT ![id] = row]}
    BY <1>4, <2>3 DEF Pop
  <2> QED BY <1>1, <2>1, <2>2, <2>3, EffectOnVrfs
<1> QED BY <1>3, <1>5 DEF SparesOthers

\* Every step keeps to one source at a time.
LEMMA StepKeepsScope ==
  ASSUME SnapshotsInScope, TypeOK, ScopeInv, [Next]_vars
  PROVE  ScopeInv'
<1>1. CASE StartJob
  BY <1>1 DEF StartJob, ScopeInv, TypeOK
<1>2. CASE PlanSource
  <2>1. /\ running /\ queue # << >>
        /\ UNCHANGED << config, running, queue, target >>
        /\ pending' = Plan(C, P, Seen, Deleting) /\ view' = Planned(view)
    BY <1>2 DEF PlanSource, Waiting
  <2>2. \A a \in pending' : a.section \in Documented(P)
    BY <2>1, PlannedActions
  <2>3. Documented(P) \subseteq C.sections
    BY <2>1, CurrentType DEF SnapshotsInScope, ScopeInv, TypeOK, C, P
  <2>4. C' = C
    BY <2>1 DEF C, Current
  <2>5. Remembers(view', target')
    BY <2>1, LooksRemember DEF ScopeInv
  <2> QED BY <2>1, <2>2, <2>3, <2>4, <2>5 DEF ScopeInv
<1>3. CASE SourceFails
  <2>1. /\ UNCHANGED << config, running, applying, target >> /\ ~ applying
        /\ view' \in {view, Planned(view)}
    BY <1>3 DEF SourceFails, GiveUp, Waiting
  <2> QED BY <2>1, LooksRemember DEF ScopeInv
<1>4. CASE FinishSource
  BY <1>4 DEF FinishSource, ScopeInv
<1>5. CASE JobEnds
  BY <1>5 DEF JobEnds, ScopeInv, Remembers, NoView, EmptyMap
<1>6. CASE Execute
  <2>1. PICK a \in pending : Handle(a)
    BY <1>6 DEF Execute
  <2>2. PICK after, looked, dropped, fresh :
          looked \in Looks(a) /\ Ended(a, after, looked, dropped, fresh)
    BY <2>1, HandlerEnds
  <2>3. /\ UNCHANGED << config, running, queue, applying >> /\ pending' \subseteq pending
    BY <2>2 DEF Ended, Taken
  <2>4. C' = C
    BY <2>3 DEF C, Current
  <2>5. Remembers(view', target')
    <3>1. CASE target' = target /\ view' \in {view, looked}
      BY <2>2, <3>1, LooksRemember DEF ScopeInv
    <3>2. CASE /\ Effect(a, after, looked, dropped, fresh)
               /\ target' = after /\ view' \in {looked, dropped, fresh}
      <4>1. Remembers(view, target) /\ a \in Action
        BY DEF ScopeInv, TypeOK
      <4> QED BY <2>2, <3>2, <4>1, EffectRemembers
    <3> QED BY <2>2, <3>1, <3>2 DEF Ended
  <2> QED BY <2>3, <2>4, <2>5 DEF ScopeInv
<1>7. CASE Operator
  <2>1. UNCHANGED << config, running, queue, applying, pending, view >>
    BY <1>7, OperatorEdits DEF Edit
  <2>2. Remembers(view, target')
    BY <1>7, OperatorEvolves, StillRemembers DEF ScopeInv, TypeOK, TargetType
  <2>3. C' = C
    BY <2>1 DEF C, Current
  <2> QED BY <2>1, <2>2, <2>3 DEF ScopeInv
<1>8. CASE UNCHANGED << target, config, running, queue, applying, pending, view >>
  <2>1. C' = C
    BY <1>8 DEF C, Current
  <2> QED BY <1>8, <2>1 DEF ScopeInv
<1>9. \/ StartJob \/ PlanSource \/ SourceFails \/ FinishSource \/ JobEnds \/ Execute \/ Operator
      \/ UNCHANGED << target, config, running, queue, applying, pending, view >>
  BY DEF Next, JobStep, FinishJob, JobAborts, Crash, Deliver, vars
<1> QED BY <1>1, <1>2, <1>3, <1>4, <1>5, <1>6, <1>7, <1>8, <1>9

\* What is not a handler leaves the target alone while actions are carried out.
LEMMA StepSpares ==
  ASSUME TypeOK, ScopeInv, [Next]_vars, Acting
  PROVE  SparesOthers
<1>1. CASE UNCHANGED target
  BY <1>1 DEF SparesOthers, SubnetsOf
<1>2. CASE Execute
  <2>1. PICK a \in pending : Handle(a)
    BY <1>2 DEF Execute
  <2>2. PICK after, looked, dropped, fresh :
          looked \in Looks(a) /\ Ended(a, after, looked, dropped, fresh)
    BY <2>1, HandlerEnds
  <2>3. CASE Effect(a, after, looked, dropped, fresh) /\ target' = after
    BY <2>3, EffectSpares DEF Acting
  <2> QED BY <1>1, <2>2, <2>3 DEF Ended
<1>3. CASE Operator
  <2>1. edits \in Nat /\ edits' = edits + 1
    BY <1>3, OperatorEdits, FanInAssumption DEF FanInAssumption, TypeOK, Edit
  <2> QED BY <2>1 DEF Acting
<1> QED
  BY <1>1, <1>2, <1>3
  DEF Next, JobStep, StartJob, PlanSource, SourceFails, GiveUp, FinishSource, FinishJob, JobAborts,
      Crash, JobEnds, Deliver, vars

(***************************************************************************)
(* While it processes one source a job leaves the subnets and the VRFs of  *)
(* the others alone, whatever fails, whoever edits and however stale the   *)
(* view is (plan.py:34-36, README.md:276-297) -- provided that no mirror   *)
(* delivers a section that its source is not configured to export: the     *)
(* importer itself does not check that, as the run MCScope shows.          *)
(***************************************************************************)
THEOREM OthersAreUntouched ==
  ASSUME SnapshotsInScope
  PROVE  Spec => OthersUntouched
<1>1. Init => ScopeInv
  BY DEF Init, ScopeInv, Remembers, NoView, EmptyMap
<1>2. ASSUME TypeOK, ScopeInv, [Next]_vars
      PROVE  ScopeInv' /\ [Acting => SparesOthers]_vars
  BY <1>2, StepKeepsScope, StepSpares
<1> QED BY <1>1, <1>2, TypeCorrect, PTL DEF Spec, OthersUntouched

(***************************************************************************)
(* Names stand for records.                                                *)
(***************************************************************************)
HasDomain(t, name) == \E i \in DOMAIN t.domains : t.domains[i].name = name

HasVlan(t, key) == \E i \in DOMAIN t.vlans : KeyOf(t, i) = key

HasVrf(t, name, s) == \E i \in DOMAIN t.vrfs : t.vrfs[i].name = name /\ s \in t.vrfs[i].sections

\* On a tidy target a lookup finds the record that has the name.
LEMMA TidyLookups ==
  ASSUME NEW t, NEW n \in Nat, L2Type(t, n), TableType(t.subnets, SubnetRow, n), Tidy(t)
  PROVE  /\ \A i \in DOMAIN t.domains : DomainId(t, t.domains[i].name) = i
         /\ \A i \in DOMAIN t.vlans : VlanId(t, KeyOf(t, i)) = i
         /\ \A i \in DOMAIN t.vrfs : \A s \in t.vrfs[i].sections : VrfId(t, t.vrfs[i].name, s) = i
         /\ \A i \in DOMAIN t.subnets :
              SubnetId(t.subnets, t.subnets[i].section, t.subnets[i].cidr) = i
         /\ NoId \notin DOMAIN t.domains /\ NoId \notin DOMAIN t.vlans
         /\ NoId \notin DOMAIN t.vrfs /\ NoId \notin DOMAIN t.subnets
<1>1. \A i \in DOMAIN t.domains : DomainId(t, t.domains[i].name) = i
  BY DomainLookup DEF Tidy
<1>2. \A i \in DOMAIN t.vlans : VlanId(t, KeyOf(t, i)) = i
  BY VlanLookup DEF Tidy
<1>3. ASSUME NEW i \in DOMAIN t.vrfs, NEW s \in t.vrfs[i].sections
      PROVE  VrfId(t, t.vrfs[i].name, s) = i
  <2> DEFINE j == VrfId(t, t.vrfs[i].name, s)
  <2>1. j \in DOMAIN t.vrfs /\ t.vrfs[j].name = t.vrfs[i].name /\ s \in t.vrfs[j].sections
    BY <1>3, VrfLookup
  <2> HIDE DEF j
  <2>2. j = i
    BY <1>3, <2>1 DEF Tidy
  <2> QED BY <2>2 DEF j
<1>4. ASSUME NEW i \in DOMAIN t.subnets
      PROVE  SubnetId(t.subnets, t.subnets[i].section, t.subnets[i].cidr) = i
  <2> DEFINE j == SubnetId(t.subnets, t.subnets[i].section, t.subnets[i].cidr)
  <2>1. /\ j \in DOMAIN t.subnets /\ t.subnets[j].section = t.subnets[i].section
        /\ t.subnets[j].cidr = t.subnets[i].cidr
    BY <1>4, SubnetLookup
  <2> HIDE DEF j
  <2>2. j = i
    BY <1>4, <2>1 DEF Tidy
  <2> QED BY <2>2 DEF j
<1>5. /\ NoId \notin DOMAIN t.domains /\ NoId \notin DOMAIN t.vlans
      /\ NoId \notin DOMAIN t.vrfs /\ NoId \notin DOMAIN t.subnets
  BY DEF L2Type, TableType, NoId
<1> QED BY <1>1, <1>2, <1>3, <1>4, <1>5

\* Of a source that is found on a tidy target nothing is planned.
LEMMA NothingToPlan ==
  ASSUME TypeOK, Tidy(target), NEW n \in Source, Mirrors(n)
  PROVE  Plan(config.sources[n], snap[n], Live, FALSE) = {}
<1> DEFINE c == config.sources[n]
           p == snap[n]
           t(s) == TargetName(c, s)
<1>1. /\ L2Type(target, target.nextId) /\ TableType(target.subnets, SubnetRow, target.nextId)
      /\ target.nextId \in Nat
  BY DEF TypeOK, TargetType
<1>2. /\ \A i \in DOMAIN target.domains : DomainId(target, target.domains[i].name) = i
      /\ \A i \in DOMAIN target.vlans : VlanId(target, KeyOf(target, i)) = i
      /\ \A i \in DOMAIN target.vrfs : \A s \in target.vrfs[i].sections :
           VrfId(target, target.vrfs[i].name, s) = i
      /\ \A i \in DOMAIN target.subnets :
           SubnetId(target.subnets, target.subnets[i].section, target.subnets[i].cidr) = i
      /\ NoId \notin DOMAIN target.domains /\ NoId \notin DOMAIN target.vlans
      /\ NoId \notin DOMAIN target.vrfs /\ NoId \notin DOMAIN target.subnets
  BY <1>1, TidyLookups
<1>3. /\ Live.sects = target.sects /\ Live.domains = target.domains /\ Live.vlans = target.vlans
      /\ Live.vrfs = target.vrfs /\ Live.subnets = target.subnets
  BY DEF Live
<1>4. /\ \A name : DomainId(Live, name) = DomainId(target, name)
      /\ \A key : VlanId(Live, key) = VlanId(target, key)
      /\ \A name, s : VrfId(Live, name, s) = VrfId(target, name, s)
      /\ \A id : VlanRef(Live, id) = VlanRef(target, id)
      /\ \A id : VrfName(Live, id) = VrfName(target, id)
  BY <1>3 DEF DomainId, VlanId, VrfId, VlanRef, VrfName, KeyOf, DomainName
<1>5. ASSUME NEW s \in DOMAIN p.docs
      PROVE  /\ t(s) \in target.sects
             /\ \A name \in DOMAIN p.docs[s].domains :
                  LET i == DomainId(Live, name)
                  IN  /\ i # NoId /\ Live.domains[i].fields = p.docs[s].domains[name]
                      /\ i = DefaultDomain \/ t(s) \in Live.domains[i].sections
             /\ \A key \in DOMAIN p.docs[s].vlans :
                  LET i == VlanId(Live, key)
                  IN  i # NoId /\ Live.vlans[i].fields = p.docs[s].vlans[key]
             /\ \A name \in DOMAIN p.docs[s].vrfs :
                  LET i == VrfId(Live, name, t(s))
                  IN  i # NoId /\ Live.vrfs[i].fields = p.docs[s].vrfs[name]
  <2>1. t(s) \in target.sects
    BY <1>5 DEF Mirrors
  <2>2. ASSUME NEW name \in DOMAIN p.docs[s].domains
        PROVE  LET i == DomainId(Live, name)
               IN  /\ i # NoId /\ Live.domains[i].fields = p.docs[s].domains[name]
                   /\ i = DefaultDomain \/ t(s) \in Live.domains[i].sections
    <3>1. PICK i \in DOMAIN target.domains :
            /\ target.domains[i].name = name /\ target.domains[i].fields = p.docs[s].domains[name]
            /\ i = DefaultDomain \/ t(s) \in target.domains[i].sections
      BY <1>5, <2>2 DEF Mirrors
    <3> QED BY <1>2, <1>3, <1>4, <3>1
  <2>3. ASSUME NEW key \in DOMAIN p.docs[s].vlans
        PROVE  LET i == VlanId(Live, key) IN i # NoId /\ Live.vlans[i].fields = p.docs[s].vlans[key]
    <3>1. PICK i \in DOMAIN target.vlans :
            KeyOf(target, i) = key /\ target.vlans[i].fields = p.docs[s].vlans[key]
      BY <1>5, <2>3 DEF Mirrors
    <3> QED BY <1>2, <1>3, <1>4, <3>1
  <2>4. ASSUME NEW name \in DOMAIN p.docs[s].vrfs
        PROVE  LET i == VrfId(Live, name, t(s))
               IN  i # NoId /\ Live.vrfs[i].fields = p.docs[s].vrfs[name]
    <3>1. PICK i \in DOMAIN target.vrfs :
            /\ target.vrfs[i].name = name /\ t(s) \in target.vrfs[i].sections
            /\ target.vrfs[i].fields = p.docs[s].vrfs[name]
      BY <1>5, <2>4 DEF Mirrors
    <3> QED BY <1>2, <1>3, <1>4, <3>1
  <2> QED BY <2>1, <2>2, <2>3, <2>4
<1>6. ASSUME NEW d \in p.subnets
      PROVE  /\ IdOf(c, d, Live) # NoId
             /\ VlanRef(Live, Live.subnets[IdOf(c, d, Live)].vlanId) = d.vlan
             /\ VrfName(Live, Live.subnets[IdOf(c, d, Live)].vrfId) = d.vrf
  <2>1. PICK i \in DOMAIN target.subnets :
          /\ target.subnets[i].section = t(d.section) /\ target.subnets[i].cidr = d.cidr
          /\ VlanRef(target, target.subnets[i].vlanId) = d.vlan
          /\ VrfName(target, target.subnets[i].vrfId) = d.vrf
    BY <1>6 DEF Mirrors
  <2>2. IdOf(c, d, Live) = i
    BY <1>2, <1>3, <2>1 DEF IdOf
  <2> QED BY <1>2, <1>3, <1>4, <2>1, <2>2
<1>7. SectionCreates(c, p, Live) = {}
  BY <1>3, <1>5 DEF SectionCreates, Resolved
<1>8. DomainCreates(c, p, Live) = {} /\ DomainUpdates(c, p, Live) = {} /\ DomainAttaches(c, p, Live) = {}
  BY <1>5 DEF DomainCreates, DomainUpdates, DomainAttaches, Existing
<1>9. VlanCreates(c, p, Live) = {} /\ VlanUpdates(c, p, Live) = {}
  BY <1>5 DEF VlanCreates, VlanUpdates
<1>10. VrfCreates(c, p, Live) = {} /\ VrfUpdates(c, p, Live) = {}
  BY <1>3, <1>5 DEF VrfCreates, VrfUpdates, CurrentVrf, Resolved
<1>11. SubnetCreates(c, p, Live) = {} /\ Links(c, p, Live) = {}
  BY <1>6 DEF SubnetCreates, Links, Differing
<1> HIDE DEF c, p
<1>12. Plan(c, p, Live, FALSE) = {}
  BY <1>7, <1>8, <1>9, <1>10, <1>11 DEF Plan
<1> QED BY <1>12 DEF c, p

\* What an action makes of the domains.
LEMMA EffectOnDomains ==
  ASSUME TypeOK, NEW a \in Action, NEW after, NEW looked, NEW dropped, NEW fresh,
         Effect(a, after, looked, dropped, fresh)
  PROVE  \/ after.domains = target.domains
         \/ \E row : /\ a.kind = "create_l2domain" /\ row.name = a.domain
                     /\ row.sections = {T(a)}
                     /\ after.domains = Put(target.domains, target.nextId, row)
         \/ \E id \in DOMAIN target.domains : \E row :
              /\ row.name = target.domains[id].name
              /\ \/ row.sections = target.domains[id].sections
                 \/ a.kind = "attach_l2domain" /\ row.sections = ListedThen(a, id)
              /\ after.domains = [target.domains EXCEPT ![id] = row]
<1>1. /\ TargetType(target)
      /\ target \in [sects : SUBSET Section, domains : {target.domains}, vlans : {target.vlans},
                     vrfs : {target.vrfs}, subnets : {target.subnets}, nextId : Nat \ {NoId}]
      /\ TableType(target.domains, DomainRow, target.nextId)
  BY DEF TypeOK, TargetType, L2Type
<1>2. CASE \/ \E S : after = [target EXCEPT !.sects = S]
           \/ \E r : after = [target EXCEPT !.vlans = r]
           \/ \E r : after = [target EXCEPT !.vrfs = r]
           \/ \E r : after = [target EXCEPT !.subnets = r]
  BY <1>1, <1>2
<1>3. CASE \E row : \/ after = Added("vlans", row) \/ after = Added("vrfs", row)
                    \/ after = Added("subnets", row)
  <2>1. PICK row : \/ after = Added("vlans", row) \/ after = Added("vrfs", row)
                   \/ after = Added("subnets", row)
    BY <1>3
  <2>2. CASE after = Added("vlans", row)
    BY <1>1, <2>2, AddedFields
  <2>3. CASE after = Added("vrfs", row)
    BY <1>1, <2>3, AddedFields
  <2>4. CASE after = Added("subnets", row)
    BY <1>1, <2>4, AddedFields
  <2> QED BY <2>1, <2>2, <2>3, <2>4
<1>4. CASE a.kind = "create_l2domain" /\ L2Effect(a, after)
  <2> DEFINE row == [name |-> a.domain, sections |-> {T(a)}, fields |-> a.fields]
  <2>1. after = Added("domains", row) /\ row.name = a.domain /\ row.sections = {T(a)}
    BY <1>4 DEF L2Effect
  <2> HIDE DEF row
  <2>2. after.domains = Put(target.domains, target.nextId, row)
    BY <1>1, <2>1, AddedFields
  <2> QED BY <1>4, <2>1, <2>2
<1>5. CASE a.kind \in {"update_l2domain", "attach_l2domain"} /\ L2Effect(a, after)
  <2> DEFINE id == DomainId(L2Seen, a.domain)
             row == IF a.kind = "update_l2domain"
                    THEN [target.domains[id] EXCEPT !.fields = a.fields]
                    ELSE [target.domains[id] EXCEPT !.sections = ListedThen(a, id)]
  <2>1. /\ id \in DOMAIN target.domains
        /\ after = [target EXCEPT !.domains = [target.domains EXCEPT ![id] = row]]
    BY <1>5 DEF L2Effect
  <2>2. /\ row.name = target.domains[id].name
        /\ \/ row.sections = target.domains[id].sections
           \/ a.kind = "attach_l2domain" /\ row.sections = ListedThen(a, id)
    <3>1. target.domains[id] \in DomainRow
      BY <1>1, <2>1 DEF TableType
    <3> HIDE DEF id
    <3> QED BY <1>5, <3>1 DEF DomainRow
  <2> HIDE DEF id, row
  <2>3. after.domains = [target.domains EXCEPT ![id] = row]
    BY <1>1, <2>1
  <2> QED BY <2>1, <2>2, <2>3
<1>6. CASE \E id : after = WithoutVlan(id) \/ after = WithoutVrf(id)
  <2>1. PICK id : after = WithoutVlan(id) \/ after = WithoutVrf(id)
    BY <1>6
  <2>2. WithoutVlan(id).domains = target.domains /\ WithoutVrf(id).domains = target.domains
    BY <1>1, WithoutTables
  <2> QED BY <2>1, <2>2
<1>7. L2Effect(a, after) =>
        \/ a.kind \in {"create_l2domain", "update_l2domain", "attach_l2domain"}
        \/ \E row : after = Added("vlans", row) \/ after = Added("vrfs", row)
        \/ \E r : after = [target EXCEPT !.vlans = r] \/ after = [target EXCEPT !.vrfs = r]
        \/ \E id : after = WithoutVlan(id) \/ after = WithoutVrf(id)
  BY DEF L2Effect
<1>8. \/ L2Effect(a, after)
      \/ \E S : after = [target EXCEPT !.sects = S]
      \/ \E r : after = [target EXCEPT !.subnets = r]
      \/ \E row : after = Added("subnets", row)
  BY DEF Effect
<1> QED BY <1>2, <1>3, <1>4, <1>5, <1>6, <1>7, <1>8

\* And of the VLANs.
LEMMA EffectOnVlans ==
  ASSUME TypeOK, NEW a \in Action, NEW after, NEW looked, NEW dropped, NEW fresh,
         Effect(a, after, looked, dropped, fresh)
  PROVE  \/ after.vlans = target.vlans
         \/ \E row : /\ a.kind = "create_vlan"
                     /\ row.domainId = DomainId(L2Seen, a.vlan[1]) /\ row.domainId # NoId
                     /\ row.number = a.vlan[2]
                     /\ after.vlans = Put(target.vlans, target.nextId, row)
                     /\ after.domains = target.domains
         \/ \E id \in DOMAIN target.vlans : \E row :
              /\ row.domainId = target.vlans[id].domainId /\ row.number = target.vlans[id].number
              /\ after.vlans \in {Pop(target.vlans, id), [target.vlans EXCEPT ![id] = row]}
<1>1. /\ TargetType(target)
      /\ target \in [sects : SUBSET Section, domains : {target.domains}, vlans : {target.vlans},
                     vrfs : {target.vrfs}, subnets : {target.subnets}, nextId : Nat \ {NoId}]
      /\ TableType(target.vlans, VlanRow, target.nextId)
  BY DEF TypeOK, TargetType, L2Type
<1>2. CASE \/ \E S : after = [target EXCEPT !.sects = S]
           \/ \E r : after = [target EXCEPT !.domains = r]
           \/ \E r : after = [target EXCEPT !.vrfs = r]
           \/ \E r : after = [target EXCEPT !.subnets = r]
  BY <1>1, <1>2
<1>3. CASE \E row : \/ after = Added("domains", row) \/ after = Added("vrfs", row)
                    \/ after = Added("subnets", row)
  <2>1. PICK row : \/ after = Added("domains", row) \/ after = Added("vrfs", row)
                   \/ after = Added("subnets", row)
    BY <1>3
  <2>2. CASE after = Added("domains", row)
    BY <1>1, <2>2, AddedFields
  <2>3. CASE after = Added("vrfs", row)
    BY <1>1, <2>3, AddedFields
  <2>4. CASE after = Added("subnets", row)
    BY <1>1, <2>4, AddedFields
  <2> QED BY <2>1, <2>2, <2>3, <2>4
<1>4. CASE a.kind = "create_vlan" /\ L2Effect(a, after)
  <2> DEFINE id == DomainId(L2Seen, a.vlan[1])
             row == [domainId |-> id, number |-> a.vlan[2], fields |-> a.fields]
  <2>1. id # NoId /\ after = Added("vlans", row) /\ row.domainId = id /\ row.number = a.vlan[2]
    BY <1>4 DEF L2Effect
  <2> HIDE DEF row
  <2>2. after.vlans = Put(target.vlans, target.nextId, row) /\ after.domains = target.domains
    BY <1>1, <2>1, AddedFields
  <2> QED BY <1>4, <2>1, <2>2
<1>5. CASE a.kind = "update_vlan" /\ L2Effect(a, after)
  <2> DEFINE id == VlanId(L2Seen, a.vlan)
             row == [target.vlans[id] EXCEPT !.fields = a.fields]
  <2>1. /\ id \in DOMAIN target.vlans
        /\ after = [target EXCEPT !.vlans = [target.vlans EXCEPT ![id] = row]]
    BY <1>5 DEF L2Effect
  <2>2. row.domainId = target.vlans[id].domainId /\ row.number = target.vlans[id].number
    <3>1. target.vlans[id] \in VlanRow
      BY <1>1, <2>1 DEF TableType
    <3> HIDE DEF id
    <3> QED BY <3>1 DEF VlanRow
  <2> HIDE DEF id, row
  <2>3. after.vlans = [target.vlans EXCEPT ![id] = row]
    BY <1>1, <2>1
  <2> QED BY <2>1, <2>2, <2>3
<1>6. CASE \E id \in DOMAIN target.vlans : after = WithoutVlan(id)
  <2>1. PICK id \in DOMAIN target.vlans : after = WithoutVlan(id)
    BY <1>6
  <2>2. after.vlans = Pop(target.vlans, id)
    BY <1>1, <2>1, WithoutTables
  <2> DEFINE row == target.vlans[id]
  <2>3. /\ row.domainId = target.vlans[id].domainId /\ row.number = target.vlans[id].number
        /\ after.vlans \in {Pop(target.vlans, id), [target.vlans EXCEPT ![id] = row]}
    BY <2>2
  <2> QED BY <2>3
<1>7. CASE \E id : after = WithoutVrf(id)
  <2>1. PICK id : after = WithoutVrf(id)
    BY <1>7
  <2>2. after.vlans = target.vlans
    BY <1>1, <2>1, WithoutTables
  <2> QED BY <2>2
<1>8. L2Effect(a, after) =>
        \/ a.kind \in {"create_vlan", "update_vlan"}
        \/ \E row : after = Added("domains", row) \/ after = Added("vrfs", row)
        \/ \E r : after = [target EXCEPT !.domains = r] \/ after = [target EXCEPT !.vrfs = r]
        \/ \E id \in DOMAIN target.vlans : after = WithoutVlan(id)
        \/ \E id : after = WithoutVrf(id)
  BY DEF L2Effect
<1>9. \/ L2Effect(a, after)
      \/ \E S : after = [target EXCEPT !.sects = S]
      \/ \E r : after = [target EXCEPT !.subnets = r]
      \/ \E row : after = Added("subnets", row)
  BY DEF Effect
<1> QED BY <1>2, <1>3, <1>4, <1>5, <1>6, <1>7, <1>8, <1>9

\* An action gives no record another name, and every record that it adds its own.
EffectNames(a, after) ==
  /\ target.sects \subseteq after.sects
  /\ \A i \in DOMAIN target.domains :
       i \in DOMAIN after.domains /\ after.domains[i].name = target.domains[i].name
  /\ \A i \in DOMAIN after.domains \ DOMAIN target.domains :
       /\ i = target.nextId
       /\ a.kind = "create_l2domain" /\ after.domains[i].name = a.domain
  /\ \A i \in DOMAIN after.vlans \cap DOMAIN target.vlans :
       /\ KeyOf(after, i) = KeyOf(target, i)
       /\ after.vlans[i].domainId = target.vlans[i].domainId
  /\ \A i \in DOMAIN after.vlans \ DOMAIN target.vlans :
       /\ i = target.nextId
       /\ a.kind = "create_vlan" /\ KeyOf(after, i) = a.vlan
       /\ after.vlans[i].domainId \in DOMAIN after.domains
  /\ \A i \in DOMAIN after.vrfs \cap DOMAIN target.vrfs :
       /\ after.vrfs[i].name = target.vrfs[i].name
       /\ after.vrfs[i].sections = target.vrfs[i].sections
  /\ \A i \in DOMAIN after.vrfs \ DOMAIN target.vrfs :
       /\ i = target.nextId
       /\ a.kind = "create_vrf" /\ after.vrfs[i].name = a.vrf
       /\ after.vrfs[i].sections = {T(a)} /\ T(a) \in target.sects
  /\ \A i \in DOMAIN after.subnets \cap DOMAIN target.subnets :
       /\ after.subnets[i].section = target.subnets[i].section
       /\ after.subnets[i].cidr = target.subnets[i].cidr
  /\ \A i \in DOMAIN after.subnets \ DOMAIN target.subnets :
       /\ i = target.nextId
       /\ after.subnets[i].section = T(a) /\ after.subnets[i].cidr = a.cidr
       /\ SubnetId(target.subnets, T(a), a.cidr) = NoId

LEMMA EffectKeepsNames ==
  ASSUME TypeOK, Shows(view, target), Tidy(target), NEW a \in Action, NEW after, NEW looked,
         NEW dropped, NEW fresh, Effect(a, after, looked, dropped, fresh)
  PROVE  EffectNames(a, after)
<1> DEFINE n == target.nextId
<1>1. /\ target \in [sects : SUBSET Section, domains : {target.domains}, vlans : {target.vlans},
                     vrfs : {target.vrfs}, subnets : {target.subnets}, nextId : Nat \ {NoId}]
      /\ TargetType(target) /\ L2Type(target, n) /\ n \in Nat
      /\ n \notin DOMAIN target.domains /\ n \notin DOMAIN target.vlans
      /\ n \notin DOMAIN target.vrfs /\ n \notin DOMAIN target.subnets
  BY DEF TypeOK, TargetType, L2Type, TableType
<1>2. target.sects \subseteq after.sects
  <2>1. CASE L2Effect(a, after)
    BY <2>1, L2EffectElsewhere
  <2>2. CASE \E S : after = [target EXCEPT !.sects = target.sects \cup S]
    BY <1>1, <2>2
  <2>3. CASE \E r : after = [target EXCEPT !.subnets = r]
    BY <1>1, <2>3
  <2>4. CASE \E row : after = Added("subnets", row)
    <3>1. PICK row : after = Added("subnets", row)
      BY <2>4
    <3> QED BY <1>1, <3>1, AddedFields
  <2> QED BY <2>1, <2>2, <2>3, <2>4 DEF Effect
<1>3. /\ \A i \in DOMAIN target.domains :
           i \in DOMAIN after.domains /\ after.domains[i].name = target.domains[i].name
      /\ \A i \in DOMAIN after.domains \ DOMAIN target.domains :
           i = n /\ a.kind = "create_l2domain" /\ after.domains[i].name = a.domain
  <2>1. CASE after.domains = target.domains
    BY <2>1
  <2>2. CASE \E row : /\ a.kind = "create_l2domain" /\ row.name = a.domain
                      /\ row.sections = {T(a)}
                      /\ after.domains = Put(target.domains, n, row)
    <3> HIDE DEF n
    <3> QED BY <1>1, <2>2 DEF Put
  <2>3. CASE \E id \in DOMAIN target.domains : \E row :
               /\ row.name = target.domains[id].name
               /\ \/ row.sections = target.domains[id].sections
                  \/ a.kind = "attach_l2domain" /\ row.sections = ListedThen(a, id)
               /\ after.domains = [target.domains EXCEPT ![id] = row]
    BY <2>3
  <2> QED BY <2>1, <2>2, <2>3, EffectOnDomains
<1>4. ASSUME NEW i \in DOMAIN after.vlans \cap DOMAIN target.vlans,
             after.vlans[i].domainId = target.vlans[i].domainId,
             after.vlans[i].number = target.vlans[i].number
      PROVE  KeyOf(after, i) = KeyOf(target, i)
  BY <1>3, <1>4 DEF KeyOf, DomainName, Tidy
<1>5. /\ \A i \in DOMAIN after.vlans \cap DOMAIN target.vlans :
           /\ KeyOf(after, i) = KeyOf(target, i)
           /\ after.vlans[i].domainId = target.vlans[i].domainId
      /\ \A i \in DOMAIN after.vlans \ DOMAIN target.vlans :
           /\ i = n /\ a.kind = "create_vlan" /\ KeyOf(after, i) = a.vlan
           /\ after.vlans[i].domainId \in DOMAIN after.domains
  <2>1. CASE after.vlans = target.vlans
    BY <1>4, <2>1
  <2>2. CASE \E row : /\ a.kind = "create_vlan"
                      /\ row.domainId = DomainId(L2Seen, a.vlan[1]) /\ row.domainId # NoId
                      /\ row.number = a.vlan[2]
                      /\ after.vlans = Put(target.vlans, n, row)
                      /\ after.domains = target.domains
    <3>1. PICK row : /\ row.domainId = DomainId(L2Seen, a.vlan[1]) /\ row.domainId # NoId
                     /\ row.number = a.vlan[2]
                     /\ after.vlans = Put(target.vlans, n, row)
                     /\ after.domains = target.domains
      BY <2>2
    <3>2. a.vlan \in VlanKey
      BY <2>2 DEF Action, OnVlan
    <3>3. DomainId(L2Seen, a.vlan[1]) = DomainId(target, a.vlan[1])
      BY LooksShow DEF DomainId, L2Of
    <3>4. /\ row.domainId \in DOMAIN target.domains
          /\ target.domains[row.domainId].name = a.vlan[1]
      BY <1>1, <3>1, <3>3, DomainLookup
    <3> HIDE DEF n
    <3>5. after.vlans[n] = row /\ n \in DOMAIN after.vlans
      BY <3>1 DEF Put
    <3>6. a.vlan = << a.vlan[1], a.vlan[2] >>
      BY <3>2 DEF VlanKey
    <3>7. KeyOf(after, n) = << target.domains[row.domainId].name, row.number >>
      BY <3>1, <3>4, <3>5 DEF KeyOf, DomainName
    <3>8. KeyOf(after, n) = a.vlan
      BY <3>1, <3>4, <3>6, <3>7
    <3>9. \A i \in DOMAIN after.vlans :
            i = n \/ (i \in DOMAIN target.vlans /\ after.vlans[i] = target.vlans[i])
      <4>1. after.vlans = Put(target.vlans, n, row)
        BY <3>1
      <4> QED BY <4>1 DEF Put
    <3>10. ASSUME NEW i \in DOMAIN after.vlans \cap DOMAIN target.vlans
           PROVE  /\ KeyOf(after, i) = KeyOf(target, i)
                  /\ after.vlans[i].domainId = target.vlans[i].domainId
      <4>1. after.vlans[i] = target.vlans[i]
        BY <1>1, <3>9
      <4> QED BY <1>4, <4>1
    <3>11. \A i \in DOMAIN after.vlans \ DOMAIN target.vlans :
             /\ i = n /\ a.kind = "create_vlan" /\ KeyOf(after, i) = a.vlan
             /\ after.vlans[i].domainId \in DOMAIN after.domains
      BY <2>2, <3>1, <3>4, <3>5, <3>8, <3>9
    <3> QED BY <3>10, <3>11
  <2>3. CASE \E id \in DOMAIN target.vlans : \E row :
               /\ row.domainId = target.vlans[id].domainId /\ row.number = target.vlans[id].number
               /\ after.vlans \in {Pop(target.vlans, id), [target.vlans EXCEPT ![id] = row]}
    <3>1. \A i \in DOMAIN after.vlans :
            /\ i \in DOMAIN target.vlans
            /\ after.vlans[i].domainId = target.vlans[i].domainId
            /\ after.vlans[i].number = target.vlans[i].number
      BY <2>3 DEF Pop
    <3> QED BY <1>4, <3>1
  <2> QED BY <2>1, <2>2, <2>3, EffectOnVlans
<1>6. /\ \A i \in DOMAIN after.vrfs \cap DOMAIN target.vrfs :
           /\ after.vrfs[i].name = target.vrfs[i].name
           /\ after.vrfs[i].sections = target.vrfs[i].sections
      /\ \A i \in DOMAIN after.vrfs \ DOMAIN target.vrfs :
           /\ i = n /\ a.kind = "create_vrf" /\ after.vrfs[i].name = a.vrf
           /\ after.vrfs[i].sections = {T(a)} /\ T(a) \in target.sects
  <2>1. CASE after.vrfs = target.vrfs
    BY <2>1
  <2>2. CASE \E row : /\ a.kind = "create_vrf" /\ row.name = a.vrf
                      /\ row.sections = {T(a)} /\ T(a) \in SectsSeen
                      /\ after.vrfs = Put(target.vrfs, n, row)
    <3>1. SectsSeen = target.sects
      BY LooksShow
    <3> HIDE DEF n
    <3> QED BY <1>1, <2>2, <3>1 DEF Put
  <2>3. CASE \E id \in DOMAIN target.vrfs : \E row :
               /\ row.name = target.vrfs[id].name /\ row.sections = target.vrfs[id].sections
               /\ after.vrfs \in {Pop(target.vrfs, id), [target.vrfs EXCEPT ![id] = row]}
    BY <2>3 DEF Pop
  <2> QED BY <2>1, <2>2, <2>3, EffectOnVrfs
<1>7. \A i \in DOMAIN target.subnets : target.subnets[i] \in SubnetRow
  BY DEF TypeOK, TargetType, TableType
<1>8. /\ \A i \in DOMAIN after.subnets \cap DOMAIN target.subnets :
           /\ after.subnets[i].section = target.subnets[i].section
           /\ after.subnets[i].cidr = target.subnets[i].cidr
      /\ \A i \in DOMAIN after.subnets \ DOMAIN target.subnets :
           /\ i = n /\ after.subnets[i].section = T(a) /\ after.subnets[i].cidr = a.cidr
           /\ SubnetId(target.subnets, T(a), a.cidr) = NoId
  <2>1. CASE after.subnets = target.subnets
    BY <2>1
  <2>2. CASE \E id : DOMAIN after.vlans # DOMAIN target.vlans /\ after.subnets = Unlinked(id)
    BY <1>7, <2>2 DEF Unlinked, SubnetRow
  <2>3. CASE \E id : DOMAIN after.vrfs # DOMAIN target.vrfs /\ after.subnets = Unrouted(id)
    BY <1>7, <2>3 DEF Unrouted, SubnetRow
  <2>4. CASE /\ SubnetId(target.subnets, T(a), a.cidr) = NoId
             /\ after.subnets = Put(target.subnets, n, NewSubnet(a))
    <3> HIDE DEF n
    <3> QED BY <1>1, <2>4 DEF Put, NewSubnet
  <2>5. CASE \E id, row : /\ id = SubnetId(ListingSeen(T(a)), T(a), a.cidr) /\ Relinked(id, row)
                          /\ after.subnets = [target.subnets EXCEPT ![id] = row]
    BY <1>7, <2>5 DEF Relinked, SubnetRow
  <2> QED BY <2>1, <2>2, <2>3, <2>4, <2>5, EffectOnSubnets
<1> QED BY <1>2, <1>3, <1>5, <1>6, <1>8 DEF EffectNames

\* An action that creates a record is wanted when the record is not there; two
\* that would create the same record are rivals.
Wanted(a, t) ==
  /\ a.kind = "create_l2domain" => ~ HasDomain(t, a.domain)
  /\ a.kind = "create_vlan" => ~ HasVlan(t, a.vlan)
  /\ a.kind = "create_vrf" => ~ HasVrf(t, a.vrf, T(a))

Rivals(a, b) ==
  \/ a.kind = "create_l2domain" /\ b.kind = "create_l2domain" /\ a.domain = b.domain
  \/ a.kind = "create_vlan" /\ b.kind = "create_vlan" /\ a.vlan = b.vlan
  \/ a.kind = "create_vrf" /\ b.kind = "create_vrf" /\ a.vrf = b.vrf /\ T(a) = T(b)

\* A wanted action leaves the target tidy, and what is not its rival wanted.
LEMMA EffectTidies ==
  ASSUME TypeOK, Shows(view, target), Tidy(target), NEW a \in Action, Wanted(a, target),
         NEW after, NEW looked, NEW dropped, NEW fresh, Effect(a, after, looked, dropped, fresh)
  PROVE  /\ Tidy(after)
         /\ \A name : HasDomain(target, name) => HasDomain(after, name)
         /\ \A b : Wanted(b, target) /\ ~ Rivals(a, b) => Wanted(b, after)
<1>1. EffectNames(a, after)
  BY EffectKeepsNames
<1>2. \A i, j \in DOMAIN after.domains : after.domains[i].name = after.domains[j].name => i = j
  BY <1>1 DEF EffectNames, Tidy, Wanted, HasDomain
<1>3. \A i, j \in DOMAIN after.vlans : KeyOf(after, i) = KeyOf(after, j) => i = j
  BY <1>1 DEF EffectNames, Tidy, Wanted, HasVlan
<1>4. ASSUME NEW i \in DOMAIN after.vrfs, NEW j \in DOMAIN after.vrfs,
             NEW s \in after.vrfs[i].sections \cap after.vrfs[j].sections,
             after.vrfs[i].name = after.vrfs[j].name
      PROVE  i = j
  BY <1>1, <1>4 DEF EffectNames, Tidy, Wanted, HasVrf
<1>5. ASSUME NEW i \in DOMAIN after.subnets, NEW j \in DOMAIN after.subnets,
             after.subnets[i].section = after.subnets[j].section,
             after.subnets[i].cidr = after.subnets[j].cidr
      PROVE  i = j
  <2>1. SubnetId(target.subnets, T(a), a.cidr) = NoId =>
          \A k \in DOMAIN target.subnets :
            ~ (target.subnets[k].section = T(a) /\ target.subnets[k].cidr = a.cidr)
    BY TargetTables, SubnetLookup DEF TypeOK, TargetType
  <2> QED BY <1>1, <1>5, <2>1 DEF EffectNames, Tidy
<1>6. \A i \in DOMAIN after.vlans : after.vlans[i].domainId \in DOMAIN after.domains
  BY <1>1 DEF EffectNames, Tidy
<1>7. \A i \in DOMAIN after.vrfs : after.vrfs[i].sections \subseteq after.sects
  BY <1>1 DEF EffectNames, Tidy
<1>8. Tidy(after)
  BY <1>2, <1>3, <1>4, <1>5, <1>6, <1>7 DEF Tidy
<1>9. \A name : HasDomain(target, name) => HasDomain(after, name)
  BY <1>1 DEF EffectNames, HasDomain
<1>10. ASSUME NEW b, Wanted(b, target), ~ Rivals(a, b)
       PROVE  Wanted(b, after)
  <2>1. b.kind = "create_l2domain" => ~ HasDomain(after, b.domain)
    BY <1>1, <1>10 DEF EffectNames, Wanted, Rivals, HasDomain
  <2>2. b.kind = "create_vlan" => ~ HasVlan(after, b.vlan)
    BY <1>1, <1>10 DEF EffectNames, Wanted, Rivals, HasVlan
  <2>3. b.kind = "create_vrf" => ~ HasVrf(after, b.vrf, T(b))
    BY <1>1, <1>10 DEF EffectNames, Wanted, Rivals, HasVrf
  <2> QED BY <2>1, <2>2, <2>3 DEF Wanted
<1> QED BY <1>8, <1>9, <1>10

\* What every target that a behaviour may start from has: names that are in use once.
TidyTargets == \A t \in Targets : Tidy(t)

Established(name) == \A t \in Targets : HasDomain(t, name)

\* No two section documents of one source ask for the same new record.
OwnRecords ==
  \A c \in Configs, n \in Source : \A p \in Snapshots[n] : \A s, u \in DOMAIN p.docs :
    s # u =>
      /\ \A name \in DOMAIN p.docs[s].domains \cap DOMAIN p.docs[u].domains : Established(name)
      /\ DOMAIN p.docs[s].vlans \cap DOMAIN p.docs[u].vlans = {}
      /\ DOMAIN p.docs[s].vrfs \cap DOMAIN p.docs[u].vrfs # {} =>
           TargetName(c.sources[n], s) # TargetName(c.sources[n], u)

NameInv ==
  faults = 0 /\ edits = 0 =>
    /\ Tidy(target)
    /\ \A name \in Domain : Established(name) => HasDomain(target, name)
    /\ applying => \A a \in pending : /\ Wanted(a, target)
                                       /\ \A b \in pending : Rivals(a, b) => a = b

\* A plan asks for what is not there, and for nothing twice.
LEMMA PlanWants ==
  ASSUME OwnRecords, TypeOK, Shows(view, target), Tidy(target), running, queue # << >>,
         \A name \in Domain : Established(name) => HasDomain(target, name),
         NEW a \in Plan(C, P, Seen, Deleting)
  PROVE  /\ Wanted(a, target)
         /\ \A b \in Plan(C, P, Seen, Deleting) : Rivals(a, b) => a = b
<1>1. /\ Current \in Source /\ P \in Snapshots[Current] /\ SnapshotType(P)
      /\ config \in Configs /\ C = config.sources[Current]
      /\ target.nextId \in Nat /\ L2Type(target, target.nextId)
  BY CurrentType, FanInAssumption DEF FanInAssumption, TypeOK, TargetType, C, P
<1>2. /\ Seen.sects = target.sects /\ Seen.domains = target.domains
      /\ Seen.vlans = target.vlans /\ Seen.vrfs = target.vrfs
  BY LooksShow DEF Seen, L2Of
<1>3. L2Type(Seen, target.nextId)
  BY <1>1, <1>2 DEF L2Type
<1> DEFINE domain(x, s) ==
             /\ s \in DOMAIN P.docs /\ x.domain \in DOMAIN P.docs[s].domains /\ x.domain \in Domain
             /\ x = OfDomain("create_l2domain", s, x.domain, P.docs[s].domains[x.domain])
           vlan(x, s) ==
             /\ s \in DOMAIN P.docs /\ x.vlan \in DOMAIN P.docs[s].vlans
             /\ x = OfVlan("create_vlan", s, x.vlan, P.docs[s].vlans[x.vlan])
           vrf(x, s) ==
             /\ s \in DOMAIN P.docs /\ x.vrf \in DOMAIN P.docs[s].vrfs
             /\ x = OfVrf("create_vrf", s, x.vrf, P.docs[s].vrfs[x.vrf])
             /\ T(x) = TargetName(C, s)
<1>4. ASSUME NEW x \in Plan(C, P, Seen, Deleting), x.kind = "create_l2domain"
      PROVE  ~ HasDomain(target, x.domain) /\ \E s : domain(x, s)
  <2>1. x \in DomainCreates(C, P, Seen)
    BY <1>1, <1>3, <1>4, PlanType
  <2>2. PICK s, m : /\ s \in DOMAIN P.docs /\ m \in DOMAIN P.docs[s].domains
                  /\ DomainId(Seen, m) = NoId
                  /\ x = OfDomain("create_l2domain", s, m, P.docs[s].domains[m])
    BY <2>1 DEF DomainCreates
  <2>3. s \in Section /\ m \in Domain /\ P.docs[s].domains[m] \in FieldValue
    BY <1>1, <2>2 DEF SnapshotType, SectionDocument, IsMap
  <2>4. x.domain = m
    BY <2>2, <2>3, DomainForm DEF OnDomain
  <2>5. ~ HasDomain(target, m)
    BY <1>1, <1>2, <1>3, <2>2, DomainLookup DEF HasDomain
  <2> QED BY <2>2, <2>3, <2>4, <2>5
<1>5. ASSUME NEW x \in Plan(C, P, Seen, Deleting), x.kind = "create_vlan"
      PROVE  ~ HasVlan(target, x.vlan) /\ \E s : vlan(x, s)
  <2>1. x \in VlanCreates(C, P, Seen)
    BY <1>1, <1>3, <1>5, PlanType
  <2>2. PICK s, m : /\ s \in DOMAIN P.docs /\ m \in DOMAIN P.docs[s].vlans
                  /\ VlanId(Seen, m) = NoId
                  /\ x = OfVlan("create_vlan", s, m, P.docs[s].vlans[m])
    BY <2>1 DEF VlanCreates
  <2>3. s \in Section /\ m \in VlanKey /\ P.docs[s].vlans[m] \in FieldValue
    BY <1>1, <2>2 DEF SnapshotType, SectionDocument, IsMap
  <2>4. x.vlan = m
    BY <2>2, <2>3, VlanForm DEF OnVlan
  <2>5. \A i : KeyOf(Seen, i) = KeyOf(target, i)
    BY <1>2 DEF KeyOf, DomainName
  <2>6. ~ HasVlan(target, m)
    BY <1>1, <1>2, <1>3, <2>2, <2>5, VlanLookup DEF HasVlan
  <2> QED BY <2>2, <2>4, <2>6
<1>6. ASSUME NEW x \in Plan(C, P, Seen, Deleting), x.kind = "create_vrf"
      PROVE  ~ HasVrf(target, x.vrf, T(x)) /\ \E s : vrf(x, s)
  <2>1. x \in VrfCreates(C, P, Seen)
    BY <1>1, <1>3, <1>6, PlanType
  <2>2. PICK s, m : /\ s \in DOMAIN P.docs /\ m \in DOMAIN P.docs[s].vrfs
                  /\ CurrentVrf(C, s, Seen, m) = NoId
                  /\ x = OfVrf("create_vrf", s, m, P.docs[s].vrfs[m])
    BY <2>1 DEF VrfCreates
  <2>3. s \in Section /\ m \in Vrf /\ P.docs[s].vrfs[m] \in FieldValue
    BY <1>1, <2>2 DEF SnapshotType, SectionDocument, IsMap
  <2>4. x.vrf = m /\ x.section = s
    BY <2>2, <2>3, VrfForm DEF OnVrf
  <2>5. T(x) = TargetName(C, s)
    BY <2>4 DEF T
  <2>6. CASE T(x) \in target.sects
    <3>1. VrfId(Seen, m, T(x)) = NoId
      BY <1>2, <2>2, <2>5, <2>6 DEF CurrentVrf, Resolved
    <3>2. \A i \in DOMAIN Seen.vrfs : ~ (Seen.vrfs[i].name = m /\ T(x) \in Seen.vrfs[i].sections)
      BY <1>1, <1>3, <3>1, VrfLookup
    <3> QED BY <1>2, <2>2, <2>4, <2>5, <3>2 DEF HasVrf
  <2>7. CASE T(x) \notin target.sects
    BY <2>2, <2>4, <2>5, <2>7 DEF HasVrf, Tidy
  <2> QED BY <2>6, <2>7
<1>7. Wanted(a, target)
  BY <1>4, <1>5, <1>6 DEF Wanted
<1>8. ASSUME NEW b \in Plan(C, P, Seen, Deleting), Rivals(a, b)
      PROVE  a = b
  <2>1. CASE a.kind = "create_l2domain" /\ b.kind = "create_l2domain" /\ a.domain = b.domain
    <3>1. PICK s, u : domain(a, s) /\ domain(b, u)
      BY <1>4, <2>1
    <3>2. s = u
      BY <1>1, <1>4, <2>1, <3>1 DEF OwnRecords
    <3> QED BY <2>1, <3>1, <3>2
  <2>2. CASE a.kind = "create_vlan" /\ b.kind = "create_vlan" /\ a.vlan = b.vlan
    <3>1. PICK s, u : vlan(a, s) /\ vlan(b, u)
      BY <1>5, <2>2
    <3>2. s = u
      BY <1>1, <2>2, <3>1 DEF OwnRecords
    <3> QED BY <2>2, <3>1, <3>2
  <2>3. CASE a.kind = "create_vrf" /\ b.kind = "create_vrf" /\ a.vrf = b.vrf /\ T(a) = T(b)
    <3>1. PICK s, u : vrf(a, s) /\ vrf(b, u)
      BY <1>6, <2>3
    <3>2. TargetName(C, s) = TargetName(C, u)
      BY <2>3, <3>1
    <3>3. DOMAIN P.docs[s].vrfs \cap DOMAIN P.docs[u].vrfs # {}
      BY <2>3, <3>1
    <3>4. s = u
      BY <1>1, <3>1, <3>2, <3>3 DEF OwnRecords
    <3> QED BY <2>3, <3>1, <3>4
  <2> QED BY <1>8, <2>1, <2>2, <2>3 DEF Rivals
<1> QED BY <1>7, <1>8

\* No step makes a second record of one name.
LEMMA StepKeepsNames ==
  ASSUME OwnRecords, TypeOK, ViewCoherent, NameInv, [Next]_vars
  PROVE  NameInv'
<1> SUFFICES ASSUME faults' = 0, edits' = 0
             PROVE  /\ Tidy(target')
                    /\ \A name \in Domain : Established(name) => HasDomain(target', name)
                    /\ applying' => \A a \in pending' :
                         /\ Wanted(a, target)'
                         /\ \A b \in pending' : Rivals(a, b)' => a = b
  BY DEF NameInv, Tidy, HasDomain, KeyOf, DomainName
<1>1. faults \in Nat /\ edits \in Nat
  BY FanInAssumption DEF FanInAssumption, TypeOK
<1>2. ~ Fault
  BY StillFaultless
<1>3. CASE Operator
  BY <1>1, <1>3, OperatorEdits DEF Edit
<1>4. CASE JobEnds /\ UNCHANGED faults
  BY <1>4 DEF JobEnds, NameInv
<1>5. CASE Execute
  <2>1. PICK a \in pending : Handle(a)
    BY <1>5 DEF Execute
  <2>2. PICK after, looked, dropped, fresh :
          looked \in Looks(a) /\ Ended(a, after, looked, dropped, fresh)
    BY <2>1, HandlerEnds
  <2>3. /\ pending' = pending \ {a} /\ UNCHANGED << config, queue, applying, edits, faults >>
    BY <1>2, <2>2 DEF Ended, Taken
  <2>4. /\ Shows(view, target) /\ Tidy(target) /\ a \in Action
        /\ \A name \in Domain : Established(name) => HasDomain(target, name)
        /\ applying /\ \A b \in pending : /\ Wanted(b, target)
                                          /\ \A d \in pending : Rivals(b, d) => b = d
    BY <1>5, <2>3 DEF Execute, NameInv, ViewCoherent, TypeOK
  <2>5. \A b : T(b)' = T(b)
    BY <2>3 DEF T, C, Current
  <2>6. /\ Tidy(target')
        /\ \A name : HasDomain(target, name) => HasDomain(target', name)
        /\ \A b : Wanted(b, target) /\ ~ Rivals(a, b) => Wanted(b, target')
    <3>1. CASE target' = target
      BY <2>4, <3>1
    <3>2. CASE Effect(a, after, looked, dropped, fresh) /\ target' = after
      BY <2>4, <3>2, EffectTidies
    <3> QED BY <2>2, <3>1, <3>2 DEF Ended
  <2>7. \A b \in pending' : Wanted(b, target')
    BY <2>3, <2>4, <2>6
  <2>8. \A b : Wanted(b, target') => Wanted(b, target)'
    BY <2>5 DEF Wanted, HasDomain, HasVlan, HasVrf, KeyOf, DomainName
  <2>9. \A b, d : Rivals(b, d)' => Rivals(b, d)
    BY <2>5 DEF Rivals
  <2> QED BY <2>3, <2>4, <2>6, <2>7, <2>8, <2>9
<1>6. CASE PlanSource
  <2>1. /\ UNCHANGED << target, config, snap, queue, edits, faults >>
        /\ pending' = Plan(C, P, Seen, Deleting) /\ running /\ queue # << >>
    BY <1>6 DEF PlanSource, Waiting
  <2>2. /\ Shows(view, target) /\ Tidy(target)
        /\ \A name \in Domain : Established(name) => HasDomain(target, name)
    BY <2>1 DEF NameInv, ViewCoherent
  <2>3. \A a \in pending' : /\ Wanted(a, target)
                            /\ \A b \in pending' : Rivals(a, b) => a = b
    BY <2>1, <2>2, PlanWants
  <2>4. \A b : T(b)' = T(b)
    BY <2>1 DEF T, C, Current
  <2>5. \A b : Wanted(b, target) => Wanted(b, target)'
    BY <2>1, <2>4 DEF Wanted, HasDomain, HasVlan, HasVrf, KeyOf, DomainName
  <2>6. \A b, d : Rivals(b, d)' => Rivals(b, d)
    BY <2>4 DEF Rivals
  <2> QED BY <2>1, <2>2, <2>3, <2>5, <2>6
<1>7. CASE UNCHANGED << target, edits, faults >> /\ ~ applying'
  BY <1>7 DEF NameInv
<1>8. CASE UNCHANGED << target, edits, faults, pending, applying, config, queue >>
  <2>1. \A b : T(b)' = T(b)
    BY <1>8 DEF T, C, Current
  <2>2. \A b : Wanted(b, target) => Wanted(b, target)'
    BY <1>8, <2>1 DEF Wanted, HasDomain, HasVlan, HasVrf, KeyOf, DomainName
  <2>3. \A b, d : Rivals(b, d)' => Rivals(b, d)
    BY <2>1 DEF Rivals
  <2> QED BY <1>8, <2>2, <2>3 DEF NameInv
<1>9. \/ Operator \/ (JobEnds /\ UNCHANGED faults) \/ Execute \/ PlanSource
      \/ UNCHANGED << target, edits, faults >> /\ ~ applying'
      \/ UNCHANGED << target, edits, faults, pending, applying, config, queue >>
  <2>1. CASE StartJob
    BY <2>1 DEF StartJob, TypeOK
  <2>2. CASE SourceFails
    BY <1>2, <2>2 DEF SourceFails, GiveUp, Waiting
  <2>3. CASE JobAborts \/ Crash
    BY <1>2, <2>3 DEF JobAborts, Crash
  <2> QED BY <2>1, <2>2, <2>3 DEF Next, JobStep, FinishSource, FinishJob, Deliver, vars
<1> QED BY <1>3, <1>4, <1>5, <1>6, <1>7, <1>8, <1>9

LEMMA NamesInvariant ==
  ASSUME OwnRecords, TidyTargets
  PROVE  Spec => []NameInv
<1>1. Init => NameInv
  BY DEF Init, NameInv, TidyTargets, Established
<1>2. TypeOK /\ ViewCoherent /\ NameInv /\ [Next]_vars => NameInv'
  BY StepKeepsNames
<1> QED BY <1>1, <1>2, TypeCorrect, ViewStaysCoherent, PTL DEF Spec

(***************************************************************************)
(* The natural keys are keys (README.md:199-203): if they are on the       *)
(* targets to begin with, and no two section documents of one source ask   *)
(* for the same new record, no job makes a second record of one name,      *)
(* whatever its sources share and in whatever order it takes them up,      *)
(* while no answer is lost and nobody else writes.                         *)
(***************************************************************************)
THEOREM NamesAreUnique ==
  ASSUME OwnRecords, TidyTargets
  PROVE  Spec => []NeverTwice
<1>1. NameInv => NeverTwice
  BY DEF NameInv, Tidy, NeverTwice, Scoped
<1> QED BY <1>1, NamesInvariant, PTL

(***************************************************************************)
(* The plan is the difference (plan.py:1-10): whatever has failed and      *)
(* whoever has edited, there is nothing to plan for a source that is found *)
(* on a target where every name is in use once; as it is, under the        *)
(* conditions above, while no answer is lost and nobody else writes.       *)
(***************************************************************************)
THEOREM MirroredNeedsNothing ==
  /\ Spec => []MirroredIsQuiet
  /\ OwnRecords /\ TidyTargets => (Spec => [](faults = 0 /\ edits = 0 => Tidy(target)))
<1>1. TypeOK => MirroredIsQuiet
  BY NothingToPlan DEF MirroredIsQuiet
<1>2. ASSUME OwnRecords, TidyTargets
      PROVE  Spec => [](faults = 0 /\ edits = 0 => Tidy(target))
  <2>1. NameInv => (faults = 0 /\ edits = 0 => Tidy(target))
    BY DEF NameInv
  <2>2. Spec => []NameInv
    BY <1>2, NamesInvariant
  <2> QED BY <2>1, <2>2, PTL
<1>3. Spec => []MirroredIsQuiet
  BY <1>1, TypeCorrect, PTL
<1> QED BY <1>2, <1>3

(***************************************************************************)
(* Deletions.                                                              *)
(***************************************************************************)
\* An action deletes what it resolves to, and no other action deletes anything.
LEMMA EffectDeletes ==
  ASSUME TypeOK, NEW a \in Action, NEW after, NEW looked, NEW dropped, NEW fresh,
         Effect(a, after, looked, dropped, fresh)
  PROVE  /\ \A i \in DOMAIN target.vlans \ DOMAIN after.vlans :
              a.kind = "delete_vlan" /\ i = VlanId(L2Seen, a.vlan)
         /\ \A i \in DOMAIN target.vrfs \ DOMAIN after.vrfs :
              a.kind = "delete_vrf" /\ i = VrfId(L2Seen, a.vrf, T(a))
<1> DEFINE n == target.nextId
<1>1. /\ target \in [sects : SUBSET Section, domains : {target.domains}, vlans : {target.vlans},
                     vrfs : {target.vrfs}, subnets : {target.subnets}, nextId : Nat \ {NoId}]
      /\ TargetType(target)
  BY DEF TypeOK, TargetType
<1>2. CASE \/ \E S : after = [target EXCEPT !.sects = S]
           \/ \E r : after = [target EXCEPT !.domains = r]
           \/ \E r : after = [target EXCEPT !.subnets = r]
           \/ \E id \in DOMAIN target.vlans : \E row :
                after = [target EXCEPT !.vlans = [target.vlans EXCEPT ![id] = row]]
           \/ \E id \in DOMAIN target.vrfs : \E row :
                after = [target EXCEPT !.vrfs = [target.vrfs EXCEPT ![id] = row]]
  BY <1>1, <1>2
<1>3. CASE \E row : \E table \in {"domains", "vlans", "vrfs", "subnets"} : after = Added(table, row)
  <2>1. PICK row : \E table \in {"domains", "vlans", "vrfs", "subnets"} : after = Added(table, row)
    BY <1>3
  <2>2. /\ after.vlans = target.vlans \/ after.vlans = Put(target.vlans, n, row)
        /\ after.vrfs = target.vrfs \/ after.vrfs = Put(target.vrfs, n, row)
    <3>1. CASE after = Added("domains", row)
      BY <1>1, <3>1, AddedFields
    <3>2. CASE after = Added("vlans", row)
      BY <1>1, <3>2, AddedFields
    <3>3. CASE after = Added("vrfs", row)
      BY <1>1, <3>3, AddedFields
    <3>4. CASE after = Added("subnets", row)
      BY <1>1, <3>4, AddedFields
    <3> QED BY <2>1, <3>1, <3>2, <3>3, <3>4
  <2> HIDE DEF n
  <2>3. DOMAIN target.vlans \subseteq DOMAIN after.vlans /\ DOMAIN target.vrfs \subseteq DOMAIN after.vrfs
    BY <2>2 DEF Put
  <2> QED BY <2>3
<1>4. CASE a.kind = "delete_vlan" /\ after = WithoutVlan(VlanId(L2Seen, a.vlan))
  <2> DEFINE id == VlanId(L2Seen, a.vlan)
  <2> HIDE DEF id
  <2>1. after.vlans = Pop(target.vlans, id) /\ after.vrfs = target.vrfs
    BY <1>1, <1>4, WithoutTables DEF id
  <2>2. \A i \in DOMAIN target.vlans \ DOMAIN after.vlans : i = id
    BY <2>1 DEF Pop
  <2> QED BY <1>4, <2>1, <2>2 DEF id
<1>5. CASE a.kind = "delete_vrf" /\ after = WithoutVrf(VrfId(L2Seen, a.vrf, T(a)))
  <2> DEFINE id == VrfId(L2Seen, a.vrf, T(a))
  <2> HIDE DEF id
  <2>1. after.vrfs = Pop(target.vrfs, id) /\ after.vlans = target.vlans
    BY <1>1, <1>5, WithoutTables DEF id
  <2>2. \A i \in DOMAIN target.vrfs \ DOMAIN after.vrfs : i = id
    BY <2>1 DEF Pop
  <2> QED BY <1>5, <2>1, <2>2 DEF id
<1>6. CASE L2Effect(a, after)
  <2>1. \/ \E row : \/ after = Added("domains", row)
                    \/ after = Added("vlans", row)
                    \/ after = Added("vrfs", row)
        \/ \E r : after = [target EXCEPT !.domains = r]
        \/ \E id \in DOMAIN target.vlans : \E row :
             after = [target EXCEPT !.vlans = [target.vlans EXCEPT ![id] = row]]
        \/ \E id \in DOMAIN target.vrfs : \E row :
             after = [target EXCEPT !.vrfs = [target.vrfs EXCEPT ![id] = row]]
        \/ a.kind = "delete_vlan" /\ after = WithoutVlan(VlanId(L2Seen, a.vlan))
        \/ a.kind = "delete_vrf" /\ after = WithoutVrf(VrfId(L2Seen, a.vrf, T(a)))
    BY <1>6 DEF L2Effect
  <2> QED BY <1>2, <1>3, <1>4, <1>5, <2>1
<1>7. CASE ~ L2Effect(a, after)
  BY <1>2, <1>3, <1>7 DEF Effect
<1> QED BY <1>6, <1>7

\* A source has a section document for at most one section.
OneSection ==
  \A n \in Source : \A p \in Snapshots[n] : \A s, u \in DOMAIN p.docs : s = u

\* Every row of the table that has the name, and lists section t, lists only t.
OwnDomain(x, name, t) ==
  \A i \in DOMAIN x.domains : x.domains[i].name = name => x.domains[i].sections = {t}

OwnVrf(x, name, t) ==
  \A i \in DOMAIN x.vrfs :
    x.vrfs[i].name = name /\ t \in x.vrfs[i].sections => x.vrfs[i].sections = {t}

\* What makes a pending deletion one of an orphan of the section's own.
Orphaned(a, x) ==
  /\ a.kind \in OnDomain => a.section \in DOMAIN P.docs
  /\ a.kind = "delete_vlan" =>
       \E s \in DOMAIN P.docs :
         OwnDomain(x, a.vlan[1], TargetName(C, s)) /\ a.vlan \notin DOMAIN P.docs[s].vlans
  /\ a.kind = "delete_vrf" =>
       \E s \in DOMAIN P.docs :
         /\ T(a) = TargetName(C, s) /\ OwnVrf(x, a.vrf, T(a))
         /\ a.vrf \notin DOMAIN P.docs[s].vrfs

OrphanInv == faults = 0 /\ edits = 0 /\ applying => \A a \in pending : Orphaned(a, target)

\* The domains and VRFs that are the section's alone stay so, whatever is done for it.
LEMMA EffectKeepsOrphans ==
  ASSUME OneSection, TypeOK, running, queue # << >>, Shows(view, target), Tidy(target),
         NEW a \in Action, Orphaned(a, target),
         NEW after, NEW looked, NEW dropped, NEW fresh, Effect(a, after, looked, dropped, fresh)
  PROVE  \A b : Orphaned(b, target) => Orphaned(b, after)
<1> DEFINE n == target.nextId
<1>1. \A s, u \in DOMAIN P.docs : s = u
  BY CurrentType DEF OneSection, TypeOK, P
<1>2. ASSUME NEW s \in DOMAIN P.docs, NEW name, OwnDomain(target, name, TargetName(C, s))
      PROVE  OwnDomain(after, name, TargetName(C, s))
  <2>1. a.kind \in OnDomain => T(a) = TargetName(C, s)
    BY <1>1 DEF Orphaned, T
  <2>2. CASE after.domains = target.domains
    BY <1>2, <2>2 DEF OwnDomain
  <2>3. CASE \E row : /\ a.kind = "create_l2domain" /\ row.name = a.domain
                      /\ row.sections = {T(a)}
                      /\ after.domains = Put(target.domains, n, row)
    <3> HIDE DEF n
    <3> QED BY <1>2, <2>1, <2>3 DEF OwnDomain, OnDomain, Put
  <2>4. CASE \E id \in DOMAIN target.domains : \E row :
               /\ row.name = target.domains[id].name
               /\ \/ row.sections = target.domains[id].sections
                  \/ a.kind = "attach_l2domain" /\ row.sections = ListedThen(a, id)
               /\ after.domains = [target.domains EXCEPT ![id] = row]
    <3>1. \A id : ListedThen(a, id) = target.domains[id].sections \cup {T(a)}
      BY LooksShow DEF ListedThen, L2Of
    <3> QED BY <1>2, <2>1, <2>4, <3>1 DEF OwnDomain, OnDomain
  <2> QED BY <2>2, <2>3, <2>4, EffectOnDomains
<1>3. ASSUME NEW t, NEW name, OwnVrf(target, name, t)
      PROVE  OwnVrf(after, name, t)
  <2>1. EffectNames(a, after)
    BY EffectKeepsNames
  <2> QED BY <1>3, <2>1 DEF EffectNames, OwnVrf
<1> QED BY <1>2, <1>3 DEF Orphaned

\* What is planned for deletion is the section's alone.
LEMMA PlanOrphans ==
  ASSUME TypeOK, Shows(view, target), Tidy(target), running, queue # << >>,
         NEW a \in Plan(C, P, Seen, Deleting)
  PROVE  Orphaned(a, target)
<1>1. /\ SnapshotType(P) /\ target.nextId \in Nat /\ L2Type(target, target.nextId)
  BY CurrentType, FanInAssumption DEF FanInAssumption, TypeOK, TargetType, P
<1>2. /\ Seen.domains = target.domains /\ Seen.vlans = target.vlans /\ Seen.vrfs = target.vrfs
  BY LooksShow DEF Seen, L2Of
<1>3. L2Type(Seen, target.nextId)
  BY <1>1, <1>2 DEF L2Type
<1>4. /\ a.kind \in OnDomain => a.section \in DOMAIN P.docs
      /\ a.kind = "delete_vlan" => a \in VlanOrphans(C, P, Seen)
      /\ a.kind = "delete_vrf" => a \in VrfOrphans(C, P, Seen)
  BY <1>1, <1>3, PlanType
<1>5. ASSUME a \in VlanOrphans(C, P, Seen)
      PROVE  \E s \in DOMAIN P.docs :
               OwnDomain(target, a.vlan[1], TargetName(C, s)) /\ a.vlan \notin DOMAIN P.docs[s].vlans
  <2>1. PICK s \in DOMAIN P.docs :
          \E k : /\ \E d \in OwnedDomains(Seen, TargetName(C, s)) : k[1] = Seen.domains[d].name
                 /\ \E i \in DOMAIN Seen.vlans : k = KeyOf(Seen, i)
                 /\ k \notin DOMAIN P.docs[s].vlans
                 /\ a = OfVlan("delete_vlan", s, k, NoFields)
    BY <1>5 DEF VlanOrphans
  <2>2. PICK k, d, i : /\ d \in OwnedDomains(Seen, TargetName(C, s)) /\ k[1] = Seen.domains[d].name
                       /\ i \in DOMAIN Seen.vlans /\ k = KeyOf(Seen, i)
                       /\ k \notin DOMAIN P.docs[s].vlans
                       /\ a = OfVlan("delete_vlan", s, k, NoFields)
    BY <2>1
  <2>3. a.vlan = k
    BY <2>2 DEF OfVlan, Blank
  <2>4. d \in DOMAIN target.domains /\ target.domains[d].sections = {TargetName(C, s)}
    <3>1. \A x \in IndexedDomains(Seen) : x \in DOMAIN Seen.domains
      BY <1>3, <1>1, DomainLookup DEF IndexedDomains
    <3> QED BY <1>2, <2>2, <3>1 DEF OwnedDomains
  <2>5. OwnDomain(target, k[1], TargetName(C, s))
    BY <1>2, <2>2, <2>4 DEF OwnDomain, Tidy
  <2> QED BY <2>2, <2>3, <2>5
<1>6. ASSUME a \in VrfOrphans(C, P, Seen)
      PROVE  \E s \in DOMAIN P.docs : /\ T(a) = TargetName(C, s) /\ OwnVrf(target, a.vrf, T(a))
                                      /\ a.vrf \notin DOMAIN P.docs[s].vrfs
  <2>1. PICK s \in DOMAIN P.docs :
          \E i \in OwnedVrfs(Seen, TargetName(C, s)) :
            /\ Seen.vrfs[i].name \notin DOMAIN P.docs[s].vrfs
            /\ a = OrphanedVrf(s, Seen.vrfs[i].name, i)
    BY <1>6 DEF VrfOrphans
  <2>2. PICK i \in OwnedVrfs(Seen, TargetName(C, s)) :
          /\ Seen.vrfs[i].name \notin DOMAIN P.docs[s].vrfs
          /\ a = OrphanedVrf(s, Seen.vrfs[i].name, i)
    BY <2>1
  <2>3. a.vrf = Seen.vrfs[i].name /\ a.section = s
    BY <2>2 DEF OrphanedVrf, OfVrf, Blank
  <2>4. /\ i \in DOMAIN target.vrfs /\ target.vrfs[i].name = a.vrf
        /\ target.vrfs[i].sections = {T(a)} /\ T(a) = TargetName(C, s)
    BY <1>2, <2>2, <2>3 DEF OwnedVrfs, T
  <2>5. OwnVrf(target, a.vrf, T(a))
    BY <2>4 DEF OwnVrf, Tidy
  <2> QED BY <2>2, <2>3, <2>4, <2>5
<1> QED BY <1>4, <1>5, <1>6 DEF Orphaned

\* An action of a step that nothing disturbs.
LEMMA Undisturbed ==
  ASSUME TypeOK, ViewCoherent, NameInv, OrphanInv, NEW a \in pending, Handle(a),
         running, applying, faults' = 0, edits = 0
  PROVE  /\ a \in Action /\ Shows(view, target) /\ Tidy(target) /\ queue # << >>
         /\ Orphaned(a, target)
         /\ \/ target' = target
            \/ \E after, looked, dropped, fresh :
                 Effect(a, after, looked, dropped, fresh) /\ target' = after
<1>1. PICK after, looked, dropped, fresh :
        looked \in Looks(a) /\ Ended(a, after, looked, dropped, fresh)
  BY HandlerEnds
<1>2. faults = 0
  BY <1>1, StillFaultless DEF Ended
<1> QED BY <1>1, <1>2 DEF TypeOK, ViewCoherent, NameInv, OrphanInv, Ended

\* No step takes from a planned deletion what makes it one.
LEMMA StepKeepsOrphans ==
  ASSUME OneSection, TypeOK, ViewCoherent, NameInv, OrphanInv, [Next]_vars
  PROVE  OrphanInv'
<1> SUFFICES ASSUME faults' = 0, edits' = 0, applying', NEW a \in pending'
             PROVE  Orphaned(a, target)'
  BY DEF OrphanInv
<1>1. faults \in Nat /\ edits \in Nat
  BY FanInAssumption DEF FanInAssumption, TypeOK
<1>2. ~ Fault
  BY StillFaultless
<1>3. ASSUME UNCHANGED << config, snap, queue >>, Orphaned(a, target')
      PROVE  Orphaned(a, target)'
  <2>1. P' = P /\ C' = C /\ T(a)' = T(a)
    BY <1>3 DEF P, C, T, Current
  <2> QED BY <1>3, <2>1 DEF Orphaned, OwnDomain, OwnVrf
<1>4. ~ Operator
  <2>1. edits' # edits + 1
    BY <1>1
  <2> QED BY <2>1, OperatorEdits DEF Edit
<1>5. ~ JobEnds
  BY DEF JobEnds
<1>6. CASE Execute
  <2>1. PICK b \in pending : Handle(b)
    BY <1>6 DEF Execute
  <2>2. /\ pending' = pending \ {b} /\ UNCHANGED << config, snap, queue, edits, faults >>
    BY <1>2, <2>1, HandlerEnds DEF Ended, Taken
  <2>3. /\ running /\ applying /\ Orphaned(a, target)
    BY <1>6, <2>2 DEF Execute, OrphanInv
  <2>4. /\ b \in Action /\ Shows(view, target) /\ Tidy(target) /\ queue # << >>
        /\ Orphaned(b, target)
        /\ \/ target' = target
           \/ \E after, looked, dropped, fresh :
                Effect(b, after, looked, dropped, fresh) /\ target' = after
    BY <2>1, <2>2, <2>3, Undisturbed
  <2>5. Orphaned(a, target')
    <3>1. CASE target' = target
      BY <2>3, <3>1
    <3>2. CASE \E after, looked, dropped, fresh :
                 Effect(b, after, looked, dropped, fresh) /\ target' = after
      BY <2>3, <2>4, <3>2, EffectKeepsOrphans
    <3> QED BY <2>4, <3>1, <3>2
  <2> QED BY <1>3, <2>2, <2>5
<1>7. CASE PlanSource
  <2>1. /\ UNCHANGED << target, config, snap, queue, edits, faults >>
        /\ pending' = Plan(C, P, Seen, Deleting) /\ running /\ queue # << >>
    BY <1>7 DEF PlanSource, Waiting
  <2>2. Shows(view, target) /\ Tidy(target)
    BY <2>1 DEF NameInv, ViewCoherent
  <2>3. Orphaned(a, target)
    BY <2>1, <2>2, PlanOrphans
  <2> QED BY <1>3, <2>1, <2>3
<1>8. CASE UNCHANGED << target, edits, faults, pending, applying, config, snap, queue >>
  BY <1>3, <1>8 DEF OrphanInv
<1>9. CASE \E n \in Source : Deliver(n)
  <2>1. PICK n \in Source : Deliver(n)
    BY <1>9
  <2>2. UNCHANGED << target, edits, faults, pending, applying, config, queue >>
    BY <2>1 DEF Deliver
  <2>3. n # Current /\ queue # << >>
    <3>1. running /\ applying /\ queue # << >>
      BY <2>2 DEF TypeOK
    <3>2. ~ TakenUp(n)
      BY <2>1 DEF Deliver
    <3> QED BY <3>1, <3>2 DEF TakenUp
  <2>4. snap'[Current] = snap[Current]
    <3>1. Current \in Source /\ DOMAIN snap = Source
      BY <2>2, <2>3, CurrentType DEF TypeOK
    <3>2. PICK p : snap' = [snap EXCEPT ![n] = p]
      BY <2>1 DEF Deliver
    <3> QED BY <2>3, <3>1, <3>2
  <2>5. P' = P /\ C' = C /\ T(a)' = T(a)
    BY <2>2, <2>4 DEF P, C, T, Current
  <2>6. Orphaned(a, target)
    BY <2>2 DEF OrphanInv
  <2> QED BY <2>2, <2>5, <2>6 DEF Orphaned, OwnDomain, OwnVrf
<1>10. ~ StartJob /\ ~ SourceFails /\ ~ JobAborts /\ ~ FinishJob /\ ~ FinishSource /\ ~ Crash
  BY <1>2, <1>5
  DEF StartJob, TypeOK, SourceFails, GiveUp, Waiting, JobAborts, FinishJob, FinishSource, Crash
<1> QED BY <1>4, <1>6, <1>7, <1>8, <1>9, <1>10 DEF Next, JobStep, vars

LEMMA OrphanInvariant ==
  ASSUME OneSection, TidyTargets
  PROVE  Spec => []OrphanInv
<1>1. OwnRecords
  BY DEF OneSection, OwnRecords
<1>2. Init => OrphanInv
  BY DEF Init, OrphanInv
<1>3. TypeOK /\ ViewCoherent /\ NameInv /\ OrphanInv /\ [Next]_vars => OrphanInv'
  BY StepKeepsOrphans
<1>4. Spec => []NameInv
  BY <1>1, NamesInvariant
<1> QED BY <1>2, <1>3, <1>4, TypeCorrect, ViewStaysCoherent, PTL DEF Spec

\* What a step deletes is the section's own.
LEMMA StepDeletes ==
  ASSUME TypeOK, ViewCoherent, NameInv, OrphanInv, [Next]_vars, Acting, faults' = 0, edits = 0
  PROVE  DeletedIsOwn
<1>1. faults \in Nat /\ edits \in Nat
  BY FanInAssumption DEF FanInAssumption, TypeOK
<1>2. CASE target' = target
  BY <1>2 DEF DeletedIsOwn
<1>3. CASE Execute
  <2>1. PICK a \in pending : Handle(a)
    BY <1>3 DEF Execute
  <2>2. running /\ applying
    BY <1>3 DEF Execute
  <2>3. /\ a \in Action /\ Shows(view, target) /\ Tidy(target) /\ queue # << >>
        /\ Orphaned(a, target)
        /\ \/ target' = target
           \/ \E after, looked, dropped, fresh :
                Effect(a, after, looked, dropped, fresh) /\ target' = after
    BY <2>1, <2>2, Undisturbed
  <2>4. CASE \E after, looked, dropped, fresh :
               Effect(a, after, looked, dropped, fresh) /\ target' = after
    <3>1. /\ \A i \in DOMAIN target.vlans \ DOMAIN target'.vlans :
               a.kind = "delete_vlan" /\ i = VlanId(L2Seen, a.vlan)
          /\ \A i \in DOMAIN target.vrfs \ DOMAIN target'.vrfs :
               a.kind = "delete_vrf" /\ i = VrfId(L2Seen, a.vrf, T(a))
      BY <2>3, <2>4, EffectDeletes
    <3>2. target.nextId \in Nat /\ L2Type(target, target.nextId)
      BY DEF TypeOK, TargetType
    <3>3. L2Seen = L2Of(target)
      BY <2>3, LooksShow
    <3>4. \A i : KeyOf(L2Seen, i) = KeyOf(target, i)
      BY <3>3 DEF KeyOf, DomainName, L2Of
    <3>5. \A k : VlanId(L2Seen, k) = VlanId(target, k)
      BY <3>3, <3>4 DEF VlanId, L2Of
    <3>6. \A m, t : VrfId(L2Seen, m, t) = VrfId(target, m, t)
      BY <3>3 DEF VrfId, L2Of
    <3>7. NoId \notin DOMAIN target.vlans /\ NoId \notin DOMAIN target.vrfs
      BY <3>2 DEF L2Type, TableType, NoId
    <3>8. ASSUME NEW i \in DOMAIN target.vlans \ DOMAIN target'.vlans
          PROVE  \E s \in DOMAIN P.docs :
                   /\ target.domains[target.vlans[i].domainId].sections = {TargetName(C, s)}
                   /\ KeyOf(target, i) \notin DOMAIN P.docs[s].vlans
      <4>1. a.kind = "delete_vlan" /\ KeyOf(target, i) = a.vlan
        BY <3>1, <3>2, <3>5, <3>7, <3>8, VlanLookup
      <4>2. PICK s \in DOMAIN P.docs :
              /\ OwnDomain(target, a.vlan[1], TargetName(C, s))
              /\ a.vlan \notin DOMAIN P.docs[s].vlans
        BY <2>3, <4>1 DEF Orphaned
      <4>3. /\ target.vlans[i].domainId \in DOMAIN target.domains
            /\ target.domains[target.vlans[i].domainId].name = a.vlan[1]
        BY <2>3, <4>1 DEF Tidy, KeyOf, DomainName
      <4> QED BY <4>1, <4>2, <4>3 DEF OwnDomain
    <3>9. ASSUME NEW i \in DOMAIN target.vrfs \ DOMAIN target'.vrfs
          PROVE  \E s \in DOMAIN P.docs :
                   /\ target.vrfs[i].sections = {TargetName(C, s)}
                   /\ target.vrfs[i].name \notin DOMAIN P.docs[s].vrfs
      <4>1. /\ a.kind = "delete_vrf" /\ target.vrfs[i].name = a.vrf
            /\ T(a) \in target.vrfs[i].sections
        BY <3>1, <3>2, <3>6, <3>7, <3>9, VrfLookup
      <4> QED BY <2>3, <4>1 DEF Orphaned, OwnVrf
    <3> QED BY <3>8, <3>9 DEF DeletedIsOwn
  <2> QED BY <1>2, <2>3, <2>4
<1>4. ~ Operator
  <2>1. edits' # edits + 1
    BY <1>1 DEF Acting
  <2> QED BY <2>1, OperatorEdits DEF Edit
<1>5. target' = target \/ Execute
  BY <1>4
  DEF Next, JobStep, StartJob, PlanSource, SourceFails, GiveUp, FinishSource, FinishJob, JobEnds,
      JobAborts, Crash, Deliver, vars
<1> QED BY <1>2, <1>3, <1>5

(***************************************************************************)
(* "Only objects scoped to THIS section and no other are ever candidates"  *)
(* (plan.py:412): when sources have one section each, what a job deletes   *)
(* of the VLANs and VRFs belongs to the current source's section alone and *)
(* is not in its snapshot, although deletions are carried out last, by     *)
(* name, after all else the plan has written.                              *)
(***************************************************************************)
THEOREM DeletesOnlyOwn ==
  ASSUME OneSection, TidyTargets
  PROVE  Spec => OnlyOwnDeleted
<1>1. TypeOK /\ ViewCoherent /\ NameInv /\ OrphanInv /\ [Next]_vars
      => [Acting /\ faults' = 0 /\ edits = 0 => DeletedIsOwn]_vars
  BY StepDeletes
<1>2. OwnRecords
  BY DEF OneSection, OwnRecords
<1>3. Spec => []NameInv
  BY <1>2, NamesInvariant
<1>4. Spec => []OrphanInv
  BY OrphanInvariant
<1> QED BY <1>1, <1>3, <1>4, TypeCorrect, ViewStaysCoherent, PTL DEF Spec, OnlyOwnDeleted
=============================================================================

---------------------------- MODULE L2Plan_proofs ----------------------------
(***************************************************************************)
(* Facts about the tables of L2 records and about the plan for them, for   *)
(* every configuration, snapshot and target.                               *)
(***************************************************************************)
EXTENDS L2Plan, Extremes

(***************************************************************************)
(* Tables, and the ids that are looked up in them.                         *)
(***************************************************************************)
\* A table stays a table when ids are given out.
LEMMA TableGrows ==
  ASSUME NEW Row, NEW r, NEW n \in Nat, TableType(r, Row, n), NEW m \in Nat, n <= m
  PROVE  TableType(r, Row, m)
<1>1. 1 .. (n - 1) \subseteq 1 .. (m - 1)
  OBVIOUS
<1> QED BY <1>1 DEF TableType

\* So do the tables of L2 records.
LEMMA L2Grows ==
  ASSUME NEW x, NEW n \in Nat, L2Type(x, n), NEW m \in Nat, n <= m
  PROVE  L2Type(x, m)
BY TableGrows DEF L2Type

\* A table with a row entered under the next id.
LEMMA TableEntry ==
  ASSUME NEW Row, NEW r, NEW n \in Nat \ {NoId}, TableType(r, Row, n), NEW row \in Row
  PROVE  TableType(Put(r, n, row), Row, n + 1) /\ n \notin DOMAIN r
<1>1. n \in 1 .. (n + 1 - 1) /\ 1 .. (n - 1) \subseteq 1 .. (n + 1 - 1) /\ n \notin 1 .. (n - 1)
  BY DEF NoId
<1> QED BY <1>1 DEF TableType, Put

\* A table with one row replaced, or without it.
LEMMA TableUpdate ==
  ASSUME NEW Row, NEW r, NEW n, TableType(r, Row, n), NEW i
  PROVE  /\ \A row \in Row : TableType([r EXCEPT ![i] = row], Row, n)
         /\ TableType(Pop(r, i), Row, n)
BY DEF TableType, Pop

\* An index keeps an id that is in the table, or none.
LEMMA LastType ==
  ASSUME NEW n \in Nat, NEW S, S \subseteq 1 .. (n - 1)
  PROVE  /\ Last(S) \in Nat
         /\ S = {} <=> Last(S) = NoId
         /\ S # {} => Last(S) \in S
<1>1. CASE S = {}
  BY <1>1 DEF Last, NoId
<1>2. CASE S # {}
  <2>1. S \in SUBSET Nat /\ NoId \notin S /\ \A x \in S : x <= n
    BY DEF NoId
  <2>2. \E x \in S : \A y \in S : y <= x
    BY <1>2, <2>1, GreatestExists
  <2>3. Last(S) \in S
    BY <1>2, <2>2 DEF Last
  <2> QED BY <1>2, <2>1, <2>3
<1> QED BY <1>1, <1>2

\* A scan finds one that is there, or none.
LEMMA FirstType ==
  ASSUME NEW n \in Nat, NEW S, S \subseteq 1 .. (n - 1)
  PROVE  /\ First(S) \in Nat
         /\ S = {} <=> First(S) = NoId
         /\ S # {} => First(S) \in S
<1>1. CASE S = {}
  BY <1>1 DEF First, NoId
<1>2. CASE S # {}
  <2>1. S \in SUBSET Nat /\ NoId \notin S
    BY DEF NoId
  <2>2. \E x \in S : \A y \in S : x <= y
    BY <1>2, <2>1, LeastExists
  <2>3. First(S) \in S
    BY <1>2, <2>2 DEF First
  <2> QED BY <1>2, <2>1, <2>3
<1> QED BY <1>1, <1>2

\* What is looked up under a name is a domain of that name, if there is one.
LEMMA DomainLookup ==
  ASSUME NEW n \in Nat, NEW x, L2Type(x, n), NEW name
  PROVE  /\ DomainId(x, name) \in Nat
         /\ DomainId(x, name) = NoId <=> \A i \in DOMAIN x.domains : x.domains[i].name # name
         /\ DomainId(x, name) # NoId =>
              /\ DomainId(x, name) \in DOMAIN x.domains
              /\ x.domains[DomainId(x, name)].name = name
<1> DEFINE S == {i \in DOMAIN x.domains : x.domains[i].name = name}
<1>1. S \subseteq 1 .. (n - 1)
  BY DEF L2Type, TableType
<1>2. DomainId(x, name) = Last(S)
  BY DEF DomainId
<1>3. /\ Last(S) \in Nat
      /\ S = {} <=> Last(S) = NoId
      /\ S # {} => Last(S) \in S
  <2> HIDE DEF S
  <2> QED BY <1>1, LastType
<1> QED BY <1>2, <1>3

\* The same of VLANs,
LEMMA VlanLookup ==
  ASSUME NEW n \in Nat, NEW x, L2Type(x, n), NEW key
  PROVE  /\ VlanId(x, key) \in Nat
         /\ VlanId(x, key) = NoId <=> \A i \in DOMAIN x.vlans : KeyOf(x, i) # key
         /\ VlanId(x, key) # NoId =>
              VlanId(x, key) \in DOMAIN x.vlans /\ KeyOf(x, VlanId(x, key)) = key
<1> DEFINE S == {i \in DOMAIN x.vlans : KeyOf(x, i) = key}
<1>1. S \subseteq 1 .. (n - 1)
  BY DEF L2Type, TableType
<1>2. VlanId(x, key) = Last(S)
  BY DEF VlanId
<1>3. /\ Last(S) \in Nat
      /\ S = {} <=> Last(S) = NoId
      /\ S # {} => Last(S) \in S
  <2> HIDE DEF S
  <2> QED BY <1>1, LastType
<1> QED BY <1>2, <1>3

\* of VRFs, each in a section that lists it,
LEMMA VrfLookup ==
  ASSUME NEW n \in Nat, NEW x, L2Type(x, n), NEW name, NEW t
  PROVE  /\ VrfId(x, name, t) \in Nat
         /\ VrfId(x, name, t) = NoId <=>
              \A i \in DOMAIN x.vrfs : ~ (x.vrfs[i].name = name /\ t \in x.vrfs[i].sections)
         /\ VrfId(x, name, t) # NoId =>
              /\ VrfId(x, name, t) \in DOMAIN x.vrfs
              /\ x.vrfs[VrfId(x, name, t)].name = name
              /\ t \in x.vrfs[VrfId(x, name, t)].sections
<1> DEFINE S == {i \in DOMAIN x.vrfs : x.vrfs[i].name = name /\ t \in x.vrfs[i].sections}
<1>1. S \subseteq 1 .. (n - 1)
  BY DEF L2Type, TableType
<1>2. VrfId(x, name, t) = First(S)
  BY DEF VrfId
<1>3. /\ First(S) \in Nat
      /\ S = {} <=> First(S) = NoId
      /\ S # {} => First(S) \in S
  <2> HIDE DEF S
  <2> QED BY <1>1, FirstType
<1> QED BY <1>2, <1>3

\* and of subnets, in their sections.
LEMMA SubnetLookup ==
  ASSUME NEW n \in Nat, NEW r, TableType(r, SubnetRow, n), NEW t, NEW cidr
  PROVE  /\ SubnetId(r, t, cidr) \in Nat
         /\ SubnetId(r, t, cidr) = NoId <=>
              \A i \in DOMAIN r : ~ (r[i].section = t /\ r[i].cidr = cidr)
         /\ SubnetId(r, t, cidr) # NoId =>
              /\ SubnetId(r, t, cidr) \in DOMAIN r
              /\ r[SubnetId(r, t, cidr)].section = t
              /\ r[SubnetId(r, t, cidr)].cidr = cidr
<1> DEFINE S == {i \in DOMAIN r : r[i].section = t /\ r[i].cidr = cidr}
<1>1. S \subseteq 1 .. (n - 1)
  BY DEF TableType
<1>2. SubnetId(r, t, cidr) = Last(S)
  BY DEF SubnetId
<1>3. /\ Last(S) \in Nat
      /\ S = {} <=> Last(S) = NoId
      /\ S # {} => Last(S) \in S
  <2> HIDE DEF S
  <2> QED BY <1>1, LastType
<1> QED BY <1>2, <1>3

(***************************************************************************)
(* The plan.                                                               *)
(***************************************************************************)
\* The sections that a snapshot has documents for.
Documented(p) == DOMAIN p.docs \cup {d.section : d \in p.subnets}

\* The creation of a section is an action.
LEMMA SectionForm ==
  ASSUME NEW s \in Section
  PROVE  LET a == Blank("create_section", s)
         IN  a \in Action /\ a.kind = "create_section" /\ a.section = s
BY DEF Blank, Action, ActionRecord, ActionKind, OnDomain, OnVlan, OnVrf, OnSubnet, SetsFields, NoId

\* So is what is made of a domain,
LEMMA DomainForm ==
  ASSUME NEW s \in Section, NEW kind \in OnDomain, NEW n \in Domain,
         NEW f \in FieldValue \cup {NoFields}, kind \in SetsFields => f \in FieldValue
  PROVE  LET a == OfDomain(kind, s, n, f)
         IN  a \in Action /\ a.kind = kind /\ a.section = s /\ a.domain = n
<1>1. Blank(kind, s) \in ActionRecord /\ Blank(kind, s).kind = kind /\ Blank(kind, s).section = s
  BY DEF Blank, ActionRecord, ActionKind, OnDomain, NoId
<1>2. LET a == OfDomain(kind, s, n, f)
      IN  a \in ActionRecord /\ a.kind = kind /\ a.section = s /\ a.domain = n /\ a.fields = f
  BY <1>1 DEF OfDomain, ActionRecord
<1>3. kind \notin OnVlan /\ kind \notin OnVrf /\ kind \notin OnSubnet
  BY DEF OnDomain, OnVlan, OnVrf, OnSubnet, SetsFields
<1> QED BY <1>2, <1>3 DEF Action

\* of a VLAN,
LEMMA VlanForm ==
  ASSUME NEW s \in Section, NEW kind \in OnVlan, NEW k \in VlanKey,
         NEW f \in FieldValue \cup {NoFields}, kind \in SetsFields => f \in FieldValue
  PROVE  LET a == OfVlan(kind, s, k, f)
         IN  a \in Action /\ a.kind = kind /\ a.section = s /\ a.vlan = k
<1>1. Blank(kind, s) \in ActionRecord /\ Blank(kind, s).kind = kind /\ Blank(kind, s).section = s
  BY DEF Blank, ActionRecord, ActionKind, OnVlan, NoId
<1>2. LET a == OfVlan(kind, s, k, f)
      IN  a \in ActionRecord /\ a.kind = kind /\ a.section = s /\ a.vlan = k /\ a.fields = f
  BY <1>1 DEF OfVlan, ActionRecord
<1>3. kind \notin OnDomain /\ kind \notin OnVrf /\ kind \notin OnSubnet
  BY DEF OnDomain, OnVlan, OnVrf, OnSubnet, SetsFields
<1> QED BY <1>2, <1>3 DEF Action

\* of a VRF,
LEMMA VrfForm ==
  ASSUME NEW s \in Section, NEW kind \in OnVrf, NEW n \in Vrf,
         NEW f \in FieldValue \cup {NoFields}, kind \in SetsFields => f \in FieldValue
  PROVE  LET a == OfVrf(kind, s, n, f)
         IN  a \in Action /\ a.kind = kind /\ a.section = s /\ a.vrf = n
<1>1. Blank(kind, s) \in ActionRecord /\ Blank(kind, s).kind = kind /\ Blank(kind, s).section = s
  BY DEF Blank, ActionRecord, ActionKind, OnVrf, NoId
<1>2. LET a == OfVrf(kind, s, n, f)
      IN  a \in ActionRecord /\ a.kind = kind /\ a.section = s /\ a.vrf = n /\ a.fields = f
  BY <1>1 DEF OfVrf, ActionRecord
<1>3. kind \notin OnDomain /\ kind \notin OnVlan /\ kind \notin OnSubnet
  BY DEF OnDomain, OnVlan, OnVrf, OnSubnet, SetsFields
<1> QED BY <1>2, <1>3 DEF Action

\* of an orphaned VRF,
LEMMA OrphanForm ==
  ASSUME NEW s \in Section, NEW n \in Vrf, NEW id \in Nat
  PROVE  LET a == OrphanedVrf(s, n, id)
         IN  a \in Action /\ a.kind = "delete_vrf" /\ a.section = s /\ a.vrf = n
<1> DEFINE b == OfVrf("delete_vrf", s, n, NoFields)
<1>1. b \in Action /\ b.kind = "delete_vrf" /\ b.section = s /\ b.vrf = n
  <2>1. "delete_vrf" \in OnVrf /\ "delete_vrf" \notin SetsFields
    BY DEF OnVrf, SetsFields
  <2> QED BY <2>1, VrfForm
<1> HIDE DEF b
<1>2. OrphanedVrf(s, n, id) = [b EXCEPT !.row = id]
  BY DEF OrphanedVrf, b
<1> QED BY <1>1, <1>2 DEF Action, ActionRecord

\* and of a subnet.
LEMMA SubnetForms ==
  ASSUME NEW d \in SubnetDocument, NEW K \in SUBSET {"vlan", "vrf"}
  PROVE  /\ LET a == OfSubnet(d.section, d.cidr)
            IN  a \in Action /\ a.kind = "create_subnet" /\ a.section = d.section
         /\ LET a == LinkOf(d, K)
            IN  a \in Action /\ a.kind = "link_subnet" /\ a.section = d.section
<1>1. \A kind \in OnSubnet : /\ Blank(kind, d.section) \in ActionRecord
                             /\ Blank(kind, d.section).kind = kind
                             /\ Blank(kind, d.section).section = d.section
  BY DEF Blank, ActionRecord, ActionKind, OnSubnet, SubnetDocument, NoId
<1>2. "create_subnet" \in OnSubnet /\ "link_subnet" \in OnSubnet
  BY DEF OnSubnet
<1>3. LET a == OfSubnet(d.section, d.cidr)
      IN  a \in ActionRecord /\ a.kind = "create_subnet" /\ a.section = d.section /\ a.cidr \in Cidr
  BY <1>1, <1>2 DEF OfSubnet, ActionRecord, SubnetDocument
<1>4. LET a == LinkOf(d, K)
      IN  a \in ActionRecord /\ a.kind = "link_subnet" /\ a.section = d.section /\ a.cidr \in Cidr
  <2> DEFINE b == Blank("link_subnet", d.section)
  <2>1. b \in ActionRecord /\ b.kind = "link_subnet" /\ b.section = d.section
    BY <1>1, <1>2
  <2>2. d.cidr \in Cidr /\ d.vlan \in VlanKey \cup {NoVlan} /\ d.vrf \in Vrf \cup {NoName}
    BY DEF SubnetDocument
  <2> HIDE DEF b
  <2>3. LET r == [b EXCEPT !.cidr = d.cidr, !.vlan = d.vlan]
        IN  /\ r \in ActionRecord /\ r.kind = "link_subnet" /\ r.section = d.section
            /\ r.cidr = d.cidr
    BY <2>1, <2>2 DEF ActionRecord
  <2>4. LinkOf(d, K) = [[b EXCEPT !.cidr = d.cidr, !.vlan = d.vlan] EXCEPT !.vrf = d.vrf, !.sets = K]
    BY DEF LinkOf, b
  <2> QED BY <2>2, <2>3, <2>4, ZenonT(60) DEF ActionRecord
<1> QED BY <1>3, <1>4 DEF Action, OnDomain, OnVlan, OnVrf, OnSubnet, SetsFields

\* What is planned is an action, in a section that the snapshot documents, and what
\* creates or deletes a record is of the part of the plan that does so.
LEMMA PlanType ==
  ASSUME NEW c, NEW p, SnapshotType(p), NEW v, NEW n \in Nat, L2Type(v, n), NEW deleting
  PROVE  \A a \in Plan(c, p, v, deleting) :
           /\ a \in Action /\ a.section \in Documented(p)
           /\ a.kind = "create_l2domain" => a \in DomainCreates(c, p, v)
           /\ a.kind = "create_vlan" => a \in VlanCreates(c, p, v)
           /\ a.kind = "create_vrf" => a \in VrfCreates(c, p, v)
           /\ a.kind \in OnDomain => a.section \in DOMAIN p.docs
           /\ a.kind = "delete_vlan" => a \in VlanOrphans(c, p, v)
           /\ a.kind = "delete_vrf" => a \in VrfOrphans(c, p, v)
<1> DEFINE Good(a) == a \in Action /\ a.section \in Documented(p)
<1>1. ASSUME NEW s \in DOMAIN p.docs
      PROVE  /\ s \in Section /\ s \in Documented(p)
             /\ \A x \in DOMAIN p.docs[s].domains : x \in Domain /\ p.docs[s].domains[x] \in FieldValue
             /\ \A x \in DOMAIN p.docs[s].vlans : x \in VlanKey /\ p.docs[s].vlans[x] \in FieldValue
             /\ \A x \in DOMAIN p.docs[s].vrfs : x \in Vrf /\ p.docs[s].vrfs[x] \in FieldValue
  BY DEF SnapshotType, SectionDocument, IsMap, Documented
<1>2. \A d \in p.subnets : d \in SubnetDocument /\ d.section \in Documented(p)
  BY DEF SnapshotType, Documented
<1> USE DEF OnDomain, OnVlan, OnVrf, SetsFields
<1>3. ASSUME NEW a \in SectionCreates(c, p, v) PROVE Good(a) /\ a.kind = "create_section"
  <2>1. PICK s \in DOMAIN p.docs : a = Blank("create_section", s)
    BY DEF SectionCreates
  <2> QED BY <1>1, <2>1, SectionForm
<1>4. ASSUME NEW a \in DomainCreates(c, p, v)
      PROVE  Good(a) /\ a.kind = "create_l2domain" /\ a.section \in DOMAIN p.docs
  <2>1. PICK s \in DOMAIN p.docs :
          \E x \in DOMAIN p.docs[s].domains : a = OfDomain("create_l2domain", s, x, p.docs[s].domains[x])
    BY DEF DomainCreates
  <2> QED BY <1>1, <2>1, DomainForm
<1>5. ASSUME NEW a \in DomainUpdates(c, p, v)
      PROVE  Good(a) /\ a.kind = "update_l2domain" /\ a.section \in DOMAIN p.docs
  <2>1. PICK s \in DOMAIN p.docs :
          \E x \in DOMAIN p.docs[s].domains : a = OfDomain("update_l2domain", s, x, p.docs[s].domains[x])
    BY DEF DomainUpdates, Existing
  <2> QED BY <1>1, <2>1, DomainForm
<1>6. ASSUME NEW a \in DomainAttaches(c, p, v)
      PROVE  Good(a) /\ a.kind = "attach_l2domain" /\ a.section \in DOMAIN p.docs
  <2>1. PICK s \in DOMAIN p.docs :
          \E x \in DOMAIN p.docs[s].domains : a = OfDomain("attach_l2domain", s, x, NoFields)
    BY DEF DomainAttaches, Existing
  <2> QED BY <1>1, <2>1, DomainForm
<1>7. ASSUME NEW a \in VlanCreates(c, p, v) PROVE Good(a) /\ a.kind = "create_vlan"
  <2>1. PICK s \in DOMAIN p.docs :
          \E x \in DOMAIN p.docs[s].vlans : a = OfVlan("create_vlan", s, x, p.docs[s].vlans[x])
    BY DEF VlanCreates
  <2> QED BY <1>1, <2>1, VlanForm
<1>8. ASSUME NEW a \in VlanUpdates(c, p, v) PROVE Good(a) /\ a.kind = "update_vlan"
  <2>1. PICK s \in DOMAIN p.docs :
          \E x \in DOMAIN p.docs[s].vlans : a = OfVlan("update_vlan", s, x, p.docs[s].vlans[x])
    BY DEF VlanUpdates
  <2> QED BY <1>1, <2>1, VlanForm
<1>9. ASSUME NEW a \in VrfCreates(c, p, v) PROVE Good(a) /\ a.kind = "create_vrf"
  <2>1. PICK s \in DOMAIN p.docs :
          \E x \in DOMAIN p.docs[s].vrfs : a = OfVrf("create_vrf", s, x, p.docs[s].vrfs[x])
    BY DEF VrfCreates
  <2> QED BY <1>1, <2>1, VrfForm
<1>10. ASSUME NEW a \in VrfUpdates(c, p, v) PROVE Good(a) /\ a.kind = "update_vrf"
  <2>1. PICK s \in DOMAIN p.docs :
          \E x \in DOMAIN p.docs[s].vrfs : a = OfVrf("update_vrf", s, x, p.docs[s].vrfs[x])
    BY DEF VrfUpdates
  <2> QED BY <1>1, <2>1, VrfForm
<1>11. ASSUME NEW a \in SubnetCreates(c, p, v) PROVE Good(a) /\ a.kind = "create_subnet"
  <2>1. PICK d \in p.subnets : a = OfSubnet(d.section, d.cidr)
    BY DEF SubnetCreates
  <2>2. {} \in SUBSET {"vlan", "vrf"}
    OBVIOUS
  <2> QED BY <1>2, <2>1, <2>2, SubnetForms
<1>12. ASSUME NEW a \in Links(c, p, v) PROVE Good(a) /\ a.kind = "link_subnet"
  <2>1. PICK d \in p.subnets : a = LinkOf(d, Differing(c, d, v))
    BY DEF Links
  <2>2. Differing(c, d, v) \in SUBSET {"vlan", "vrf"}
    BY DEF Differing
  <2> QED BY <1>2, <2>1, <2>2, SubnetForms
<1>13. ASSUME NEW a \in VlanOrphans(c, p, v) PROVE Good(a) /\ a.kind = "delete_vlan"
  <2>1. PICK s \in DOMAIN p.docs :
          \E i \in DOMAIN v.vlans :
            /\ KeyOf(v, i)[1] \in {v.domains[d].name : d \in OwnedDomains(v, TargetName(c, s))}
            /\ a = OfVlan("delete_vlan", s, KeyOf(v, i), NoFields)
    BY DEF VlanOrphans
  <2>2. PICK i \in DOMAIN v.vlans :
          /\ KeyOf(v, i)[1] \in {v.domains[d].name : d \in OwnedDomains(v, TargetName(c, s))}
          /\ a = OfVlan("delete_vlan", s, KeyOf(v, i), NoFields)
    BY <2>1
  <2>3. v.vlans[i] \in VlanRow
    BY DEF L2Type, TableType
  <2>4. \A d \in OwnedDomains(v, TargetName(c, s)) : v.domains[d].name \in Domain
    <3>1. \A d \in IndexedDomains(v) : d \in DOMAIN v.domains
      BY DomainLookup DEF IndexedDomains
    <3>2. \A d \in DOMAIN v.domains : v.domains[d].name \in Domain
      BY DEF L2Type, TableType, DomainRow
    <3> QED BY <3>1, <3>2 DEF OwnedDomains
  <2>5. KeyOf(v, i) \in VlanKey
    BY <2>2, <2>3, <2>4 DEF KeyOf, VlanRow, VlanKey
  <2> QED BY <1>1, <2>2, <2>5, VlanForm
<1>14. ASSUME NEW a \in VrfOrphans(c, p, v) PROVE Good(a) /\ a.kind = "delete_vrf"
  <2>1. PICK s \in DOMAIN p.docs : \E i \in DOMAIN v.vrfs : a = OrphanedVrf(s, v.vrfs[i].name, i)
    BY DEF VrfOrphans, OwnedVrfs
  <2>2. \A i \in DOMAIN v.vrfs : i \in Nat /\ v.vrfs[i].name \in Vrf
    <3>1. DOMAIN v.vrfs \subseteq 1 .. (n - 1) /\ \A i \in DOMAIN v.vrfs : v.vrfs[i] \in VrfRow
      BY DEF L2Type, TableType
    <3> QED BY <3>1 DEF VrfRow
  <2> QED BY <1>1, <2>1, <2>2, OrphanForm
<1> HIDE DEF Good
<1>15. ASSUME NEW a \in Plan(c, p, v, deleting)
       PROVE  /\ Good(a)
              /\ a.kind = "create_l2domain" => a \in DomainCreates(c, p, v)
              /\ a.kind = "create_vlan" => a \in VlanCreates(c, p, v)
              /\ a.kind = "create_vrf" => a \in VrfCreates(c, p, v)
              /\ a.kind \in OnDomain => a.section \in DOMAIN p.docs
              /\ a.kind = "delete_vlan" => a \in VlanOrphans(c, p, v)
              /\ a.kind = "delete_vrf" => a \in VrfOrphans(c, p, v)
  BY <1>3, <1>4, <1>5, <1>6, <1>7, <1>8, <1>9, <1>10, <1>11, <1>12, <1>13, <1>14
  DEF Plan, Orphans
<1> QED BY <1>15 DEF Good
=============================================================================

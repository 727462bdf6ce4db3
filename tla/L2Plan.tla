------------------------------- MODULE L2Plan -------------------------------
(***************************************************************************)
(* The planner's other half: L2 domains, VLANs, VRFs, and the links from   *)
(* subnets to them.  TreePlan has the part of a section that one source    *)
(* owns outright; the records here may serve the sections of several       *)
(* sources, so the operators take the configuration of the source they     *)
(* plan for.  Nothing here changes state.                                  *)
(*                                                                         *)
(* Data abstraction.  A name stands for all the spellings that phpIPAM and *)
(* the importer take for the same (strip, casefold); its spelling is part  *)
(* of the record's fields, and all replicated fields of a record are one   *)
(* value.  A section's id on an instance is its name.  A subnet is a CIDR  *)
(* and its links; folders, nesting, fields, addresses and the deletion of  *)
(* subnets are TreePlan's, and the CIDRs of one snapshot are distinct.     *)
(***************************************************************************)
EXTENDS Integers, FiniteSets, Sequences, Maps

CONSTANTS
  Source,        \* names of the sources of a job
  Section,       \* section names, of all instances
  Domain,        \* names of L2 domains
  Number,        \* VLAN numbers
  Vrf,           \* VRF names
  Cidr,          \* networks, numbered in string order
  FieldValue,    \* values of a record's replicated fields
  DeleteFloor,   \* DELETE_LIMIT_FLOOR
  LimitPercent   \* 100 * options.delete_limit_fraction

NoId == 0
NoName == ""
NoVlan == << >>
NoCidr == 0
NoFields == 0

\* The domain that every section has, on every instance.
DefaultDomain == 1

ASSUME L2Assumption ==
  /\ Section \cup Domain \cup Vrf \subseteq STRING \ {NoName}
  /\ Number \subseteq Nat
  /\ Cidr \subseteq Nat \ {NoCidr} /\ IsFiniteSet(Cidr)
  /\ FieldValue \subseteq Nat \ {NoFields}
  /\ DeleteFloor \in Nat
  /\ LimitPercent \in 0 .. 100

\* A VLAN is known by the name of its domain and its number.
VlanKey == Domain \X Number

-----------------------------------------------------------------------------
(***************************************************************************)
(* The tables of an instance, keyed by id.  x stands for a record with the *)
(* tables `domains`, `vlans` and `vrfs`: those of an instance, or a copy.  *)
(***************************************************************************)
DomainRow == [name : Domain, sections : SUBSET Section, fields : FieldValue]

VlanRow == [domainId : Nat \ {NoId}, number : Number, fields : FieldValue]

VrfRow == [name : Vrf, sections : SUBSET Section, fields : FieldValue]

SubnetRow == [section : Section, cidr : Cidr, vlanId : Nat, vrfId : Nat]

\* Ids are given out in turn, up to nextId.
TableType(rows, Row, nextId) ==
  rows \in [DOMAIN rows -> Row] /\ DOMAIN rows \subseteq 1 .. (nextId - 1)

L2Type(x, nextId) ==
  /\ TableType(x.domains, DomainRow, nextId)
  /\ TableType(x.vlans, VlanRow, nextId)
  /\ TableType(x.vrfs, VrfRow, nextId)

\* Of several rows under one key an index keeps the last; a scan finds the first.
Last(S) == IF S = {} THEN NoId ELSE CHOOSE i \in S : \A j \in S : j <= i

First(S) == IF S = {} THEN NoId ELSE CHOOSE i \in S : \A j \in S : i <= j

DomainId(x, name) == Last({i \in DOMAIN x.domains : x.domains[i].name = name})

DomainName(x, id) == IF id \in DOMAIN x.domains THEN x.domains[id].name ELSE NoName

KeyOf(x, i) == << DomainName(x, x.vlans[i].domainId), x.vlans[i].number >>

VlanId(x, key) == Last({i \in DOMAIN x.vlans : KeyOf(x, i) = key})

VrfId(x, name, t) ==
  First({i \in DOMAIN x.vrfs : x.vrfs[i].name = name /\ t \in x.vrfs[i].sections})

VlanRef(x, id) == IF id \in DOMAIN x.vlans THEN KeyOf(x, id) ELSE NoVlan

VrfName(x, id) == IF id \in DOMAIN x.vrfs THEN x.vrfs[id].name ELSE NoName

IndexedDomains(x) == {DomainId(x, n) : n \in Domain} \ {NoId}

\* Mutant of OwnedDomains: domains that serve section t, others or not.
ServingDomains(x, t) == {i \in IndexedDomains(x) : t \in x.domains[i].sections}

OwnedDomains(x, t) ==
  {i \in IndexedDomains(x) \ {DefaultDomain} : x.domains[i].sections = {t}}

OwnedVrfs(x, t) == {i \in DOMAIN x.vrfs : x.vrfs[i].sections = {t}}

-----------------------------------------------------------------------------
(***************************************************************************)
(* A snapshot has a section document per section and a subnet document per *)
(* subnet.  `state` is what becomes of it before it is planned: it may be  *)
(* unreadable (SnapshotError), or hold a CIDR that does not parse, which   *)
(* no one looks at before canonicalise_document_cidr does.                 *)
(***************************************************************************)
SectionDocument(d) ==
  /\ IsMap(d.domains, Domain, FieldValue)
  /\ IsMap(d.vlans, VlanKey, FieldValue)
  /\ IsMap(d.vrfs, Vrf, FieldValue)

SubnetDocument ==
  [section : Section, cidr : Cidr, vlan : VlanKey \cup {NoVlan}, vrf : Vrf \cup {NoName}]

SnapshotState == {"readable", "unreadable", "malformed"}

SnapshotType(p) ==
  /\ p.state \in SnapshotState
  /\ DOMAIN p.docs \subseteq Section
  /\ \A s \in DOMAIN p.docs : SectionDocument(p.docs[s])
  /\ p.subnets \subseteq SubnetDocument

(***************************************************************************)
(* The exporter's view of section t of an instance x, in which names and   *)
(* VLAN keys are unique: the default domain and every domain that lists    *)
(* the section, the VLANs in these, and the VRFs that list it.             *)
(***************************************************************************)
ExportedDomains(x, t) ==
  {i \in DOMAIN x.domains : i = DefaultDomain \/ t \in x.domains[i].sections}

ExportedVlans(x, t) == {i \in DOMAIN x.vlans : x.vlans[i].domainId \in ExportedDomains(x, t)}

ExportedVrfs(x, t) == {i \in DOMAIN x.vrfs : t \in x.vrfs[i].sections}

ExportSection(x, t) ==
  LET Named(table, S, Name(_), n) == table[CHOOSE i \in S : Name(i) = n].fields
      domainName(i) == x.domains[i].name
      vlanKey(i) == KeyOf(x, i)
      vrfName(i) == x.vrfs[i].name
      D == ExportedDomains(x, t)  V == ExportedVlans(x, t)  R == ExportedVrfs(x, t)
  IN  [domains |-> [n \in {domainName(i) : i \in D} |-> Named(x.domains, D, domainName, n)],
       vlans |-> [k \in {vlanKey(i) : i \in V} |-> Named(x.vlans, V, vlanKey, k)],
       vrfs |-> [n \in {vrfName(i) : i \in R} |-> Named(x.vrfs, R, vrfName, n)]]

ExportSubnet(x, i) ==
  LET n == x.subnets[i]
  IN  [section |-> n.section, cidr |-> n.cidr,
       vlan |-> IF n.vlanId \in ExportedVlans(x, n.section) THEN KeyOf(x, n.vlanId) ELSE NoVlan,
       vrf |-> IF n.vrfId \in ExportedVrfs(x, n.section) THEN VrfName(x, n.vrfId) ELSE NoName]

ExportSnapshot(x, sections) ==
  [state |-> "readable",
   docs |-> [t \in sections |-> ExportSection(x, t)],
   subnets |-> {ExportSubnet(x, i) : i \in {j \in DOMAIN x.subnets : x.subnets[j].section \in sections}}]

-----------------------------------------------------------------------------
(***************************************************************************)
(* The configuration of a job: for each source the sections it exports and *)
(* the names they go by on the target.  c is one source's.                 *)
(***************************************************************************)
SourceConfig(c) == c.sections \subseteq Section /\ IsMap(c.section_map, Section, Section)

TargetName(c, s) == IF s \in DOMAIN c.section_map THEN c.section_map[s] ELSE s

\* Mutant of TargetsOf: a mapped section counts under the name it has at its source.
TargetsUnmapped(c) == c.sections

\* Every section a source can write to, as far as its configuration says.
TargetsOf(c) ==
  {c.section_map[s] : s \in DOMAIN c.section_map} \cup {TargetName(c, s) : s \in c.sections}

ValidSources(sources) ==
  /\ \A n \in Source : TargetsOf(sources[n]) # {}
  /\ \A m, n \in Source : m # n => TargetsOf(sources[m]) \cap TargetsOf(sources[n]) = {}

-----------------------------------------------------------------------------
ActionKind ==
  {"create_section", "create_l2domain", "update_l2domain", "attach_l2domain",
   "create_vlan", "update_vlan", "create_vrf", "update_vrf",
   "create_subnet", "link_subnet", "delete_vlan", "delete_vrf"}

\* `sets` says which links a link_subnet carries; an update's `fields` are all of
\* the record's; `row` tells the orphans of one name apart.
ActionRecord ==
  [kind : ActionKind, section : Section, domain : Domain \cup {NoName},
   vlan : VlanKey \cup {NoVlan}, vrf : Vrf \cup {NoName}, cidr : Cidr \cup {NoCidr},
   fields : FieldValue \cup {NoFields}, sets : SUBSET {"vlan", "vrf"}, row : Nat]

\* The kinds of actions that name a domain, a VLAN, a VRF, a subnet; that set fields.
OnDomain == {"create_l2domain", "update_l2domain", "attach_l2domain"}

OnVlan == {"create_vlan", "update_vlan", "delete_vlan"}

OnVrf == {"create_vrf", "update_vrf", "delete_vrf"}

OnSubnet == {"create_subnet", "link_subnet"}

SetsFields ==
  {"create_l2domain", "update_l2domain", "create_vlan", "update_vlan", "create_vrf", "update_vrf"}

Action ==
  {a \in ActionRecord : /\ a.kind \in OnDomain => a.domain \in Domain
                        /\ a.kind \in OnVlan => a.vlan \in VlanKey
                        /\ a.kind \in OnVrf => a.vrf \in Vrf
                        /\ a.kind \in OnSubnet => a.cidr \in Cidr
                        /\ a.kind \in SetsFields => a.fields \in FieldValue}

Blank(kind, s) ==
  [kind |-> kind, section |-> s, domain |-> NoName, vlan |-> NoVlan, vrf |-> NoName,
   cidr |-> NoCidr, fields |-> NoFields, sets |-> {}, row |-> NoId]

OfDomain(kind, s, n, f) == [Blank(kind, s) EXCEPT !.domain = n, !.fields = f]

OfVlan(kind, s, k, f) == [Blank(kind, s) EXCEPT !.vlan = k, !.fields = f]

OfVrf(kind, s, n, f) == [Blank(kind, s) EXCEPT !.vrf = n, !.fields = f]

OrphanedVrf(s, n, id) == [OfVrf("delete_vrf", s, n, NoFields) EXCEPT !.row = id]

OfSubnet(s, cidr) == [Blank("create_subnet", s) EXCEPT !.cidr = cidr]

LinkOf(d, sets) ==
  [Blank("link_subnet", d.section) EXCEPT !.cidr = d.cidr, !.vlan = d.vlan, !.vrf = d.vrf,
                                          !.sets = sets]

(***************************************************************************)
(* The plan of the source with configuration c and snapshot p against v,   *)
(* what the view shows of the target: its sections, its three tables and   *)
(* its table of subnets.                                                   *)
(***************************************************************************)
Resolved(c, s, v) == TargetName(c, s) \in v.sects

SectionCreates(c, p, v) ==
  {Blank("create_section", s) : s \in {t \in DOMAIN p.docs : ~ Resolved(c, t, v)}}

DomainCreates(c, p, v) ==
  UNION {{OfDomain("create_l2domain", s, n, p.docs[s].domains[n]) :
            n \in {m \in DOMAIN p.docs[s].domains : DomainId(v, m) = NoId}} : s \in DOMAIN p.docs}

\* The domains of a section document that exist, with their rows.
Existing(p, s, v) == {n \in DOMAIN p.docs[s].domains : DomainId(v, n) # NoId}

DomainUpdates(c, p, v) ==
  UNION {{OfDomain("update_l2domain", s, n, p.docs[s].domains[n]) :
            n \in {m \in Existing(p, s, v) :
                    v.domains[DomainId(v, m)].fields # p.docs[s].domains[m]}} : s \in DOMAIN p.docs}

\* Not for a section that is still to be created, nor for the default domain.
DomainAttaches(c, p, v) ==
  UNION {{OfDomain("attach_l2domain", s, n, NoFields) :
            n \in {m \in Existing(p, s, v) :
                    /\ DomainId(v, m) # DefaultDomain
                    /\ TargetName(c, s) \notin v.domains[DomainId(v, m)].sections}} :
         s \in {t \in DOMAIN p.docs : Resolved(c, t, v)}}

VlanCreates(c, p, v) ==
  UNION {{OfVlan("create_vlan", s, k, p.docs[s].vlans[k]) :
            k \in {j \in DOMAIN p.docs[s].vlans : VlanId(v, j) = NoId}} : s \in DOMAIN p.docs}

VlanUpdates(c, p, v) ==
  UNION {{OfVlan("update_vlan", s, k, p.docs[s].vlans[k]) :
            k \in {j \in DOMAIN p.docs[s].vlans :
                    /\ VlanId(v, j) # NoId
                    /\ v.vlans[VlanId(v, j)].fields # p.docs[s].vlans[j]}} : s \in DOMAIN p.docs}

\* A section that is still to be created has no VRF.
CurrentVrf(c, s, v, n) ==
  IF Resolved(c, s, v) THEN VrfId(v, n, TargetName(c, s)) ELSE NoId

VrfCreates(c, p, v) ==
  UNION {{OfVrf("create_vrf", s, n, p.docs[s].vrfs[n]) :
            n \in {m \in DOMAIN p.docs[s].vrfs : CurrentVrf(c, s, v, m) = NoId}} : s \in DOMAIN p.docs}

VrfUpdates(c, p, v) ==
  UNION {{OfVrf("update_vrf", s, n, p.docs[s].vrfs[n]) :
            n \in {m \in DOMAIN p.docs[s].vrfs :
                    LET id == CurrentVrf(c, s, v, m)
                    IN  id # NoId /\ v.vrfs[id].fields # p.docs[s].vrfs[m]}} : s \in DOMAIN p.docs}

\* The id of a subnet in section t of the table of subnets, or NoId.
SubnetId(subnets, t, cidr) ==
  Last({i \in DOMAIN subnets : subnets[i].section = t /\ subnets[i].cidr = cidr})

IdOf(c, d, v) == SubnetId(v.subnets, TargetName(c, d.section), d.cidr)

SubnetCreates(c, p, v) ==
  {OfSubnet(d.section, d.cidr) : d \in {e \in p.subnets : IdOf(c, e, v) = NoId}}

\* Mutant of Differing: the links of a subnet that exists are not compared.
DifferingIfNew(c, d, v) ==
  {k \in {"vlan", "vrf"} : /\ IdOf(c, d, v) = NoId
                           /\ k = "vlan" => d.vlan # NoVlan
                           /\ k = "vrf" => d.vrf # NoName}

\* Mutant of Differing: a link that the document has is always written.
DifferingIfLinked(c, d, v) ==
  {k \in {"vlan", "vrf"} : /\ k = "vlan" => d.vlan # NoVlan
                           /\ k = "vrf" => d.vrf # NoName}

\* The links in which a document differs from its subnet on the target.  VRFs are
\* compared by name, whatever section the one that is linked belongs to.
Differing(c, d, v) ==
  LET id == IdOf(c, d, v)
      vlan == IF id = NoId THEN NoVlan ELSE VlanRef(v, v.subnets[id].vlanId)
      vrf == IF id = NoId THEN NoName ELSE VrfName(v, v.subnets[id].vrfId)
  IN  {k \in {"vlan", "vrf"} : IF k = "vlan" THEN d.vlan # vlan ELSE d.vrf # vrf}

Links(c, p, v) ==
  {LinkOf(d, Differing(c, d, v)) : d \in {e \in p.subnets : Differing(c, e, v) # {}}}

(***************************************************************************)
(* Orphans.  Only what is scoped to this section and no other is one.  An  *)
(* orphaned VLAN, and later its deletion, is named by domain and number;   *)
(* an orphaned VRF by its name, in its section.                            *)
(***************************************************************************)
VlanOrphans(c, p, v) ==
  UNION {{OfVlan("delete_vlan", s, k, NoFields) :
            k \in {KeyOf(v, i) : i \in {j \in DOMAIN v.vlans :
                      KeyOf(v, j)[1] \in {v.domains[d].name : d \in OwnedDomains(v, TargetName(c, s))}}}
                 \ DOMAIN p.docs[s].vlans} :
         s \in {t \in DOMAIN p.docs : Resolved(c, t, v)}}

VrfOrphans(c, p, v) ==
  UNION {{OrphanedVrf(s, v.vrfs[i].name, i) :
            i \in {j \in OwnedVrfs(v, TargetName(c, s)) :
                    v.vrfs[j].name \notin DOMAIN p.docs[s].vrfs}} :
         s \in {t \in DOMAIN p.docs : Resolved(c, t, v)}}

Orphans(c, p, v) == VlanOrphans(c, p, v) \cup VrfOrphans(c, p, v)

Plan(c, p, v, deleting) ==
  SectionCreates(c, p, v)
    \cup DomainCreates(c, p, v) \cup DomainUpdates(c, p, v) \cup DomainAttaches(c, p, v)
    \cup VlanCreates(c, p, v) \cup VlanUpdates(c, p, v)
    \cup VrfCreates(c, p, v) \cup VrfUpdates(c, p, v)
    \cup SubnetCreates(c, p, v) \cup Links(c, p, v)
    \cup (IF deleting THEN Orphans(c, p, v) ELSE {})

(***************************************************************************)
(* The order of the plan.  Sections first; then, section by section, its   *)
(* domains, its VLANs and its VRFs; then the subnets by CIDR, each before  *)
(* its links; then the orphans.  The order among the records of one kind,  *)
(* and of the section documents of one source, is left open.               *)
(***************************************************************************)
\* Mutant of Phase: subnets are linked before the records they are linked to exist.
PhaseOfSubnetsFirst(a) ==
  CASE a.kind = "create_section" -> 1
    [] a.kind \in {"create_subnet", "link_subnet"} -> 2
    [] a.kind \in {"delete_vlan", "delete_vrf"} -> 4
    [] OTHER -> 3

Phase(a) ==
  CASE a.kind = "create_section" -> 1
    [] a.kind \in {"create_subnet", "link_subnet"} -> 3
    [] a.kind \in {"delete_vlan", "delete_vrf"} -> 4
    [] OTHER -> 2

Step(a) ==
  CASE a.kind \in {"create_vlan", "update_vlan"} -> 2
    [] a.kind \in {"create_vrf", "update_vrf", "link_subnet", "delete_vrf"} -> 3
    [] OTHER -> 1

Before(a, b) ==
  \/ Phase(a) < Phase(b)
  \/ /\ Phase(a) = Phase(b)
     /\ \/ a.cidr < b.cidr
        \/ a.cidr = b.cidr /\ a.section = b.section /\ Step(a) < Step(b)
        \/ a.kind = "update_l2domain" /\ b = [a EXCEPT !.kind = "attach_l2domain", !.fields = NoFields]

(***************************************************************************)
(* The deletion limit: the records in scope are the subnets of the         *)
(* sections that resolve.                                                  *)
(***************************************************************************)
InScope(c, p, v) ==
  UNION {{<< s, v.subnets[i].cidr >> :
            i \in {j \in DOMAIN v.subnets : v.subnets[j].section = TargetName(c, s)}} :
         s \in DOMAIN p.docs}

OverLimit(c, p, v) ==
  LET share == (Cardinality(InScope(c, p, v)) * LimitPercent) \div 100
  IN  Cardinality(Orphans(c, p, v)) > IF share > DeleteFloor THEN share ELSE DeleteFloor
=============================================================================

------------------------------ MODULE L2Import ------------------------------
(***************************************************************************)
(* A master at work: one import job takes up several sources in turn       *)
(* (ipam_import.py, main and run_one_source).  For each it builds a plan   *)
(* (L2Plan) and carries it out, one handler of ipamsync/target.py at a     *)
(* time, with an Executor of its own -- but all of them through one        *)
(* TargetView, so that a source may be planned, and its actions resolved,  *)
(* from what an earlier source has read.                                   *)
(*                                                                         *)
(* The records are the ones that several sources may share: L2 domains,    *)
(* VLANs and VRFs, with the subnets that link to them.  Folders, nesting   *)
(* and addresses belong to one source alone and are TreeImport's.          *)
(*                                                                         *)
(* A step of Execute is one handler with all its requests, and planning a  *)
(* source is one step; operators edit the target between steps.            *)
(***************************************************************************)
EXTENDS L2Plan

CONSTANTS
  Sources,        \* the order in which the job takes up its sources
  Configs,        \* configurations: [sources, create_missing_sections]
  Targets,        \* states of the target a behaviour may start from
  Snapshots,      \* [Source -> the snapshots the source's mirror may deliver]
  Modes,          \* which of "additive", "strict", "forced" the jobs use
  MaxFaults,      \* bound on failed requests, lost answers, failed pulls, crashes
  MaxEdits,       \* bound on operators' edits
  MaxArrivals,    \* bound on snapshots delivered after the first
  MaxEvents       \* bound on all of these together

Mode == {"additive", "strict", "forced"}

TargetType(t) ==
  /\ t \in [sects : SUBSET Section, domains : {t.domains}, vlans : {t.vlans},
            vrfs : {t.vrfs}, subnets : {t.subnets}, nextId : Nat \ {NoId}]
  /\ L2Type(t, t.nextId)
  /\ TableType(t.subnets, SubnetRow, t.nextId)

\* A view has rows that the target once had: its ids are below the target's next.
ViewType(v, nextId) ==
  /\ v \in [sects : SUBSET SUBSET Section, l2 : {v.l2}, subnets : {v.subnets}]
  /\ \A x \in v.l2 : L2Type(x, nextId)
  /\ \A s \in DOMAIN v.subnets : TableType(v.subnets[s], SubnetRow, nextId)

ASSUME FanInAssumption ==
  /\ Sources \in Seq(Source)
  /\ \A c \in Configs : /\ \A n \in Source : SourceConfig(c.sources[n])
                        /\ c.create_missing_sections \in BOOLEAN
  /\ \A t \in Targets : TargetType(t)
  /\ \A n \in Source : \A p \in Snapshots[n] : SnapshotType(p)
  /\ Modes \subseteq Mode
  /\ {MaxFaults, MaxEdits, MaxArrivals, MaxEvents} \subseteq Nat

VARIABLES
  target,    \* the target instance
  config,    \* the job's configuration file
  snap,      \* [Source -> the snapshot in its working copy]
  mode,      \* the options the jobs run with
  running,   \* whether a job is running
  queue,     \* the sources it has yet to finish, the current one first
  applying,  \* whether the current source has been planned
  pending,   \* what is left of that plan
  view,      \* the job's TargetView
  failed,    \* sources that could not be processed
  errors,    \* sources some record of which failed
  outcome,   \* how the last job ended
  faults, edits, arrivals,   \* budgets used
  begun      \* history: the target's sections when the job began

vars == << target, config, snap, mode, running, queue, applying, pending, view,
           failed, errors, outcome, faults, edits, arrivals, begun >>

Outcome == {"none", "clean", "errors", "failed", "refused", "aborted", "died"}

-----------------------------------------------------------------------------
(***************************************************************************)
(* The TargetView.  A cache of one value is a set: empty until it is read, *)
(* and again after it was invalidated.  The tables of L2 records are read  *)
(* and dropped together; subnets are listed section by section.            *)
(***************************************************************************)
Content(cache, live) == IF cache = {} THEN live ELSE CHOOSE x \in cache : TRUE

L2Of(t) == [domains |-> t.domains, vlans |-> t.vlans, vrfs |-> t.vrfs]

SubnetsOf(t, s) == [i \in {j \in DOMAIN t.subnets : t.subnets[j].section = s} |-> t.subnets[i]]

NoView == [sects |-> {}, l2 |-> {}, subnets |-> EmptyMap]

L2Seen == Content(view.l2, L2Of(target))

SectsSeen == Content(view.sects, target.sects)

ListingSeen(s) ==
  IF s \in DOMAIN view.subnets THEN view.subnets[s] ELSE SubnetsOf(target, s)

\* What the planner is shown of the target.
Seen ==
  LET subnets == [s \in SectsSeen |-> ListingSeen(s)]
  IN  [sects |-> SectsSeen,
       domains |-> L2Seen.domains, vlans |-> L2Seen.vlans, vrfs |-> L2Seen.vrfs,
       subnets |-> [i \in UNION {DOMAIN subnets[s] : s \in SectsSeen} |->
                      subnets[CHOOSE s \in SectsSeen : i \in DOMAIN subnets[s]][i]]]

\* The view v after its L2 tables, or the subnets of section s, were consulted;
\* after a write to either.
L2Looked(v) == [v EXCEPT !.l2 = {L2Seen}]

SubnetsLooked(v, s) == [v EXCEPT !.subnets = Put(@, s, ListingSeen(s))]

\* Mutant of L2Dropped: a write leaves the tables in the view.
L2Kept(v) == v

L2Dropped(v) == [v EXCEPT !.l2 = {}]

\* Mutant of L2Reread: so does a write that is confirmed.
L2KeptAfterCreate(v, after) == v

L2Reread(v, after) == [v EXCEPT !.l2 = {L2Of(after)}]

SubnetsDropped(v, s) == [v EXCEPT !.subnets = Pop(@, s)]

-----------------------------------------------------------------------------
(***************************************************************************)
(* A job begins, takes up its sources, and ends.                           *)
(***************************************************************************)
Deleting == mode # "additive"

\* load_config: sources that share a section are a ConfigError.
StartJob ==
  /\ ~ running
  /\ IF ValidSources(config.sources)
     THEN /\ running' = TRUE
          /\ queue' = Sources
          /\ outcome' = "none"
     ELSE /\ outcome' = "refused"
          /\ UNCHANGED << running, queue >>
  /\ begun' = target.sects
  /\ UNCHANGED << target, config, snap, mode, applying, pending, view, failed, errors,
                  faults, edits, arrivals >>

Current == Head(queue)

C == config.sources[Current]

P == snap[Current]

Waiting == running /\ queue # << >> /\ ~ applying

\* Bounds the run: one more event may happen.
MoreEvents == faults + edits + arrivals < MaxEvents

\* What building the plan of the current source leaves in the view.
Planned(v) ==
  LET counting == mode = "strict" /\ Orphans(C, P, Seen) # {}
      documented == {TargetName(C, d.section) : d \in P.subnets}
      inScope == {TargetName(C, s) : s \in DOMAIN P.docs}
      listed == SectsSeen \cap (documented \cup IF counting THEN inScope ELSE {})
  IN  [sects |-> {SectsSeen}, l2 |-> {L2Seen},
       subnets |-> [s \in DOMAIN v.subnets \cup listed |-> ListingSeen(s)]]

Unresolvable == SectionCreates(C, P, Seen) # {} /\ ~ config.create_missing_sections

\* PlanError: a section that is not there, or too many deletions.
Refused ==
  \/ Unresolvable
  \/ mode = "strict" /\ OverLimit(C, P, Seen) /\ InScope(C, P, Seen) # {}

\* What run_one_source does not catch: a CIDR that does not parse (ValueError),
\* and the percentage of nothing in the refusal's message (ZeroDivisionError).
Escapes ==
  \/ P.state = "malformed"
  \/ /\ P.state = "readable" /\ ~ Unresolvable
     /\ mode = "strict" /\ OverLimit(C, P, Seen) /\ InScope(C, P, Seen) = {}

PlanSource ==
  /\ Waiting
  /\ P.state = "readable" /\ ~ Refused /\ ~ Escapes
  /\ applying' = TRUE
  /\ pending' = Plan(C, P, Seen, Deleting)
  /\ view' = Planned(view)
  /\ UNCHANGED << target, config, snap, mode, running, queue, failed, errors, outcome,
                  faults, edits, arrivals, begun >>

Fault ==
  /\ faults < MaxFaults /\ MoreEvents
  /\ faults' = faults + 1

\* The source is given up, and the next one taken up.
GiveUp ==
  /\ failed' = failed \cup {Current}
  /\ queue' = Tail(queue)
  /\ UNCHANGED << target, config, snap, mode, running, applying, pending, errors, outcome,
                  edits, arrivals, begun >>

SourceFails ==
  /\ Waiting
  /\ \/ /\ P.state = "unreadable"
        /\ UNCHANGED << view, faults >>
     \/ /\ P.state = "readable" /\ Refused
        /\ view' = Planned(view)
        /\ UNCHANGED faults
     \/ Fault /\ UNCHANGED view      \* git_pull fails
  /\ GiveUp

FinishSource ==
  /\ running /\ applying
  /\ pending = {}
  /\ applying' = FALSE
  /\ queue' = Tail(queue)
  /\ UNCHANGED << target, config, snap, mode, running, pending, view, failed, errors, outcome,
                  faults, edits, arrivals, begun >>

\* The process is gone.
JobEnds ==
  /\ running' = FALSE
  /\ queue' = << >>
  /\ applying' = FALSE
  /\ pending' = {}
  /\ view' = NoView
  /\ failed' = {}
  /\ errors' = {}
  /\ UNCHANGED << target, config, snap, mode, edits, arrivals, begun >>

FinishJob ==
  /\ running /\ queue = << >>
  /\ outcome' = IF failed # {} THEN "failed" ELSE IF errors # {} THEN "errors" ELSE "clean"
  /\ JobEnds
  /\ UNCHANGED faults

\* An exception that run_one_source lets through ends the job for every source:
\* the snapshot's fault, or a read of the target that fails while the plan is built.
JobAborts ==
  /\ Waiting
  /\ \/ Escapes /\ UNCHANGED faults
     \/ P.state = "readable" /\ Fault
  /\ outcome' = "aborted"
  /\ JobEnds

Crash ==
  /\ running
  /\ Fault
  /\ outcome' = "died"
  /\ JobEnds

-----------------------------------------------------------------------------
(***************************************************************************)
(* How a handler ends; whatever it is, apply goes on with the next action. *)
(* Done: there was nothing to write.  Fail: an exception before any write. *)
(* Write: one request, that changes the target to `after`; the view was    *)
(* left `looked` by the lookups before it, is `dropped` by the             *)
(* invalidation after it, and `fresh` after the read that confirms it.  A  *)
(* lookup may be lost, or the request, its answer, or the confirming read. *)
(***************************************************************************)
Taken(a) ==
  /\ pending' = pending \ {a}
  /\ UNCHANGED << config, snap, mode, running, queue, applying, failed, outcome,
                  edits, arrivals, begun >>

Recorded == errors' = errors \cup {Current}

Lost(a) == Taken(a) /\ Recorded /\ Fault

LookupLost(a, looked) ==
  /\ looked # view
  /\ Lost(a)
  /\ UNCHANGED << target, view >>

Done(a, looked) ==
  \/ Taken(a) /\ view' = looked /\ UNCHANGED << target, errors, faults >>
  \/ LookupLost(a, looked)

Fail(a, looked) ==
  \/ Taken(a) /\ Recorded /\ view' = looked /\ UNCHANGED << target, faults >>
  \/ LookupLost(a, looked)

WriteAndConfirm(a, accepted, after, looked, dropped, fresh) ==
  \/ /\ Taken(a) /\ accepted
     /\ target' = after
     /\ view' = fresh
     /\ UNCHANGED << errors, faults >>
  \/ /\ Taken(a) /\ ~ accepted /\ Recorded
     /\ view' = looked
     /\ UNCHANGED << target, faults >>
  \/ LookupLost(a, looked)
  \/ Lost(a) /\ view' = looked /\ UNCHANGED target
  \/ Lost(a) /\ accepted /\ target' = after /\ view' = looked
  \/ Lost(a) /\ accepted /\ dropped # fresh /\ target' = after /\ view' = dropped

Write(a, accepted, after, looked, dropped) ==
  WriteAndConfirm(a, accepted, after, looked, dropped, dropped)

-----------------------------------------------------------------------------
(***************************************************************************)
(* The handlers.  T is the target section of an action; `Sectioned` is the *)
(* view after its id was asked for.  phpIPAM gives new records new ids,    *)
(* refuses to change one that is gone, takes a second record of one name   *)
(* (it has no unique index on any of the three tables) but no second       *)
(* subnet of one CIDR in a section, and on deleting a VLAN or a VRF clears *)
(* the references to it.                                                   *)
(***************************************************************************)
T(a) == TargetName(C, a.section)

Sectioned == [view EXCEPT !.sects = {SectsSeen}]

\* A section that cannot be found is a TargetError, before anything is written.
NeedsSection ==
  {"create_l2domain", "attach_l2domain", "create_vrf", "update_vrf", "create_subnet",
   "link_subnet", "delete_vrf"}

SectionMissing(a) == a.kind \in NeedsSection /\ T(a) \notin SectsSeen

CreateSection(a) ==
  LET after == [target EXCEPT !.sects = @ \cup {T(a)}]
  IN  WriteAndConfirm(a, TRUE, after, view, [view EXCEPT !.sects = {}],
                      [view EXCEPT !.sects = {after.sects}])

\* The target after `row` was added to one of its tables.
Added(table, row) ==
  [target EXCEPT ![table] = Put(@, target.nextId, row), !.nextId = @ + 1]

CreateAndReread(a, after, looked) ==
  WriteAndConfirm(a, TRUE, after, looked, L2Dropped(looked), L2Reread(looked, after))

CreateL2Domain(a) ==
  CreateAndReread(a,
    Added("domains", [name |-> a.domain, sections |-> {T(a)}, fields |-> a.fields]), Sectioned)

\* The request that makes `row` of the row `id` of a table.
WriteRow(a, table, id, row, looked) ==
  IF id = NoId
  THEN Fail(a, looked)
  ELSE Write(a, id \in DOMAIN target[table],
             [target EXCEPT ![table] = [@ EXCEPT ![id] = row]], looked, L2Dropped(looked))

WriteFields(a, table, id, looked) ==
  WriteRow(a, table, id, [target[table][id] EXCEPT !.fields = a.fields], looked)

UpdateL2Domain(a) == WriteFields(a, "domains", DomainId(L2Seen, a.domain), L2Looked(view))

\* Mutant of ListedThen: the list is replaced.
ListedAlone(a, id) == {T(a)}

\* The list that is written is the one in the view, with the section added.
ListedThen(a, id) == L2Seen.domains[id].sections \cup {T(a)}

AttachL2Domain(a) ==
  LET id == DomainId(L2Seen, a.domain)
  IN  WriteRow(a, "domains", id, [target.domains[id] EXCEPT !.sections = ListedThen(a, id)],
               L2Looked(Sectioned))

\* Mutant of CreateVlan: the domain is taken to be there.
CreateVlanAnyway(a) ==
  CreateAndReread(a,
    Added("vlans", [domainId |-> DomainId(L2Seen, a.vlan[1]), number |-> a.vlan[2],
                    fields |-> a.fields]),
    L2Looked(view))

\* Not even the view is asked whether the VLAN is there by now.
CreateVlan(a) ==
  LET id == DomainId(L2Seen, a.vlan[1])
  IN  IF id = NoId
      THEN Fail(a, L2Looked(view))
      ELSE CreateAndReread(a,
             Added("vlans", [domainId |-> id, number |-> a.vlan[2], fields |-> a.fields]),
             L2Looked(view))

UpdateVlan(a) == WriteFields(a, "vlans", VlanId(L2Seen, a.vlan), L2Looked(view))

CreateVrf(a) ==
  CreateAndReread(a,
    Added("vrfs", [name |-> a.vrf, sections |-> {T(a)}, fields |-> a.fields]), Sectioned)

UpdateVrf(a) == WriteFields(a, "vrfs", VrfId(L2Seen, a.vrf, T(a)), L2Looked(Sectioned))

CreateSubnet(a) ==
  LET row == [section |-> T(a), cidr |-> a.cidr, vlanId |-> NoId, vrfId |-> NoId]
      after == Added("subnets", row)
      dropped == SubnetsDropped(Sectioned, T(a))
  IN  WriteAndConfirm(a, SubnetId(target.subnets, T(a), a.cidr) = NoId, after, Sectioned, dropped,
                      [dropped EXCEPT !.subnets = Put(@, T(a), SubnetsOf(after, T(a)))])

(***************************************************************************)
(* A link to a record that the view does not have is left as it is, with a *)
(* NOTE and no error.                                                      *)
(***************************************************************************)
LinkSubnet(a) ==
  LET id == SubnetId(ListingSeen(T(a)), T(a), a.cidr)
      vlan == IF a.vlan = NoVlan THEN NoId ELSE VlanId(L2Seen, a.vlan)
      vrf == IF a.vrf = NoName THEN NoId ELSE VrfId(L2Seen, a.vrf, T(a))
      asksVlan == "vlan" \in a.sets /\ a.vlan # NoVlan
      asksVrf == "vrf" \in a.sets /\ a.vrf # NoName
      setsVlan == "vlan" \in a.sets /\ (asksVlan => vlan # NoId)
      setsVrf == "vrf" \in a.sets /\ (asksVrf => vrf # NoId)
      found == SubnetsLooked(Sectioned, T(a))
      looked == IF asksVlan \/ asksVrf THEN L2Looked(found) ELSE found
  IN  IF id = NoId THEN Fail(a, found)
      ELSE IF ~ setsVlan /\ ~ setsVrf THEN Done(a, looked)
      ELSE Write(a, id \in DOMAIN target.subnets,
                 [target EXCEPT !.subnets[id].vlanId = IF setsVlan THEN vlan ELSE @,
                                !.subnets[id].vrfId = IF setsVrf THEN vrf ELSE @],
                 looked, SubnetsDropped(looked, T(a)))

WithoutVlan(id) ==
  [target EXCEPT !.vlans = Pop(@, id),
                 !.subnets = [i \in DOMAIN @ |-> IF @[i].vlanId = id
                                                 THEN [@[i] EXCEPT !.vlanId = NoId] ELSE @[i]]]

WithoutVrf(id) ==
  [target EXCEPT !.vrfs = Pop(@, id),
                 !.subnets = [i \in DOMAIN @ |-> IF @[i].vrfId = id
                                                 THEN [@[i] EXCEPT !.vrfId = NoId] ELSE @[i]]]

DeleteRow(a, table, id, after, looked) ==
  IF id = NoId
  THEN Done(a, looked)
  ELSE Write(a, id \in DOMAIN target[table], after, looked, L2Dropped(looked))

DeleteVlan(a) ==
  LET id == VlanId(L2Seen, a.vlan)
  IN  DeleteRow(a, "vlans", id, WithoutVlan(id), L2Looked(view))

DeleteVrf(a) ==
  LET id == VrfId(L2Seen, a.vrf, T(a))
  IN  DeleteRow(a, "vrfs", id, WithoutVrf(id), L2Looked(Sectioned))

Handle(a) ==
  IF SectionMissing(a)
  THEN Fail(a, IF a.kind = "attach_l2domain" THEN L2Looked(Sectioned) ELSE Sectioned)
  ELSE \/ a.kind = "create_section" /\ CreateSection(a)
       \/ a.kind = "create_l2domain" /\ CreateL2Domain(a)
       \/ a.kind = "update_l2domain" /\ UpdateL2Domain(a)
       \/ a.kind = "attach_l2domain" /\ AttachL2Domain(a)
       \/ a.kind = "create_vlan" /\ CreateVlan(a)
       \/ a.kind = "update_vlan" /\ UpdateVlan(a)
       \/ a.kind = "create_vrf" /\ CreateVrf(a)
       \/ a.kind = "update_vrf" /\ UpdateVrf(a)
       \/ a.kind = "create_subnet" /\ CreateSubnet(a)
       \/ a.kind = "link_subnet" /\ LinkSubnet(a)
       \/ a.kind = "delete_vlan" /\ DeleteVlan(a)
       \/ a.kind = "delete_vrf" /\ DeleteVrf(a)

Execute ==
  /\ running /\ applying
  /\ \E a \in pending : /\ \A b \in pending : ~ Before(b, a)
                         /\ Handle(a)

-----------------------------------------------------------------------------
(***************************************************************************)
(* What others do: operators edit the target at any time; a mirror         *)
(* delivers a snapshot, which a job pulls when it takes up the source.     *)
(***************************************************************************)
Edit(t) ==
  /\ edits < MaxEdits /\ MoreEvents
  /\ edits' = edits + 1
  /\ target' = t
  /\ UNCHANGED << config, snap, mode, running, queue, applying, pending, view, failed, errors,
                  outcome, faults, arrivals, begun >>

\* A subnet may be given what its section can use.
RelinkSubnet(i) ==
  LET s == target.subnets[i].section
  IN  \/ \E id \in ExportedVlans(target, s) \cup {NoId} :
            Edit([target EXCEPT !.subnets[i].vlanId = id])
      \/ \E id \in ExportedVrfs(target, s) \cup {NoId} :
            Edit([target EXCEPT !.subnets[i].vrfId = id])

RemoveVlan(id) == Edit(WithoutVlan(id))

RemoveVrf(id) == Edit(WithoutVrf(id))

ShareDomain(id, s) == Edit([target EXCEPT !.domains[id].sections = @ \cup {s}])

ShareVrf(id, s) == Edit([target EXCEPT !.vrfs[id].sections = @ \cup {s}])

Operator ==
  \/ \E i \in DOMAIN target.subnets : RelinkSubnet(i)
  \/ \E id \in DOMAIN target.vlans : RemoveVlan(id)
  \/ \E id \in DOMAIN target.vrfs : RemoveVrf(id) \/ \E s \in target.sects : ShareVrf(id, s)
  \/ \E id \in DOMAIN target.domains \ {DefaultDomain}, s \in target.sects : ShareDomain(id, s)

\* What arrives after a source was taken up is pulled by the next job.
TakenUp(n) ==
  /\ running
  /\ \/ applying /\ n = Current
     \/ ~ \E k \in 1 .. Len(queue) : queue[k] = n

Deliver(n) ==
  /\ arrivals < MaxArrivals /\ MoreEvents
  /\ ~ TakenUp(n)
  /\ arrivals' = arrivals + 1
  /\ \E p \in Snapshots[n] \ {snap[n]} : snap' = [snap EXCEPT ![n] = p]
  /\ UNCHANGED << target, config, mode, running, queue, applying, pending, view, failed, errors,
                  outcome, faults, edits, begun >>

-----------------------------------------------------------------------------
Init ==
  /\ target \in Targets
  /\ config \in Configs
  /\ snap \in {f \in [Source -> UNION {Snapshots[n] : n \in Source}] :
                \A n \in Source : f[n] \in Snapshots[n]}
  /\ mode \in Modes
  /\ running = FALSE /\ queue = << >> /\ applying = FALSE /\ pending = {}
  /\ view = NoView
  /\ failed = {} /\ errors = {} /\ outcome = "none"
  /\ faults = 0 /\ edits = 0 /\ arrivals = 0
  /\ begun = target.sects

JobStep ==
  StartJob \/ PlanSource \/ SourceFails \/ JobAborts \/ Execute \/ FinishSource \/ FinishJob

Next ==
  \/ JobStep
  \/ Crash
  \/ Operator
  \/ \E n \in Source : Deliver(n)

Spec == Init /\ [][Next]_vars

(***************************************************************************)
(* A timer starts the job, and the job, a single thread, runs on: it never *)
(* waits for anything but answers, and a lost answer is a timeout.         *)
(***************************************************************************)
Fairness == WF_vars(JobStep)

FairSpec == Spec /\ Fairness

-----------------------------------------------------------------------------
(***************************************************************************)
(* Properties.                                                             *)
(***************************************************************************)
\* Every variable keeps its type, and actions are only carried out for a current source.
TypeOK ==
  /\ TargetType(target)
  /\ config \in Configs
  /\ DOMAIN snap = Source /\ \A n \in Source : snap[n] \in Snapshots[n]
  /\ mode \in Modes
  /\ running \in BOOLEAN /\ applying \in BOOLEAN
  /\ queue \in Seq(Source)
  /\ applying => running /\ queue # << >>
  /\ pending \subseteq Action
  /\ ViewType(view, target.nextId)
  /\ failed \subseteq Source /\ errors \subseteq Source
  /\ outcome \in Outcome
  /\ faults \in 0 .. MaxFaults /\ edits \in 0 .. MaxEdits /\ arrivals \in 0 .. MaxArrivals
  /\ begun \subseteq Section

\* The sections of the target that are source n's, as its configuration says.
Claims(n) == {TargetName(config.sources[n], s) : s \in config.sources[n].sections}

OfOthers(n) == UNION {Claims(m) : m \in Source \ {n}}

Scoped(rows, i, sections) == i \in DOMAIN rows /\ rows[i].sections \cap sections # {}

Acting == running /\ applying /\ edits' = edits

\* A view that shows the target as it is, but for the links of subnets.
Shows(v, t) ==
  /\ \A x \in v.sects : x = t.sects
  /\ \A x \in v.l2 : x = L2Of(t)
  /\ \A s \in DOMAIN v.subnets :
       /\ DOMAIN v.subnets[s] = DOMAIN SubnetsOf(t, s)
       /\ \A i \in DOMAIN v.subnets[s] : v.subnets[s][i].cidr = t.subnets[i].cidr

(***************************************************************************)
(* The one view that all sources share is never behind the target while    *)
(* nothing fails and nobody else writes: a source is not planned, nor its  *)
(* actions resolved, from what an earlier source has since changed         *)
(* (ipam_import.py:305-308, target.py:284).  Links that went with a        *)
(* deleted VLAN or VRF stay in a listing; nothing reads them there.        *)
(***************************************************************************)
ViewCoherent == faults = 0 /\ edits = 0 => Shows(view, target)

\* What the current step deletes of the target has the one section s and is not in
\* that section's document.
DeletedIsOwn ==
  /\ \A i \in DOMAIN target.vlans \ DOMAIN target'.vlans :
       \E s \in DOMAIN P.docs :
         /\ target.domains[target.vlans[i].domainId].sections = {TargetName(C, s)}
         /\ KeyOf(target, i) \notin DOMAIN P.docs[s].vlans
  /\ \A i \in DOMAIN target.vrfs \ DOMAIN target'.vrfs :
       \E s \in DOMAIN P.docs :
         /\ target.vrfs[i].sections = {TargetName(C, s)}
         /\ target.vrfs[i].name \notin DOMAIN P.docs[s].vrfs

(***************************************************************************)
(* A job deletes a VLAN or VRF only when it is scoped to a section of the  *)
(* source at hand and to no other, and that source's snapshot does not     *)
(* have it (target.py:243-251, 266-271; plan.py:405-413).                  *)
(***************************************************************************)
OnlyOwnDeleted == [][Acting /\ faults' = 0 /\ edits = 0 => DeletedIsOwn]_vars

\* No section is ever taken off the list of a domain or a VRF.
ListsGrow(table) ==
  \A i \in DOMAIN target[table] \cap DOMAIN target'[table] :
    target[table][i].sections \subseteq target'[table][i].sections

(***************************************************************************)
(* "Both lists are only ever added to on the target, never replaced, so    *)
(* one subordinate's import cannot evict another's" (README.md:208-210;    *)
(* target.py:603-609): whatever fails, and with every job of every source. *)
(***************************************************************************)
NeverEvicted == [][ListsGrow("domains") /\ ListsGrow("vrfs")]_vars

\* The same, as long as nothing has failed and nobody else has written.
SectionListsGrow ==
  [][faults' = 0 /\ edits' = 0 => ListsGrow("domains") /\ ListsGrow("vrfs")]_vars

\* What becomes of the others' subnets and VRFs in a step for the current source.
SparesOthers ==
  /\ \A s \in OfOthers(Current) :
       /\ DOMAIN SubnetsOf(target', s) = DOMAIN SubnetsOf(target, s)
       /\ \A i \in DOMAIN SubnetsOf(target, s) :
            \/ target'.subnets[i] = target.subnets[i]
            \/ /\ DOMAIN target'.vlans # DOMAIN target.vlans
               /\ target'.subnets[i] = [target.subnets[i] EXCEPT !.vlanId = NoId]
            \/ /\ DOMAIN target'.vrfs # DOMAIN target.vrfs
               /\ target'.subnets[i] = [target.subnets[i] EXCEPT !.vrfId = NoId]
  /\ \A i \in DOMAIN target.vrfs :
       \/ Scoped(target.vrfs, i, Claims(Current))
       \/ i \in DOMAIN target'.vrfs /\ target'.vrfs[i] = target.vrfs[i]
  /\ \A i \in DOMAIN target'.vrfs \ DOMAIN target.vrfs :
       ~ Scoped(target'.vrfs, i, OfOthers(Current))

(***************************************************************************)
(* While it processes one source, a job leaves alone what is another's,    *)
(* whatever fails and whoever edits (plan.py:34-36, README.md:276-297,     *)
(* ipam_import.py:305-308): the subnets of the other's sections, but for a *)
(* link to a record that is deleted, and the VRFs that list none of its    *)
(* own; and it makes no VRF in the other's sections.                       *)
(***************************************************************************)
OthersUntouched == [][Acting => SparesOthers]_vars

(***************************************************************************)
(* Names stand for records: there is never a second domain of one name, a  *)
(* second VLAN of one domain and number, or a second VRF of one section    *)
(* and name (README.md:199-203), while no answer is lost.                  *)
(***************************************************************************)
NeverTwice ==
  faults = 0 /\ edits = 0 =>
    /\ \A i, j \in DOMAIN target.domains :
         target.domains[i].name = target.domains[j].name => i = j
    /\ \A i, j \in DOMAIN target.vlans : KeyOf(target, i) = KeyOf(target, j) => i = j
    /\ \A i, j \in DOMAIN target.vrfs :
         /\ target.vrfs[i].name = target.vrfs[j].name
         /\ Scoped(target.vrfs, i, target.vrfs[j].sections)
         => i = j

\* Source n's snapshot as it is found on the target: its sections, the records
\* they use, and the links of its subnets.
Mirrors(n) ==
  LET c == config.sources[n]  p == snap[n]  t(s) == TargetName(c, s)
  IN  /\ \A s \in DOMAIN p.docs :
           /\ t(s) \in target.sects
           /\ \A name \in DOMAIN p.docs[s].domains :
                \E i \in DOMAIN target.domains :
                  /\ target.domains[i].name = name
                  /\ target.domains[i].fields = p.docs[s].domains[name]
                  /\ i = DefaultDomain \/ t(s) \in target.domains[i].sections
           /\ \A key \in DOMAIN p.docs[s].vlans :
                \E i \in DOMAIN target.vlans :
                  KeyOf(target, i) = key /\ target.vlans[i].fields = p.docs[s].vlans[key]
           /\ \A name \in DOMAIN p.docs[s].vrfs :
                \E i \in DOMAIN target.vrfs :
                  /\ target.vrfs[i].name = name /\ t(s) \in target.vrfs[i].sections
                  /\ target.vrfs[i].fields = p.docs[s].vrfs[name]
      /\ \A d \in p.subnets :
           \E i \in DOMAIN target.subnets :
             /\ target.subnets[i].section = t(d.section) /\ target.subnets[i].cidr = d.cidr
             /\ VlanRef(target, target.subnets[i].vlanId) = d.vlan
             /\ VrfName(target, target.subnets[i].vrfId) = d.vrf

\* Sources agree on the records that they share.  (Where they do not, each run
\* of a job writes them once for either.)
Agree ==
  \A m, n \in Source : \A s \in DOMAIN snap[m].docs, u \in DOMAIN snap[n].docs :
    \A table \in {"domains", "vlans", "vrfs"} :
      LET f == snap[m].docs[s][table]  g == snap[n].docs[u][table]
      IN  \A k \in DOMAIN f \cap DOMAIN g : f[k] = g[k]

(***************************************************************************)
(* A job that ends clean has mirrored all its sources: none of them undid  *)
(* what another had done, and no link was dropped with a mere NOTE         *)
(* (ipam_import.py:279-281, 332-339).  Of a section that was created by    *)
(* this very job, the domains are attached by the next (plan.py:372).      *)
(***************************************************************************)
CleanJobMirrors ==
  [][/\ outcome' = "clean" /\ outcome # "clean"
     /\ edits = 0 /\ Agree /\ begun = target.sects
     => \A n \in Source : Mirrors(n)]_vars

\* What a planner without a cache would be shown.
Live ==
  [sects |-> target.sects, domains |-> target.domains, vlans |-> target.vlans,
   vrfs |-> target.vrfs, subnets |-> target.subnets]

\* No two records of the target t have one name, and none refers to what is not there.
Tidy(t) ==
  /\ \A i, j \in DOMAIN t.domains : t.domains[i].name = t.domains[j].name => i = j
  /\ \A i, j \in DOMAIN t.vlans : KeyOf(t, i) = KeyOf(t, j) => i = j
  /\ \A i, j \in DOMAIN t.vrfs :
       \A s \in t.vrfs[i].sections \cap t.vrfs[j].sections :
         t.vrfs[i].name = t.vrfs[j].name => i = j
  /\ \A i, j \in DOMAIN t.subnets :
       t.subnets[i].section = t.subnets[j].section /\ t.subnets[i].cidr = t.subnets[j].cidr => i = j
  /\ \A i \in DOMAIN t.vlans : t.vlans[i].domainId \in DOMAIN t.domains
  /\ \A i \in DOMAIN t.vrfs : t.vrfs[i].sections \subseteq t.sects

(***************************************************************************)
(* Once a source is mirrored, an additive run finds nothing to write for   *)
(* it (plan.py:1-10: the plan is the difference), whatever has failed and  *)
(* whoever has edited: as long as every name is in use once.  An operator  *)
(* may share a VRF with a section that has one of that name already, and   *)
(* of the two the planner looks at one (target.py:203-222).                *)
(***************************************************************************)
MirroredIsQuiet ==
  ~ running /\ Tidy(target) =>
    \A n \in Source :
      Mirrors(n) => Plan(config.sources[n], snap[n], Live, FALSE) = {}

\* Source n can be mirrored: its snapshot is readable, agrees with the others', and
\* is not refused in strict mode for all that it would delete.
Mirrorable(n) ==
  /\ ValidSources(config.sources) /\ config.create_missing_sections
  /\ snap[n].state = "readable" /\ Agree
  /\ mode = "strict" => ~ OverLimit(config.sources[n], snap[n], Live)

(***************************************************************************)
(* "One broken subordinate does not stop the others" (README.md:301-303,   *)
(* ipam_import.py:172-176): a source that can be mirrored is mirrored in   *)
(* the end and stays so, however the others' snapshots, the network and    *)
(* operators behave.                                                       *)
(***************************************************************************)
BrokenStopsNoOther == \A n \in Source : <>[]Mirrorable(n) => <>[]Mirrors(n)

(***************************************************************************)
(* The same, unless jobs are aborted again and again: sources that cannot  *)
(* be read or are refused, lost answers and edits are all got over, and    *)
(* what sources share does not make them undo each other's work for ever.  *)
(***************************************************************************)
EachSourceMirrored ==
  \A n \in Source : <>[](Mirrorable(n) /\ outcome # "aborted") => <>[]Mirrors(n)
=============================================================================

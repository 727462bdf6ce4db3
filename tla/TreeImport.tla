----------------------------- MODULE TreeImport -----------------------------
(***************************************************************************)
(* The importer at work: ipam_import.py runs build_plan (module TreePlan)  *)
(* once and hands the plan to ipamsync/target.py's Executor, which carries *)
(* it out one action, that is one handler, at a time against the target    *)
(* instance, reading it through a cached TargetView.                       *)
(*                                                                         *)
(* One process does this at a time.  Around it run: the mirror, which      *)
(* delivers another snapshot; operators, who edit the target through its   *)
(* own user interface; and failures -- the API refuses a write, the answer *)
(* to a write is lost, the process dies between two actions.               *)
(*                                                                         *)
(* A step of Execute stands for one handler with all the requests it       *)
(* makes, and build_plan reads the target in one step.  A handler that     *)
(* looks something up and then writes may do both long after one another   *)
(* anyway, through its caches; the one that looks at the live table and    *)
(* acts on what it saw, the deletion of a folder, is two steps:            *)
(* ConfirmEmpty and DoDeleteFolder.                                        *)
(*                                                                         *)
(* The target instance (phpIPAM) is not part of this repository: Accepts,  *)
(* Below, and what a write does to `rows` are taken from what the handlers *)
(* and their comments rely on.                                             *)
(***************************************************************************)
EXTENDS TreePlan

CONSTANTS
  Targets,        \* states of the target a behaviour may start from
  Snapshots,      \* snapshots the mirror may deliver
  Modes,          \* which of "additive", "strict", "forced" the runs use
  StrictSections, \* target sections whose strict mode validates creates
  CascadeSubnets, \* whether deleting a subnet deletes the rows below it
  MaxFaults,      \* bound on refused writes, lost answers and crashes
  MaxEdits,       \* bound on operators' edits
  MaxArrivals,    \* bound on snapshots delivered after the first
  MaxEvents       \* bound on all of these together

Mode == {"additive", "strict", "forced"}

\* The target's data: its section names, its table of subnets and folders by id,
\* and the next id it gives out.
Ids(nextId) == 1 .. (nextId - 1)

TableType(r, nextId) == r \in [DOMAIN r -> Row] /\ DOMAIN r \subseteq Ids(nextId)

TargetType(t) ==
  /\ t \in [sects : SUBSET TargetSection, rows : {t.rows}, nextId : Nat \ {None}]
  /\ TableType(t.rows, t.nextId)

ASSUME ImportAssumption ==
  /\ \A t \in Targets : TargetType(t)
  /\ \A s \in Snapshots :
       /\ s.sections \subseteq Section
       /\ s.folders \in [Section -> SUBSET FolderPath]
       /\ s.documents \subseteq Document
  /\ Modes \subseteq Mode
  /\ StrictSections \subseteq TargetSection
  /\ CascadeSubnets \in BOOLEAN
  /\ {MaxFaults, MaxEdits, MaxArrivals, MaxEvents} \subseteq Nat

\* phpIPAM gives a subnet or a folder a parent in its own section, by an id it gave
\* out; the parent may be gone since.
Housed(t) ==
  \A i \in DOMAIN t.rows :
    LET parent == t.rows[i].masterSubnetId
    IN  /\ parent \in Ids(t.nextId) \cup {None}
        /\ parent \in DOMAIN t.rows => t.rows[parent].section = t.rows[i].section

ASSUME HousedAssumption == \A t \in Targets : Housed(t)

\* write_snapshot refuses two documents with one path, and the exporter writes a
\* section document for every section whose subnets it writes.
Filed(s) ==
  /\ \A d, e \in s.documents : d.section = e.section /\ d.cidr = e.cidr => d = e
  /\ \A d \in s.documents : d.section \in s.sections

ASSUME FiledAssumption == \A s \in Snapshots : Filed(s)

\* phpIPAM lets nothing but a smaller subnet lie within a subnet.
Nested(r) ==
  \A i, j \in DOMAIN r : (r[j].masterSubnetId = i /\ ~ r[i].isFolder) =>
    ~ r[j].isFolder /\ PrefixLen[r[i].cidr] < PrefixLen[r[j].cidr]

ASSUME NestedAssumption == \A t \in Targets : Nested(t.rows)

\* So does the source, whose exporter names a parent by the CIDR of a subnet, or by the
\* path of a folder, that it writes as well.
Closed(s) ==
  /\ \A d \in s.documents : d.master_subnet # None =>
       /\ PrefixLen[d.master_subnet] < PrefixLen[d.cidr]
       /\ \E e \in s.documents : e.section = d.section /\ e.cidr = d.master_subnet
  /\ \A d \in s.documents :
       d.parent_folder # NoFolder => d.parent_folder \in s.folders[d.section]
  /\ \A x \in s.sections : \A p \in s.folders[x] :
       Len(p) > 1 => SubSeq(p, 1, Len(p) - 1) \in s.folders[x]

ASSUME ClosedAssumption == \A s \in Snapshots : Closed(s)

VARIABLES
  target,    \* the target instance
  snap,      \* the snapshot in the working copy
  mode,      \* the options the job runs with
  running,   \* whether the process is alive
  pending,   \* what is left of its plan
  cache,     \* its TargetView and the id caches of its Executor
  errors,    \* its record errors
  outcome,   \* how the last run ended
  foundEmpty, \* the deletion, if any, whose folder was just found empty
  faults, edits, arrivals,   \* budgets used
  \* History variables: nothing the process does depends on them.
  renumbered,  \* rows given another CIDR or section since the run started
  filed        \* rows operators entered or moved since a folder was found empty

vars == << target, snap, mode, running, pending, cache, errors, outcome,
           foundEmpty, faults, edits, arrivals, renumbered, filed >>

rows == target.rows

sects == target.sects

\* Bounds the run: one more event may happen.
MoreEvents == faults + edits + arrivals < MaxEvents

Why == {"unresolved", "vanished", "refused", "fault", "still present"}

Error == [action : Action, why : Why]

\* Two indexes are kept of a section, each with a listing of its own.
Index == {"subnets", "folders"}

\* What the process remembers: the target's sections; the indexes of some of them;
\* the addresses of some subnets; and ids by section and CIDR.
CacheType(c, nextId) ==
  /\ c \in [sections : SUBSET TargetSection, listings : {c.listings},
            addresses : {c.addresses}, ids : {c.ids}]
  /\ DOMAIN c.listings \subseteq TargetSection \X Index
  /\ \A k \in DOMAIN c.listings : TableType(c.listings[k], nextId)
  /\ c.addresses \in [DOMAIN c.addresses -> AddressTable]
  /\ DOMAIN c.addresses \subseteq Ids(nextId)
  /\ c.ids \in [DOMAIN c.ids -> Ids(nextId)]
  /\ DOMAIN c.ids \subseteq TargetSection \X Cidr

Outcome == {"none", "clean", "errors", "refused", "aborted", "died"}

-----------------------------------------------------------------------------
(***************************************************************************)
(* Partial functions play the dictionaries: a key is set and popped.       *)
(***************************************************************************)
Put(f, k, v) == [x \in DOMAIN f \cup {k} |-> IF x = k THEN v ELSE f[x]]

Pop(f, k) == [x \in DOMAIN f \ {k} |-> f[x]]

EmptyMap == [x \in {} |-> None]

(***************************************************************************)
(* phpIPAM.  In strict mode a subnet is created only within the subnet it  *)
(* names as its parent and only where it overlaps none of its siblings to  *)
(* be; an update is not validated.  Deleting a folder deletes everything   *)
(* below it.                                                               *)
(***************************************************************************)
Overlap(c, d) == c = d \/ << c, d >> \in Within \/ << d, c >> \in Within

Siblings(t, parent) ==
  {i \in DOMAIN rows : /\ rows[i].section = t
                       /\ ~ rows[i].isFolder
                       /\ rows[i].masterSubnetId = parent}

AcceptsSubnet(t, c, parent) ==
  /\ parent \in DOMAIN rows \cup {None}
  /\ t \in StrictSections =>
       /\ parent # None => rows[parent].isFolder \/ << c, rows[parent].cidr >> \in Within
       /\ \A i \in Siblings(t, parent) : ~ Overlap(rows[i].cidr, c)

AcceptsFolder(parent) ==
  parent # None => parent \in DOMAIN rows /\ rows[parent].isFolder

Below(id) ==
  {j \in DOMAIN rows :
     \A S \in SUBSET DOMAIN rows :
       (id \in S /\ \A k \in DOMAIN rows : rows[k].masterSubnetId \in S => k \in S)
         => j \in S}

RowsWithout(id) ==
  LET gone == IF rows[id].isFolder \/ CascadeSubnets THEN Below(id) ELSE {id}
  IN  [i \in DOMAIN rows \ gone |-> rows[i]]

NoAddresses == [ip \in Ip |-> None]

SubnetRow(t, c, parent, fields) ==
  [section |-> t, isFolder |-> FALSE, cidr |-> c, name |-> None,
   masterSubnetId |-> parent, fields |-> fields, addresses |-> NoAddresses]

FolderRow(t, name, parent) ==
  [section |-> t, isFolder |-> TRUE, cidr |-> None, name |-> name,
   masterSubnetId |-> parent, fields |-> None, addresses |-> NoAddresses]

-----------------------------------------------------------------------------
(***************************************************************************)
(* A run starts: read the snapshot, build the plan, check the limit.       *)
(***************************************************************************)
\* Mutant of RefusedAs: create_missing_sections is not consulted.
RefusedWithoutCreating == IF Unresolved(snap, sects) # {} THEN "refused" ELSE "none"

\* PlanError, or the ZeroDivisionError raised while its message is put
\* together when nothing is in scope; either way nothing is written.
RefusedAs ==
  IF Unresolved(snap, sects) # {} /\ ~ CreateMissing THEN "refused"
  ELSE IF mode = "strict" /\ OverLimit(snap, rows)
       THEN IF InScope(snap, rows) = {} THEN "aborted" ELSE "refused"
       ELSE "none"

\* What build_plan leaves in the caches.  To count the records in scope it reads
\* every subnet of every section, and its addresses; else only what is documented.
Counting == mode = "strict" /\ Deletes(snap, rows) # {}

SubnetsIndexed ==
  {TargetOf[s] : s \in IF Counting THEN SectionsNeeded(snap)
                       ELSE {d.section : d \in Ordered(snap.documents)}}

FoldersIndexed ==
  {TargetOf[s] : s \in snap.sections}
    \cup {TargetOf[d.section] :
            d \in {e \in Ordered(snap.documents) \ Missing(Ordered(snap.documents), rows) :
                    Current(e, rows).masterSubnetId # None}}

IndexesRead ==
  ((SubnetsIndexed \cap sects) \X {"subnets"})
    \cup ((FoldersIndexed \cap sects) \X {"folders"})

AddressesRead ==
  IF Counting THEN {r[2] : r \in InScope(snap, rows)}
  ELSE {SubnetId(Listing(rows, TargetOf[d.section]), d.cidr) :
          d \in Ordered(snap.documents) \ Missing(Ordered(snap.documents), rows)}

StartRun ==
  /\ ~ running
  /\ IF RefusedAs # "none"
     THEN /\ outcome' = RefusedAs
          /\ UNCHANGED << running, pending, cache, renumbered >>
     ELSE /\ running' = TRUE
          /\ pending' = Plan(snap, sects, rows, mode # "additive")
          /\ cache' = [sections |-> sects,
                       listings |-> [k \in IndexesRead |-> Listing(rows, k[1])],
                       addresses |-> [i \in AddressesRead |-> rows[i].addresses],
                       ids |-> EmptyMap]
          /\ outcome' = "none"
          /\ renumbered' = {}
  /\ UNCHANGED << target, snap, mode, errors, foundEmpty, faults, edits, arrivals, filed >>

NoCache == [sections |-> {}, listings |-> EmptyMap, addresses |-> EmptyMap,
            ids |-> EmptyMap]

\* The process is gone, and its caches with it.
ProcessEnds ==
  /\ running' = FALSE
  /\ pending' = {}
  /\ cache' = NoCache
  /\ errors' = {}
  /\ foundEmpty' = {} /\ renumbered' = {} /\ filed' = {}

FinishRun ==
  /\ running
  /\ pending = {}
  /\ outcome' = IF errors = {} THEN "clean" ELSE "errors"
  /\ ProcessEnds
  /\ UNCHANGED << target, snap, mode, faults, edits, arrivals >>

Crash ==
  /\ running
  /\ MoreEvents /\ faults < MaxFaults
  /\ faults' = faults + 1
  /\ outcome' = "died"
  /\ ProcessEnds
  /\ UNCHANGED << target, snap, mode, edits, arrivals >>

-----------------------------------------------------------------------------
(***************************************************************************)
(* What a handler sees: an index of a section and the addresses of a       *)
(* subnet, from the cache when they are there; the id of the action's      *)
(* subnet, from _subnet_ids when it is there.                              *)
(***************************************************************************)
T(a) == TargetOf[a.section]

\* Mutant of Key: ids are remembered by CIDR alone.
KeyWithoutSection(a) == << CHOOSE t \in TargetSection : TRUE, a.cidr >>

Key(a) == << T(a), a.cidr >>

Listed(t, x) ==
  IF << t, x >> \in DOMAIN cache.listings THEN cache.listings[<< t, x >>]
  ELSE Listing(rows, t)

AddressesListed(id) ==
  IF id \in DOMAIN cache.addresses THEN cache.addresses[id]
  ELSE IF id \in DOMAIN rows THEN rows[id].addresses ELSE NoAddresses

\* The caches c after an index of the action's section was consulted; the caches
\* after a handler has resolved its subnet, and after it has consulted the
\* addresses in it.
Looked(c, a, x) == [c EXCEPT !.listings = Put(@, << T(a), x >>, Listed(T(a), x))]

KnownId(a) ==
  IF Key(a) \in DOMAIN cache.ids THEN cache.ids[Key(a)]
  ELSE SubnetId(Listed(T(a), "subnets"), a.cidr)

\* Mutant of Resolved: that a subnet was not found is remembered as well.
ResolvedRememberingMisses(a) ==
  [Looked(cache, a, "subnets") EXCEPT !.ids = Put(@, Key(a), KnownId(a))]

Resolved(a) ==
  IF Key(a) \in DOMAIN cache.ids THEN cache
  ELSE IF KnownId(a) = None THEN Looked(cache, a, "subnets")
  ELSE [Looked(cache, a, "subnets") EXCEPT !.ids = Put(@, Key(a), KnownId(a))]

WithAddresses(a) ==
  [Resolved(a) EXCEPT !.addresses = Put(@, KnownId(a), AddressesListed(KnownId(a)))]

\* Mutants of Dropped and Reread: a stale index is kept.
KeptIndexes(c, t) == c

KeptAfterWrite(c, t, x, after) == c

\* invalidate_subnets; the same, followed by the read that confirms the write.
Dropped(c, t) ==
  [c EXCEPT !.listings = [k \in {j \in DOMAIN @ : j[1] # t} |-> @[k]]]

Reread(c, t, x, after) ==
  [Dropped(c, t) EXCEPT !.listings = Put(@, << t, x >>, Listing(after, t))]

(***************************************************************************)
(* How a handler ends.  Done: nothing to write (a NOTE, or already gone).  *)
(* Fail: an exception before any write.  Write: one request that changes   *)
(* the target to `after`.  It succeeds and the caches become `fresh`; or   *)
(* it is refused, and the caches stay as the lookups left them.  A request *)
(* may also be lost: a lookup, and nothing is written; the write, before   *)
(* or after it took effect; or, after the caches were `dropped`, the read  *)
(* that confirms it.  Executor.apply records the exception and goes on     *)
(* with the next action.                                                   *)
(***************************************************************************)
Taken(a) ==
  /\ pending' = pending \ {a}
  /\ foundEmpty' = {} /\ filed' = {}
  /\ UNCHANGED << snap, mode, running, outcome, edits, arrivals, renumbered >>

\* Mutant of Recorded: the exception is swallowed.
Swallowed(a, why) == UNCHANGED errors

Recorded(a, why) == errors' = errors \cup {[action |-> a, why |-> why]}

Lost(a) ==
  /\ MoreEvents /\ faults < MaxFaults
  /\ faults' = faults + 1
  /\ Taken(a)
  /\ Recorded(a, "fault")

\* Something was looked up that was not in a cache, and there was no answer.
LookupLost(a, looked) ==
  /\ looked # cache
  /\ Lost(a)
  /\ UNCHANGED << target, cache >>

Done(a, looked) ==
  \/ /\ Taken(a)
     /\ cache' = looked
     /\ UNCHANGED << target, errors, faults >>
  \/ LookupLost(a, looked)

Fail(a, why, looked) ==
  \/ /\ Taken(a)
     /\ Recorded(a, why)
     /\ cache' = looked
     /\ UNCHANGED << target, faults >>
  \/ LookupLost(a, looked)

WriteAndConfirm(a, accepted, after, looked, dropped, fresh, confirmed) ==
  \/ /\ Taken(a)
     /\ accepted
     /\ target' = after
     /\ cache' = fresh
     /\ IF confirmed THEN UNCHANGED errors ELSE Recorded(a, "still present")
     /\ UNCHANGED faults
  \/ /\ Taken(a)
     /\ ~ accepted
     /\ cache' = looked
     /\ Recorded(a, "refused")
     /\ UNCHANGED << target, faults >>
  \/ /\ Lost(a)
     /\ cache' = looked
     /\ UNCHANGED target
  \/ /\ Lost(a)
     /\ accepted
     /\ target' = after
     /\ cache' \in {looked, dropped}
  \/ LookupLost(a, looked)

\* A write that nothing confirms: the caches `fresh` are what its answer leaves.
Write(a, accepted, after, looked, fresh) ==
  WriteAndConfirm(a, accepted, after, looked, looked, fresh, TRUE)

Created(row) ==
  [target EXCEPT !.rows = Put(@, target.nextId, row), !.nextId = @ + 1]

Deleted(id) == [target EXCEPT !.rows = RowsWithout(id)]

-----------------------------------------------------------------------------
(***************************************************************************)
(* The handlers, _do_<kind>.                                               *)
(***************************************************************************)
\* _section_id fails: the section was to be created and is not there.
DoWithoutSection(a) ==
  /\ a.kind # "create_section"
  /\ T(a) \notin cache.sections
  /\ Fail(a, "unresolved", cache)

On(kind, a) == a.kind = kind /\ T(a) \in cache.sections

DoCreateSection(a) ==
  /\ a.kind = "create_section"
  /\ LET after == [target EXCEPT !.sects = @ \cup {T(a)}]
         read == [cache EXCEPT !.sections = after.sects]
     IN  WriteAndConfirm(a, T(a) \notin sects, after, cache, read, read, TRUE)

\* Mutant of WantedParent: a parent subnet is not looked up.
WantedFolderOnly(a) ==
  IF a.folder # NoFolder THEN FolderId(Listed(T(a), "folders"), a.folder) ELSE None

\* The id of the parent an action names: None when it names none, and when the
\* folder or the subnet it names is not there.
WantedParent(a) ==
  IF a.folder # NoFolder THEN FolderId(Listed(T(a), "folders"), a.folder)
  ELSE IF a.master_subnet # None THEN SubnetId(Listed(T(a), "subnets"), a.master_subnet)
  ELSE None

\* The caches c after the parent was looked up.
ParentLooked(c, a) ==
  IF a.folder # NoFolder THEN Looked(c, a, "folders")
  ELSE IF a.master_subnet # None THEN Looked(c, a, "subnets")
  ELSE c

\* A parent that is not there leaves the new subnet top-level, with a NOTE.
DoCreateSubnet(a) ==
  /\ On("create_subnet", a)
  /\ LET parent == WantedParent(a)
         after == Created(SubnetRow(T(a), a.cidr, parent, a.fields))
         looked == ParentLooked(cache, a)
     IN  WriteAndConfirm(a, AcceptsSubnet(T(a), a.cidr, parent), after, looked,
                         Dropped(looked, T(a)),
                         Reread(looked, T(a), "subnets", after.rows), TRUE)

DoCreateFolder(a) ==
  /\ On("create_folder", a)
  /\ LET p == a.folder
         nested == Len(p) > 1
         parent == IF nested
                   THEN FolderId(Listed(T(a), "folders"), SubSeq(p, 1, Len(p) - 1))
                   ELSE None
         looked == IF nested THEN Looked(cache, a, "folders") ELSE cache
         after == Created(FolderRow(T(a), p[Len(p)], parent))
     IN  IF nested /\ parent = None
         THEN Fail(a, "unresolved", looked)
         ELSE WriteAndConfirm(a, AcceptsFolder(parent), after, looked,
                              Dropped(looked, T(a)),
                              Reread(looked, T(a), "folders", after.rows), TRUE)

\* The view is left as it is: nothing reads a subnet's fields from it again.
DoUpdateSubnet(a) ==
  /\ On("update_subnet", a)
  /\ LET id == KnownId(a)
     IN  IF id = None THEN Fail(a, "unresolved", Resolved(a))
         ELSE Write(a, id \in DOMAIN rows,
                    [target EXCEPT !.rows[id].fields = a.fields],
                    Resolved(a), Resolved(a))

DoDetachSubnet(a) ==
  /\ On("detach_subnet", a)
  /\ LET id == KnownId(a)
     IN  IF id = None THEN Fail(a, "unresolved", Resolved(a))
         ELSE Write(a, id \in DOMAIN rows,
                    [target EXCEPT !.rows[id].masterSubnetId = None],
                    Resolved(a), Dropped(Resolved(a), T(a)))

\* A parent that is not there leaves the subnet where it is, with a NOTE.
DoReparentSubnet(a) ==
  /\ On("reparent_subnet", a)
  /\ LET id == KnownId(a)
         parent == WantedParent(a)
         wanted == a.folder # NoFolder \/ a.master_subnet # None
         looked == ParentLooked(Resolved(a), a)
     IN  IF id = None THEN Fail(a, "unresolved", Resolved(a))
         ELSE IF wanted /\ parent = None THEN Done(a, looked)
         ELSE Write(a, id \in DOMAIN rows,
                    [target EXCEPT !.rows[id].masterSubnetId = parent],
                    looked, Dropped(looked, T(a)))

DoCreateAddress(a) ==
  /\ On("create_address", a)
  /\ LET id == KnownId(a)
     IN  IF id = None THEN Fail(a, "unresolved", Resolved(a))
         ELSE Write(a, id \in DOMAIN rows /\ rows[id].addresses[a.ip] = None,
                    [target EXCEPT !.rows[id].addresses[a.ip] = a.fields],
                    Resolved(a), [Resolved(a) EXCEPT !.addresses = Pop(@, id)])

DoUpdateAddress(a) ==
  /\ On("update_address", a)
  /\ LET id == KnownId(a)
     IN  IF id = None THEN Fail(a, "unresolved", Resolved(a))
         ELSE IF AddressesListed(id)[a.ip] = None
              THEN Fail(a, "vanished", WithAddresses(a))
         ELSE Write(a, id \in DOMAIN rows /\ rows[id].addresses[a.ip] # None,
                    [target EXCEPT !.rows[id].addresses[a.ip] = a.fields],
                    WithAddresses(a), WithAddresses(a))

DoDeleteAddress(a) ==
  /\ On("delete_address", a)
  /\ LET id == KnownId(a)
     IN  IF id = None THEN Fail(a, "unresolved", Resolved(a))
         ELSE IF AddressesListed(id)[a.ip] = None THEN Done(a, WithAddresses(a))
         ELSE Write(a, id \in DOMAIN rows /\ rows[id].addresses[a.ip] # None,
                    [target EXCEPT !.rows[id].addresses[a.ip] = None],
                    WithAddresses(a),
                    [WithAddresses(a) EXCEPT !.addresses = Pop(@, id)])

\* Looks the id up in the index, not in _subnet_ids, and pops it from there.
DoDeleteSubnet(a) ==
  /\ On("delete_subnet", a)
  /\ LET id == SubnetId(Listed(T(a), "subnets"), a.cidr)
         after == Deleted(id)
         looked == Looked(cache, a, "subnets")
         popped == [looked EXCEPT !.addresses = Pop(@, id), !.ids = Pop(@, Key(a))]
     IN  IF id = None THEN Done(a, looked)
         ELSE WriteAndConfirm(
                a, id \in DOMAIN rows, after, looked, Dropped(popped, T(a)),
                Reread(popped, T(a), "subnets", after.rows),
                SubnetIds(Listing(after.rows, T(a)), a.cidr) = {})

IsNext(a) == a \in pending /\ \A b \in pending : ~ Before(b, a)

\* Mutant of SubnetsUnder: the folder is taken to be empty.
NothingUnder(t, id) == {}

\* The rows of section t whose parent is the row id, read from the live table.
SubnetsUnder(t, id) == {i \in DOMAIN Listing(rows, t) : rows[i].masterSubnetId = id}

FoundFolder(a) == FolderId(Listed(T(a), "folders"), a.folder)

\* Only an empty folder goes, and it is the live table that must say so.  The
\* DELETE is a request of its own: until it is carried out, operators may file
\* something in the folder.
ConfirmEmpty ==
  /\ running
  /\ foundEmpty = {}
  /\ \E a \in pending :
       /\ IsNext(a) /\ On("delete_folder", a)
       /\ FoundFolder(a) # None
       /\ SubnetsUnder(T(a), FoundFolder(a)) = {}
       /\ foundEmpty' = {a}
       /\ cache' = Looked(cache, a, "folders")
  /\ UNCHANGED << target, snap, mode, running, pending, errors, outcome,
                  faults, edits, arrivals, renumbered, filed >>

DoDeleteFolder(a) ==
  /\ On("delete_folder", a)
  /\ LET id == FoundFolder(a)
         looked == Looked(cache, a, "folders")
     IN  \/ /\ a \notin foundEmpty
            /\ id = None \/ SubnetsUnder(T(a), id) # {}
            /\ Done(a, looked)
         \/ /\ a \notin foundEmpty /\ id # None   \* a request for either is lost
            /\ Lost(a)
            /\ cache' \in {cache, looked}
            /\ UNCHANGED target
         \/ /\ a \in foundEmpty
            /\ Write(a, id \in DOMAIN rows, Deleted(id), looked, Dropped(looked, T(a)))

Handle(a) ==
  \/ DoWithoutSection(a) \/ DoCreateSection(a)
  \/ DoCreateFolder(a) \/ DoCreateSubnet(a) \/ DoUpdateSubnet(a)
  \/ DoDetachSubnet(a) \/ DoReparentSubnet(a)
  \/ DoCreateAddress(a) \/ DoUpdateAddress(a)
  \/ DoDeleteAddress(a) \/ DoDeleteSubnet(a) \/ DoDeleteFolder(a)

Execute ==
  running /\ \E a \in pending : IsNext(a) /\ foundEmpty \subseteq {a} /\ Handle(a)

-----------------------------------------------------------------------------
(***************************************************************************)
(* Everybody else.  An operator's edit goes through phpIPAM: on a create,  *)
(* a resize and a move to another section it makes its own checks, another *)
(* parent within the section is taken as it is.  The mirror replaces the   *)
(* working copy between runs.                                              *)
(***************************************************************************)
\* An edit that gives the rows of R another CIDR or section, and that enters or
\* moves the rows of F.
Edit(after, R, F) ==
  /\ MoreEvents /\ edits < MaxEdits
  /\ edits' = edits + 1
  /\ target' = after
  /\ renumbered' = renumbered \cup R
  /\ filed' = IF foundEmpty = {} THEN {} ELSE filed \cup F
  /\ UNCHANGED << snap, mode, running, pending, cache, errors, outcome, foundEmpty,
                  faults, arrivals >>

OperatorCreatesSubnet ==
  \E t \in sects, c \in Cidr, f \in FieldValue, parent \in DOMAIN rows \cup {None} :
    /\ parent # None => rows[parent].section = t
    /\ AcceptsSubnet(t, c, parent)
    /\ Edit(Created(SubnetRow(t, c, parent, f)), {}, {target.nextId})

OperatorMovesSubnet ==
  \E i \in DOMAIN rows, parent \in DOMAIN rows \cup {None} :
    /\ ~ rows[i].isFolder
    /\ parent # None => rows[parent].section = rows[i].section
    /\ parent \notin Below(i) \cup {rows[i].masterSubnetId}
    /\ Edit([target EXCEPT !.rows[i].masterSubnetId = parent], {}, Below(i))

\* phpIPAM moves what is below along, and takes the subnet out of its parent.
InSection(i, t) ==
  [j \in DOMAIN rows |->
     [rows[j] EXCEPT !.section = IF j \in Below(i) THEN t ELSE @,
                     !.masterSubnetId = IF j = i THEN None ELSE @]]

OperatorMovesToSection ==
  \E i \in DOMAIN rows : \E t \in sects \ {rows[i].section} :
    /\ ~ rows[i].isFolder
    /\ AcceptsSubnet(t, rows[i].cidr, None)
    /\ Edit([target EXCEPT !.rows = InSection(i, t)], Below(i), Below(i))

OperatorResizesSubnet ==
  \E i \in DOMAIN rows : \E c \in Cidr \ {rows[i].cidr} :
    LET parent == rows[i].masterSubnetId
    IN  /\ ~ rows[i].isFolder
        /\ rows[i].section \in StrictSections =>
             /\ parent \in DOMAIN rows =>
                  rows[parent].isFolder \/ << c, rows[parent].cidr >> \in Within
             /\ \A j \in Siblings(rows[i].section, parent) \ {i} : ~ Overlap(rows[j].cidr, c)
        /\ Edit([target EXCEPT !.rows[i].cidr = c], {i}, {})

OperatorSetsAddress ==
  \E i \in DOMAIN rows, ip \in Ip, v \in FieldValue \cup {None} :
    /\ ~ rows[i].isFolder
    /\ v # rows[i].addresses[ip]
    /\ Edit([target EXCEPT !.rows[i].addresses[ip] = v], {}, {})

OperatorDeletes == \E i \in DOMAIN rows : Edit(Deleted(i), {}, {})

Operator ==
  \/ OperatorCreatesSubnet \/ OperatorMovesSubnet \/ OperatorMovesToSection
  \/ OperatorResizesSubnet \/ OperatorSetsAddress \/ OperatorDeletes

Deliver ==
  /\ ~ running
  /\ MoreEvents /\ arrivals < MaxArrivals
  /\ arrivals' = arrivals + 1
  /\ snap' \in Snapshots \ {snap}
  /\ outcome' = "none"
  /\ UNCHANGED << target, mode, running, pending, cache, errors, foundEmpty, faults,
                  edits, renumbered, filed >>

Init ==
  /\ target \in Targets
  /\ snap \in Snapshots
  /\ mode \in Modes
  /\ running = FALSE
  /\ pending = {}
  /\ cache = NoCache
  /\ errors = {}
  /\ outcome = "none"
  /\ foundEmpty = {}
  /\ faults = 0 /\ edits = 0 /\ arrivals = 0
  /\ renumbered = {} /\ filed = {}

Next == StartRun \/ ConfirmEmpty \/ Execute \/ FinishRun \/ Crash \/ Operator \/ Deliver

\* The job is a cron entry: it is started again and again, and a run that is
\* alive goes on.  Operators, the mirror and failures owe nothing.
Fairness ==
  /\ WF_vars(StartRun) /\ WF_vars(ConfirmEmpty) /\ WF_vars(Execute)
  /\ WF_vars(FinishRun)

Spec == Init /\ [][Next]_vars

FairSpec == Spec /\ Fairness

-----------------------------------------------------------------------------
(***************************************************************************)
(* Properties.                                                             *)
(***************************************************************************)
\* The types of the target, of the plan and of the caches: every id the process
\* holds was given out by the target, every cached row is a row.
TypeOK ==
  /\ TargetType(target)
  /\ CacheType(cache, target.nextId)
  /\ snap \in Snapshots /\ mode \in Modes /\ running \in BOOLEAN
  /\ pending \subseteq Action
  /\ errors \subseteq Error
  /\ outcome \in Outcome
  /\ foundEmpty \subseteq Action
  /\ renumbered \cup filed \subseteq Ids(target.nextId)
  /\ faults \in 0 .. MaxFaults /\ edits \in 0 .. MaxEdits /\ arrivals \in 0 .. MaxArrivals

(***************************************************************************)
(* The caches.  In a run that nobody disturbs - no operator ever edited,   *)
(* and no request of this run was lost (one that is adds to its errors),   *)
(* whatever happened to the runs before it - what the process would read   *)
(* from its caches is what it would read from the target: every write      *)
(* drops what it makes stale (invalidate_subnets, invalidate_addresses,    *)
(* _subnet_ids.pop).  Fields and address values are left out: updates do   *)
(* not refresh them and nothing reads them again.                          *)
(***************************************************************************)
Shape(L) ==
  [i \in DOMAIN L |-> [isFolder |-> L[i].isFolder, cidr |-> L[i].cidr,
                      name |-> L[i].name, masterSubnetId |-> L[i].masterSubnetId]]

InUse(table) == {ip \in Ip : table[ip] # None}

Undisturbed == edits = 0 /\ (faults = 0 \/ errors = {})

CacheCoherent ==
  (running /\ Undisturbed) =>
    /\ cache.sections = sects
    /\ \A k \in DOMAIN cache.listings :
         Shape(cache.listings[k]) = Shape(Listing(rows, k[1]))
    /\ \A k \in DOMAIN cache.ids : cache.ids[k] \in SubnetIds(Listing(rows, k[1]), k[2])
    /\ \A i \in DOMAIN cache.addresses :
         i \in DOMAIN rows => InUse(cache.addresses[i]) = InUse(rows[i].addresses)

(***************************************************************************)
(* Caches go stale when somebody else writes or an answer is lost.  An id  *)
(* the process holds for a section and a CIDR then denotes that subnet,    *)
(* or nothing, or a subnet that an operator resized or moved to another    *)
(* section while the run was under way: to that one, and to no other, a    *)
(* write may go that was meant for what the row used to be.                *)
(***************************************************************************)
TrueListing(L, t, r) ==
  \A i \in DOMAIN L :
    /\ L[i].section = t
    /\ i \in DOMAIN r => r[i].section = t /\ r[i].cidr = L[i].cidr

Remembers(c, r) ==
  /\ \A k \in DOMAIN c.listings : TrueListing(c.listings[k], k[1], r)
  /\ \A k \in DOMAIN c.ids : c.ids[k] \in DOMAIN r =>
       r[c.ids[k]].section = k[1] /\ r[c.ids[k]].cidr = k[2]

Steady(r) == [i \in DOMAIN r \ renumbered |-> r[i]]

IdsStayTrue == Remembers(cache, Steady(rows))

\* Neither the row nor anything it lies in was resized or moved to another section
\* while the run was under way, and all of it is in one section.
Settled(i) ==
  \A j \in DOMAIN rows :
    i \in Below(j) => j \notin renumbered /\ rows[j].section = rows[i].section

(***************************************************************************)
(* What a replica is for: the target holds what the snapshot says, and in  *)
(* the strict modes nothing else.  Stated of the snapshot's documents and  *)
(* the target's rows, without any part of the planner's comparison.        *)
(***************************************************************************)
Matches(d, L, i) ==
  /\ L[i].fields = d.fields
  /\ d.parent_folder = FolderOf(L, L[i].masterSubnetId)
  /\ d.parent_folder = NoFolder => d.master_subnet = CurrentParent(L, i)
  /\ \A ip \in Ip : d.addresses[ip] # L[i].addresses[ip]
                      => d.addresses[ip] = None /\ mode = "additive"

Mirrored ==
  /\ \A d \in snap.documents :
       LET L == Listing(rows, TargetOf[d.section])
       IN  \E i \in SubnetIds(L, d.cidr) : Matches(d, L, i)
  /\ \A s \in snap.sections :
       LET L == Listing(rows, TargetOf[s])
       IN  /\ TargetOf[s] \in sects
           /\ snap.folders[s] \subseteq FoldersOf(L)
           /\ mode # "additive" =>
                /\ FoldersOf(L) \subseteq snap.folders[s]
                /\ CidrsOf(L) \subseteq {d.cidr : d \in {e \in snap.documents : e.section = s}}

\* A run that reports no error has left a replica: no handler that gives up with
\* only a NOTE, no skipped write, goes by unnoticed (Executor.apply, README
\* "Exit codes").
CleanRunMirrors == [][(FinishRun /\ errors = {}) => Mirrored]_vars

\* Once the target is a replica the next run plans no write, whatever way it
\* became one: the planner and its comparisons agree with the snapshot.
MirroredIsQuiet ==
  (~ running /\ Mirrored) => Plan(snap, sects, rows, mode # "additive") = {}

\* Of two rows of one network the planner sees one; the other stays where it is, and
\* so does the folder that it lies in.
HeldByDouble == \E i, j \in DOMAIN rows :
  /\ i # j /\ ~ rows[i].isFolder
  /\ rows[i].section = rows[j].section /\ rows[i].cidr = rows[j].cidr
  /\ \E folder \in DOMAIN rows :
       rows[folder].isFolder /\ rows[i].masterSubnetId = folder

\* Runs that are started again and again make the target a replica and keep it
\* one, whatever is refused, lost or interrupted on the way.  (In an additive run
\* an unlisted subnet may be in the way of a listed one for good, and in any run a
\* network that an operator has entered twice, once in a folder.)
EventuallyMirrored == mode # "additive" => <>[](Mirrored \/ HeldByDouble)

Documented(i) == \E d \in snap.documents :
  TargetOf[d.section] = rows[i].section /\ d.cidr = rows[i].cidr

DocumentedAddress(i, ip) == \E d \in snap.documents :
  /\ TargetOf[d.section] = rows[i].section /\ d.cidr = rows[i].cidr
  /\ d.addresses[ip] # None

Spares(after) ==
  \A i \in DOMAIN rows :
    /\ i \in DOMAIN after
    /\ i \notin renumbered =>
         /\ ~ Documented(i) => after[i] = rows[i]
         /\ \A ip \in Ip : rows[i].addresses[ip] # None /\ ~ DocumentedAddress(i, ip)
                            => after[i].addresses[ip] = rows[i].addresses[ip]

\* Additive means additive: no step of the process takes a row away, whatever was
\* edited or lost since the plan was made; nor does it overwrite a row or an address
\* that the snapshot does not list (plan.py, "Additive by default"), unless in a
\* subnet that an operator resized or moved to another section during the run and
\* that the process still knows by what it was.
DriftUntouched == [][(mode = "additive" /\ Execute) => Spares(rows')]_vars

\* With a subnet that the snapshot does not list phpIPAM may delete what lies below,
\* also what an operator has just put there.
TakenAlong(i) ==
  /\ CascadeSubnets /\ ~ Undisturbed
  /\ \E j \in (DOMAIN rows \ DOMAIN rows') \ {i} :
       i \in Below(j) /\ ~ rows[j].isFolder /\ ~ Documented(j)

\* A row the process removes is a folder or a subnet the snapshot does not list
\* (plan.py, "Deleting"), or one that operators put in a folder after it was found
\* empty, or that they, or whatever it lies in, resized or moved to another section
\* during the run; or it was below a subnet that the snapshot does not list, and the
\* run not undisturbed.  (When both writes that move a listed subnet out of an orphan
\* are lost, the orphan is deleted all the same and takes it along.)
OnlyOrphansRemoved ==
  [][Execute =>
       \A i \in DOMAIN rows \ DOMAIN rows' :
         \/ rows[i].isFolder \/ ~ Documented(i)
         \/ i \in filed \/ ~ Settled(i) \/ TakenAlong(i)]_vars

\* "A parent is never removed while a child still points at it" (plan.py:46), in runs
\* nobody disturbs: after the deletion of a child was lost its parent's deletion is
\* still carried out, and an operator may put a child below an orphan at any time.
ParentOutlivesChild ==
  [][(Execute /\ Undisturbed) => \A i \in DOMAIN rows \ DOMAIN rows' :
       \A j \in DOMAIN rows : rows[j].masterSubnetId # i]_vars

\* A write whose answer was lost, and a run that died, are made up for by the
\* next run; making up for them never enters a subnet or a folder twice, also in
\* a section where phpIPAM itself would accept the second one.
NeverDuplicates ==
  [][Execute => \A i \in DOMAIN rows' \ DOMAIN rows : \A j \in DOMAIN rows' \ {i} :
       ~ /\ rows'[i].section = rows'[j].section
         /\ rows'[i].isFolder = rows'[j].isFolder
         /\ rows'[i].cidr = rows'[j].cidr
         /\ rows'[i].isFolder =>
              /\ rows'[i].name = rows'[j].name
              /\ rows'[i].masterSubnetId = rows'[j].masterSubnetId]_vars

\* A row in a section that no source section maps to is none of the importer's,
\* unless it was resized, or moved there, while the run was under way, or lies in
\* a row that was, or in one of another section.
OutOfScopeUntouched ==
  [][Execute => \A i \in DOMAIN rows :
       rows[i].section \notin {TargetOf[s] : s \in Section} /\ Settled(i)
         => i \in DOMAIN rows' /\ rows'[i] = rows[i]]_vars

\* "Subnets match on (target section, canonical CIDR)" (plan.py:77): a subnet
\* that has a document is not planned to be deleted.
MatchedBySection ==
  \A a \in pending : a.kind = "delete_subnet" =>
    ~ \E d \in snap.documents : d.section = a.section /\ d.cidr = a.cidr

\* The limit refuses a run that "would delete more than that fraction of the
\* in-scope target records" (plan.py:37): records are subnets and addresses.
Erased ==
  {r \in InScope(snap, rows) :
     \E a \in Deletes(snap, rows) :
       /\ a.section = r[1] /\ a.cidr = rows[r[2]].cidr
       /\ a.kind = "delete_subnet" \/ (a.kind = "delete_address" /\ a.ip = r[3])}

LimitHolds ==
  [][(StartRun /\ running' /\ mode = "strict") =>
       Cardinality(Erased) <= Allowed(Cardinality(InScope(snap, rows)))]_vars
=============================================================================

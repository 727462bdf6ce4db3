# phpipam-sync: specification, model checking and proofs

phpipam-sync copies selected sections of one phpIPAM instance (the *source*)
to another (the *target*).  `ipam_export.py` reads the source through its REST
API and writes a directory of JSON documents with a manifest of digests, which
it may commit to git and push.  A mirror nobody here controls carries the files
across.  `ipam_import.py` reads them, compares them with the target's present
contents, makes a plan, and carries the plan out one API request at a time.
There is no state but the two databases and the files: every run starts from
what it finds.

This directory states what that machinery is supposed to guarantee, model-checks
it on small instances with TLC, and proves part of it for all instances with
TLAPS.

## Inventory

| Component | State it keeps | Operations | Met with |
|---|---|---|---|
| Exporter, `ipam_export.py` | the documents assembled so far; the git working copy | read sections, subnets, addresses; `write_snapshot`; `commit_snapshot` | the source being edited meanwhile; API, disk and git failures; being killed |
| Snapshot store, `ipamsync/snapshot.py` | files, `manifest.json` | `write_snapshot`, `partition_documents`, `read_snapshot` | half written files; files of different exports side by side |
| Mirror (external) | the copy at the importing side | moves files | any order, damage, delay, outage |
| Import driver, `ipam_import.py` | one process; its exit status | `git_pull`, `run_one_source`, the loop over sources | one bad source among several |
| Planner, `ipamsync/plan.py` | none (a function) | `order_documents`, `build_plan`, `_check_delete_limit` | what phpIPAM will refuse later; what must not be deleted |
| Target view and executor, `ipamsync/target.py` | six caches of the target, two of ids, the error list | one handler per action kind | operators, refusals, lost answers, being killed between two actions |
| Field policy, `ipamsync/model.py` | none | which fields are carried, compared and written | custom fields that differ between the instances |
| Configuration, `ipamsync/config.py` | none | parse, validate, section map, ownership of sections | two sources claiming one section |
| API client, `phpipam_client.py`, `ipamsync/client_ext.py` | none | one request per call, no retries | an error that means "empty" |
| phpIPAM (external) | the databases | overlap validation, cascading deletes | |

How they interact: the exporter and the importer share nothing but files; the
mirror is the only channel, and it may be arbitrarily late.  At each end only one
process runs (the README has both cron entries wrapped in `flock`: "there is no
internal locking").  Inside the importer, `build_plan` fills the caches of the
`TargetView`, and the executor's handlers use, refresh and drop them.  The
operators of the target, working in phpIPAM's own user interface, are concurrent
with all of it.

What is hard here, and which properties are about it, is listed line by line
under `hazards` in `PROJECT.json`.  In short:

* **ordering** - phpIPAM refuses a subnet that overlaps a sibling, so aggregates
  can be inserted only by detaching, creating and re-parenting in one order;
  deletes must run children first;
* **staleness** - handlers act on caches, and on a plan that is older still;
* **partial failure** - each action is tried even if an earlier one failed, and
  a run may die anywhere; the next run has nothing to go by but the target;
* **asynchrony** - a snapshot is many files that travel singly;
* **limits** - deletions are counted, and refused beyond a fraction.

## The modules

| Module | What it is |
|---|---|
| `TreePlan` | the planner, for sections, folders, subnets and addresses: operators on a snapshot and a table |
| `TreeImport` | the importer at work: driver, caches, the handlers for those records, failures, operators |
| `MCTree` | instances of `TreeImport` |
| `TreeImport_proofs` | theorems about them: types, ids, additive runs |
| `TreeEffects_proofs` | what any handler does to rows and caches, and the theorems that follow from that |
| `TreeOrder_proofs` | the order of a plan: what is done before a subnet is deleted, and the theorems that need it |
| `SnapshotChannel` | abstract: what the path between the two programs promises, a register |
| `SnapshotMirror` | the path itself: exporter, files, git, mirror, reader |
| `SnapshotMirror_proofs` | theorems about it, the refinement among them |
| `MCMirror` | instances of `SnapshotMirror` |
| `L2Plan` | the planner, for L2 domains, VLANs, VRFs and links; the exporter's view of them; the configuration of a master |
| `L2Import` | a master at work: one job over several sources, the handlers for those records, failures, operators |
| `L2Plan_proofs`, `L2Import_proofs` | theorems about them |
| `MCFanIn` | instances of `L2Import` |
| `FieldPolicy` | what of one record travels: partition, probes, flattening, comparison, writing |
| `FieldPolicy_proofs` | theorems about it |
| `MCFields` | instances of `FieldPolicy` |
| `OrderDocuments` | `order_documents` as the recursive search it is, against `TreePlan`'s order |
| `Maps` | partial functions that play dictionaries |
| `Extremes` | a non-empty finite set of naturals has a least and a greatest member: what the lookups by `Min` and `Max` need, from the well-foundedness of the naturals (`WFMin`) |

`TreeImport`, `L2Import` and `FieldPolicy` cut the same importer in three.  A tree is
one source's alone, so it is studied with one source and in depth; L2 records are flat
but shared, so they are studied with several sources; both take the replicated fields
of a record for one value, and `FieldPolicy` looks inside it.  What the first two
share is small (sections, and that a subnet with a CIDR has an id) and is in both.

### TreePlan

A plan in the code is a list, built by concatenating phases; here it is a set of
actions each of which carries a `rank`, and `Before` compares ranks, so that "the
order of the list" is one definition.  Phases, in order: sections, detaches,
folders, then per document (in `order_documents`' order) create or update,
re-parent, addresses; then deletes of addresses, subnets (deepest prefix first)
and folders (deepest path first).  `order_documents` is a depth-first search in
the code; `Place` is its closed form: a document's place is fixed by the first
visit that reaches it and by its depth.  `OrderDocuments` has the search itself, and
its assumption `DocumentOrder`, which TLC evaluates in every run of `MCTree`, says
that over the networks of the instance and every assignment of parents each document
is ordered once, cycles included, and that without cycles the order is that of
`Place`.

Data: CIDRs are numbers in string order, with a relation `Within` and a prefix
length; all replicated fields of a record are one value; an address is a value in
its subnet's row.  Comparing fields is therefore exact equality here; what counts
as equal is `model.py`'s business.

Two rows under one natural key are indexed by the code in the order in which the
API lists them; `Pick` chooses one arbitrarily but always the same one.

### TreeImport

| Variable | Code |
|---|---|
| `target` | the target's sections and its `subnets` table, rows by id |
| `snap` | what `read_snapshot` returns at the start of a run |
| `mode` | `additive` (no `--delete`), `strict` (`--delete` with the limit), `forced` (without it) |
| `running`, `pending` | the process, and what is left of `plan.actions` |
| `cache` | `TargetView._sections`, `_subnets`, `_folders`, `_addresses`, and `Executor._subnet_ids` |
| `errors`, `outcome` | `Executor.errors`, and how the last run ended |
| `foundEmpty` | the folder deletion, if any, that is between its two requests |
| `faults`, `edits`, `arrivals` | the budgets used; they bound the model and nothing else |
| `renumbered` | history: the rows that were given another CIDR or section since the run started |
| `filed` | history: the rows that operators entered or moved since a folder was found empty |

`StartRun` is `run_one_source` up to the executor: read, plan, check the limit,
and leave the caches `build_plan` leaves.  `Execute` carries out the first pending
action; there is one definition per `_do_` handler.  A handler ends in one of four
ways (`Done`, `Fail`, `Write`, `WriteAndConfirm`), which also say what a lost
request leaves behind: nothing written, or written and the caches not, half or
fully refreshed.  An exception is recorded and the next action tried, as
`Executor.apply` does.  `Crash` ends the process between two handlers.

Granularity: a handler is one step, with all its requests; so is `build_plan`'s
reading.  Operators act between them, never inside.  The exception is the deletion of a
folder, which reads the live table and deletes if it shows nothing in the folder
(`target.py:518`, `528`), and a folder takes along what is in it: `ConfirmEmpty` is the
first request and `DoDeleteFolder` the second, and anybody may act between.  A death inside
a handler is covered by `Lost` followed by `Crash`.

What operators do to the target (`Operator`): they enter a subnet; give a row another
parent in its section, which phpIPAM takes as it is, so that the tree need not be nested
afterwards; move a subnet, with what is below, to another section; resize a subnet; enter, change
or remove an address; delete a subnet or a folder.  They do not enter, rename or move
folders, do not touch sections, and change the fields of addresses but not those of subnets that
are there.

A row that is resized or moved to another section while a run is under way is still known to
that run by what it was, and is written to through the id that is remembered
(`target.py:356`).  So the properties that speak of runs under edits exempt the rows in
`renumbered`, or those that lie in such a row (`Settled`), and say what holds of all others.

phpIPAM's side (`AcceptsSubnet`, `RowsWithout`, ids that are never reused) is taken
from what the handlers and their comments rely on, and marked external.

### SnapshotMirror

The exporter is a process with a program counter `phase`: it lists the subnets of
a section, reads their addresses one by one (the source may change between any
two reads), writes file by file, prunes, writes the manifest, commits, pushes.
`ExportFails` ends it in any phase and may leave the file it was at half written.
`DeliverFile` and `DeliverManifest` bring any single file up to date with the
remote, in any order; `Damage` ruins one.  The reader fixes a manifest, then reads
and verifies file by file while files go on arriving.  A digest is the content it
was taken of (collisions of SHA-256 are ruled out).  `Now` is a clock that has
moved since the last stamp was written.

`SnapshotChannel` says all this amounts to: published snapshots are taken up whole
and in order.  `ChannelSpec` is that specification under the refinement mapping
`history` = the pushed commits, `accepted` = the commit whose manifest was taken
up; it is checked as a property of the detailed specification.

### L2Plan and L2Import

`L2Plan` has the tables of an instance (`domains`, `vlans`, `vrfs`, `subnets`), the
lookups by natural key that `TargetView` makes of them, what the exporter makes of
a section (`ExportSection`), the configuration of a master with its ownership check
(`ValidSources`), and the plan of one source.  A plan is a set again, with `Before` as
the order of the list.  Which of several rows an index keeps, and which a scan finds
first, is as in the code (`Last`, `First`): `vlan_by_key` keeps the last, `vrf_by_name`
the first whose section list has the section.

| Variable | Code |
|---|---|
| `target` | the target's sections and its four tables |
| `config`, `mode` | `sources:` and the options; as for `TreeImport` |
| `snap` | the snapshot in each source's working copy; it may be unreadable, or hold a CIDR that does not parse |
| `running`, `queue` | the process, and the rest of `for name, source_config in sources` |
| `applying`, `pending` | whether `run_one_source` has reached its executor, and what is left of the plan |
| `view` | the one `TargetView`: `_sections`, `_l2` and `_subnets`, each read or not |
| `failed`, `errors`, `outcome` | `failed_sources`, `total_errors` (by source), the exit status |
| `begun` | history: the sections the target had when the job began |

`StartJob` is `main` up to the loop; `PlanSource` and `SourceFails` are
`run_one_source` up to the executor, with what it catches; `JobAborts` is what it does
not catch; `Execute` is one handler; `FinishSource`, `FinishJob` follow.  `Planned` says
what building the plan leaves in the view, `L2Looked`, `L2Dropped`, `L2Reread` what the
lookups and invalidations of a handler do to it: this is where a second source meets
what the first has read.  A handler ends as in `TreeImport`.

phpIPAM's side: ids are new, a record that is gone cannot be changed, names are not
unique, deleting a VLAN or VRF clears the references to it.

### FieldPolicy

One table of one section: subnets (with folders among them), addresses or VLANs.  A
column stands for its kind in `model.py`: synced, optional (`tag`), excluded, custom
with and without the prefix, and one nobody has heard of.  `Raw`, `Listed` and `Single`
say how phpIPAM reads a row, per API app: typed or as text, with custom fields in a
block of their own or not, and, in a listing, without the block when all of them are
null.

| Variable | Code |
|---|---|
| `setup` | the table, `options.sync_tags`, and the two API apps |
| `source`, `target`, `columns` | rows at either end; the custom columns the target has |
| `reading`, `names`, `docs`, `report` | `export`: the listing it is at, `custom_names`, `documents`, `dropped_fields` |
| `snapshot` | the fields in the last snapshot |
| `importing`, `plan`, `refused` | the importer: fields still to write, and the columns phpIPAM has refused |
| `settled` | history: how far a round of export and import has got since the last change |

`ExportListing` is one turn of the loop over sections (or, for addresses, subnets):
probe if the names are not known, then partition each record.  `StartImport` computes
`diff_fields` for all records, `WriteRecord` sends one record's difference, which
phpIPAM takes or refuses as a whole.  Edits at either end, new columns and failed
probes happen at any time.

## The runs

All passing runs also check for deadlock.

| Run | Instance | Bounds |
|---|---|---|
| `MCNested` | a /16 over a /22 over two /24s; every tree on the target against every tree exported; additive and strict; phpIPAM validates | 1 fault |
| `MCFolders` | two networks filed in any of no folder, a folder, a folder in it; every filing against every filing; phpIPAM does not validate, so a duplicate would be accepted | 1 fault |
| `MCSections` | two mapped sections, one possibly missing or with a folder the source does not have, and a foreign one; two networks, one in the other; additive and strict; an operator's edit at any moment, also between the two requests of the folder's deletion: any of those under `TreeImport`, resizing and moving to another section included; phpIPAM does not validate | 1 fault, edit or later snapshot |
| `MCTransit` | one section with up to two subnets whose file names collide; runs with `--push`; failures in any phase, of the push too | 1 fault, 1 edit of the source |
| `MCFanIn` | two sources whose sections are both called "net" and map to A and B; a shared domain with one VLAN, a VRF of one name at either, one subnet each; a target without section B, or with both; additive, strict and forced; a configuration in which both own A, one that may not create sections | 2 of: a fault, an edit, a later snapshot |
| `MCFields` | a folder and two records in two listings; one value, null and empty; subnets, addresses and VLANs with custom fields nested or not at either end, booleans at the source and texts at the target | 1 edit, new column or failed probe |

Why these are enough to be interesting: three levels of nesting is the least in
which an aggregate is inserted between two others and a child of the inserted one
has a sibling that stays; a folder in a folder is the least in which a folder must
be emptied before another; two networks suffice to confuse them; one fault or edit
already falls into every window between two steps, and two in a row are separated
by runs that the first has been made up for.  (`MaxEvents` bounds faults, edits and
arrivals together where all three are allowed.)  Every pair of trees is an initial
state, so one run of the importer is checked for all of them; a second delivery
(`MCSections`) shows runs in sequence.  Two sources are enough for one to find what
another has read or written, and one shared domain for them to disagree about its
list; a value that is read as a boolean or as a text, null and empty are the cases that
`normalise` and `diff_fields` tell apart (more values are the theorems' business), and two listings with a folder first in one of them are the
least in which the names of custom columns are known for a part of the records.

What they show:

* `CacheCoherent` - in a run that nobody disturbs (`Undisturbed`: no edits, and no request
  of this run has been lost, whatever happened to earlier runs) every cache says what the
  target would say: no handler forgets an index it makes stale.
* `IdsStayTrue` - with outsiders and failures caches do go stale, but an id held
  for (section, CIDR) denotes that subnet, or no row, or a row that an operator resized or
  moved to another section during this very run.  In the last case a write meant for what
  the row used to be does fall on what it has become; on no other row can it.
* `CleanRunMirrors` - a run that reports no error has left a replica.  `Mirrored` is
  stated of snapshot and rows alone, without the planner's comparisons.
* `MirroredIsQuiet` - a replica yields an empty plan, however it came about.  In `MCFanIn`
  it says so over faults and edits as long as no two records of the target have one name (`Tidy`):
  an operator may share a VRF with a section that has one of that name, and
  the planner looks at one of the two.
* `EventuallyMirrored` - strict runs, repeated, end in a replica and stay there,
  over a fault or an edit.  Not claimed for additive runs, where an unlisted subnet
  can block a listed one for good, nor where an operator has entered a network a second time and
  in a folder: the planner sees one of the two, and the folder is never empty (`HeldByDouble`).
* `DriftUntouched` - additive means additive, at every step, whatever others did
  since the plan was made: no row goes, and none that the snapshot does not list is
  overwritten, unless it was resized or moved to another section during the run.
* `OnlyOrphansRemoved`, `ParentOutlivesChild` - what strict runs may delete and in
  which order.  The first is stated of every step of every run, and names what it does not speak
  for: a listed subnet that an operator filed in a folder between the two requests of the
  folder's deletion; one that was resized or moved to another section during the run, or lies in such a
  row; and, in a disturbed run, one that lies below an unlisted subnet, if phpIPAM cascades.  TLC
  finds each of these three in `MCSections` if it is not excepted.  The second is stated of runs that nobody disturbs.
* `NeverDuplicates` - retrying after a lost answer enters nothing twice.
* `OutOfScopeUntouched` - sections outside the map are never touched, unless what is
  there was resized or moved there while the run was under way, or lies in such a row
  or in a row of another section.
* `ChannelSpec`, `EventuallyAccepted` - the path is a register, and delivers what was pushed.
* `CommitsWhatWasRead`, `CommitsOnlyChanges`, `SuccessIsPublished` - what a commit
  contains, when there is one, and that a run which ends well has pushed it, unless it finds
  nothing to commit after a push that failed.
* `ViewCoherent` - the one view that all sources share never lags behind the target
  while nothing fails and nobody else writes, from one source to the next.
* `OnlyOwnDeleted` - a VLAN or VRF is deleted only when it serves a section of the
  source at hand, no other section, and is not in the snapshot.
* `OthersUntouched` - while one source is processed, the subnets and VRFs of another's
  sections stay as they are, also over faults and edits.  This is where the ownership
  check of the configuration is needed.
* `SectionListsGrow` - no section is ever taken off the list of a domain or VRF, without
  faults.  With them it fails: `MCEvicted`.
* `NeverTwice` - names stand for records; nothing shared is created by either source.
* `CleanJobMirrors`, `EachSourceMirrored` - a job without errors has mirrored *all* of
  its sources, and repeated jobs get there over faults, edits, refused and unreadable
  snapshots; sources that agree on what they share do not undo each other's work.
* `OneRoundMirrors`, `QuietOnceMirrored` - one export and one import after the last
  change make every replicated field equal, a cleared one too, and the next plan is
  empty, whatever the API settings at either end, alike or not (`MCNesting` is about what
  the guides say of that).
* `OnlyReplicatedWritten` - no step of an import changes a column that is local,
  unknown, or not known to be custom.  This is the allowlist's purpose.
* `ReportIsSignal` - the report of dropped fields names unknown columns, custom ones
  only when the names could not be known, and never what is left out on purpose.
* `RefusedForSchema` - phpIPAM refuses a record only for a custom column it lacks.
* `DivergenceHeals` - edits at either end and failed probes are made up for by later
  rounds.

### Where the code and its documentation disagree

Six runs exhibit a disagreement; each is a finding in `PROJECT.json` with the line
it contradicts.

* `MCShared` - two sections that both document a network: the planner's index by
  CIDR forgets one, and a strict run plans its deletion.
* `MCCrowded` - deleting a subnet counts as one deletion however many addresses go
  with it; the limit can be passed by most of a section.
* `MCScope` - a section that a snapshot has but its source's entry does not name is
  planned under its own name, and lands in the section of another source that is
  called so.  The ownership check has not seen it.
* `MCIsolated` - wording the refusal divides by zero when L2 records (or folders) are to
  be deleted and no subnet is in scope; the exception ends the job for the sources that
  follow, in every job.
* `MCEvicted` - an attach whose answer is lost leaves the shared view old; the next
  source's attach writes the old list back with its own section added, and so takes the
  first one's off.
* `MCNesting` - where one API app nests custom fields and the other does not, the guides
  have every custom field rewritten on every run (`README.md:229-230`,
  `DEPLOYMENT.md:265-267`, `1030-1032`).  For the records that `target.py:97` and `295`
  flatten, subnets and addresses, nothing is rewritten: this is `QuietOnceMirrored`,
  which includes such setups.

Further observations, made with these models but not kept as runs (those about runs without
`--commit`, about two sections of a source and about two lost moves were found by proofs that
would not go through, and are why `CommitsAreChanges`, `NamesAreUnique`, `DeletesOnlyOwn` and
`OnlyOrphansGo` below have hypotheses or exceptions):

* A section emptied on the source is not compared at all (`plan.py:660`), so its subnets
  are neither deleted nor reported, though `plan.py:18` speaks of every record.
* Besides the documented impossible case (`plan.py:70`) there is another: a top-level
  aggregate replaced by an overlapping one, as deletes come last (`plan.py:701`), or put
  above a top-level subnet that is there already, as moves come after creates.  With
  phpIPAM's strict mode off neither is one; so it is in `MCSections`.
* A push that failed is not retried until the source changes, and the runs in between
  succeed (`ipam_export.py:400`); hence `Unpushed` in `EventuallyAccepted` and `SuccessIsPublished`.
* "Folders are only ever removed once confirmed empty" (`README.md:637`, `target.py:499`): so they
  are, but by a request of its own (`target.py:518`, `528`), and what an operator files in the folder
  before the next one goes with it, listed or not.
* After a *failed* deletion of a child its parent is deleted all the same (`plan.py:46`
  says never); a move that involves a folder is one action although `plan.py:64` says
  every re-parent is a pair.
* A run without `--commit` writes a manifest for a change that is undone before the next
  run; that one commits, and all its commit changes is `exported_at` (`snapshot.py:310`), which
  is no "real change" (`DEPLOYMENT.md`).
* An operator who files a listed subnet under an orphan just before its deletion loses
  it to phpIPAM's cascade, and the next run restores it.  The same happens without an
  operator when both writes that move a listed subnet out of an orphan, the detach and the
  re-parent, are refused: the orphan is deleted all the same (`target.py:738`, `target.py:808`).
  TLC shows it in `MCNested` with `MaxFaults = 2`.
* `delete_vrf` looks the VRF up by name when it runs (`target.py:542`): of two of one
  name, one of them shared with another section, it may find the shared one, which the
  planner had spared (`plan.py:408-413`).
* A source with two sections plans the default domain's VLANs, and a domain that serves
  both, once per section (`plan.py:353-403`); those that are new are created twice.
* When a domain goes from one section of a source to another, the plan attaches it to
  the new one, where the snapshot has its VLANs, and for the old one, whose alone it
  still is when the plan is made, deletes them (`plan.py:434`); they come back with the next job.
* Because of these two the instances have one section per source.
* A domain is not attached to a section created in the same run (`plan.py:372`).  Until
  the next job it serves other sections alone; a strict source that owns it may delete
  its VLANs in between, and they come back with the next job.
* Links to VRFs are compared by name, whatever section the linked one belongs to
  (`plan.py:545-548`), so a subnet linked by hand to another section's VRF of the same
  name stays so.
* The L2 tables are not flattened (`target.py:164-192`).  With a target app that nests
  custom fields, those of VLANs are rewritten in every run, whether or not the source's app
  nests them as well, and cleared ones are never cleared: `Comparable` in `FieldPolicy` leaves
  this case out.  It is the one case in which the loop of which the guides warn is real.
* A subnet that an operator resizes or moves to another section during a run is written
  through its remembered id as if it were what it was (`target.py:356`): updated, re-parented,
  or in a strict run deleted, with its addresses.
* An answer lost to a `create_vlan` leaves the shared view old, and the next source
  creates the VLAN again.
* Where sources disagree on a shared record, every job writes it once for each of them.
* A custom column that the target lacks makes it refuse the whole record, creates
  included, in every run, even if the column is empty.

## Fairness

`TreeImport`: weak fairness of starting, continuing and finishing a run.  The job is
a cron entry; a process that lives goes on.  Nothing is assumed of operators,
deliveries or failures, which are bounded instead: after the last of them the runs
have to get there by themselves.

`SnapshotMirror`: weak fairness of the exporter's steps (its failures excluded), of
the reader's, and of the delivery of each file.  The last is an assumption on the
mirror: a file that differs is brought up to date eventually (`DEPLOYMENT.md`,
"let the mirror resend").  After a failed push nothing is delivered until the source changes
(see the observations above), and nothing is claimed.

`L2Import`: weak fairness of the steps of the job (`JobStep`), which is started by a
timer and is one thread; a lost answer is a timeout and not a wait.  Nothing of
operators, mirrors and failures.

`FieldPolicy`: weak fairness of the exporter's and of the importer's steps, two
processes with a timer each.

## What is proved

For `TreeImport`, and every value of the constants that meets `PlanAssumption` and
`ImportAssumption`: any number of sections, networks and folders, any nesting, any
phpIPAM that behaves as `AcceptsSubnet` and `RowsWithout` say, any budget of faults,
edits and deliveries.

* `PlanType` - a plan consists of well-formed actions, and contains deletes only
  when deletion is on.  One lemma per part of the plan.
* `TypeCorrect` - `Spec => []TypeOK`.  `TypeOK` is strong enough to be inductive: it
  says that every id in the caches was given out by the target and every cached row is
  a row, which is what each handler needs of them.  One lemma per operation on tables
  and caches, one (`Endings`) for the ways a handler ends, and one step per handler.
* `CachedIdsAreTrue` - `Spec => []IdsStayTrue`.  No handler changes a row's section or CIDR,
  operators who do are on record in `renumbered`, and
  ids are never reused, so what was once true of an id stays true, or the row is gone or on record.
  `IdsStayTrue` is inductive together with `TypeOK` because it speaks of the cached
  *listings* too: ids are copied from there.
* `AdditiveIsSafe` - `Spec => DriftUntouched`.  From the two invariants above and a
  third, `AdditivePlan`: in an additive run no pending action is a delete, and every
  pending action that names a subnet or an address stems from a document of the
  present snapshot.  `PlanType` establishes it when the plan is made; no delivery
  happens while a run is alive, so it stays.

The theorems of `TreeEffects_proofs` use two assumptions more, `HousedAssumption` (phpIPAM keeps a
parent in the section of its child) and `FiledAssumption` (what `write_snapshot` refuses
to write), those of `TreeOrder_proofs` another two, `NestedAssumption` (phpIPAM files nothing but a
smaller subnet under a subnet) and `ClosedAssumption` (the same of snapshots, and the exporter
names as a parent only what it writes as well: `_folder_paths` and `cidr_by_id`).  Some theorems
have hypotheses of their own.  `Effect`, `Looks` and `Ended` say of any
handler what it may write, which lookups it may leave in the caches, and which cache it drops or
reads afresh; `HandlerEnds` shows that each of them does no more.  The invariant `Window` says what
the two history variables are for: while a folder stands confirmed empty (`FolderWindow`), what
lies in it, or in anything filed since, is in `filed`; and without edits both are empty
(`EditsRecorded`).  From it and `IdsStayTrue` follows `Unmeddled`: as long as nobody has
edited, an id held denotes just that subnet or nothing (`IdsTrueNow`), and rows lie in rows of
their own section.  That is what the theorems about undisturbed runs use.

* `OthersAreLeftAlone` - `Spec => OutOfScopeUntouched`, over faults, edits and cascades.
  What a deletion takes is in the section of what was deleted, if it is `Settled`.
* `CachesAgreeWithoutCascades` - `[]CacheCoherent` where phpIPAM does not cascade from a subnet,
  by way of `CachesAgree`: it is enough that every deletion of an undisturbed run takes at most
  one row, for a row that went with another would stay in the caches.  Where phpIPAM does cascade that is what the
  order of deletions is for, and a theorem of its own (below).
* `ReplicaIsQuiet` - `[](edits = 0 => MirroredIsQuiet)`: the plan for a replica is empty.
  Hypotheses: no CIDR is in two sections of a snapshot (`Apart`; of such documents only one is
  ordered, which `MCShared` is about) and no target starts with a network
  twice (`Unique`).  `NetworksOnce` says that then a network is never there twice, and what is to be
  created is not there and is planned once.  With edits the property is model-checked: an
  operator may enter a network twice.
* `ApartIsMatched` - `[]MatchedBySection` for snapshots that are `Apart`; `MCShared` shows that
  the hypothesis is needed.
* `NothingIsEnteredTwice` - `NeverDuplicates` when nobody edits, for targets that hold no
  network and no folder twice to begin with, and configurations that map no two sections to one
  (`SectionsApart`).  Of lost answers and dead runs nothing is assumed.  Three invariants:
  `NetworksOnce`; `FoldersOnce`, the same of folders, whose identity is their path; and
  `FoldersTrueNow`: the folders and parents that the caches remember
  are folders and have the name that is remembered, or are gone.  `OnePath`, `FoundIsThere`
  and `ChainGrows` are about the walk from a row to its root.

`TreeOrder_proofs` is about the claim of `plan.py:46`, with any depth of nesting, folders, sections that
the run itself creates, and any faults in the runs before.  Its hypotheses are that no CIDR is in two sections of a
snapshot (`Apart`), no target starts with a network twice (`Unique`) and no two sections map to one
(`SectionsApart`).

* `ParentsGoLast` - `Spec => ParentOutlivesChild`.
* `CachesAgreeWithCascades` - `Spec => []CacheCoherent`, whether or not phpIPAM cascades.
* `OnlyOrphansGo` - `Spec => OnlyOrphansRemoved`: over edits, faults and stale caches, with the
  exceptions above.  `Unique` is needed only where phpIPAM cascades from a subnet: what is said of undisturbed
  runs there rests on the order of deletions, all the rest on what the plan may delete
  (`OrphansPlanned`), on `IdsStayTrue`, and on `FolderWindow`.

What these three take for granted of phpIPAM holds of its own interface.  Its API does not
check a PATCH of `masterSubnetId` (`README.md:625-627`, `lab/README.md:155-180`), so another program
that writes to the target could make a subnet lie in one that is no larger, or in one of
another section (`NestedAssumption`, `HousedAssumption`).  Nothing is proved of such targets: deepest
prefix first is not children first there.  The operators of the model may do the former, during
a run or between two, and the theorems that hold over edits hold over that edit too.

They rest on one invariant, `Undisturbedly`.  `ParentOutlivesChild` is a property of steps and needs to
know, when a subnet is about to be deleted, that nothing lies under it: `ChildrenCleared` says
that for every child on the target of a subnet still to be deleted, the plan still has
the action that detaches it, deletes it or moves it into a folder, and `Before` puts that
action first (phase 1 or 3 before phase 5; among deletions the longer prefix first, which is why
`Nested` has to outlast every write: `NestedRows`, which holds over faults too).  When that action
is carried out the child must really move, and this is where the rest comes in.  A handler that
does not find its folder ends with a NOTE and leaves the child where it is, so `FoldersReady` says that
a folder that an action relies on is there or is still to be created, its own parent before it;
and `SectionsReady` the same of sections, as an action whose section is missing does nothing.
`PlannedChildrenCleared`, `PlannedFoldersReady` and `PlannedSectionsReady` establish the three for every plan:
that an orphan's listed child is planned to move at all is `ClosedAssumption`, for its new
parent is then listed, or a folder, and so is not the orphan.  That handlers find what is there is
`CacheCoherent`; and the caches stay coherent because nothing goes along with a deletion.  So
neither is inductive without the other.

The instances of `MCNested`, `MCFolders` and `MCSections` meet these hypotheses (edits
apart, which they have), and TLC has checked the invariants on them.

For `FieldPolicy`, under `FieldAssumption`: any records and listings that cover them, any
values, any combination of table, options and API settings, any budget of edits and
failed probes.

* `TypeCorrect` - `Spec => []TypeOK`, with `KnownNames`: the names the exporter has found
  are all custom columns or none.  Without it a listing could be partitioned by half of them.
* `Refusals`, `Reports`, `OnlyReplicated` - `RefusedForSchema`, `ReportIsSignal` and
  `OnlyReplicatedWritten`.  `FieldsReplicable` carries the allowlist from the partition
  through documents and snapshot to the plan.
* `OneRound`, `NoUpdateLoop` - `OneRoundMirrors` and `QuietOnceMirrored`.  `ExporterInv`
  says that what was built or exported since the last change is the source's, and all of
  it once a stage is finished; `ImporterInv` that every replicated cell is either the same
  already or still in the plan.  `CarriedColumns`, `CarriedText` and `CurrentText` reduce the
  ways a row can be read to its cells.

For `SnapshotMirror`, under `MirrorAssumption`: any sections and subnets, any assignment of
file names (colliding ones too), any order of delivery, any number of failures in any
phase, of damaged files and of edits.

* `TypeCorrect`, `CommitsAreComplete` - `Spec => []TypeOK` and `Spec => CommitsWhatWasRead`.
* `Refinement` - `Spec => ChannelSpec`: the path implements the register.  Every step of
  git's push appends to `history` what had been committed, a finished read moves
  `accepted` forward in it, and everything else stutters.
* `SuccessPublishes` - `Spec => SuccessIsPublished`, whatever the options of other runs.
* `CommitsAreChanges` - `CommitsOnlyChanges`, if every run commits: a run without `--commit`
  between two others breaks it, and `MCTransit` has none.

The invariant, `Inv`, has four parts besides the types.  `HistoryInv` says that stamps
increase strictly along the commits, so that a manifest has one place in the history;
`WorkInv` and `RunInv` why: a manifest is rewritten under a new stamp only when the
documents differ, and each phase of a run leaves what the next relies on.  `ReaderInv` says
that what the importing side holds of manifests was pushed, and in which order.  That a
file is the published one is no part of it: the files at that side may be anything, and
it is the digest in the manifest that lets a read finish.

For `L2Import`, under `FanInAssumption` and the assumptions of `L2Plan`: any number of sources and
sections, any configurations, snapshots and targets, any budget of faults, edits and
deliveries.

* `TypeCorrect` - `Spec => []TypeOK`.  `Looks`, `Effect` and `Ended` say of any handler what it
  may look up, what it may do to the target, and with which caches it ends;
  `HandlerEnds` shows that each of them does no more, and is what every later proof uses
  of them.  The type of the view, `ViewType`, says that its ids were given out.
* `ViewStaysCoherent` - `Spec => []ViewCoherent`.  Inductive as it stands (`Shows`): a handler
  that writes either drops the part of the view that it makes stale or rereads it.
* `ListsOnlyGrow` - `Spec => SectionListsGrow`, from the two: the list that is written is
  the one in the view with a section added, and the view shows the target.
* `OthersAreUntouched` - `OthersUntouched`, over faults, edits and stale views, under
  `SnapshotsInScope`: no mirror delivers a section that the source is not configured to
  export.  The code does not check that, and `MCScope` shows what comes of it.
  `ScopeInv` says that pending actions are for sections of the current source, and that what
  the view remembers (`Remembers`) is still in its section if it is there at all.
* `MirroredNeedsNothing` - `Spec => []MirroredIsQuiet`, over faults and edits, from the types
  alone: that no two records have one name is a precondition of the property.  And that it
  is met as long as there has been no fault and no edit, under `TidyTargets` and `OwnRecords`.
* `NamesAreUnique` - `[]NeverTwice`, under
  `TidyTargets` (names are keys at the start) and `OwnRecords` (no two section documents of
  a source ask for the same new record).  `NameInv`
  says that every pending create is for what is not there, and has no rival in the plan;
  `EffectNames` what an action does to the names.
* `DeletesOnlyOwn` - `OnlyOwnDeleted`, under `TidyTargets` and `OneSection`.  Deletions are carried out last and by name, so `OrphanInv` has to say that what
  makes a record an orphan outlasts all that the plan writes before.

The instance of `MCFanIn` meets these hypotheses, and `NameInv` and `OrphanInv` hold on it.

Only model-checked: everything under fairness (`EventuallyMirrored`, `EventuallyAccepted`,
`EachSourceMirrored`, `DivergenceHeals`; liveness and `ENABLED` are beyond the prover);
and `CleanRunMirrors` and `CleanJobMirrors`, each of which needs an invariant that accounts, for every
kind of action and every record, for what is still to be done.  The
properties of the runs that fail are disproved there.  That `Place` is what the recursive search computes
would need induction over data, which is beyond the prover too; it is evaluated over
small forests (`DocumentOrder`).  `OrderDocuments` is the only module with `RECURSIVE`
operators, and no proved module uses it.

## Not modelled

* `phpipam_client.py` and `client_ext.py`: one request per call, no retry, no state.
  Their outcomes are cases of the models.  One is not: a 200 whose body is not JSON
  becomes `None`, which `or []` turns into an empty collection
  (`phpipam_client.py:231`).
* Parsing and checking the configuration, except the ownership of sections: it keeps no
  state, and a file that does not pass ends the run before anything is read.
* `_folder_paths` and how the exporter finds a document's parent: pure functions of one
  listing; the snapshots that `TreeImport` starts from are ones they can produce (`Closed`, `Filed`).
* Names and their spellings: a name stands for all that `strip` and `casefold` identify.
  So `config.py:242`, which only folds case, is not told apart from `target.py:66`.
* Dry runs, drift reports, notes and logs, which write nothing; schema versions, path
  checks and the report of stale files in the reader; tests, lab and examples.

## Plan

Done: all modules, and the proofs above.

Next, in this order:

1. `CleanRunMirrors`, without folders first: every difference between rows and snapshot is pending.
2. `CleanJobMirrors`, the same for L2 records.

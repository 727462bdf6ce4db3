--------------------------- MODULE SnapshotMirror ---------------------------
(***************************************************************************)
(* The path a snapshot takes: ipam_export.py reads the source instance     *)
(* record by record, write_snapshot puts one file per document and then a  *)
(* manifest into a git working copy, commit_snapshot commits and pushes    *)
(* it; a mirror carries the files to the importing side; read_snapshot     *)
(* reads them back there, one by one, against the digests in the manifest. *)
(*                                                                         *)
(* Concurrent with it: people edit the source while it is being read, the  *)
(* mirror moves single files in any order and damages some, an exporter's  *)
(* run fails or is killed in any phase.                                    *)
(*                                                                         *)
(* Data abstraction.  Documents are known by a key, numbered in the order  *)
(* in which the export meets them: a section's own document first, then    *)
(* its subnets.  A record is two values: the fields, read with the list of *)
(* the section's subnets, and the addresses, read afterwards.  A digest is *)
(* the content it was taken of.  exported_at is a stamp; the clock has     *)
(* moved between any two runs.  Paths are numbered in string order.        *)
(***************************************************************************)
EXTENDS Integers, Sequences, FiniteSets

CONSTANTS
  Section,      \* the config's sections
  Subnet,       \* keys of the subnets that may exist on the source
  SectionOf,    \* [Subnet -> Section]
  Path,         \* file names below sections/
  PathOf,       \* [Section \cup Subnet -> Path], by _slug and subnet_slug
  Value,        \* values of fields, and of addresses
  Options,      \* which of "write", "commit", "push" runs are started with
  FailOnEmpty,  \* --fail-on-empty
  FaultPhases,  \* phases in which a run of the exporter may fail
  MaxFaults,    \* bound on failed runs and damaged files
  MaxEdits      \* bound on edits of the source

Key == Section \cup Subnet

ASSUME MirrorAssumption ==
  /\ Section \subseteq Nat \ {0} /\ Subnet \subseteq Nat \ {0}
  /\ Section \cap Subnet = {}
  /\ SectionOf \in [Subnet -> Section]
  /\ Path \subseteq Nat \ {0}
  /\ PathOf \in [Key -> Path]
  /\ Value \subseteq Nat \ {0}
  /\ Options \subseteq {"write", "commit", "push"}
  /\ FailOnEmpty \in BOOLEAN
  /\ MaxFaults \in Nat /\ MaxEdits \in Nat

Absent == 0

Record == [fields : Value, addresses : Value \cup {Absent}]

\* What the source may hold: some subnets, and a record of each.
Contents == UNION {[K -> Record] : K \in SUBSET Subnet}

Document == [key : Key, fields : Value \cup {Absent}, addresses : Value \cup {Absent}]

\* The content of a file that was half written or damaged: no document.
Torn == [key |-> 0, fields |-> Absent, addresses |-> Absent]

\* A directory: the files that are there, and the manifest.  Stamp 0 stands for no
\* manifest, -1 for one that does not parse.
Files == UNION {[P -> Document \cup {Torn}] : P \in SUBSET Path}

Listing == UNION {[P -> Document] : P \in SUBSET Path}

NoFiles == [p \in {} |-> Torn]

NoManifest == [files |-> NoFiles, stamp |-> 0]

TornManifest == [files |-> NoFiles, stamp |-> -1]

Manifest == [files : Listing, stamp : Nat \cup {-1}]

Tree == [files : Files, manifest : Manifest]

EmptyTree == [files |-> NoFiles, manifest |-> NoManifest]

Phase == {"idle", "sections", "addresses", "files", "prune", "manifest", "commit", "push"}

VARIABLES
  source,    \* the source instance: which subnets it has, and their records
  phase,     \* where the exporter's run is
  option,    \* what it was started with
  unread,    \* sections it has yet to read
  listed,    \* fields of the subnets whose addresses it has yet to read
  docs,      \* documents it has assembled
  unwritten, \* those it has yet to write
  files,     \* files it has written, with their digests
  outcome,   \* how the last run ended
  work,      \* the exporter's working copy
  log,       \* the commits in it
  pushed,    \* how many of them were pushed
  copy,      \* the importing side's working copy
  reading,   \* whether the importer is reading it
  wanted,    \* the manifest it reads by
  read,      \* the files it has read
  accepted,  \* the snapshot it last handed to build_plan
  faults, edits   \* budgets used

assembly == << unread, listed, docs >>

git == << log, pushed >>

exporter == << phase, option, assembly, unwritten, files, outcome, work, git >>

importer == << reading, wanted, read, accepted >>

\* What no step of the exporter touches, save a failing one `faults`.
outside == << source, copy, importer, faults, edits >>

vars == << exporter, outside >>

Put(f, k, v) == [x \in DOMAIN f \cup {k} |-> IF x = k THEN v ELSE f[x]]

Pop(f, k) == [x \in DOMAIN f \ {k} |-> f[x]]

Least(S) == CHOOSE x \in S : \A y \in S : x <= y

-----------------------------------------------------------------------------
(***************************************************************************)
(* The source instance.                                                    *)
(***************************************************************************)
Edit(after) ==
  /\ edits < MaxEdits
  /\ edits' = edits + 1
  /\ source' = after
  /\ UNCHANGED << exporter, copy, importer, faults >>

SourceSets ==
  \E k \in Subnet, r \in Record :
    /\ k \in DOMAIN source => source[k] # r
    /\ Edit(Put(source, k, r))

SourceRemoves == \E k \in DOMAIN source : Edit(Pop(source, k))

-----------------------------------------------------------------------------
(***************************************************************************)
(* export: the sections in turn; in each, the list of its subnets and then *)
(* the addresses of each of them.                                          *)
(***************************************************************************)
SectionDocument(s) == [key |-> s, fields |-> Absent, addresses |-> Absent]

Ends(how) ==
  /\ phase' = "idle"
  /\ outcome' = how

StartExport ==
  /\ phase = "idle"
  /\ phase' = "sections"
  /\ option' \in Options
  /\ unread' = Section
  /\ listed' = NoFiles /\ docs' = {} /\ unwritten' = {} /\ files' = NoFiles
  /\ outcome' = "none"
  /\ UNCHANGED << work, git, outside >>

ReadSection ==
  /\ phase = "sections" /\ unread # {}
  /\ LET s == Least(unread)
         members == {k \in DOMAIN source : SectionOf[k] = s}
     IN  IF members = {} /\ FailOnEmpty
         THEN Ends("failed") /\ UNCHANGED << unread, listed, docs >>
         ELSE /\ phase' = "addresses"
              /\ unread' = unread \ {s}
              /\ listed' = [k \in members |-> source[k].fields]
              /\ docs' = docs \cup {SectionDocument(s)}
              /\ UNCHANGED outcome
  /\ UNCHANGED << option, unwritten, files, work, git, outside >>

\* A subnet that is gone by now has no addresses, unless the API says so with an
\* error that is not taken for an empty collection.
ReadAddresses ==
  /\ phase = "addresses" /\ DOMAIN listed # {}
  /\ LET k == Least(DOMAIN listed)
         found == IF k \in DOMAIN source THEN source[k].addresses ELSE Absent
     IN  \/ /\ docs' = docs \cup {[key |-> k, fields |-> listed[k], addresses |-> found]}
            /\ listed' = Pop(listed, k)
            /\ UNCHANGED << phase, outcome >>
         \/ /\ k \notin DOMAIN source
            /\ Ends("failed")
            /\ UNCHANGED << listed, docs >>
  /\ UNCHANGED << option, unread, unwritten, files, work, git, outside >>

SectionRead ==
  /\ phase = "addresses" /\ DOMAIN listed = {}
  /\ phase' = IF unread = {} THEN "files" ELSE "sections"
  /\ unwritten' = IF unread = {} THEN docs ELSE {}
  /\ UNCHANGED << option, assembly, files, outcome, work, git, outside >>

-----------------------------------------------------------------------------
(***************************************************************************)
(* write_snapshot: the documents in order, then the stale files go, then   *)
(* the manifest.                                                           *)
(***************************************************************************)
NextDocument == CHOOSE d \in unwritten : \A e \in unwritten : d.key <= e.key

\* Mutant of Collides: two documents may share a file.
NeverCollides(d) == FALSE

Collides(d) == PathOf[d.key] \in DOMAIN files

WriteFile ==
  /\ phase = "files" /\ unwritten # {}
  /\ LET d == NextDocument
         p == PathOf[d.key]
     IN  IF Collides(d)
         THEN Ends("failed") /\ UNCHANGED << unwritten, files, work >>
         ELSE /\ unwritten' = unwritten \ {d}
              /\ files' = Put(files, p, d)
              /\ work' = [work EXCEPT !.files = Put(@, p, d)]
              /\ UNCHANGED << phase, outcome >>
  /\ UNCHANGED << option, assembly, git, outside >>

FilesWritten ==
  /\ phase = "files" /\ unwritten = {}
  /\ phase' = "prune"
  /\ UNCHANGED << option, assembly, unwritten, files, outcome, work, git, outside >>

Stale == DOMAIN work.files \ DOMAIN files

Prune ==
  /\ phase = "prune"
  /\ IF Stale = {}
     THEN phase' = "manifest" /\ UNCHANGED work
     ELSE /\ \E p \in Stale : work' = [work EXCEPT !.files = Pop(@, p)]
          /\ UNCHANGED phase
  /\ UNCHANGED << option, assembly, unwritten, files, outcome, git, outside >>

\* The clock: later than every stamp that was ever written.
Now ==
  LET stamps == {log[i].manifest.stamp : i \in 1 .. Len(log)} \cup {work.manifest.stamp, 0}
  IN  1 + (CHOOSE t \in stamps : \A u \in stamps : u <= t)

\* Mutant of Stamp: exported_at is the time of the export.
StampOfRun == Now

\* exported_at is carried over when nothing else in the manifest has changed.
Stamp ==
  IF work.manifest.stamp > 0 /\ work.manifest.files = files
  THEN work.manifest.stamp ELSE Now

WriteManifest ==
  /\ phase = "manifest"
  /\ work' = [work EXCEPT !.manifest = [files |-> files, stamp |-> Stamp]]
  /\ IF option = "write" THEN Ends("ok") ELSE phase' = "commit" /\ UNCHANGED outcome
  /\ UNCHANGED << option, assembly, unwritten, files, git, outside >>

-----------------------------------------------------------------------------
(***************************************************************************)
(* commit_snapshot.                                                        *)
(***************************************************************************)
TreeAt(n) == IF n = 0 THEN EmptyTree ELSE log[n]

\* Mutant of Clean: git status shows new and removed files only.
SameMembers ==
  /\ DOMAIN work.files = DOMAIN TreeAt(Len(log)).files
  /\ TreeAt(Len(log)).manifest.stamp # 0

Clean == work = TreeAt(Len(log))

Commit ==
  /\ phase = "commit"
  /\ IF Clean THEN Ends("ok") /\ UNCHANGED log
     ELSE /\ log' = Append(log, work)
          /\ IF option = "push" THEN phase' = "push" /\ UNCHANGED outcome ELSE Ends("ok")
  /\ UNCHANGED << option, assembly, unwritten, files, work, pushed, outside >>

Push ==
  /\ phase = "push"
  /\ pushed' = Len(log)
  /\ Ends("ok")
  /\ UNCHANGED << option, assembly, unwritten, files, work, log, outside >>

\* A read, a write, git or the process fails.  A write may be left half done.
HalfWritten ==
  CASE phase = "files" /\ unwritten # {} ->
         {work, [work EXCEPT !.files = Put(@, PathOf[NextDocument.key], Torn)]}
    [] phase = "manifest" -> {work, [work EXCEPT !.manifest = TornManifest]}
    [] OTHER -> {work}

ExportFails ==
  /\ phase \in FaultPhases \ {"idle"}
  /\ faults < MaxFaults
  /\ faults' = faults + 1
  /\ Ends("failed")
  /\ work' \in HalfWritten
  /\ UNCHANGED << source, option, assembly, unwritten, files, git, copy, importer, edits >>

-----------------------------------------------------------------------------
(***************************************************************************)
(* The mirror moves one file at a time, in any order.                      *)
(***************************************************************************)
Remote == TreeAt(pushed)

Carried(after) ==
  /\ copy # after
  /\ copy' = after
  /\ UNCHANGED << source, exporter, importer, edits >>

DeliverFile(p) ==
  /\ Carried([copy EXCEPT !.files =
                IF p \in DOMAIN Remote.files THEN Put(@, p, Remote.files[p]) ELSE Pop(@, p)])
  /\ UNCHANGED faults

DeliverManifest ==
  /\ Carried([copy EXCEPT !.manifest = Remote.manifest])
  /\ UNCHANGED faults

Damage ==
  /\ faults < MaxFaults
  /\ faults' = faults + 1
  /\ \/ \E p \in DOMAIN copy.files : Carried([copy EXCEPT !.files[p] = Torn])
     \/ /\ copy.manifest # NoManifest
        /\ Carried([copy EXCEPT !.manifest = TornManifest])

-----------------------------------------------------------------------------
(***************************************************************************)
(* read_snapshot.  A SnapshotError ends the reading, and nothing is handed *)
(* on.                                                                     *)
(***************************************************************************)
StartRead ==
  /\ ~ reading
  /\ copy.manifest.stamp > 0 /\ DOMAIN copy.manifest.files # {}
  /\ reading' = TRUE
  /\ wanted' = copy.manifest
  /\ read' = NoFiles
  /\ UNCHANGED << source, exporter, copy, accepted, faults, edits >>

\* Mutant of Intact: a file need only be there.
IsThere(p) == p \in DOMAIN copy.files

Intact(p) == p \in DOMAIN copy.files /\ copy.files[p] = wanted.files[p]

ReadFile ==
  /\ reading /\ DOMAIN read # DOMAIN wanted.files
  /\ LET p == Least(DOMAIN wanted.files \ DOMAIN read)
     IN  IF Intact(p)
         THEN read' = Put(read, p, copy.files[p]) /\ UNCHANGED << reading, wanted >>
         ELSE reading' = FALSE /\ wanted' = NoManifest /\ read' = NoFiles
  /\ UNCHANGED << source, exporter, copy, accepted, faults, edits >>

FinishRead ==
  /\ reading /\ DOMAIN read = DOMAIN wanted.files
  /\ accepted' = [files |-> read, stamp |-> wanted.stamp]
  /\ reading' = FALSE /\ wanted' = NoManifest /\ read' = NoFiles
  /\ UNCHANGED << source, exporter, copy, faults, edits >>

-----------------------------------------------------------------------------
Init ==
  /\ source \in Contents
  /\ phase = "idle" /\ option \in Options /\ unread = {}
  /\ listed = NoFiles /\ docs = {} /\ unwritten = {} /\ files = NoFiles /\ outcome = "none"
  /\ work = EmptyTree /\ log = << >> /\ pushed = 0
  /\ copy = EmptyTree
  /\ reading = FALSE /\ wanted = NoManifest /\ read = NoFiles /\ accepted = NoManifest
  /\ faults = 0 /\ edits = 0

Export ==
  \/ StartExport \/ ReadSection \/ ReadAddresses \/ SectionRead
  \/ WriteFile \/ FilesWritten \/ Prune \/ WriteManifest \/ Commit \/ Push

Import == StartRead \/ ReadFile \/ FinishRead

Deliver == DeliverManifest \/ \E p \in Path : DeliverFile(p)

Next ==
  Export \/ ExportFails \/ Import \/ Deliver \/ Damage \/ SourceSets \/ SourceRemoves

\* Both ends are cron jobs, started again and again; the mirror brings every file
\* that differs, sooner or later.
Fairness ==
  /\ WF_vars(Export) /\ WF_vars(Import)
  /\ WF_vars(DeliverManifest)
  /\ \A p \in Path : WF_vars(DeliverFile(p))

Spec == Init /\ [][Next]_vars

FairSpec == Spec /\ Fairness

-----------------------------------------------------------------------------
(***************************************************************************)
(* Properties.                                                             *)
(***************************************************************************)
\* The types: what the two ends hold, in memory and on disk, at every moment.
TypeOK ==
  /\ source \in Contents
  /\ phase \in Phase /\ option \in Options /\ unread \subseteq Section
  /\ listed \in UNION {[K -> Value] : K \in SUBSET Subnet}
  /\ docs \subseteq Document /\ unwritten \subseteq docs /\ files \in Listing
  /\ outcome \in {"none", "ok", "failed"}
  /\ work \in Tree
  /\ log \in Seq(Tree) /\ pushed \in 0 .. Len(log)
  /\ copy \in Tree
  /\ reading \in BOOLEAN /\ wanted \in Manifest /\ read \in Listing
  /\ accepted \in Manifest
  /\ faults \in 0 .. MaxFaults /\ edits \in 0 .. MaxEdits

(***************************************************************************)
(* The whole path is a SnapshotChannel: whatever order the files arrive    *)
(* in, whatever is damaged, and whichever run of the exporter is killed,   *)
(* the importer takes up snapshots that were published as they are, and    *)
(* never an older one than it has (ipamsync/snapshot.py, "Why checksums"). *)
(***************************************************************************)
AcceptedCommit ==
  LET At == {i \in 1 .. Len(log) : log[i].manifest = accepted}
  IN  IF accepted = NoManifest THEN 0
      ELSE IF At = {} THEN Len(log) + 1   \* no published snapshot
      ELSE Least(At)

Channel ==
  INSTANCE SnapshotChannel
    WITH history <- [i \in 1 .. pushed |-> log[i].manifest.files],
         accepted <- AcceptedCommit,
         content <- accepted.files

ChannelSpec == Channel!Spec

\* A commit holds the documents the run has read, all of them and nothing else:
\* none is lost under a file name shared with another ("Refuse rather than lose
\* data", ipamsync/snapshot.py:261), no file of an earlier or of a killed run is
\* left among them, and the manifest lists just them.
CommitsWhatWasRead ==
  [][log' # log =>
       /\ {work.files[p] : p \in DOMAIN work.files} = docs
       /\ Cardinality(DOMAIN work.files) = Cardinality(docs)
       /\ work.manifest.files = work.files]_vars

\* "The exporter commits only on a real change" (DEPLOYMENT.md:806): the documents
\* of two commits in a row differ, as long as no run has failed half way.
CommitsOnlyChanges ==
  [][(log' # log /\ faults = 0) => work.files # TreeAt(Len(log)).files]_vars

\* Once the source is left alone the importer comes to hold it, and keeps it,
\* whatever was half written, damaged or overtaken before; unless two documents of
\* the source collide, when every export is refused, or a push has failed, which is
\* not tried again before the source changes (ipam_export.py:400).
Exportable == Section \cup DOMAIN source

Colliding == \E k, l \in Exportable : k # l /\ PathOf[k] = PathOf[l]

HoldsSource ==
  accepted.files =
    [p \in {PathOf[k] : k \in Exportable} |->
       LET k == CHOOSE x \in Exportable : PathOf[x] = p
       IN  IF k \in Section THEN SectionDocument(k)
           ELSE [key |-> k, fields |-> source[k].fields, addresses |-> source[k].addresses]]

Unpushed == pushed < Len(log)

EventuallyAccepted == <>[](Colliding \/ Unpushed \/ HoldsSource)

\* "Exit status is 0 on success (whether or not anything changed)"
\* (ipam_export.py:17): a run with --push that succeeds, also one that finds nothing
\* to commit, leaves what it wrote on the remote -- unless an earlier push failed.
SuccessIsPublished ==
  [][(option = "push" /\ phase # "idle" /\ outcome' = "ok") =>
       TreeAt(pushed') = work' \/ (phase = "commit" /\ Unpushed)]_vars
=============================================================================

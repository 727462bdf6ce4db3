---------------------------- MODULE FieldPolicy ----------------------------
(***************************************************************************)
(* What of a record travels (ipamsync/model.py): the exporter partitions   *)
(* every record it reads into what is carried and what is reported as      *)
(* dropped, the importer compares what is carried with the target's record *)
(* and writes what differs.  phpIPAM reads differently from what it        *)
(* writes: values are loosely typed, custom fields come in a block of      *)
(* their own or not, and a subnet's `tag` is written as `state`.           *)
(*                                                                         *)
(* One table of one section at a time: subnets, addresses or VLANs.  The   *)
(* records are in several listings (sections, or subnets with addresses)   *)
(* that the exporter reads one after the other.  Where a record is, and    *)
(* whether it should be there at all, is TreeImport's and L2Import's.      *)
(***************************************************************************)
EXTENDS Naturals, Sequences, Maps

CONSTANTS
  Record,         \* natural keys: CIDRs, IPs, VLAN numbers
  Folder,         \* the records that are folders, which only the subnets table has
  Listings,       \* the sets of records that the API lists, in the order of reading
  Value,          \* values a column may have, texts
  Setups,         \* the tables, options and API settings to look at
  Rows,           \* rows of the source a behaviour may start from
  TargetRows,     \* and of the target
  MaxEvents       \* bound on changes made at either instance and failed probes

Null == "null"

Stored == Value \cup {Null, ""}

(***************************************************************************)
(* Columns, each standing for its kind in model.py.  A custom column is    *)
(* called whatever the administrator typed; "newColumn" is one that this   *)
(* program has not been taught.                                            *)
(***************************************************************************)
Synced == {"description"}

Optional == {"tag"}

Excluded == {"location"}

Unknown == {"newColumn"}

Prefixed == {"custom_rack"}

Custom == Prefixed \cup {"Owner"}

Stock(kind) ==
  Synced \cup Excluded \cup Unknown \cup (IF kind = "vlan" THEN {} ELSE Optional)

Kind == {"subnet", "address", "vlan"}

App == [nested : BOOLEAN, style : {"str", "bool"}]

SetupType == [kind : Kind, sync_tags : BOOLEAN, source : App, target : App]

ASSUME FieldAssumption ==
  /\ Folder \subseteq Record
  /\ Listings \in Seq(SUBSET Record)
  /\ Record \ Folder \subseteq UNION {Listings[i] : i \in DOMAIN Listings}
  /\ Setups \subseteq SetupType
  /\ \A rows \in Rows : rows \in [Record -> [Stock("subnet") \cup Custom -> Stored]]
  /\ \A rows \in TargetRows : IsMap(rows, Record, [Stock("subnet") \cup Custom -> Stored])
  /\ MaxEvents \in Nat

VARIABLES
  setup,          \* the table, and how the two API apps are set up: never changes
  source,         \* [Record -> the row at the source]
  target,         \* rows at the target, by natural key
  columns,        \* custom columns that the target has
  reading,        \* the exporter: 0, or the listing it reads next
  names,          \* its custom_names
  docs,           \* the documents it has built
  report,         \* its dropped_fields
  snapshot,       \* carried fields by natural key, as last exported
  importing,      \* the importer has planned, and has writes to do
  plan,           \* fields still to write, by natural key
  refused,        \* columns that the target rejected in this run
  settled,        \* history: how far a run has got since the last change
  edits, faults

exporterVars == << reading, names, docs, report, snapshot >>

importerVars == << importing, plan, refused >>

budgets == << edits, faults >>

vars == << setup, source, target, columns, exporterVars, importerVars, settled, budgets >>

-----------------------------------------------------------------------------
(***************************************************************************)
(* What phpIPAM answers.  A value read is a text, a boolean or None.  In a *)
(* listing, a record whose custom fields are all null has them among its   *)
(* other columns; a record read by itself always has the block.            *)
(***************************************************************************)
None == [type |-> "none", text |-> ""]

Raw(v, style) ==
  IF v = Null THEN None
  ELSE IF v \in {"0", "1"} /\ style = "bool"
    THEN [type |-> "bool", text |-> IF v = "1" THEN "True" ELSE "False"]
  ELSE [type |-> "str", text |-> v]

Cells(row, cs, style) == [c \in cs |-> Raw(row[c], style)]

RawRecord(row, app, nested) ==
  LET block == IF nested THEN DOMAIN row \cap Custom ELSE {} IN
  [top |-> Cells(row, DOMAIN row \ block, app.style),
   custom_fields |-> Cells(row, block, app.style)]

Listed(row, app) ==
  RawRecord(row, app, app.nested /\ \E c \in DOMAIN row \cap Custom : row[c] # Null)

Single(row, app) == RawRecord(row, app, app.nested)

-----------------------------------------------------------------------------
(***************************************************************************)
(* model.py                                                                *)
(***************************************************************************)
\* Mutant of normalise: a boolean is not the number it stands for.
NormaliseAsText(raw) == raw.text

normalise(raw) ==
  IF raw.type = "bool" THEN (IF raw.text = "True" THEN "1" ELSE "0") ELSE raw.text

\* Mutant of flatten_custom_fields: the block stays where it is.
FlattenNothing(raw) == raw.top

flatten_custom_fields(raw) ==
  [c \in DOMAIN raw.top \cup DOMAIN raw.custom_fields |->
     IF c \in DOMAIN raw.custom_fields THEN raw.custom_fields[c] ELSE raw.top[c]]

\* _apply_options: the optional columns are either synced or left out on purpose.
SyncedBy(su) ==
  Synced \cup (IF su.kind # "vlan" /\ su.sync_tags THEN Optional ELSE {})

ExcludedBy(su) ==
  Excluded \cup (IF su.kind # "vlan" /\ ~su.sync_tags THEN Optional ELSE {})

\* Mutant of CarriedNames: an unknown column is taken for a custom one.
CarriedUnknown(raw, su, custom_names) ==
  (DOMAIN raw.top \ ExcludedBy(su)) \cup DOMAIN raw.custom_fields

\* Mutant of CarriedNames: only what is in the block, or has the prefix, is custom.
CarriedIfNested(raw, su, custom_names) ==
  (DOMAIN raw.top \cap (SyncedBy(su) \cup Prefixed)) \cup DOMAIN raw.custom_fields

CarriedNames(raw, su, custom_names) ==
  (DOMAIN raw.top \cap (SyncedBy(su) \cup Prefixed \cup custom_names))
    \cup DOMAIN raw.custom_fields

\* _partition: the fields carried, and the names of those dropped.
Carried(raw, su, custom_names) ==
  [c \in CarriedNames(raw, su, custom_names) |->
     normalise(IF c \in DOMAIN raw.custom_fields THEN raw.custom_fields[c] ELSE raw.top[c])]

Dropped(raw, su, custom_names) ==
  DOMAIN raw.top \ (SyncedBy(su) \cup ExcludedBy(su) \cup Prefixed
                      \cup CarriedNames(raw, su, custom_names))

\* Mutant of diff_fields: a field that is unset upstream says nothing.
DiffOfSetFields(desired, current) ==
  LET Now(c) == normalise(IF c \in DOMAIN current THEN current[c] ELSE None)
  IN  [c \in {x \in DOMAIN desired : desired[x] \notin {"", Now(x)}} |-> desired[c]]

\* A field that the current record does not have is unset.
diff_fields(desired, current) ==
  LET Now(c) == normalise(IF c \in DOMAIN current THEN current[c] ELSE None)
  IN  [c \in {x \in DOMAIN desired : desired[x] # Now(x)} |-> desired[c]]

\* Mutant of WriteName: a subnet's tag is written by the name it is read by.
NoAlias(kind, c) == c

\* SUBNET_WRITE_ALIASES, applied by to_subnet_write_fields.
WriteName(kind, c) == IF kind = "subnet" /\ c = "tag" THEN "state" ELSE c

-----------------------------------------------------------------------------
(***************************************************************************)
(* The exporter reads one listing after another.  The first record of one  *)
(* that is not a folder is probed for the names of the custom columns, as  *)
(* long as they are not known.                                             *)
(***************************************************************************)
Listing(i) == IF setup.kind = "subnet" THEN Listings[i] ELSE Listings[i] \ Folder

\* Mutant of Sample: the first record of a listing is probed; folders come first.
FirstListed(listing) ==
  CHOOSE r \in listing : listing \cap Folder # {} => r \in Folder

\* Which of them is first is left open.
Sample(listing) == CHOOSE r \in listing : r \notin Folder

\* A folder is not found by the endpoint that reads one subnet.
_discover_custom_fields(r, found) ==
  IF ~found \/ r \in Folder THEN {} ELSE DOMAIN Single(source[r], setup.source).custom_fields

StartExport ==
  /\ reading = 0
  /\ reading' = 1
  /\ settled' = IF settled = "changed" THEN "exporting" ELSE settled
  /\ UNCHANGED << setup, source, target, columns, names, docs, report, snapshot,
                  importerVars, budgets >>

ExportListing ==
  LET listing == Listing(reading)
      real == listing \ Folder
      probes == setup.kind # "vlan" /\ names = {} /\ real # {}
      raw(r) == Listed(source[r], setup.source)
  IN
  /\ reading \in DOMAIN Listings
  /\ \E found \in BOOLEAN :
       /\ ~found => probes /\ edits + faults < MaxEvents
       /\ names' = IF probes THEN _discover_custom_fields(Sample(listing), found) ELSE names
       /\ faults' = IF found THEN faults ELSE faults + 1
       /\ settled' = IF ~found /\ settled \in {"exporting", "exported"} THEN "changed" ELSE settled
  /\ docs' = [r \in real \cup DOMAIN docs |->
                IF r \in real THEN Carried(raw(r), setup, names') ELSE docs[r]]
  \* What is dropped of an L2 record is not reported.
  /\ report' = IF setup.kind = "vlan" THEN report
               ELSE report \cup UNION {Dropped(raw(r), setup, names') : r \in real}
  /\ reading' = reading + 1
  /\ UNCHANGED << setup, source, target, columns, snapshot, importerVars, edits >>

FinishExport ==
  /\ reading > Len(Listings)
  /\ reading' = 0
  /\ names' = {} /\ docs' = EmptyMap /\ report' = {}
  /\ snapshot' = docs
  /\ settled' = IF settled = "exporting" THEN "exported" ELSE settled
  /\ UNCHANGED << setup, source, target, columns, importerVars, budgets >>

-----------------------------------------------------------------------------
(***************************************************************************)
(* The importer.  The target's records are read from a listing; subnets    *)
(* and addresses are flattened, VLANs are not.                             *)
(***************************************************************************)
Current(r) ==
  LET raw == Listed(target[r], setup.target)
  IN  IF setup.kind = "vlan" THEN raw.top ELSE flatten_custom_fields(raw)

\* What a new record is created with, and what of an existing one is updated.
Wanted(r) ==
  IF r \in DOMAIN target THEN diff_fields(snapshot[r], Current(r)) ELSE snapshot[r]

Plan ==
  [r \in {x \in DOMAIN snapshot : x \notin DOMAIN target \/ Wanted(x) # EmptyMap} |-> Wanted(r)]

StartImport ==
  /\ ~importing
  /\ importing' = TRUE
  /\ plan' = Plan
  /\ settled' = IF settled = "exported" THEN "importing" ELSE settled
  /\ UNCHANGED << setup, source, target, columns, exporterVars, refused, budgets >>

\* The keys that phpIPAM takes when a record is written.
Writable ==
  LET cs == Stock(setup.kind) \cup columns IN
  CASE setup.kind = "subnet" -> (cs \ {"tag"}) \cup {"state"}
    [] setup.kind = "address" -> cs \cup {"state"}
    [] OTHER -> cs

NewRow == [c \in Stock(setup.kind) \cup columns |-> Null]

\* One write of all fields or, if one of them is refused, of none.
WriteRecord(r) ==
  LET sent == {WriteName(setup.kind, c) : c \in DOMAIN plan[r]}
      row == IF r \in DOMAIN target THEN target[r] ELSE NewRow
      \* An empty text may be stored as such or as null.
      Stores(empty) == [c \in DOMAIN row |-> IF c \notin DOMAIN plan[r] THEN row[c]
                                              ELSE IF plan[r][c] = "" THEN empty
                                              ELSE plan[r][c]]
  IN
  /\ importing
  /\ r \in DOMAIN plan
  /\ plan' = Pop(plan, r)
  /\ IF sent \subseteq Writable
       THEN /\ \E empty \in {"", Null} : target' = Put(target, r, Stores(empty))
            /\ UNCHANGED refused
       ELSE /\ refused' = refused \cup (sent \ Writable)
            /\ UNCHANGED target
  /\ UNCHANGED << setup, source, columns, exporterVars, importing, settled, budgets >>

FinishImport ==
  /\ importing
  /\ plan = EmptyMap
  /\ importing' = FALSE
  /\ refused' = {}
  /\ settled' = IF settled # "importing" THEN settled
                 ELSE IF refused = {} THEN "imported" ELSE "changed"
  /\ UNCHANGED << setup, source, target, columns, exporterVars, plan, budgets >>

-----------------------------------------------------------------------------
(***************************************************************************)
(* Operators: a column of a record is changed or cleared at the source or  *)
(* at the target, and a custom column is added at the target.              *)
(***************************************************************************)
Edit ==
  /\ edits + faults < MaxEvents
  /\ edits' = edits + 1
  /\ settled' = "changed"
  /\ UNCHANGED << setup, exporterVars, importerVars, faults >>

EditSource ==
  /\ Edit
  /\ \E r \in Record \ Folder, v \in Stored : \E c \in DOMAIN source[r] :
       /\ v # source[r][c]
       /\ source' = [source EXCEPT ![r][c] = v]
  /\ UNCHANGED << target, columns >>

EditTarget ==
  /\ Edit
  /\ \E r \in DOMAIN target, v \in Stored : \E c \in DOMAIN target[r] :
       /\ v # target[r][c]
       /\ target' = [target EXCEPT ![r][c] = v]
  /\ UNCHANGED << source, columns >>

AddColumn ==
  /\ Edit
  /\ \E c \in Custom \ columns :
       /\ columns' = columns \cup {c}
       /\ target' = [r \in DOMAIN target |-> Put(target[r], c, Null)]
  /\ UNCHANGED source

-----------------------------------------------------------------------------
Fitting(rows, cs) == [r \in DOMAIN rows |-> [c \in cs |-> rows[r][c]]]

Init ==
  /\ setup \in Setups
  /\ source \in {Fitting(rows, Stock(setup.kind) \cup Custom) : rows \in Rows}
  /\ columns \in {Custom, Custom \cap Prefixed}
  /\ target \in {Fitting(rows, Stock(setup.kind) \cup columns) : rows \in TargetRows}
  /\ reading = 0 /\ names = {} /\ docs = EmptyMap /\ report = {} /\ snapshot = EmptyMap
  /\ importing = FALSE /\ plan = EmptyMap /\ refused = {}
  /\ settled = "changed"
  /\ edits = 0 /\ faults = 0

ExporterStep == StartExport \/ ExportListing \/ FinishExport

ImporterStep == StartImport \/ (\E r \in Record : WriteRecord(r)) \/ FinishImport

Next == ExporterStep \/ ImporterStep \/ EditSource \/ EditTarget \/ AddColumn

Spec == Init /\ [][Next]_vars

\* The two jobs are run by timers, and each ends.
Fairness == WF_vars(ExporterStep) /\ WF_vars(ImporterStep)

FairSpec == Spec /\ Fairness

-----------------------------------------------------------------------------
(***************************************************************************)
(* Properties                                                              *)
(***************************************************************************)
IsFields(f) == IsMap(f, Stock(setup.kind) \cup Custom, Value \cup {""})

TypeOK ==
  /\ setup \in Setups
  /\ source \in [Record -> [Stock(setup.kind) \cup Custom -> Stored]]
  /\ columns \subseteq Custom
  /\ DOMAIN target \subseteq Record
  /\ \A r \in DOMAIN target : target[r] \in [Stock(setup.kind) \cup columns -> Stored]
  /\ reading \in 0 .. Len(Listings) + 1
  /\ names \subseteq Custom
  /\ report \subseteq Stock(setup.kind) \cup Custom
  /\ \A m \in {docs, snapshot, plan} :
       DOMAIN m \subseteq Record /\ \A r \in DOMAIN m : IsFields(m[r])
  /\ importing \in BOOLEAN
  /\ refused \subseteq Stock(setup.kind) \cup Custom \cup {"state"}
  /\ settled \in {"changed", "exporting", "exported", "importing", "imported"}
  /\ edits \in Nat /\ faults \in Nat /\ edits + faults <= MaxEvents

\* What may be replicated (model.py:42-185): a custom field only if it is called
\* one, or the source's API says it is one.
Replicable == SyncedBy(setup) \cup Prefixed \cup (IF setup.source.nested THEN Custom ELSE {})

\* Custom columns of VLANs are not probed for: they are known if one is set.
Replicated(r) ==
  IF setup.kind = "vlan" /\ \A c \in Custom : source[r][c] = Null
    THEN SyncedBy(setup) \cup Prefixed ELSE Replicable

AsText(v) == IF v = Null THEN "" ELSE v

Cell(row, c) == IF c \in DOMAIN row THEN AsText(row[c]) ELSE ""

Mirrored ==
  \A r \in Record \ Folder :
    /\ r \in DOMAIN target
    /\ \A c \in Replicated(r) : Cell(source[r], c) = Cell(target[r], c)

\* What is read of VLANs is not flattened (target.py:164-192), so it cannot be
\* compared when the target's app nests custom fields.
Comparable == setup.kind = "vlan" => ~setup.target.nested

(***************************************************************************)
(* One export in which no probe failed and one import in which nothing was *)
(* refused, with no change since, are enough for every replicated field to *)
(* be the same: what has been cleared upstream is cleared too, though      *)
(* phpIPAM lists it like any other column (model.py:207-229).              *)
(***************************************************************************)
OneRoundMirrors == settled = "imported" /\ Comparable => Mirrored

(***************************************************************************)
(* And then there is nothing left to write, however the two API apps are   *)
(* set up, alike or not: no update loop (model.py:263-283, 286-304).  The  *)
(* guides say otherwise of two that are not (RewrittenOnMismatch).         *)
(***************************************************************************)
QuietOnceMirrored == settled = "imported" /\ Comparable => Plan = EmptyMap

(***************************************************************************)
(* "mismatched between the two and every custom field is rewritten on      *)
(* every run" (README.md:229-230; DEPLOYMENT.md:265-267, 1030-1032): when  *)
(* one API app nests custom fields and the other does not, a round after   *)
(* which nothing has changed leaves every custom value to be written       *)
(* again.  The target's records are flattened whatever its app does        *)
(* (target.py:97, 295), so none is.                                        *)
(***************************************************************************)
RewrittenOnMismatch ==
  settled = "imported" /\ setup.source.nested # setup.target.nested =>
    \A r \in DOMAIN snapshot : \A c \in DOMAIN snapshot[r] \cap Custom :
      snapshot[r][c] # "" => r \in DOMAIN Plan /\ c \in DOMAIN Plan[r]

(***************************************************************************)
(* The report of dropped fields is signal (model.py:65-68, 221-229,        *)
(* 365-367): it names what this program has not been taught; a custom      *)
(* field only if the source's app does not nest them or a probe failed;    *)
(* and never what is left out on purpose.                                  *)
(***************************************************************************)
ReportIsSignal ==
  report \subseteq
    Unknown \cup (IF setup.source.nested /\ faults = 0 THEN {} ELSE Custom \ Prefixed)

(***************************************************************************)
(* phpIPAM refuses a write only for a custom column that it does not have  *)
(* (model.py:15-46, 203-206, 238-260).                                     *)
(***************************************************************************)
RefusedForSchema == refused \subseteq Custom

(***************************************************************************)
(* The importer leaves every column of a record alone that is local to the *)
(* target, unknown, switched off by an option, or not told apart from one  *)
(* (model.py:1-40).                                                        *)
(***************************************************************************)
OnlyReplicatedWritten ==
  [][edits' = edits =>
       \A r \in DOMAIN target : \A c \in DOMAIN target[r] :
         target'[r][c] # target[r][c] => c \in Replicable]_vars

(***************************************************************************)
(* If the target has all custom columns, the two instances end up the same *)
(* in every replicated field whatever was changed and whichever probe      *)
(* failed, because both jobs run again.                                    *)
(***************************************************************************)
DivergenceHeals == <>[](columns = Custom /\ Comparable => Mirrored)
=============================================================================

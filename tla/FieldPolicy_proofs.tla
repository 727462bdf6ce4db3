------------------------- MODULE FieldPolicy_proofs -------------------------
(***************************************************************************)
(* What of a record travels, for any records, listings, values and edits:  *)
(* every reachable state is typed; nothing but replicated columns is ever  *)
(* written; what phpIPAM refuses is a custom column; the report of dropped *)
(* fields is signal; and one undisturbed round of export and import makes  *)
(* the records the same and leaves nothing to write.                       *)
(***************************************************************************)
EXTENDS FieldPolicy, TLAPS

-----------------------------------------------------------------------------
(***************************************************************************)
(* Columns, and how their cells are read.                                  *)
(***************************************************************************)
LEMMA Columns ==
  ASSUME NEW kind
  PROVE  /\ Stock(kind) \subseteq Stock("subnet")
         /\ Synced \subseteq Stock(kind)
         /\ kind # "vlan" => Optional \subseteq Stock(kind)
         /\ Stock(kind) \subseteq Synced \cup Optional \cup Excluded \cup Unknown
         /\ kind = "vlan" => Stock(kind) \subseteq Synced \cup Excluded \cup Unknown
         /\ Prefixed \subseteq Custom
         /\ Custom \cap Stock(kind) = {}
BY DEF Stock, Synced, Optional, Excluded, Unknown, Custom, Prefixed

\* The columns that an option lets through are columns of the table.
LEMMA SyncedColumns ==
  ASSUME NEW su
  PROVE  SyncedBy(su) \subseteq Stock(su.kind)
<1>1. Synced \subseteq Stock(su.kind) /\ (su.kind # "vlan" => Optional \subseteq Stock(su.kind))
  BY Columns
<1> QED BY <1>1 DEF SyncedBy

\* However a value is read, it normalises to its text.
LEMMA TextOf ==
  ASSUME NEW v, NEW style
  PROVE  normalise(Raw(v, style)) = AsText(v)
<1>1. CASE v = Null
  BY <1>1 DEF Raw, None, normalise, AsText
<1>2. CASE v # Null /\ v \in {"0", "1"} /\ style = "bool"
  BY <1>2 DEF Raw, normalise, AsText
<1>3. CASE v # Null /\ ~ (v \in {"0", "1"} /\ style = "bool")
  BY <1>3 DEF Raw, normalise, AsText
<1> QED BY <1>1, <1>2, <1>3

\* A record that is listed has the cells of its row, in its block or beside it.
HasCustom(row) == \E c \in DOMAIN row \cap Custom : row[c] # Null

InBlock(row, app) == IF app.nested /\ HasCustom(row) THEN DOMAIN row \cap Custom ELSE {}

LEMMA ListedCells ==
  ASSUME NEW row, NEW app
  PROVE  /\ DOMAIN Listed(row, app).custom_fields = InBlock(row, app)
         /\ DOMAIN Listed(row, app).top = DOMAIN row \ InBlock(row, app)
         /\ \A c \in DOMAIN Listed(row, app).top :
              Listed(row, app).top[c] = Raw(row[c], app.style)
         /\ \A c \in DOMAIN Listed(row, app).custom_fields :
              Listed(row, app).custom_fields[c] = Raw(row[c], app.style)
BY DEF Listed, RawRecord, Cells, InBlock, HasCustom

\* The fields that the document of a record gets, and what is reported of it.
Fields(row, su, custom_names) == Carried(Listed(row, su.source), su, custom_names)

Losses(row, su, custom_names) == Dropped(Listed(row, su.source), su, custom_names)

\* Which columns of a listed record are carried.
LEMMA CarriedColumns ==
  ASSUME NEW row, NEW su, NEW custom_names
  PROVE  DOMAIN Fields(row, su, custom_names) =
           (DOMAIN row \cap (SyncedBy(su) \cup Prefixed \cup custom_names))
             \cup InBlock(row, su.source)
<1> DEFINE raw == Listed(row, su.source)
           block == InBlock(row, su.source)
<1>1. DOMAIN raw.custom_fields = block /\ DOMAIN raw.top = DOMAIN row \ block
  BY ListedCells
<1>2. block \subseteq DOMAIN row
  BY DEF InBlock
<1> HIDE DEF raw, block
<1>3. DOMAIN Carried(raw, su, custom_names)
        = (DOMAIN row \cap (SyncedBy(su) \cup Prefixed \cup custom_names)) \cup block
  BY <1>1, <1>2 DEF Carried, CarriedNames
<1> QED BY <1>3 DEF Fields, raw, block

\* They are carried as text.
LEMMA CarriedText ==
  ASSUME NEW row, NEW su, NEW custom_names
  PROVE  \A c \in DOMAIN Fields(row, su, custom_names) :
           Fields(row, su, custom_names)[c] = AsText(row[c])
<1> DEFINE raw == Listed(row, su.source)
<1>1. /\ \A c \in DOMAIN raw.top : raw.top[c] = Raw(row[c], su.source.style)
      /\ \A c \in DOMAIN raw.custom_fields :
           raw.custom_fields[c] = Raw(row[c], su.source.style)
  BY ListedCells
<1> HIDE DEF raw
<1>2. \A c \in DOMAIN Carried(raw, su, custom_names) :
        Carried(raw, su, custom_names)[c] = normalise(Raw(row[c], su.source.style))
  BY <1>1 DEF Carried, CarriedNames
<1> QED BY <1>2, TextOf DEF Fields, raw

\* What is dropped is a column of the row, neither synced nor left out on purpose.
LEMMA DroppedNames ==
  ASSUME NEW row, NEW su, NEW custom_names
  PROVE  Losses(row, su, custom_names)
           \subseteq DOMAIN row \ (SyncedBy(su) \cup ExcludedBy(su) \cup Prefixed \cup custom_names)
<1> DEFINE raw == Listed(row, su.source)
<1>2. DOMAIN raw.top = DOMAIN row \ DOMAIN raw.custom_fields
  BY ListedCells
<1> HIDE DEF raw
<1>3. Dropped(raw, su, custom_names)
        \subseteq DOMAIN row \ (SyncedBy(su) \cup ExcludedBy(su) \cup Prefixed \cup custom_names)
  BY <1>2 DEF Dropped, CarriedNames
<1> QED BY <1>3 DEF Losses, raw

-----------------------------------------------------------------------------
(***************************************************************************)
(* Every variable keeps its type.                                          *)
(***************************************************************************)
RowType == [Stock(setup.kind) \cup Custom -> Stored]

\* An initial row is fitted to the columns that the table has.
LEMMA FittingType ==
  ASSUME NEW rows, NEW cs, cs \subseteq Stock("subnet") \cup Custom,
         \A r \in DOMAIN rows : rows[r] \in [Stock("subnet") \cup Custom -> Stored]
  PROVE  /\ DOMAIN Fitting(rows, cs) = DOMAIN rows
         /\ \A r \in DOMAIN rows : Fitting(rows, cs)[r] \in [cs -> Stored]
BY DEF Fitting

LEMMA TextType ==
  ASSUME NEW v \in Stored
  PROVE  AsText(v) \in Value \cup {""}
BY DEF Stored, AsText

\* What is carried of a typed row are typed fields.
LEMMA CarriedType ==
  ASSUME NEW row \in RowType, NEW custom_names
  PROVE  IsFields(Fields(row, setup, custom_names))
<1> DEFINE f == Fields(row, setup, custom_names)
<1>1. \A c \in DOMAIN f : f[c] = AsText(row[c])
  BY ONLY CarriedText
<1>2. DOMAIN f = (DOMAIN row \cap (SyncedBy(setup) \cup Prefixed \cup custom_names))
                   \cup InBlock(row, setup.source)
  BY ONLY CarriedColumns
<1>3. f = [c \in DOMAIN f |-> f[c]]
  BY DEF Fields, Carried
<1> HIDE DEF f
<1>4. DOMAIN f \subseteq DOMAIN row
  BY <1>2 DEF InBlock
<1>5. /\ DOMAIN f \subseteq Stock(setup.kind) \cup Custom
      /\ \A c \in DOMAIN f : f[c] \in Value \cup {""}
  BY <1>1, <1>4, TextType DEF RowType
<1>6. IsFields(f)
  BY <1>3, <1>5 DEF IsFields, IsMap
<1> QED BY <1>6 DEF f

\* Mapping fields to those of them that are wanted keeps them typed.
LEMMA PartType ==
  ASSUME NEW f, IsFields(f), NEW S \in SUBSET DOMAIN f
  PROVE  IsFields([c \in S |-> f[c]])
BY DEF IsFields, IsMap

LEMMA WantedPart ==
  ASSUME NEW r
  PROVE  \E S \in SUBSET DOMAIN snapshot[r] :
           Wanted(r) = [c \in S |-> snapshot[r][c]] \/ Wanted(r) = snapshot[r]
BY DEF Wanted, diff_fields

LEMMA WantedType ==
  ASSUME TypeOK, NEW r \in DOMAIN snapshot
  PROVE  IsFields(Wanted(r)) /\ DOMAIN Wanted(r) \subseteq DOMAIN snapshot[r]
<1>1. IsFields(snapshot[r])
  BY DEF TypeOK
<1>2. PICK S \in SUBSET DOMAIN snapshot[r] :
        Wanted(r) = [c \in S |-> snapshot[r][c]] \/ Wanted(r) = snapshot[r]
  BY WantedPart
<1> QED BY <1>1, <1>2, PartType

\* A map of maps of fields, put together from maps of fields.
TypedFields(m) == DOMAIN m \subseteq Record /\ \A r \in DOMAIN m : IsFields(m[r])

LEMMA EmptyIsTyped == TypedFields(EmptyMap)
BY DEF TypedFields, EmptyMap

\* The initial rows are fitted to the columns there are.
LEMMA InitTypeOK ==
  ASSUME Init
  PROVE  TypeOK
<1>1. setup \in Setups /\ setup \in SetupType
  BY FieldAssumption DEF Init
<1>2. Stock(setup.kind) \subseteq Stock("subnet") /\ Prefixed \subseteq Custom
  BY Columns
<1>3. source \in [Record -> [Stock(setup.kind) \cup Custom -> Stored]]
  <2>1. PICK rows \in Rows : source = Fitting(rows, Stock(setup.kind) \cup Custom)
    BY DEF Init
  <2>2. rows \in [Record -> [Stock("subnet") \cup Custom -> Stored]]
    BY FieldAssumption
  <2>3. \A r \in Record : Fitting(rows, Stock(setup.kind) \cup Custom)[r]
                           \in [Stock(setup.kind) \cup Custom -> Stored]
    BY <2>2, <1>2, FittingType
  <2> QED BY <2>1, <2>2, <2>3 DEF Fitting
<1>4. columns \subseteq Custom
  BY <1>2 DEF Init
<1>5. /\ DOMAIN target \subseteq Record
      /\ \A r \in DOMAIN target : target[r] \in [Stock(setup.kind) \cup columns -> Stored]
  <2>1. PICK rows \in TargetRows : target = Fitting(rows, Stock(setup.kind) \cup columns)
    BY DEF Init
  <2>2. IsMap(rows, Record, [Stock("subnet") \cup Custom -> Stored])
    BY FieldAssumption
  <2>3. /\ DOMAIN rows \subseteq Record
        /\ \A r \in DOMAIN rows : rows[r] \in [Stock("subnet") \cup Custom -> Stored]
    BY <2>2 DEF IsMap
  <2>4. Stock(setup.kind) \cup columns \subseteq Stock("subnet") \cup Custom
    BY <1>2, <1>4
  <2> QED BY <2>1, <2>3, <2>4, FittingType
<1>6. \A m \in {docs, snapshot, plan} :
        DOMAIN m \subseteq Record /\ \A r \in DOMAIN m : IsFields(m[r])
  BY EmptyIsTyped DEF Init, TypedFields
<1>7. reading \in 0 .. Len(Listings) + 1 /\ edits + faults <= MaxEvents
  BY FieldAssumption DEF Init
<1> QED BY <1>1, <1>3, <1>4, <1>5, <1>6, <1>7 DEF Init, TypeOK

(***************************************************************************)
(* What the exporter knows of the custom columns: their names, all of them *)
(* and only where there is a block to find them in, or none.               *)
(***************************************************************************)
KnownNames ==
  names # {} => names = Custom /\ setup.source.nested /\ setup.kind # "vlan"

\* After a listing is read its names are known, unless a probe failed.
LEMMA Probed ==
  ASSUME TypeOK, KnownNames, ExportListing
  PROVE  /\ KnownNames'
         /\ faults' = faults /\ setup.kind # "vlan" /\ setup.source.nested
              /\ Listing(reading) \ Folder # {} => names' = Custom
<1> DEFINE listing == Listing(reading)
           real == listing \ Folder
           probes == setup.kind # "vlan" /\ names = {} /\ real # {}
<1>1. PICK found \in BOOLEAN :
        /\ names' = IF probes THEN _discover_custom_fields(Sample(listing), found) ELSE names
        /\ faults' = IF found THEN faults ELSE faults + 1
  BY DEF ExportListing
<1>2. setup' = setup
  BY DEF ExportListing
<1>3. faults \in Nat
  BY DEF TypeOK
<1>4. listing \subseteq Record
  BY FieldAssumption DEF ExportListing, Listing
<1>5. CASE probes
  <2> DEFINE r == Sample(listing)
  <2>1. r \in Record \ Folder
    BY <1>4, <1>5 DEF Sample
  <2>2. DOMAIN source[r] = Stock(setup.kind) \cup Custom
    BY <2>1 DEF TypeOK
  <2>3. DOMAIN Single(source[r], setup.source).custom_fields
          = IF setup.source.nested THEN Custom ELSE {}
    BY <2>2 DEF Single, RawRecord, Cells
  <2>4. names' = IF found /\ setup.source.nested THEN Custom ELSE {}
    <3>1. names' = _discover_custom_fields(r, found)
      BY <1>1, <1>5
    <3> HIDE DEF r
    <3> QED BY <3>1, <2>1, <2>3 DEF _discover_custom_fields
  <2>5. faults' = faults => found
    BY <1>1, <1>3
  <2> QED BY <2>4, <2>5, <1>2, <1>5 DEF KnownNames
<1>6. CASE ~ probes
  BY <1>1, <1>2, <1>6 DEF KnownNames
<1> QED BY <1>5, <1>6

\* What the exporter has built when a listing is read.
LEMMA ExportedRecords ==
  ASSUME TypeOK, ExportListing
  PROVE  /\ DOMAIN docs' = DOMAIN docs \cup (Listing(reading) \ Folder)
         /\ Listing(reading) \subseteq Record
         /\ \A r \in Listing(reading) \ Folder :
              docs'[r] = Fields(source[r], setup, names')
         /\ \A r \in DOMAIN docs \ (Listing(reading) \ Folder) : docs'[r] = docs[r]
<1>1. Listing(reading) \subseteq Record
  BY FieldAssumption DEF ExportListing, Listing
<1> QED BY <1>1 DEF ExportListing, Fields

LEMMA ExportListingTypeOK ==
  ASSUME TypeOK, KnownNames, ExportListing
  PROVE  TypeOK'
<1>1. /\ setup' = setup /\ setup \in SetupType
      /\ source' = source /\ target' = target /\ columns' = columns
      /\ snapshot' = snapshot /\ plan' = plan
      /\ importing' = importing /\ refused' = refused /\ edits' = edits
  BY FieldAssumption DEF TypeOK, ExportListing, importerVars
<1>2. reading' \in 0 .. Len(Listings) + 1
  BY FieldAssumption DEF TypeOK, ExportListing
<1>3. names' \subseteq Custom
  BY Probed DEF KnownNames
<1>4. report' \subseteq Stock(setup.kind) \cup Custom
  <2>1. \A r \in Record : DOMAIN source[r] = Stock(setup.kind) \cup Custom
    BY DEF TypeOK
  <2>2. \A r \in Record :
          Losses(source[r], setup, names') \subseteq DOMAIN source[r]
    BY DroppedNames
  <2>3. Listing(reading) \subseteq Record
    BY ExportedRecords
  <2> QED BY <2>1, <2>2, <2>3 DEF Losses, TypeOK, ExportListing
<1>5. TypedFields(docs')
  <2>1. \A r \in Record : IsFields(Fields(source[r], setup, names'))
    BY CarriedType DEF TypeOK, RowType
  <2>2. TypedFields(docs)
    BY DEF TypeOK, TypedFields
  <2> QED BY <2>1, <2>2, ExportedRecords DEF TypedFields
<1>6. settled' \in {"changed", "exporting", "exported", "importing", "imported"}
  BY DEF TypeOK, ExportListing
<1>7. faults' \in Nat /\ edits + faults' <= MaxEvents
  BY FieldAssumption DEF TypeOK, ExportListing
<1>8. \A m \in {docs', snapshot', plan'} :
        DOMAIN m \subseteq Record /\ \A r \in DOMAIN m : IsFields(m[r])'
  BY <1>1, <1>5 DEF TypeOK, TypedFields, IsFields
<1> QED BY <1>1, <1>2, <1>3, <1>4, <1>6, <1>7, <1>8 DEF TypeOK

LEMMA StartImportTypeOK ==
  ASSUME TypeOK, StartImport
  PROVE  TypeOK'
<1>1. /\ DOMAIN plan' \subseteq DOMAIN snapshot
      /\ \A r \in DOMAIN plan' : plan'[r] = Wanted(r)
  BY DEF StartImport, Plan
<1>2. \A r \in DOMAIN plan' : r \in Record /\ IsFields(plan'[r])
  BY <1>1, WantedType DEF TypeOK
<1>3. settled' \in {"changed", "exporting", "exported", "importing", "imported"}
  BY DEF TypeOK, StartImport
<1> QED BY <1>2, <1>3 DEF TypeOK, StartImport, exporterVars, budgets, IsFields

LEMMA PlannedFields ==
  ASSUME TypeOK, NEW r \in Record, WriteRecord(r)
  PROVE  /\ r \in DOMAIN plan
         /\ \A c \in DOMAIN plan[r] :
              c \in Stock(setup.kind) \cup Custom /\ plan[r][c] \in Value \cup {""}
<1>1. r \in DOMAIN plan
  BY DEF WriteRecord
<1>2. IsFields(plan[r])
  BY <1>1 DEF TypeOK
<1> QED BY <1>1, <1>2 DEF IsFields, IsMap

Accepted(r) == {WriteName(setup.kind, c) : c \in DOMAIN plan[r]} \subseteq Writable

LEMMA WriteAccepted ==
  ASSUME NEW r, WriteRecord(r), target' # target \/ refused' = {}
  PROVE  Accepted(r)
BY DEF WriteRecord, Accepted

\* What a write leaves, when it is accepted.
LEMMA WrittenRow ==
  ASSUME TypeOK, NEW r \in Record, WriteRecord(r), Accepted(r)
  PROVE  /\ DOMAIN target' = DOMAIN target \cup {r}
         /\ \A x \in DOMAIN target \ {r} : target'[x] = target[x]
         /\ target'[r] \in [Stock(setup.kind) \cup columns -> Stored]
         /\ \A c \in (Stock(setup.kind) \cup columns) \cap DOMAIN plan[r] :
              IF plan[r][c] = "" THEN target'[r][c] \in {"", Null} ELSE target'[r][c] = plan[r][c]
         /\ \A c \in (Stock(setup.kind) \cup columns) \ DOMAIN plan[r] :
              r \in DOMAIN target => target'[r][c] = target[r][c]
<1> DEFINE row == IF r \in DOMAIN target THEN target[r] ELSE NewRow
           Stores(empty) == [c \in DOMAIN row |-> IF c \notin DOMAIN plan[r] THEN row[c]
                                                   ELSE IF plan[r][c] = "" THEN empty
                                                   ELSE plan[r][c]]
<1>1. row \in [Stock(setup.kind) \cup columns -> Stored]
  BY DEF TypeOK, NewRow, Stored
<1>2. r \in DOMAIN plan /\ \A c \in DOMAIN plan[r] : plan[r][c] \in Stored
  BY PlannedFields DEF Stored
<1>3. \E empty \in {"", Null} : target' = Put(target, r, Stores(empty))
  BY DEF WriteRecord, Accepted
<1>4. PICK empty \in {"", Null} : target' = Put(target, r, Stores(empty))
  BY <1>3
<1>5. target'[r] = Stores(empty)
  BY <1>4 DEF Put
<1>6. /\ DOMAIN target' = DOMAIN target \cup {r}
      /\ \A x \in DOMAIN target \ {r} : target'[x] = target[x]
  BY <1>4 DEF Put
<1>7. Stores(empty) \in [Stock(setup.kind) \cup columns -> Stored]
  BY <1>1, <1>2 DEF Stored
<1>8. /\ \A c \in (Stock(setup.kind) \cup columns) \cap DOMAIN plan[r] :
           IF plan[r][c] = "" THEN target'[r][c] \in {"", Null} ELSE target'[r][c] = plan[r][c]
      /\ \A c \in (Stock(setup.kind) \cup columns) \ DOMAIN plan[r] : target'[r][c] = row[c]
  BY <1>1, <1>5
<1> QED BY <1>5, <1>6, <1>7, <1>8

\* What is refused is no column that the table has.
LEMMA RefusedNames ==
  ASSUME TypeOK, NEW r \in Record, WriteRecord(r)
  PROVE  refused' \subseteq refused \cup ({WriteName(setup.kind, c) : c \in DOMAIN plan[r]} \ Writable)
BY DEF WriteRecord

LEMMA WriteRecordTypeOK ==
  ASSUME TypeOK, NEW r \in Record, WriteRecord(r)
  PROVE  TypeOK'
<1>1. /\ setup' = setup /\ source' = source /\ columns' = columns /\ reading' = reading
      /\ names' = names /\ docs' = docs /\ report' = report /\ snapshot' = snapshot
      /\ importing' = importing /\ settled' = settled /\ edits' = edits /\ faults' = faults
  BY DEF WriteRecord, exporterVars, budgets
<1>2. /\ DOMAIN plan' \subseteq DOMAIN plan
      /\ \A x \in DOMAIN plan' : plan'[x] = plan[x]
  BY DEF WriteRecord, Pop
<1>3. DOMAIN target' \subseteq Record
      /\ \A x \in DOMAIN target' : target'[x] \in [Stock(setup.kind) \cup columns -> Stored]
  <2>1. CASE target' = target
    BY <2>1 DEF TypeOK
  <2>2. CASE target' # target
    <3>1. /\ DOMAIN target' = DOMAIN target \cup {r}
          /\ \A x \in DOMAIN target \ {r} : target'[x] = target[x]
          /\ target'[r] \in [Stock(setup.kind) \cup columns -> Stored]
      BY <2>2, WriteAccepted, WrittenRow
    <3> QED BY <3>1 DEF TypeOK
  <2> QED BY <2>1, <2>2
<1>4. refused' \subseteq Stock(setup.kind) \cup Custom \cup {"state"}
  <2>1. \A c \in DOMAIN plan[r] :
          WriteName(setup.kind, c) \in Stock(setup.kind) \cup Custom \cup {"state"}
    BY PlannedFields DEF WriteName
  <2>2. refused \subseteq Stock(setup.kind) \cup Custom \cup {"state"}
    BY DEF TypeOK
  <2> QED BY <2>1, <2>2, RefusedNames
<1> QED BY <1>1, <1>2, <1>3, <1>4 DEF TypeOK, IsFields

\* The steps that move what is there from one place to the next.
LEMMA HandOverTypeOK ==
  ASSUME TypeOK, StartExport \/ FinishExport \/ FinishImport \/ UNCHANGED vars
  PROVE  TypeOK'
<1>1. CASE StartExport
  <2>1. reading' \in 0 .. Len(Listings) + 1
    BY <1>1, FieldAssumption DEF StartExport
  <2> QED BY <1>1, <2>1 DEF TypeOK, StartExport, importerVars, budgets, IsFields
<1>2. CASE FinishExport
  <2>1. reading' \in 0 .. Len(Listings) + 1
    BY <1>2, FieldAssumption DEF FinishExport
  <2>2. TypedFields(docs') /\ TypedFields(snapshot') /\ TypedFields(plan')
    BY <1>2, EmptyIsTyped DEF TypeOK, FinishExport, importerVars, TypedFields
  <2>3. setup' = setup /\ \A m \in {docs', snapshot', plan'} :
          DOMAIN m \subseteq Record /\ \A r \in DOMAIN m : IsFields(m[r])'
    BY <1>2, <2>2 DEF FinishExport, TypedFields, IsFields
  <2> QED BY <1>2, <2>1, <2>3 DEF TypeOK, FinishExport, importerVars, budgets
<1>3. CASE FinishImport
  BY <1>3 DEF TypeOK, FinishImport, exporterVars, budgets, IsFields
<1>4. CASE UNCHANGED vars
  BY <1>4 DEF TypeOK, vars, exporterVars, importerVars, budgets, IsFields
<1> QED BY <1>1, <1>2, <1>3, <1>4

LEMMA EditTypeOK ==
  ASSUME TypeOK, EditSource \/ EditTarget \/ AddColumn
  PROVE  TypeOK'
<1>1. Edit
  BY DEF EditSource, EditTarget, AddColumn
<1>2. /\ setup' = setup /\ reading' = reading /\ names' = names /\ docs' = docs
      /\ report' = report /\ snapshot' = snapshot /\ importing' = importing
      /\ plan' = plan /\ refused' = refused /\ faults' = faults /\ settled' = "changed"
  BY <1>1 DEF Edit, exporterVars, importerVars
<1>3. edits' \in Nat /\ edits' + faults <= MaxEvents
  BY <1>1, FieldAssumption DEF TypeOK, Edit
<1>4. source' \in [Record -> [Stock(setup.kind) \cup Custom -> Stored]]
  <2>1. CASE EditSource
    <3>1. PICK r \in Record \ Folder, v \in Stored :
            \E c \in DOMAIN source[r] : source' = [source EXCEPT ![r][c] = v]
      BY <2>1 DEF EditSource
    <3>2. PICK c \in DOMAIN source[r] : source' = [source EXCEPT ![r][c] = v]
      BY <3>1
    <3> QED BY <3>2 DEF TypeOK
  <2>2. CASE EditTarget \/ AddColumn
    BY <2>2 DEF TypeOK, EditTarget, AddColumn
  <2> QED BY <2>1, <2>2
<1>5. /\ columns' \subseteq Custom
      /\ DOMAIN target' \subseteq Record
      /\ \A r \in DOMAIN target' : target'[r] \in [Stock(setup.kind) \cup columns' -> Stored]
  <2>1. CASE EditSource
    BY <2>1 DEF TypeOK, EditSource
  <2>2. CASE EditTarget
    <3>1. PICK r \in DOMAIN target, v \in Stored :
            /\ columns' = columns
            /\ \E c \in DOMAIN target[r] : target' = [target EXCEPT ![r][c] = v]
      BY <2>2 DEF EditTarget
    <3>2. PICK c \in DOMAIN target[r] : target' = [target EXCEPT ![r][c] = v]
      BY <3>1
    <3>3. target'[r] = [target[r] EXCEPT ![c] = v]
      BY <3>2
    <3>4. target'[r] \in [Stock(setup.kind) \cup columns -> Stored]
      BY <3>3 DEF TypeOK
    <3>5. /\ DOMAIN target' = DOMAIN target
          /\ \A x \in DOMAIN target \ {r} : target'[x] = target[x]
      BY <3>2
    <3> QED BY <3>1, <3>4, <3>5 DEF TypeOK
  <2>3. CASE AddColumn
    <3>1. PICK c \in Custom \ columns :
            /\ columns' = columns \cup {c}
            /\ target' = [r \in DOMAIN target |-> Put(target[r], c, Null)]
      BY <2>3 DEF AddColumn
    <3>2. \A r \in DOMAIN target :
            Put(target[r], c, Null) \in [Stock(setup.kind) \cup (columns \cup {c}) -> Stored]
      BY DEF TypeOK, Put, Stored
    <3> QED BY <3>1, <3>2 DEF TypeOK
  <2> QED BY <2>1, <2>2, <2>3
<1> QED BY <1>2, <1>3, <1>4, <1>5 DEF TypeOK, IsFields

LEMMA StepTypeOK ==
  ASSUME TypeOK, KnownNames, [Next]_vars
  PROVE  TypeOK'
<1>1. CASE ExporterStep
  BY <1>1, ExportListingTypeOK, HandOverTypeOK DEF ExporterStep
<1>2. CASE ImporterStep
  BY <1>2, StartImportTypeOK, WriteRecordTypeOK, HandOverTypeOK DEF ImporterStep
<1>3. CASE EditSource \/ EditTarget \/ AddColumn
  BY <1>3, EditTypeOK
<1>4. CASE UNCHANGED vars
  BY <1>4, HandOverTypeOK
<1> QED BY <1>1, <1>2, <1>3, <1>4 DEF Next

LEMMA StepKnownNames ==
  ASSUME TypeOK, KnownNames, [Next]_vars
  PROVE  KnownNames'
<1>1. CASE ExportListing
  BY <1>1, Probed
<1>2. CASE FinishExport
  BY <1>2 DEF FinishExport, KnownNames
<1>3. CASE ~ (ExportListing \/ FinishExport)
  <2>1. names' = names /\ setup' = setup
    BY <1>3 DEF Next, vars, ExporterStep, ImporterStep, StartExport, StartImport, WriteRecord,
       FinishImport, EditSource, EditTarget, AddColumn, Edit, exporterVars
  <2> QED BY <2>1 DEF KnownNames
<1> QED BY <1>1, <1>2, <1>3

(***************************************************************************)
(* Every variable keeps its type: what phpIPAM reads as a boolean or not   *)
(* at all has become a text wherever the jobs hold it (model.py:286-304).  *)
(***************************************************************************)
THEOREM TypeCorrect == Spec => []TypeOK
<1> DEFINE Inv == TypeOK /\ KnownNames
<1>1. Init => Inv
  BY InitTypeOK DEF Init, KnownNames
<1>2. Inv /\ [Next]_vars => Inv'
  BY StepTypeOK, StepKnownNames
<1> QED BY <1>1, <1>2, PTL DEF Spec

-----------------------------------------------------------------------------
(***************************************************************************)
(* What is exported of a record is what may be replicated of it.           *)
(***************************************************************************)
\* f has cells of source record r, as text, and only replicated ones.
TrueFields(f, r) ==
  DOMAIN f \subseteq Replicated(r) /\ \A c \in DOMAIN f : f[c] = AsText(source[r][c])

LEMMA ReplicatedColumns ==
  ASSUME NEW r
  PROVE  /\ SyncedBy(setup) \cup Prefixed \subseteq Replicated(r)
         /\ Replicated(r) \subseteq Replicable
         /\ Replicable \subseteq Stock(setup.kind) \cup Custom
         /\ setup.kind # "vlan" => Replicated(r) = Replicable
<1>1. SyncedBy(setup) \subseteq Stock(setup.kind) /\ Prefixed \subseteq Custom
  BY SyncedColumns, Columns
<1> QED BY <1>1 DEF Replicated, Replicable

LEMMA CarriedTrue ==
  ASSUME NEW r, DOMAIN source[r] = Stock(setup.kind) \cup Custom, NEW custom_names,
         custom_names # {} =>
           custom_names = Custom /\ setup.source.nested /\ setup.kind # "vlan"
  PROVE  TrueFields(Fields(source[r], setup, custom_names), r)
<1> DEFINE f == Fields(source[r], setup, custom_names)
<1>1. \A c \in DOMAIN f : f[c] = AsText(source[r][c])
  BY ONLY CarriedText
<1>2. DOMAIN f = (DOMAIN source[r] \cap (SyncedBy(setup) \cup Prefixed \cup custom_names))
                   \cup InBlock(source[r], setup.source)
  BY ONLY CarriedColumns
<1> HIDE DEF f
<1>3. ASSUME NEW c \in DOMAIN f
      PROVE  c \in Replicated(r)
  <2>1. CASE c \in SyncedBy(setup) \cup Prefixed
    BY <2>1, ReplicatedColumns
  <2>2. CASE c \in custom_names
    BY <2>2 DEF Replicated, Replicable
  <2>3. CASE c \in InBlock(source[r], setup.source)
    BY <2>3 DEF InBlock, HasCustom, Replicated, Replicable
  <2> QED BY <1>2, <1>3, <2>1, <2>2, <2>3
<1>4. TrueFields(f, r)
  BY <1>1, <1>3 DEF TrueFields
<1> QED BY <1>4 DEF f

LEMMA CarriedFull ==
  ASSUME NEW r, DOMAIN source[r] = Stock(setup.kind) \cup Custom, NEW custom_names,
         setup.kind # "vlan" /\ setup.source.nested => custom_names = Custom
  PROVE  Replicated(r)
           \subseteq DOMAIN Fields(source[r], setup, custom_names)
<1> DEFINE D == DOMAIN Fields(source[r], setup, custom_names)
<1>1. D = (DOMAIN source[r] \cap (SyncedBy(setup) \cup Prefixed \cup custom_names))
            \cup InBlock(source[r], setup.source)
  BY CarriedColumns
<1> HIDE DEF D
<1>2. SyncedBy(setup) \cup Prefixed \subseteq Stock(setup.kind) \cup Custom
  BY SyncedColumns, Columns
<1>3. SyncedBy(setup) \cup Prefixed \subseteq D
  BY <1>1, <1>2
<1>4. ASSUME NEW c \in Replicated(r), c \notin SyncedBy(setup) \cup Prefixed
      PROVE  c \in D
  <2>1. /\ c \in Custom /\ setup.source.nested
        /\ setup.kind = "vlan" => \E x \in Custom : source[r][x] # Null
    BY <1>4 DEF Replicated, Replicable
  <2>2. CASE setup.kind = "vlan"
    BY <1>1, <2>1, <2>2 DEF InBlock, HasCustom
  <2>3. CASE setup.kind # "vlan"
    BY <1>1, <2>1, <2>3
  <2> QED BY <2>2, <2>3
<1> QED BY <1>3, <1>4 DEF D

-----------------------------------------------------------------------------
(***************************************************************************)
(* Only replicated columns, at every stage.                                *)
(***************************************************************************)
OnlyReplicable(m) == \A r \in DOMAIN m : DOMAIN m[r] \subseteq Replicable

FieldsReplicable == OnlyReplicable(docs) /\ OnlyReplicable(snapshot) /\ OnlyReplicable(plan)

LEMMA StepFieldsReplicable ==
  ASSUME TypeOK, KnownNames, FieldsReplicable, [Next]_vars
  PROVE  FieldsReplicable'
<1>1. setup' = setup /\ Replicable' = Replicable
  BY DEF Next, vars, ExporterStep, ImporterStep, StartExport, ExportListing, FinishExport,
     StartImport, WriteRecord, FinishImport, EditSource, EditTarget, AddColumn, Edit, Replicable
<1>2. CASE ExportListing
  <2>1. \A r \in Record : DOMAIN source[r] = Stock(setup.kind) \cup Custom
    BY DEF TypeOK
  <2>2. names' # {} => names' = Custom /\ setup.source.nested /\ setup.kind # "vlan"
    BY <1>1, <1>2, Probed DEF KnownNames
  <2>3. \A r \in Record :
          DOMAIN Fields(source[r], setup, names') \subseteq Replicable
    BY <2>1, <2>2, CarriedTrue, ReplicatedColumns DEF TrueFields
  <2>4. OnlyReplicable(docs)'
    BY <1>1, <1>2, <2>3, ExportedRecords DEF FieldsReplicable, OnlyReplicable
  <2>5. snapshot' = snapshot /\ plan' = plan
    BY <1>2 DEF ExportListing, importerVars
  <2> QED BY <1>1, <2>4, <2>5 DEF FieldsReplicable, OnlyReplicable
<1>3. CASE FinishExport
  BY <1>1, <1>3 DEF FinishExport, importerVars, FieldsReplicable, OnlyReplicable, EmptyMap
<1>4. CASE StartImport
  <2>1. OnlyReplicable(plan)'
    <3>1. /\ DOMAIN plan' \subseteq DOMAIN snapshot
          /\ \A r \in DOMAIN plan' : plan'[r] = Wanted(r)
      BY <1>4 DEF StartImport, Plan
    <3> QED BY <1>1, <3>1, WantedType DEF FieldsReplicable, OnlyReplicable
  <2> QED BY <1>1, <1>4, <2>1 DEF StartImport, exporterVars, FieldsReplicable, OnlyReplicable
<1>5. CASE \E r \in Record : WriteRecord(r)
  <2>1. /\ docs' = docs /\ snapshot' = snapshot
        /\ DOMAIN plan' \subseteq DOMAIN plan /\ \A x \in DOMAIN plan' : plan'[x] = plan[x]
    BY <1>5 DEF WriteRecord, exporterVars, Pop
  <2> QED BY <1>1, <2>1 DEF FieldsReplicable, OnlyReplicable
<1>6. CASE \/ StartExport \/ FinishImport \/ EditSource \/ EditTarget \/ AddColumn
           \/ UNCHANGED vars
  <2>1. docs' = docs /\ snapshot' = snapshot /\ plan' = plan
    BY <1>6 DEF vars, StartExport, FinishImport, EditSource, EditTarget, AddColumn, Edit,
       exporterVars, importerVars
  <2> QED BY <1>1, <2>1 DEF FieldsReplicable, OnlyReplicable
<1> QED BY <1>2, <1>3, <1>4, <1>5, <1>6 DEF Next, ExporterStep, ImporterStep

\* What phpIPAM takes: all that is replicated, but for custom columns it does not have.
LEMMA WritableNames ==
  ASSUME TypeOK, NEW c \in Replicable
  PROVE  WriteName(setup.kind, c) \in Writable \cup (Custom \ columns)
<1>1. setup.kind \in Kind
  BY FieldAssumption DEF TypeOK, SetupType
<1>2. c \in Stock(setup.kind) \cup Custom
  BY ReplicatedColumns
<1>3. "tag" \notin Custom
  BY DEF Custom, Prefixed
<1> QED BY <1>1, <1>2, <1>3 DEF Kind, WriteName, Writable

LEMMA WritableColumn ==
  ASSUME TypeOK, NEW c \in Replicable, WriteName(setup.kind, c) \in Writable
  PROVE  c \in Stock(setup.kind) \cup columns
<1>1. setup.kind \in Kind
  BY FieldAssumption DEF TypeOK, SetupType
<1>2. CASE c \in Custom
  <2>1. c # "tag" /\ c # "state"
    BY <1>2 DEF Custom, Prefixed
  <2> QED BY <1>1, <2>1 DEF Kind, WriteName, Writable
<1>3. CASE c \notin Custom
  BY <1>3, ReplicatedColumns
<1> QED BY <1>2, <1>3

LEMMA StepRefused ==
  ASSUME TypeOK, FieldsReplicable, RefusedForSchema, [Next]_vars
  PROVE  RefusedForSchema'
<1>1. ASSUME NEW r \in Record, WriteRecord(r)
      PROVE  refused' \subseteq Custom
  <2>1. \A c \in DOMAIN plan[r] : c \in Replicable
    BY <1>1 DEF WriteRecord, FieldsReplicable, OnlyReplicable
  <2>2. {WriteName(setup.kind, c) : c \in DOMAIN plan[r]} \ Writable \subseteq Custom
    BY <2>1, WritableNames
  <2> QED BY <1>1, <2>2, RefusedNames DEF RefusedForSchema
<1>2. CASE ~ \E r \in Record : WriteRecord(r)
  <2>1. refused' \subseteq refused
    BY <1>2 DEF Next, vars, ExporterStep, ImporterStep, StartExport, ExportListing, FinishExport,
       StartImport, FinishImport, EditSource, EditTarget, AddColumn, Edit, importerVars
  <2> QED BY <2>1 DEF RefusedForSchema
<1> QED BY <1>1, <1>2 DEF RefusedForSchema

LEMMA StepReport ==
  ASSUME TypeOK, KnownNames, ReportIsSignal, [Next]_vars
  PROVE  ReportIsSignal'
<1> DEFINE Signal(f) ==
      Unknown \cup (IF setup.source.nested /\ f = 0 THEN {} ELSE Custom \ Prefixed)
<1>1. setup' = setup /\ (faults = 0 \/ faults' # 0)
  <2>1. setup' = setup /\ (faults' = faults \/ faults' = faults + 1)
    BY DEF Next, vars, ExporterStep, ImporterStep, StartExport, ExportListing, FinishExport,
       StartImport, WriteRecord, FinishImport, EditSource, EditTarget, AddColumn, Edit, budgets
  <2>2. faults \in Nat
    BY DEF TypeOK
  <2> QED BY <2>1, <2>2
<1>2. report \subseteq Signal(faults')
  BY <1>1 DEF ReportIsSignal
<1>3. CASE ExportListing
  <2>1. setup.kind \in Kind /\ \A r \in Record : DOMAIN source[r] = Stock(setup.kind) \cup Custom
    BY FieldAssumption DEF TypeOK, SetupType
  <2>2. CASE setup.kind = "vlan"
    BY <1>1, <1>2, <1>3, <2>2 DEF ExportListing, ReportIsSignal
  <2>3. ASSUME setup.kind # "vlan", NEW r \in Listing(reading) \ Folder
        PROVE  Losses(source[r], setup, names') \subseteq Signal(faults')
    <3>1. r \in Record
      BY <1>3, <2>3, ExportedRecords
    <3>2. Losses(source[r], setup, names')
            \subseteq (Stock(setup.kind) \cup Custom)
                       \ (SyncedBy(setup) \cup ExcludedBy(setup) \cup Prefixed \cup names')
      BY <2>1, <3>1, DroppedNames
    <3>3. Stock(setup.kind) \ (SyncedBy(setup) \cup ExcludedBy(setup)) \subseteq Unknown
      BY <2>3, Columns DEF SyncedBy, ExcludedBy
    <3>4. setup.source.nested /\ faults' = 0 => names' = Custom
      BY <1>1, <1>3, <2>3, Probed DEF ReportIsSignal
    <3> QED BY <3>2, <3>3, <3>4
  <2>4. CASE setup.kind # "vlan"
    <3>1. report' = report \cup UNION {Losses(source[r], setup, names') :
                                       r \in Listing(reading) \ Folder}
      BY <1>3, <2>4 DEF ExportListing, Losses
    <3> QED BY <1>1, <1>2, <2>3, <2>4, <3>1 DEF ReportIsSignal
  <2> QED BY <2>2, <2>4
<1>4. CASE ~ ExportListing
  <2>1. report' \subseteq report
    BY <1>4 DEF Next, vars, ExporterStep, ImporterStep, StartExport, FinishExport,
       StartImport, WriteRecord, FinishImport, EditSource, EditTarget, AddColumn, Edit,
       exporterVars
  <2> QED BY <1>1, <1>2, <2>1 DEF ReportIsSignal
<1> QED BY <1>3, <1>4

\* What holds in every state, however often things change.
Sound ==
  TypeOK /\ KnownNames /\ FieldsReplicable /\ RefusedForSchema /\ ReportIsSignal

LEMMA InitSound ==
  ASSUME Init
  PROVE  Sound
BY InitTypeOK DEF Init, Sound, KnownNames, FieldsReplicable, OnlyReplicable, EmptyMap,
   RefusedForSchema, ReportIsSignal

LEMMA StepSound ==
  ASSUME Sound, [Next]_vars
  PROVE  Sound'
BY StepTypeOK, StepKnownNames, StepFieldsReplicable, StepRefused, StepReport DEF Sound

LEMMA AlwaysSound == Spec => []Sound
BY InitSound, StepSound, PTL DEF Spec

(***************************************************************************)
(* phpIPAM refuses a write only for a custom column that it does not have  *)
(* (model.py:15-46, 238-260).                                              *)
(***************************************************************************)
THEOREM Refusals == Spec => []RefusedForSchema
<1>1. Sound => RefusedForSchema
  BY DEF Sound
<1> QED BY <1>1, AlwaysSound, PTL

(***************************************************************************)
(* The report of dropped fields names only what this program has not been  *)
(* taught, and custom fields it could not tell (model.py:65-68, 365-367).  *)
(***************************************************************************)
THEOREM Reports == Spec => []ReportIsSignal
<1>1. Sound => ReportIsSignal
  BY DEF Sound
<1> QED BY <1>1, AlwaysSound, PTL

(***************************************************************************)
(* No column of a target record that is not replicated is ever changed by  *)
(* the importer (model.py:1-40).                                           *)
(***************************************************************************)
THEOREM OnlyReplicated == Spec => OnlyReplicatedWritten
<1>1. ASSUME Sound, [Next]_vars, edits' = edits, NEW x \in DOMAIN target, NEW c \in DOMAIN target[x],
             target'[x][c] # target[x][c]
      PROVE  c \in Replicable
  <2>1. TypeOK /\ OnlyReplicable(plan)
    BY <1>1 DEF Sound, FieldsReplicable
  <2>2. ~ Edit
    BY <1>1, <2>1 DEF TypeOK, Edit
  <2>3. PICK r \in Record : WriteRecord(r)
    BY <1>1, <2>2 DEF Next, vars, ExporterStep, ImporterStep, StartExport, ExportListing, FinishExport,
       StartImport, FinishImport, EditSource, EditTarget, AddColumn
  <2>4. target' # target
    BY <1>1
  <2>5. x = r
    BY <1>1, <2>1, <2>3, <2>4, WriteAccepted, WrittenRow
  <2>6. c \in Stock(setup.kind) \cup columns
    BY <1>1, <2>1 DEF TypeOK
  <2>7. c \in DOMAIN plan[r]
    BY <1>1, <2>1, <2>3, <2>4, <2>5, <2>6, WriteAccepted, WrittenRow
  <2>8. r \in DOMAIN plan
    BY <2>3 DEF WriteRecord
  <2> QED BY <2>1, <2>7, <2>8 DEF OnlyReplicable
<1>2. Sound /\ [Next]_vars =>
        [edits' = edits =>
           \A r \in DOMAIN target : \A c \in DOMAIN target[r] :
             target'[r][c] # target[r][c] => c \in Replicable]_vars
  BY <1>1
<1> QED BY <1>2, AlwaysSound, PTL DEF Spec, OnlyReplicatedWritten

-----------------------------------------------------------------------------
(***************************************************************************)
(* One round of export and import.  As long as nothing has changed since   *)
(* the round began, what each stage holds is the source's; and it is all   *)
(* of it, where a later stage counts on that.                              *)
(***************************************************************************)
TrueMap(m) == \A r \in DOMAIN m : r \in Record \ Folder /\ TrueFields(m[r], r)

Full(m, S) == \A r \in S : r \in DOMAIN m /\ Replicated(r) \subseteq DOMAIN m[r]

\* What the listings that have been read contain.
ReadSoFar == UNION {Listings[i] \ Folder : i \in 1 .. (reading - 1)}

ExporterInv ==
  /\ reading = 0 => docs = EmptyMap
  /\ settled = "exporting" => reading # 0
  /\ settled # "changed" => TrueMap(docs)
  /\ settled \in {"exporting", "exported"} /\ reading # 0 => Full(docs, ReadSoFar)
  /\ settled \in {"exported", "importing", "imported"} => TrueMap(snapshot)
  /\ settled = "exported" => Full(snapshot, Record \ Folder)

\* Cell c of record r is mirrored, or still to be written.
Same(r, c) == r \in DOMAIN target /\ Cell(target[r], c) = AsText(source[r][c])

Planned(r, c) == r \in DOMAIN plan /\ c \in DOMAIN plan[r]

ImporterInv ==
  /\ settled = "importing" => importing /\ TrueMap(plan)
  /\ settled = "importing" /\ Comparable /\ refused = {} =>
       \A r \in Record \ Folder : \A c \in Replicated(r) : Same(r, c) \/ Planned(r, c)
  /\ settled = "imported" /\ Comparable => plan = EmptyMap /\ Mirrored

LEMMA SameSource ==
  ASSUME setup' = setup, source' = source
  PROVE  /\ Comparable' = Comparable
         /\ \A r : Replicated(r)' = Replicated(r)
         /\ \A r, f : TrueFields(f, r)' = TrueFields(f, r)
         /\ \A m : TrueMap(m)' = TrueMap(m)
         /\ \A m, S : Full(m, S)' = Full(m, S)
<1>1. \A r : Replicated(r)' = Replicated(r)
  BY DEF Replicated, Replicable
<1> QED BY <1>1 DEF TrueFields, TrueMap, Full, Comparable

LEMMA EmptyIsTrue == TrueMap(EmptyMap)
BY DEF TrueMap, EmptyMap

LEMMA ExportListingTrue ==
  ASSUME Sound, ExporterInv, ExportListing
  PROVE  /\ settled # "changed" => TrueMap(docs')
         /\ settled' \in {"exporting", "exported"} => Full(docs', ReadSoFar')
<1> DEFINE real == Listing(reading) \ Folder
<1>1. TypeOK /\ KnownNames
  BY DEF Sound
<1>2. /\ DOMAIN docs' = DOMAIN docs \cup real
      /\ real \subseteq Record
      /\ \A r \in real : docs'[r] = Fields(source[r], setup, names')
      /\ \A r \in DOMAIN docs \ real : docs'[r] = docs[r]
  BY <1>1, ExportedRecords
<1>3. \A r \in Record : DOMAIN source[r] = Stock(setup.kind) \cup Custom
  BY <1>1 DEF TypeOK
<1>4. /\ setup' = setup
      /\ names' # {} => names' = Custom /\ setup.source.nested /\ setup.kind # "vlan"
      /\ faults' = faults /\ setup.kind # "vlan" /\ setup.source.nested /\ real # {}
           => names' = Custom
  BY <1>1, Probed DEF KnownNames, ExportListing
<1>5. settled # "changed" => TrueMap(docs')
  <2>1. \A r \in real : TrueFields(Fields(source[r], setup, names'), r)
    BY <1>2, <1>3, <1>4, CarriedTrue
  <2> QED BY <1>2, <2>1 DEF ExporterInv, TrueMap
<1>6. ASSUME settled' \in {"exporting", "exported"}
      PROVE  Full(docs', ReadSoFar')
  <2>1. settled' = settled /\ faults' = faults
    BY <1>1, <1>6 DEF ExportListing, TypeOK
  <2>2. reading \in 1 .. Len(Listings) /\ reading' = reading + 1
    BY FieldAssumption DEF ExportListing
  <2>3. ReadSoFar' = ReadSoFar \cup (Listings[reading] \ Folder)
    BY <2>2 DEF ReadSoFar
  <2>4. Listings[reading] \ Folder = real
    BY DEF Listing
  <2>5. Full(docs, ReadSoFar)
    BY <1>6, <2>1, <2>2 DEF ExporterInv
  <2>6. \A r \in real : Replicated(r) \subseteq DOMAIN docs'[r]
    <3>1. \A r \in real : Replicated(r) \subseteq DOMAIN Fields(source[r], setup, names')
      BY <1>2, <1>3, <1>4, <2>1, CarriedFull
    <3> QED BY <1>2, <3>1
  <2> HIDE DEF real
  <2> QED BY <1>2, <2>3, <2>4, <2>5, <2>6 DEF Full
<1> QED BY <1>5, <1>6

LEMMA StepExporterInv ==
  ASSUME Sound, ExporterInv, [Next]_vars
  PROVE  ExporterInv'
<1>1. TypeOK
  BY DEF Sound
<1>2. CASE StartExport
  <2>1. docs' = EmptyMap /\ snapshot' = snapshot /\ setup' = setup /\ source' = source
    BY <1>2 DEF StartExport, ExporterInv
  <2>2. reading' = 1 /\ ReadSoFar' = {}
    BY <1>2 DEF StartExport, ReadSoFar
  <2>3. settled' = settled \/ settled' = "exporting"
    BY <1>2 DEF StartExport
  <2> QED BY <2>1, <2>2, <2>3, SameSource, EmptyIsTrue DEF ExporterInv, Full
<1>3. CASE ExportListing
  <2>1. /\ setup' = setup /\ source' = source /\ snapshot' = snapshot
        /\ settled' = settled \/ settled' = "changed"
    BY <1>3 DEF ExportListing
  <2>2. reading' # 0
    BY <1>3, FieldAssumption DEF ExportListing
  <2> QED BY <1>3, <2>1, <2>2, SameSource, ExportListingTrue DEF ExporterInv
<1>4. CASE FinishExport
  <2>1. /\ setup' = setup /\ source' = source /\ docs' = EmptyMap /\ snapshot' = docs
        /\ reading' = 0 /\ settled' = IF settled = "exporting" THEN "exported" ELSE settled
    BY <1>4 DEF FinishExport
  <2>2. settled \in {"exporting", "exported"} => Full(docs, Record \ Folder)
    <3>1. reading # 0 /\ Record \ Folder \subseteq ReadSoFar
      BY <1>1, <1>4, FieldAssumption DEF FinishExport, ReadSoFar, TypeOK
    <3> QED BY <3>1 DEF ExporterInv, Full
  <2>3. settled # "changed" => TrueMap(docs)
    BY DEF ExporterInv
  <2> QED BY <1>1, <2>1, <2>2, <2>3, SameSource, EmptyIsTrue DEF ExporterInv, TypeOK
<1>5. CASE ImporterStep
  <2>1. /\ setup' = setup /\ source' = source /\ docs' = docs /\ snapshot' = snapshot
        /\ reading' = reading
        /\ \/ settled' = settled
           \/ settled = "exported" /\ settled' = "importing"
           \/ settled = "importing" /\ settled' \in {"imported", "changed"}
    BY <1>5 DEF ImporterStep, StartImport, WriteRecord, FinishImport, exporterVars
  <2>2. ReadSoFar' = ReadSoFar
    BY <2>1 DEF ReadSoFar
  <2> QED BY <2>1, <2>2, SameSource DEF ExporterInv
<1>6. CASE EditSource \/ EditTarget \/ AddColumn
  <2>1. docs' = docs /\ reading' = reading /\ settled' = "changed"
    BY <1>6 DEF EditSource, EditTarget, AddColumn, Edit, exporterVars
  <2> QED BY <2>1 DEF ExporterInv
<1>7. CASE UNCHANGED vars
  <2>1. /\ setup' = setup /\ source' = source /\ docs' = docs /\ snapshot' = snapshot
        /\ reading' = reading /\ settled' = settled /\ ReadSoFar' = ReadSoFar
    BY <1>7 DEF vars, exporterVars, ReadSoFar
  <2> QED BY <2>1, SameSource DEF ExporterInv
<1> QED BY <1>2, <1>3, <1>4, <1>5, <1>6, <1>7 DEF Next, ExporterStep

\* The importer compares with what is in the target's row.
LEMMA CurrentText ==
  ASSUME Comparable, NEW r, NEW c
  PROVE  normalise(IF c \in DOMAIN Current(r) THEN Current(r)[c] ELSE None) = Cell(target[r], c)
<1> DEFINE raw == Listed(target[r], setup.target)
           block == InBlock(target[r], setup.target)
<1>1. /\ DOMAIN raw.custom_fields = block
      /\ DOMAIN raw.top = DOMAIN target[r] \ block
      /\ \A x \in DOMAIN raw.top : raw.top[x] = Raw(target[r][x], setup.target.style)
      /\ \A x \in DOMAIN raw.custom_fields :
           raw.custom_fields[x] = Raw(target[r][x], setup.target.style)
  BY ListedCells
<1>2. block \subseteq DOMAIN target[r] /\ (setup.kind = "vlan" => block = {})
  BY DEF InBlock, Comparable
<1>3. Current(r) = IF setup.kind = "vlan" THEN raw.top ELSE flatten_custom_fields(raw)
  BY DEF Current
<1> HIDE DEF raw, block
<1>4. /\ DOMAIN Current(r) = DOMAIN target[r]
      /\ \A x \in DOMAIN target[r] : Current(r)[x] = Raw(target[r][x], setup.target.style)
  BY <1>1, <1>2, <1>3 DEF flatten_custom_fields
<1>5. CASE c \in DOMAIN target[r]
  BY <1>4, <1>5, TextOf DEF Cell
<1>6. CASE c \notin DOMAIN target[r]
  BY <1>4, <1>6 DEF Cell, normalise, None
<1> QED BY <1>5, <1>6

\* What it would write of a record that is there.
LEMMA Differences ==
  ASSUME Comparable, NEW r \in DOMAIN target
  PROVE  DOMAIN Wanted(r) = {c \in DOMAIN snapshot[r] : snapshot[r][c] # Cell(target[r], c)}
<1>1. DOMAIN Wanted(r) =
        {c \in DOMAIN snapshot[r] :
           snapshot[r][c] # normalise(IF c \in DOMAIN Current(r) THEN Current(r)[c] ELSE None)}
  BY DEF Wanted, diff_fields
<1> QED BY <1>1, CurrentText

LEMMA PlanTrue ==
  ASSUME TrueMap(snapshot)
  PROVE  TrueMap(Plan)
<1>1. ASSUME NEW r \in DOMAIN snapshot
      PROVE  TrueFields(Wanted(r), r)
  <2>1. PICK S \in SUBSET DOMAIN snapshot[r] :
          Wanted(r) = [c \in S |-> snapshot[r][c]] \/ Wanted(r) = snapshot[r]
    BY WantedPart
  <2>2. TrueFields(snapshot[r], r)
    BY DEF TrueMap
  <2> QED BY <2>1, <2>2 DEF TrueFields
<1>2. DOMAIN Plan \subseteq DOMAIN snapshot /\ \A r \in DOMAIN Plan : Plan[r] = Wanted(r)
  BY DEF Plan
<1> QED BY <1>1, <1>2 DEF TrueMap

LEMMA PlanCovers ==
  ASSUME Comparable, TrueMap(snapshot), Full(snapshot, Record \ Folder),
         NEW r \in Record \ Folder, NEW c \in Replicated(r)
  PROVE  Same(r, c) \/ (r \in DOMAIN Plan /\ c \in DOMAIN Plan[r])
<1>1. r \in DOMAIN snapshot /\ c \in DOMAIN snapshot[r] /\ snapshot[r][c] = AsText(source[r][c])
  BY DEF Full, TrueMap, TrueFields
<1>2. CASE r \notin DOMAIN target
  BY <1>1, <1>2 DEF Plan, Wanted
<1>3. CASE r \in DOMAIN target /\ ~ Same(r, c)
  <2>1. c \in DOMAIN Wanted(r)
    BY <1>1, <1>3, Differences DEF Same
  <2>2. Wanted(r) # EmptyMap
    BY <2>1 DEF EmptyMap
  <2> QED BY <1>1, <2>1, <2>2 DEF Plan
<1> QED BY <1>2, <1>3

LEMMA MirroredPlan ==
  ASSUME TypeOK, Comparable, TrueMap(snapshot), Mirrored
  PROVE  Plan = EmptyMap
<1>1. ASSUME NEW r \in DOMAIN snapshot
      PROVE  r \in DOMAIN target /\ Wanted(r) = EmptyMap
  <2>1. r \in Record \ Folder /\ TrueFields(snapshot[r], r)
    BY DEF TrueMap
  <2>2. /\ r \in DOMAIN target
        /\ \A c \in Replicated(r) : Cell(source[r], c) = Cell(target[r], c)
    BY <2>1 DEF Mirrored
  <2>3. \A c \in Replicated(r) : Cell(source[r], c) = AsText(source[r][c])
    <3>1. DOMAIN source[r] = Stock(setup.kind) \cup Custom
      BY <2>1 DEF TypeOK
    <3> QED BY <3>1, ReplicatedColumns DEF Cell
  <2>4. \A c \in DOMAIN snapshot[r] : snapshot[r][c] = Cell(target[r], c)
    BY <2>1, <2>2, <2>3 DEF TrueFields
  <2>5. DOMAIN Wanted(r) = {}
    BY <2>2, <2>4, Differences
  <2>6. PICK S : Wanted(r) = [c \in S |-> snapshot[r][c]]
    BY <2>2 DEF Wanted, diff_fields
  <2> QED BY <2>2, <2>5, <2>6 DEF EmptyMap
<1> QED BY <1>1 DEF Plan, EmptyMap

\* A write that is accepted makes a record's planned cells the source's.
LEMMA WrittenSame ==
  ASSUME TypeOK, TrueMap(plan), NEW r \in Record, WriteRecord(r), refused' = {},
         NEW x \in Record \ Folder, NEW c \in Replicated(x), Same(x, c) \/ Planned(x, c)
  PROVE  Same(x, c)' \/ Planned(x, c)'
<1>1. /\ source' = source /\ DOMAIN plan' = DOMAIN plan \ {r} /\ r \in DOMAIN plan
      /\ \A y \in DOMAIN plan \ {r} : plan'[y] = plan[y]
  BY DEF WriteRecord, exporterVars, Pop
<1>2. Accepted(r)
  BY WriteAccepted
<1>3. CASE x # r
  <2>1. x \in DOMAIN target => x \in DOMAIN target' /\ target'[x] = target[x]
    BY <1>3 DEF WriteRecord, Put
  <2> QED BY <1>1, <1>3, <2>1 DEF Same, Planned
<1>4. CASE x = r
  <2>1. /\ r \in DOMAIN target' /\ DOMAIN target'[r] = Stock(setup.kind) \cup columns
        /\ \A k \in (Stock(setup.kind) \cup columns) \cap DOMAIN plan[r] :
             IF plan[r][k] = "" THEN target'[r][k] \in {"", Null} ELSE target'[r][k] = plan[r][k]
        /\ \A k \in (Stock(setup.kind) \cup columns) \ DOMAIN plan[r] :
             r \in DOMAIN target => target'[r][k] = target[r][k]
    BY <1>2, WrittenRow
  <2>2. CASE c \in DOMAIN plan[r]
    <3>1. c \in Replicable /\ plan[r][c] = AsText(source[r][c])
      BY <1>1, <1>4, <2>2, ReplicatedColumns DEF TrueMap, TrueFields
    <3>2. c \in Stock(setup.kind) \cup columns
      <4>1. WriteName(setup.kind, c) \in Writable
        BY <1>2, <2>2 DEF Accepted
      <4> QED BY <3>1, <4>1, WritableColumn
    <3>3. AsText(target'[r][c]) = AsText(source[r][c])
      BY <2>1, <2>2, <3>1, <3>2 DEF AsText, Null
    <3> QED BY <1>1, <1>4, <2>1, <3>2, <3>3 DEF Same, Cell
  <2>3. CASE c \notin DOMAIN plan[r]
    <3>1. r \in DOMAIN target /\ Cell(target[r], c) = AsText(source[r][c])
      BY <1>4, <2>3 DEF Same, Planned
    <3>2. DOMAIN target[r] = Stock(setup.kind) \cup columns
      BY <3>1 DEF TypeOK
    <3>3. Cell(target'[r], c) = Cell(target[r], c)
      BY <2>1, <2>3, <3>1, <3>2 DEF Cell
    <3> QED BY <1>1, <1>4, <2>1, <3>1, <3>3 DEF Same
  <2> QED BY <2>2, <2>3
<1> QED BY <1>3, <1>4

LEMMA SameTarget ==
  ASSUME setup' = setup, source' = source, target' = target
  PROVE  Mirrored' = Mirrored /\ \A r, c : Same(r, c)' = Same(r, c)
<1>1. \A r : Replicated(r)' = Replicated(r)
  BY SameSource
<1> QED BY <1>1 DEF Mirrored, Same

\* Nothing is left to be written: the target has it all.
LEMMA NothingPlanned ==
  ASSUME TypeOK, plan = EmptyMap,
         \A r \in Record \ Folder : \A c \in Replicated(r) : Same(r, c) \/ Planned(r, c)
  PROVE  Mirrored
<1> SUFFICES ASSUME NEW r \in Record \ Folder
             PROVE  /\ r \in DOMAIN target
                    /\ \A c \in Replicated(r) : Cell(source[r], c) = Cell(target[r], c)
  BY DEF Mirrored
<1>1. \A c \in Replicated(r) : Same(r, c)
  BY DEF Planned, EmptyMap
<1>2. "description" \in Replicated(r)
  BY ReplicatedColumns DEF SyncedBy, Synced
<1>3. \A c \in Replicated(r) : Cell(source[r], c) = AsText(source[r][c])
  <2>1. DOMAIN source[r] = Stock(setup.kind) \cup Custom
    BY DEF TypeOK
  <2> QED BY <2>1, ReplicatedColumns DEF Cell
<1> QED BY <1>1, <1>2, <1>3 DEF Same

LEMMA StepImporterInv ==
  ASSUME Sound, ExporterInv, ImporterInv, [Next]_vars
  PROVE  ImporterInv'
<1>1. TypeOK
  BY DEF Sound
<1>2. CASE EditSource \/ EditTarget \/ AddColumn
  BY <1>2 DEF EditSource, EditTarget, AddColumn, Edit, ImporterInv
<1>3. CASE ExporterStep \/ UNCHANGED vars
  <2>1. /\ setup' = setup /\ source' = source /\ target' = target
        /\ importing' = importing /\ plan' = plan /\ refused' = refused
        /\ settled' \in {"importing", "imported"} => settled' = settled
    BY <1>3 DEF ExporterStep, StartExport, ExportListing, FinishExport, vars, importerVars
  <2>2. \A r, c : Planned(r, c)' = Planned(r, c)
    BY <2>1 DEF Planned
  <2> QED BY <2>1, <2>2, SameSource, SameTarget DEF ImporterInv
<1>4. CASE StartImport
  <2>1. /\ setup' = setup /\ source' = source /\ target' = target
        /\ importing' = TRUE /\ plan' = Plan /\ refused' = refused
        /\ ~ importing
        /\ settled' = IF settled = "exported" THEN "importing" ELSE settled
    BY <1>4 DEF StartImport, exporterVars, budgets
  <2>2. settled # "importing"
    BY <2>1 DEF ImporterInv
  <2>3. CASE settled = "exported"
    <3>1. TrueMap(snapshot) /\ Full(snapshot, Record \ Folder)
      BY <2>3 DEF ExporterInv
    <3>2. TrueMap(plan')
      BY <2>1, <3>1, PlanTrue
    <3>3. Comparable => \A r \in Record \ Folder : \A c \in Replicated(r) :
                           Same(r, c) \/ (r \in DOMAIN plan' /\ c \in DOMAIN plan'[r])
      BY <2>1, <3>1, PlanCovers
    <3> QED BY <2>1, <2>3, <3>2, <3>3, SameSource, SameTarget DEF ImporterInv, Planned
  <2>4. CASE settled = "imported"
    <3>1. TrueMap(snapshot)
      BY <2>4 DEF ExporterInv
    <3>2. Comparable => plan' = EmptyMap /\ Mirrored
      BY <1>1, <2>1, <2>4, <3>1, MirroredPlan DEF ImporterInv
    <3> QED BY <2>1, <2>4, <3>2, SameSource, SameTarget DEF ImporterInv
  <2>5. CASE settled \notin {"exported", "imported"}
    BY <2>1, <2>2, <2>5 DEF ImporterInv
  <2> QED BY <2>3, <2>4, <2>5
<1>5. ASSUME NEW r \in Record, WriteRecord(r)
      PROVE  ImporterInv'
  <2>1. /\ setup' = setup /\ source' = source /\ importing' = importing /\ settled' = settled
        /\ importing /\ r \in DOMAIN plan
        /\ DOMAIN plan' \subseteq DOMAIN plan /\ \A x \in DOMAIN plan' : plan'[x] = plan[x]
        /\ refused \subseteq refused'
    BY <1>5 DEF WriteRecord, exporterVars, Pop
  <2>2. CASE settled = "importing"
    <3>1. TrueMap(plan)
      BY <2>2 DEF ImporterInv
    <3>2. TrueMap(plan')
      BY <2>1, <3>1 DEF TrueMap
    <3>3. ASSUME Comparable, refused' = {}, NEW x \in Record \ Folder, NEW c \in Replicated(x)
          PROVE  Same(x, c)' \/ Planned(x, c)'
      <4>1. Same(x, c) \/ Planned(x, c)
        BY <2>1, <2>2, <3>3 DEF ImporterInv
      <4> QED BY <1>1, <1>5, <3>1, <3>3, <4>1, WrittenSame
    <3> QED BY <2>1, <2>2, <3>2, <3>3, SameSource DEF ImporterInv
  <2>3. CASE settled = "imported"
    <3>1. ~ Comparable
      BY <2>1, <2>3 DEF ImporterInv, EmptyMap
    <3> QED BY <2>1, <2>3, <3>1, SameSource DEF ImporterInv
  <2>4. CASE settled \notin {"importing", "imported"}
    BY <2>1, <2>4 DEF ImporterInv
  <2> QED BY <2>2, <2>3, <2>4
<1>6. CASE FinishImport
  <2>1. /\ setup' = setup /\ source' = source /\ target' = target /\ plan' = plan
        /\ plan = EmptyMap
        /\ settled' = IF settled # "importing" THEN settled
                      ELSE IF refused = {} THEN "imported" ELSE "changed"
    BY <1>6 DEF FinishImport, exporterVars, budgets
  <2>2. settled' = "imported" /\ Comparable => Mirrored
    BY <1>1, <2>1, NothingPlanned DEF ImporterInv
  <2>3. settled' # "importing"
    BY <2>1
  <2> QED BY <2>1, <2>2, <2>3, SameSource, SameTarget DEF ImporterInv
<1> QED BY <1>2, <1>3, <1>4, <1>5, <1>6 DEF Next, ImporterStep

Round == Sound /\ ExporterInv /\ ImporterInv

LEMMA AlwaysRound == Spec => []Round
<1>1. Init => Round
  BY InitSound, EmptyIsTrue DEF Init, Round, ExporterInv, ImporterInv
<1>2. Round /\ [Next]_vars => Round'
  BY StepSound, StepExporterInv, StepImporterInv DEF Round
<1> QED BY <1>1, <1>2, PTL DEF Spec

(***************************************************************************)
(* One export in which no probe failed and one import in which nothing was *)
(* refused, with no change since, make every replicated field of every     *)
(* record the same (model.py:207-229): for any records, however listed.    *)
(***************************************************************************)
THEOREM OneRound == Spec => []OneRoundMirrors
<1>1. Round => OneRoundMirrors
  BY DEF Round, ImporterInv, OneRoundMirrors
<1> QED BY <1>1, AlwaysRound, PTL

(***************************************************************************)
(* And then nothing is left to write: there is no update loop, however the *)
(* two API apps are set up (model.py:263-304).                             *)
(***************************************************************************)
THEOREM NoUpdateLoop == Spec => []QuietOnceMirrored
<1>1. Round => QuietOnceMirrored
  <2> SUFFICES ASSUME Round, settled = "imported", Comparable
               PROVE  Plan = EmptyMap
    BY DEF QuietOnceMirrored
  <2>1. TypeOK /\ TrueMap(snapshot) /\ Mirrored
    BY DEF Round, Sound, ExporterInv, ImporterInv
  <2> QED BY <2>1, MirroredPlan
<1> QED BY <1>1, AlwaysRound, PTL
=============================================================================

------------------------ MODULE SnapshotMirror_proofs ------------------------
(***************************************************************************)
(* Theorems about the path of a snapshot, for any source, any order of     *)
(* delivery and any number of failures, damaged files and edits: it        *)
(* implements SnapshotChannel, and a commit holds what its run has read.   *)
(***************************************************************************)
EXTENDS SnapshotMirror, Extremes, SequenceTheorems, FiniteSetTheorems, TLAPS

(***************************************************************************)
(* The inductive invariant, in four parts besides the types.               *)
(***************************************************************************)
Last == TreeAt(Len(log))

\* Every commit is complete, and stamped later than those before it.
HistoryInv ==
  /\ \A i \in 1 .. Len(log) :
       log[i].manifest.stamp > 0 /\ log[i].files = log[i].manifest.files
  /\ \A i, j \in 1 .. Len(log) : i < j => log[i].manifest.stamp < log[j].manifest.stamp

\* A manifest in the working copy is the last commit's or later.
WorkInv ==
  \/ work.manifest.stamp <= 0
  \/ work.manifest = Last.manifest
  \/ Last.manifest.stamp < work.manifest.stamp

\* What a run has written are the documents that it has taken up, each in its file.
WrittenInv ==
  /\ IsFiniteSet(DOMAIN files)
  /\ DOMAIN files \subseteq DOMAIN work.files
  /\ \A p \in DOMAIN files : /\ work.files[p] = files[p]
                             /\ files[p] \in docs \ unwritten
                             /\ PathOf[files[p].key] = p
  /\ \A d \in docs \ unwritten : PathOf[d.key] \in DOMAIN files /\ files[PathOf[d.key]] = d

RunInv ==
  /\ phase \in {"sections", "addresses"} => files = NoFiles /\ unwritten = {}
  /\ phase \in {"files", "prune", "manifest", "commit"} => WrittenInv
  /\ phase \in {"prune", "manifest", "commit"} => unwritten = {}
  /\ phase \in {"manifest", "commit"} => DOMAIN work.files = DOMAIN files
  /\ phase = "commit" => work.manifest.files = files /\ work.manifest.stamp > 0
  /\ phase \in {"commit", "push"} => option # "write"
  /\ phase = "push" => pushed < Len(log)
  /\ phase \in {"addresses", "files", "prune", "manifest", "commit"} => docs # {}

\* Manifest m is one that was pushed.
Published(m) == \E i \in 1 .. pushed : m = log[i].manifest

\* What the importing side has of manifests was pushed, in order.
ReaderInv ==
  /\ copy.manifest.stamp > 0 =>
       /\ Published(copy.manifest)
       /\ accepted.stamp <= copy.manifest.stamp
       /\ reading => wanted.stamp <= copy.manifest.stamp
  /\ reading =>
       /\ Published(wanted)
       /\ accepted.stamp <= wanted.stamp
       /\ DOMAIN read \subseteq DOMAIN wanted.files
       /\ \A p \in DOMAIN read : read[p] = wanted.files[p]
  /\ accepted = NoManifest \/ Published(accepted)

Inv == TypeOK /\ HistoryInv /\ WorkInv /\ RunInv /\ ReaderInv

-----------------------------------------------------------------------------
(***************************************************************************)
(* Directories: partial functions from paths.                              *)
(***************************************************************************)
PartialFunction(S, T) == UNION {[P -> T] : P \in SUBSET S}

LEMMA PartialFunctions ==
  ASSUME NEW S, NEW T, NEW f
  PROVE  f \in PartialFunction(S, T) <=> f \in [DOMAIN f -> T] /\ DOMAIN f \subseteq S
BY DEF PartialFunction

LEMMA PutPop ==
  ASSUME NEW S, NEW T, NEW f \in PartialFunction(S, T), NEW k
  PROVE  /\ k \in S => \A v \in T : Put(f, k, v) \in PartialFunction(S, T)
         /\ Pop(f, k) \in PartialFunction(S, T)
<1>1. f \in [DOMAIN f -> T] /\ DOMAIN f \subseteq S
  BY PartialFunctions
<1>2. \A v : DOMAIN Put(f, k, v) = DOMAIN f \cup {k}
  BY DEF Put
<1>3. DOMAIN Pop(f, k) = DOMAIN f \ {k}
  BY DEF Pop
<1>4. \A v \in T : Put(f, k, v) \in [DOMAIN f \cup {k} -> T]
  BY <1>1 DEF Put
<1>5. Pop(f, k) \in [DOMAIN f \ {k} -> T]
  BY <1>1 DEF Pop
<1>6. k \in S => \A v \in T : Put(f, k, v) \in PartialFunction(S, T)
  BY <1>1, <1>2, <1>4, PartialFunctions
<1>7. Pop(f, k) \in PartialFunction(S, T)
  BY <1>1, <1>3, <1>5, PartialFunctions
<1> QED BY <1>6, <1>7

LEMMA Directories ==
  /\ Contents = PartialFunction(Subnet, Record)
  /\ Files = PartialFunction(Path, Document \cup {Torn})
  /\ Listing = PartialFunction(Path, Document)
  /\ Listing \subseteq Files
  /\ NoFiles \in Listing /\ NoFiles \in PartialFunction(Subnet, Value)
  /\ DOMAIN NoFiles = {}
<1>1. DOMAIN NoFiles = {} /\ \A T : NoFiles \in [{} -> T]
  BY DEF NoFiles
<1>2. \A S, T : NoFiles \in PartialFunction(S, T)
  BY <1>1 DEF PartialFunction
<1>3. /\ Contents = PartialFunction(Subnet, Record)
      /\ Files = PartialFunction(Path, Document \cup {Torn})
      /\ Listing = PartialFunction(Path, Document)
  BY DEF Contents, Files, Listing, PartialFunction
<1>4. Listing \subseteq Files
  <2> SUFFICES ASSUME NEW f \in Listing PROVE f \in Files
    OBVIOUS
  <2>1. f \in [DOMAIN f -> Document] /\ DOMAIN f \subseteq Path
    BY <1>3, PartialFunctions
  <2>2. f \in [DOMAIN f -> Document \cup {Torn}]
    BY <2>1
  <2> QED BY <1>3, <2>1, <2>2, PartialFunctions
<1> QED BY <1>1, <1>2, <1>3, <1>4

\* A section's or a subnet's own document, and what a file may hold else.
LEMMA Documents ==
  /\ \A s \in Section : SectionDocument(s) \in Document
  /\ \A k \in Subnet, f \in Value, a \in Value \cup {Absent} :
       [key |-> k, fields |-> f, addresses |-> a] \in Document
  /\ \A d \in Document : d.key \in Nat /\ d.key # 0 /\ d.key \in Key /\ PathOf[d.key] \in Path
  /\ Torn \notin Document
  /\ NoManifest \in Manifest /\ TornManifest \in Manifest /\ EmptyTree \in Tree
<1>1. NoFiles \in Files /\ NoFiles \in Listing
  BY Directories
<1>2. NoManifest \in Manifest /\ TornManifest \in Manifest
  BY <1>1 DEF NoManifest, TornManifest, Manifest
<1>3. EmptyTree \in Tree
  BY <1>1, <1>2 DEF EmptyTree, Tree
<1>4. \A d \in Document : d.key \in Nat /\ d.key # 0 /\ d.key \in Key /\ PathOf[d.key] \in Path
  BY MirrorAssumption DEF Document, Key
<1>5. Torn \notin Document
  BY <1>4 DEF Torn
<1> QED BY <1>2, <1>3, <1>4, <1>5 DEF SectionDocument, Document, Key, Absent

\* The choices by the least number.
LEMMA LeastIsOne ==
  ASSUME NEW S \in SUBSET Nat, S # {}
  PROVE  Least(S) \in S
BY LeastExists DEF Least

LEMMA NextDocumentIsOne ==
  ASSUME docs \subseteq Document, unwritten \subseteq docs, unwritten # {}
  PROVE  NextDocument \in unwritten
<1> DEFINE keys == {d.key : d \in unwritten}
<1>1. keys \in SUBSET Nat /\ keys # {}
  BY Documents
<1>2. PICK k \in keys : \A l \in keys : k <= l
  <2> HIDE DEF keys
  <2> QED BY <1>1, LeastExists
<1>3. PICK d \in unwritten : d.key = k
  OBVIOUS
<1>4. \A e \in unwritten : d.key <= e.key
  BY <1>2, <1>3
<1> QED BY <1>3, <1>4 DEF NextDocument

-----------------------------------------------------------------------------
(***************************************************************************)
(* The clock and the commits.                                              *)
(***************************************************************************)
LEMMA LastIsLater ==
  ASSUME TypeOK, HistoryInv
  PROVE  /\ Last \in Tree
         /\ Last.manifest.stamp \in Nat
         /\ \A i \in 1 .. Len(log) :
              /\ log[i] \in Tree /\ log[i].manifest.stamp \in Nat \ {0}
              /\ log[i].manifest.stamp <= Last.manifest.stamp
         /\ Len(log) \in Nat
<1>1. Len(log) \in Nat /\ \A i \in 1 .. Len(log) : log[i] \in Tree
  BY DEF TypeOK
<1>2. \A t \in Tree : t.manifest \in Manifest /\ t.manifest.stamp \in Nat \cup {-1}
  BY DEF Tree, Manifest
<1>3. \A i \in 1 .. Len(log) : log[i].manifest.stamp \in Nat \ {0}
  BY <1>1, <1>2 DEF HistoryInv
<1>4. CASE Len(log) = 0
  BY <1>1, <1>4, Documents DEF Last, TreeAt, EmptyTree, NoManifest
<1>5. CASE Len(log) # 0
  <2>1. Last = log[Len(log)] /\ Len(log) \in 1 .. Len(log)
    BY <1>1, <1>5 DEF Last, TreeAt
  <2>2. \A i \in 1 .. Len(log) : log[i].manifest.stamp <= Last.manifest.stamp
    <3> TAKE i \in 1 .. Len(log)
    <3>1. i = Len(log) \/ i < Len(log)
      BY <1>1
    <3> QED BY <1>3, <2>1, <3>1 DEF HistoryInv
  <2> QED BY <1>1, <1>3, <2>1, <2>2
<1> QED BY <1>4, <1>5

\* The clock is later than every stamp.
LEMMA NowIsLater ==
  ASSUME TypeOK, HistoryInv
  PROVE  /\ Now \in Nat
         /\ Now > Last.manifest.stamp
<1> DEFINE stamps == {log[i].manifest.stamp : i \in 1 .. Len(log)} \cup {work.manifest.stamp, 0}
           known == stamps \ {-1}
<1>1. work.manifest.stamp \in Nat \cup {-1}
  BY DEF TypeOK, Tree, Manifest
<1>2. known \in SUBSET Nat /\ 0 \in known /\ \A x \in stamps : x \in known \/ x = -1
  BY <1>1, LastIsLater
<1>3. PICK n \in Nat : \A x \in known : x <= n
  <2>1. CASE work.manifest.stamp <= Last.manifest.stamp
    BY <1>1, <2>1, LastIsLater
  <2>2. CASE ~ work.manifest.stamp <= Last.manifest.stamp
    BY <1>1, <2>2, LastIsLater
  <2> QED BY <2>1, <2>2
<1>4. Last.manifest.stamp \in stamps
  <2>1. Last.manifest.stamp = 0 \/ (Len(log) \in 1 .. Len(log) /\ Last = log[Len(log)])
    BY LastIsLater DEF Last, TreeAt, EmptyTree, NoManifest
  <2> QED BY <2>1
<1>5. Now = 1 + (CHOOSE t \in stamps : \A u \in stamps : u <= t)
  BY DEF Now
<1> HIDE DEF stamps
<1>6. PICK m \in known : \A x \in known : x <= m
  <2> HIDE DEF known
  <2> QED BY <1>2, <1>3, GreatestExists
<1>7. m \in stamps /\ \A u \in stamps : u <= m
  BY <1>2, <1>6
<1> DEFINE t == CHOOSE t \in stamps : \A u \in stamps : u <= t
<1>8. t \in stamps /\ \A u \in stamps : u <= t
  BY <1>7
<1>9. Now = 1 + t
  BY <1>5
<1> HIDE DEF t
<1>10. m <= t /\ t \in Nat
  BY <1>2, <1>7, <1>8
<1> QED BY <1>4, <1>8, <1>9, <1>10, LastIsLater

-----------------------------------------------------------------------------
(***************************************************************************)
(* Types, one step per action.                                             *)
(***************************************************************************)
LEMMA ExportStepTypes ==
  ASSUME Inv, StartExport \/ ReadSection \/ ReadAddresses \/ SectionRead
  PROVE  TypeOK'
<1> USE DEF Inv, outside, importer, assembly, git
<1>1. TypeOK
  OBVIOUS
<1>2. CASE StartExport
  BY <1>2, Directories DEF StartExport, TypeOK, PartialFunction, Phase
<1>3. CASE ReadSection
  <2> DEFINE s == Least(unread)
             members == {k \in DOMAIN source : SectionOf[k] = s}
             fields == [k \in members |-> source[k].fields]
  <2>1. s \in Section
    <3>1. unread \in SUBSET Nat /\ unread # {}
      BY <1>3, MirrorAssumption DEF ReadSection, TypeOK
    <3> QED BY <3>1, LeastIsOne DEF TypeOK
  <2>2. fields \in PartialFunction(Subnet, Value)
    <3>1. source \in [DOMAIN source -> Record] /\ DOMAIN source \subseteq Subnet
      BY PartialFunctions, Directories DEF TypeOK
    <3>2. \A k \in members : source[k].fields \in Value
      BY <3>1 DEF Record
    <3> QED BY <3>1, <3>2, PartialFunctions
  <2>3. /\ phase' \in {"idle", "addresses"} /\ outcome' \in {"failed", outcome}
        /\ unread' \subseteq unread /\ listed' \in {listed, fields}
        /\ docs' \in {docs, docs \cup {SectionDocument(s)}}
        /\ UNCHANGED << option, unwritten, files, work, git, outside >>
    BY <1>3 DEF ReadSection, Ends
  <2>4. docs' \subseteq Document /\ docs \subseteq docs'
    BY <2>1, <2>3, Documents DEF TypeOK
  <2> HIDE DEF s, members, fields
  <2> QED BY <2>2, <2>3, <2>4 DEF TypeOK, PartialFunction, Phase
<1>4. CASE ReadAddresses
  <2> DEFINE k == Least(DOMAIN listed)
             found == IF k \in DOMAIN source THEN source[k].addresses ELSE Absent
             d == [key |-> k, fields |-> listed[k], addresses |-> found]
  <2>1. listed \in [DOMAIN listed -> Value] /\ DOMAIN listed \subseteq Subnet
    BY PartialFunctions DEF TypeOK, PartialFunction
  <2>2. k \in DOMAIN listed
    <3>1. DOMAIN listed \in SUBSET Nat /\ DOMAIN listed # {}
      BY <1>4, <2>1, MirrorAssumption DEF ReadAddresses
    <3> QED BY <3>1, LeastIsOne
  <2>3. source \in [DOMAIN source -> Record]
    BY PartialFunctions, Directories DEF TypeOK
  <2>4. found \in Value \cup {Absent}
    BY <2>3 DEF Record
  <2>5. d \in Document
    BY <2>1, <2>2, <2>4, Documents
  <2>6. /\ phase' \in {"idle", phase} /\ outcome' \in {"failed", outcome}
        /\ listed' \in {listed, Pop(listed, k)} /\ docs' \in {docs, docs \cup {d}}
        /\ UNCHANGED << option, unread, unwritten, files, work, git, outside >>
    BY <1>4 DEF ReadAddresses, Ends
  <2>7. listed' \in PartialFunction(Subnet, Value)
    <3>1. listed \in PartialFunction(Subnet, Value)
      BY DEF TypeOK, PartialFunction
    <3> QED BY <2>6, <3>1, PutPop
  <2> HIDE DEF k, found, d
  <2> QED BY <2>5, <2>6, <2>7 DEF TypeOK, PartialFunction, Phase
<1>5. CASE SectionRead
  BY <1>5 DEF SectionRead, TypeOK, Phase
<1> QED BY <1>2, <1>3, <1>4, <1>5

LEMMA WriteStepTypes ==
  ASSUME Inv, WriteFile \/ FilesWritten \/ Prune \/ WriteManifest \/ Commit \/ Push
  PROVE  TypeOK'
<1> USE DEF Inv, outside, importer, assembly, git
<1>1. work.files \in Files /\ work.manifest \in Manifest
  BY DEF TypeOK, Tree
<1>2. \A f \in Files : [work EXCEPT !.files = f] \in Tree
  BY <1>1 DEF TypeOK, Tree
<1>3. CASE WriteFile
  <2> DEFINE d == NextDocument
             p == PathOf[d.key]
  <2>1. d \in unwritten /\ d \in Document /\ p \in Path
    BY <1>3, NextDocumentIsOne, Documents DEF WriteFile, TypeOK
  <2>2. Put(files, p, d) \in Listing
    BY <2>1, PutPop, Directories DEF TypeOK
  <2>3. Put(work.files, p, d) \in Files
    BY <1>1, <2>1, PutPop, Directories
  <2>4. /\ phase' \in {"idle", phase} /\ outcome' \in {"failed", outcome}
        /\ unwritten' \in {unwritten, unwritten \ {d}} /\ files' \in {files, Put(files, p, d)}
        /\ work' \in {work, [work EXCEPT !.files = Put(work.files, p, d)]}
        /\ UNCHANGED << option, assembly, git, outside >>
    BY <1>3 DEF WriteFile, Ends
  <2>5. work' \in Tree /\ files' \in Listing
    BY <1>2, <2>2, <2>3, <2>4 DEF TypeOK
  <2> HIDE DEF d, p
  <2> QED BY <2>4, <2>5 DEF TypeOK, Phase
<1>4. CASE FilesWritten
  BY <1>4 DEF FilesWritten, TypeOK, Phase
<1>5. CASE Prune
  <2>1. \A p : Pop(work.files, p) \in Files
    BY <1>1, PutPop, Directories
  <2>2. /\ phase' \in {"manifest", phase}
        /\ work' = work \/ \E p : work' = [work EXCEPT !.files = Pop(work.files, p)]
        /\ UNCHANGED << option, assembly, unwritten, files, outcome, git, outside >>
    BY <1>5 DEF Prune
  <2>3. work' \in Tree
    BY <1>2, <2>1, <2>2 DEF TypeOK
  <2> QED BY <2>2, <2>3 DEF TypeOK, Phase
<1>6. CASE WriteManifest
  <2>1. Stamp \in Nat \cup {-1}
    BY <1>1, NowIsLater DEF Stamp, Manifest
  <2>2. [work EXCEPT !.manifest = [files |-> files, stamp |-> Stamp]] \in Tree
    BY <1>1, <2>1 DEF TypeOK, Tree, Manifest
  <2> QED BY <1>6, <2>2 DEF WriteManifest, Ends, TypeOK, Phase
<1>7. CASE Commit
  <2>1. Append(log, work) \in Seq(Tree) /\ Len(Append(log, work)) = Len(log) + 1
    BY DEF TypeOK
  <2>2. log' \in Seq(Tree) /\ pushed' \in 0 .. Len(log')
    BY <1>7, <2>1 DEF Commit, TypeOK
  <2> QED BY <1>7, <2>2 DEF Commit, Ends, TypeOK, Phase
<1>8. CASE Push
  BY <1>8 DEF Push, Ends, TypeOK, Phase
<1> QED BY <1>3, <1>4, <1>5, <1>6, <1>7, <1>8

LEMMA FailureTypes ==
  ASSUME Inv, ExportFails
  PROVE  TypeOK'
<1> USE DEF Inv, outside, importer, assembly, git
<1>1. work.files \in Files /\ work.manifest \in Manifest
  BY DEF TypeOK, Tree
<1>2. HalfWritten \subseteq Tree
  <2>1. phase = "files" /\ unwritten # {} =>
          [work EXCEPT !.files = Put(work.files, PathOf[NextDocument.key], Torn)] \in Tree
    <3> HAVE phase = "files" /\ unwritten # {}
    <3>1. PathOf[NextDocument.key] \in Path
      BY NextDocumentIsOne, Documents DEF TypeOK
    <3>2. Put(work.files, PathOf[NextDocument.key], Torn) \in Files
      BY <1>1, <3>1, PutPop, Directories
    <3> QED BY <1>1, <3>2 DEF TypeOK, Tree
  <2>2. [work EXCEPT !.manifest = TornManifest] \in Tree
    BY <1>1, Documents DEF TypeOK, Tree
  <2>3. work \in Tree
    BY DEF TypeOK
  <2> QED BY <2>1, <2>2, <2>3 DEF HalfWritten
<1>3. work' \in Tree
  BY <1>2 DEF ExportFails
<1> QED BY <1>3, MirrorAssumption DEF ExportFails, Ends, TypeOK, Phase

LEMMA EnvironmentTypes ==
  ASSUME Inv, SourceSets \/ SourceRemoves \/ Deliver \/ Damage
  PROVE  TypeOK'
<1> USE DEF Inv, importer, exporter, assembly, git
<1>1. copy.files \in Files /\ copy.manifest \in Manifest
  BY DEF TypeOK, Tree
<1>2. Remote.files \in Files /\ Remote.manifest \in Manifest
  <2>1. Remote \in Tree
    BY Documents DEF Remote, TreeAt, TypeOK
  <2> QED BY <2>1 DEF Tree
<1>3. CASE SourceSets
  <2>1. PICK k \in Subnet, r \in Record : Edit(Put(source, k, r))
    BY <1>3 DEF SourceSets
  <2>2. Put(source, k, r) \in Contents
    BY PutPop, Directories DEF TypeOK
  <2> QED BY <2>1, <2>2, MirrorAssumption DEF Edit, TypeOK
<1>4. CASE SourceRemoves
  <2>1. PICK k : Edit(Pop(source, k))
    BY <1>4 DEF SourceRemoves
  <2>2. Pop(source, k) \in Contents
    BY PutPop, Directories DEF TypeOK
  <2> QED BY <2>1, <2>2, MirrorAssumption DEF Edit, TypeOK
<1>5. CASE Deliver
  <2>1. \A p \in Path : DeliverFile(p) => copy' \in Tree
    <3> TAKE p \in Path
    <3> HAVE DeliverFile(p)
    <3> DEFINE f == IF p \in DOMAIN Remote.files
                    THEN Put(copy.files, p, Remote.files[p]) ELSE Pop(copy.files, p)
    <3>1. p \in DOMAIN Remote.files => Remote.files[p] \in Document \cup {Torn}
      BY <1>2, PartialFunctions, Directories
    <3>2. f \in Files
      BY <1>1, <3>1, PutPop, Directories
    <3>3. copy' = [copy EXCEPT !.files = f]
      BY DEF DeliverFile, Carried
    <3> HIDE DEF f
    <3> QED BY <1>1, <3>2, <3>3 DEF TypeOK, Tree
  <2>2. DeliverManifest => copy' \in Tree
    BY <1>1, <1>2 DEF DeliverManifest, Carried, TypeOK, Tree
  <2>3. copy' \in Tree /\ UNCHANGED << source, exporter, importer, edits, faults >>
    BY <1>5, <2>1, <2>2 DEF Deliver, DeliverFile, DeliverManifest, Carried
  <2> QED BY <2>3 DEF TypeOK
<1>6. CASE Damage
  <2>1. \A p \in DOMAIN copy.files : [copy.files EXCEPT ![p] = Torn] \in Files
    <3> TAKE p \in DOMAIN copy.files
    <3>1. copy.files \in [DOMAIN copy.files -> Document \cup {Torn}] /\ DOMAIN copy.files \subseteq Path
      BY <1>1, PartialFunctions, Directories
    <3>2. /\ [copy.files EXCEPT ![p] = Torn] \in [DOMAIN copy.files -> Document \cup {Torn}]
          /\ DOMAIN [copy.files EXCEPT ![p] = Torn] = DOMAIN copy.files
      BY <3>1
    <3> QED BY <3>1, <3>2, PartialFunctions, Directories
  <2>2. \A p \in DOMAIN copy.files : [copy EXCEPT !.files[p] = Torn] \in Tree
    BY <1>1, <2>1 DEF TypeOK, Tree
  <2>3. [copy EXCEPT !.manifest = TornManifest] \in Tree
    BY <1>1, Documents DEF TypeOK, Tree
  <2>4. copy' \in Tree
    BY <1>6, <2>2, <2>3 DEF Damage, Carried
  <2> QED BY <1>6, <2>4, MirrorAssumption DEF Damage, Carried, TypeOK
<1> QED BY <1>3, <1>4, <1>5, <1>6

LEMMA ImportStepTypes ==
  ASSUME Inv, Import
  PROVE  TypeOK'
<1> USE DEF Inv, exporter, assembly, git
<1>1. copy.manifest \in Manifest /\ NoManifest \in Manifest /\ NoFiles \in Listing
  BY Documents, Directories DEF TypeOK, Tree
<1>2. CASE StartRead
  BY <1>1, <1>2 DEF StartRead, TypeOK
<1>3. CASE ReadFile
  <2> DEFINE p == Least(DOMAIN wanted.files \ DOMAIN read)
  <2>1. Intact(p) => Put(read, p, copy.files[p]) \in Listing
    <3> HAVE Intact(p)
    <3>1. wanted.files \in [DOMAIN wanted.files -> Document] /\ DOMAIN wanted.files \subseteq Path
      BY PartialFunctions, Directories DEF TypeOK, Manifest
    <3>2. p \in DOMAIN wanted.files
      <4>1. DOMAIN wanted.files \ DOMAIN read # {}
        BY <1>3 DEF ReadFile, ReaderInv
      <4>2. DOMAIN wanted.files \ DOMAIN read \in SUBSET Nat
        BY <3>1, MirrorAssumption
      <4> QED BY <4>1, <4>2, LeastIsOne
    <3>3. copy.files[p] \in Document /\ p \in Path
      BY <3>1, <3>2 DEF Intact
    <3> QED BY <3>3, PutPop, Directories DEF TypeOK
  <2>2. /\ read' \in Listing /\ wanted' \in Manifest /\ reading' \in BOOLEAN
        /\ UNCHANGED << source, exporter, copy, accepted, faults, edits >>
    BY <1>1, <1>3, <2>1 DEF ReadFile, TypeOK
  <2> QED BY <2>2 DEF TypeOK
<1>4. CASE FinishRead
  <2>1. [files |-> read, stamp |-> wanted.stamp] \in Manifest
    BY DEF TypeOK, Manifest
  <2> QED BY <1>1, <1>4, <2>1 DEF FinishRead, TypeOK
<1> QED BY <1>2, <1>3, <1>4 DEF Import

LEMMA StepTypes ==
  ASSUME Inv, [Next]_vars
  PROVE  TypeOK'
<1>1. CASE UNCHANGED vars
  BY <1>1 DEF Inv, TypeOK, vars, exporter, outside, importer, assembly, git
<1> QED
  BY <1>1, ExportStepTypes, WriteStepTypes, FailureTypes, EnvironmentTypes, ImportStepTypes
  DEF Next, Export

-----------------------------------------------------------------------------
(***************************************************************************)
(* The commits.                                                            *)
(***************************************************************************)
LEMMA CommitsKept ==
  ASSUME HistoryInv, WorkInv, log' = log, work'.manifest = work.manifest
  PROVE  HistoryInv' /\ WorkInv'
<1>1. HistoryInv'
  BY DEF HistoryInv
<1>2. Last' = Last
  BY DEF Last, TreeAt
<1> QED BY <1>1, <1>2 DEF WorkInv

\* What a commit in progress has in its hands.
LEMMA CommitOfRun ==
  ASSUME Inv, phase = "commit"
  PROVE  /\ work.files = files /\ work.manifest.files = files
         /\ work.manifest.stamp > 0
         /\ ~ Clean => work.manifest # Last.manifest
<1>1. work.files = files
  <2>1. DOMAIN work.files = DOMAIN files /\ \A p \in DOMAIN files : work.files[p] = files[p]
    BY DEF Inv, RunInv, WrittenInv
  <2>2. work.files = [p \in DOMAIN work.files |-> work.files[p]]
    BY PartialFunctions, Directories DEF Inv, TypeOK, Tree
  <2>3. files = [p \in DOMAIN files |-> files[p]]
    BY PartialFunctions, Directories DEF Inv, TypeOK
  <2> QED BY <2>1, <2>2, <2>3
<1>2. work.manifest.files = files /\ work.manifest.stamp > 0
  BY DEF Inv, RunInv
<1>3. ASSUME work.manifest = Last.manifest
      PROVE  Clean
  <2>1. Len(log) # 0
    BY <1>2, <1>3 DEF Last, TreeAt, EmptyTree, NoManifest
  <2>2. Last = log[Len(log)] /\ Len(log) \in 1 .. Len(log)
    BY <2>1, LastIsLater DEF Inv, Last, TreeAt
  <2>3. Last.files = Last.manifest.files
    BY <2>2 DEF Inv, HistoryInv
  <2>4. work.files = Last.files
    BY <1>1, <1>2, <1>3, <2>3
  <2>5. Last \in Tree /\ work \in Tree
    BY LastIsLater DEF Inv, TypeOK
  <2>6. work = Last
    BY <1>3, <2>4, <2>5 DEF Tree
  <2> QED BY <2>6 DEF Clean, Last
<1> QED BY <1>1, <1>2, <1>3

LEMMA StepCommits ==
  ASSUME Inv, [Next]_vars
  PROVE  HistoryInv' /\ WorkInv'
<1> USE DEF Inv, outside, importer, exporter, assembly, git
<1>1. work.manifest.stamp \in Int
  BY DEF TypeOK, Tree, Manifest
<1>2. CASE StartExport \/ ReadSection \/ ReadAddresses \/ SectionRead \/ FilesWritten \/ Push
  BY <1>2, CommitsKept DEF StartExport, ReadSection, ReadAddresses, SectionRead, FilesWritten, Push
<1>3. CASE WriteFile \/ Prune
  <2>1. log' = log /\ work'.manifest = work.manifest
    BY <1>3 DEF WriteFile, Prune, TypeOK, Tree
  <2> QED BY <2>1, CommitsKept
<1>4. CASE WriteManifest
  <2>1. log' = log /\ work'.manifest = [files |-> files, stamp |-> Stamp]
    BY <1>4 DEF WriteManifest, TypeOK, Tree
  <2>2. HistoryInv' /\ Last' = Last
    BY <2>1 DEF HistoryInv, Last, TreeAt
  <2>3. CASE work.manifest.stamp > 0 /\ work.manifest.files = files
    <3>1. work.manifest \in Manifest
      BY DEF TypeOK, Tree
    <3>2. work'.manifest = work.manifest
      BY <2>1, <2>3, <3>1 DEF Stamp, Manifest
    <3> QED BY <2>1, <3>2, CommitsKept
  <2>4. CASE ~ (work.manifest.stamp > 0 /\ work.manifest.files = files)
    BY <2>1, <2>2, <2>4, NowIsLater DEF Stamp, WorkInv
  <2> QED BY <2>3, <2>4
<1>5. CASE Commit
  <2>1. CASE Clean
    BY <1>5, <2>1, CommitsKept DEF Commit
  <2>2. CASE ~ Clean
    <3>1. log' = Append(log, work) /\ work' = work /\ phase = "commit"
      BY <1>5, <2>2 DEF Commit
    <3>2. /\ Len(log) \in Nat /\ Len(log') = Len(log) + 1 /\ log'[Len(log')] = work
          /\ \A i \in 1 .. Len(log) : log'[i] = log[i]
      BY <3>1 DEF TypeOK
    <3>3. work.manifest.stamp > 0 /\ work.files = work.manifest.files
      BY <3>1, CommitOfRun
    <3>4. Last.manifest.stamp < work.manifest.stamp
      BY <1>1, <2>2, <3>1, <3>3, CommitOfRun, LastIsLater DEF WorkInv
    <3>5. \A i \in 1 .. Len(log) : log[i].manifest.stamp < work.manifest.stamp
      BY <1>1, <3>4, LastIsLater
    <3>6. HistoryInv'
      <4>1. \A i \in 1 .. Len(log') : i \in 1 .. Len(log) \/ i = Len(log')
        BY <3>2
      <4>2. \A i \in 1 .. Len(log') :
              log'[i].manifest.stamp > 0 /\ log'[i].files = log'[i].manifest.files
        BY <3>2, <3>3, <4>1 DEF HistoryInv
      <4>3. ASSUME NEW i \in 1 .. Len(log'), NEW j \in 1 .. Len(log'), i < j
            PROVE  log'[i].manifest.stamp < log'[j].manifest.stamp
        <5>1. i \in 1 .. Len(log)
          BY <3>2, <4>3
        <5> QED BY <3>2, <3>5, <4>1, <4>3, <5>1 DEF HistoryInv
      <4> QED BY <4>2, <4>3 DEF HistoryInv
    <3>7. Last' = work
      BY <3>2 DEF Last, TreeAt
    <3> QED BY <3>1, <3>6, <3>7 DEF WorkInv
  <2> QED BY <2>1, <2>2
<1>6. CASE ExportFails
  <2>1. log' = log /\ work' \in HalfWritten
    BY <1>6 DEF ExportFails
  <2>2. work'.manifest \in {work.manifest, TornManifest}
    BY <2>1 DEF HalfWritten, TypeOK, Tree
  <2>3. CASE work'.manifest = TornManifest
    BY <2>1, <2>3 DEF HistoryInv, WorkInv, TornManifest
  <2> QED BY <2>1, <2>2, <2>3, CommitsKept
<1>7. CASE Import \/ Deliver \/ Damage \/ SourceSets \/ SourceRemoves
  <2>1. log' = log /\ work' = work
    BY <1>7
    DEF Import, StartRead, ReadFile, FinishRead, Deliver, DeliverFile, DeliverManifest, Damage,
        Carried, SourceSets, SourceRemoves, Edit
  <2> QED BY <2>1, CommitsKept
<1>8. CASE UNCHANGED vars
  BY <1>8, CommitsKept DEF vars
<1> QED BY <1>2, <1>3, <1>4, <1>5, <1>6, <1>7, <1>8 DEF Next, Export

-----------------------------------------------------------------------------
(***************************************************************************)
(* The exporter's run.                                                     *)
(***************************************************************************)
\* What a run has written stays written while nothing is written over it.
LEMMA WrittenKept ==
  ASSUME WrittenInv, docs' = docs, unwritten' = unwritten, files' = files,
         DOMAIN files \subseteq DOMAIN work'.files,
         \A p \in DOMAIN files : work'.files[p] = work.files[p]
  PROVE  WrittenInv'
BY DEF WrittenInv

LEMMA WriteFileWrites ==
  ASSUME Inv, WriteFile, ~ Collides(NextDocument)
  PROVE  WrittenInv'
<1> DEFINE d == NextDocument
           p == PathOf[d.key]
<1>1. d \in unwritten /\ d \in docs /\ WrittenInv
  BY NextDocumentIsOne DEF WriteFile, Inv, RunInv, TypeOK
<1>2. /\ unwritten' = unwritten \ {d} /\ files' = Put(files, p, d)
      /\ work' = [work EXCEPT !.files = Put(work.files, p, d)]
      /\ docs' = docs /\ p \notin DOMAIN files
  BY DEF WriteFile, assembly, Collides
<1>3. work'.files = Put(work.files, p, d)
  BY <1>2 DEF Inv, TypeOK, Tree
<1>4. DOMAIN files' = DOMAIN files \cup {p} /\ DOMAIN work'.files = DOMAIN work.files \cup {p}
  BY <1>2, <1>3 DEF Put
<1>5. /\ files'[p] = d /\ work'.files[p] = d
      /\ \A q \in DOMAIN files : files'[q] = files[q] /\ work'.files[q] = work.files[q]
  BY <1>1, <1>2, <1>3 DEF Put, WrittenInv
<1>6. docs' \ unwritten' = (docs \ unwritten) \cup {d}
  BY <1>1, <1>2
<1>7. IsFiniteSet(DOMAIN files')
  BY <1>1, <1>4, FS_AddElement, SMTT(30) DEF WrittenInv
<1>8. \A q \in DOMAIN files' : /\ work'.files[q] = files'[q]
                               /\ files'[q] \in docs' \ unwritten'
                               /\ PathOf[files'[q].key] = q
  BY <1>1, <1>4, <1>5, <1>6 DEF WrittenInv
<1>9. \A e \in docs' \ unwritten' :
        PathOf[e.key] \in DOMAIN files' /\ files'[PathOf[e.key]] = e
  <2> TAKE e \in docs' \ unwritten'
  <2>1. CASE e = d
    BY <1>4, <1>5, <2>1
  <2>2. CASE e # d
    <3>1. PathOf[e.key] \in DOMAIN files /\ files[PathOf[e.key]] = e
      BY <1>1, <1>6, <2>2 DEF WrittenInv
    <3> QED BY <1>4, <1>5, <3>1
  <2> QED BY <2>1, <2>2
<1>10. DOMAIN files' \subseteq DOMAIN work'.files
  BY <1>1, <1>4 DEF WrittenInv
<1> QED BY <1>7, <1>8, <1>9, <1>10 DEF WrittenInv

LEMMA StepRun ==
  ASSUME Inv, [Next]_vars
  PROVE  RunInv'
<1> USE DEF Inv, outside, importer, exporter, assembly, git
<1>1. CASE StartExport
  BY <1>1 DEF StartExport, RunInv
<1>2. CASE ReadSection \/ ReadAddresses
  BY <1>2 DEF ReadSection, ReadAddresses, Ends, RunInv
<1>3. CASE SectionRead
  <2>1. /\ phase' \in {"files", "sections"} /\ docs # {} /\ files' = NoFiles /\ docs' = docs /\ work' = work
        /\ unwritten' = IF phase' = "files" THEN docs ELSE {}
    BY <1>3 DEF SectionRead, RunInv
  <2>2. phase' = "files" => WrittenInv'
    BY <2>1, Directories, FS_EmptySet DEF WrittenInv
  <2> QED BY <2>1, <2>2 DEF RunInv
<1>4. CASE WriteFile
  <2>1. CASE Collides(NextDocument)
    BY <1>4, <2>1 DEF WriteFile, Ends, RunInv
  <2>2. CASE ~ Collides(NextDocument)
    <3>1. phase' = "files" /\ docs' = docs /\ docs # {}
      BY <1>4, <2>2 DEF WriteFile, RunInv
    <3> QED BY <1>4, <2>2, <3>1, WriteFileWrites DEF RunInv
  <2> QED BY <2>1, <2>2
<1>5. CASE FilesWritten
  <2>1. WrittenInv /\ phase' = "prune" /\ unwritten' = {} /\ docs # {}
        /\ UNCHANGED << docs, unwritten, files, work >>
    BY <1>5 DEF FilesWritten, RunInv
  <2>2. WrittenInv'
    BY <2>1, WrittenKept DEF WrittenInv
  <2> QED BY <2>1, <2>2 DEF RunInv
<1>6. CASE Prune
  <2>1. /\ WrittenInv /\ unwritten = {} /\ docs # {} /\ phase' \in {"prune", "manifest"}
        /\ UNCHANGED << docs, unwritten, files >>
    BY <1>6 DEF Prune, RunInv
  <2>2. CASE Stale = {}
    <3>1. work' = work /\ DOMAIN work.files = DOMAIN files
      BY <1>6, <2>1, <2>2 DEF Prune, Stale, WrittenInv
    <3>2. WrittenInv'
      BY <2>1, <3>1, WrittenKept
    <3> QED BY <2>1, <3>1, <3>2 DEF RunInv
  <2>3. CASE Stale # {}
    <3>1. PICK p \in Stale : work' = [work EXCEPT !.files = Pop(work.files, p)]
      BY <1>6, <2>3 DEF Prune
    <3>2. work'.files = Pop(work.files, p)
      BY <3>1 DEF TypeOK, Tree
    <3>3. phase' = "prune"
      BY <1>6, <2>3 DEF Prune
    <3>4. WrittenInv'
      BY <2>1, <3>1, <3>2, WrittenKept DEF Stale, Pop, WrittenInv
    <3> QED BY <2>1, <3>3, <3>4 DEF RunInv
  <2> QED BY <2>2, <2>3
<1>7. CASE WriteManifest
  <2>1. /\ phase' \in {"idle", "commit"} /\ (phase' = "commit" => option' # "write")
        /\ WrittenInv /\ unwritten = {} /\ docs # {}
        /\ DOMAIN work.files = DOMAIN files
        /\ UNCHANGED << docs, unwritten, files >>
        /\ work' = [work EXCEPT !.manifest = [files |-> files, stamp |-> Stamp]]
    BY <1>7 DEF WriteManifest, Ends, RunInv
  <2>2. work'.files = work.files /\ work'.manifest = [files |-> files, stamp |-> Stamp]
    BY <2>1 DEF TypeOK, Tree
  <2>3. Stamp > 0
    BY NowIsLater, LastIsLater DEF Stamp
  <2>4. WrittenInv'
    BY <2>1, <2>2, WrittenKept DEF WrittenInv
  <2> QED BY <2>1, <2>2, <2>3, <2>4 DEF RunInv
<1>8. CASE Commit
  <2>1. phase' \in {"idle", "push"} /\ pushed' = pushed /\ option' # "write"
    BY <1>8 DEF Commit, Ends, RunInv
  <2>2. phase' = "push" => pushed' < Len(log')
    <3> HAVE phase' = "push"
    <3>1. log' = Append(log, work)
      BY <1>8 DEF Commit, Ends
    <3>2. Len(log') = Len(log) + 1 /\ pushed \in 0 .. Len(log) /\ Len(log) \in Nat
      BY <3>1 DEF TypeOK
    <3> QED BY <2>1, <3>2
  <2> QED BY <2>1, <2>2 DEF RunInv
<1>9. CASE Push \/ ExportFails
  BY <1>9 DEF Push, ExportFails, Ends, RunInv
<1>10. CASE Import \/ Deliver \/ Damage \/ SourceSets \/ SourceRemoves
  <2>1. UNCHANGED exporter
    BY <1>10
    DEF Import, StartRead, ReadFile, FinishRead, Deliver, DeliverFile, DeliverManifest, Damage,
        Carried, SourceSets, SourceRemoves, Edit
  <2> QED BY <2>1 DEF RunInv, WrittenInv
<1>11. CASE UNCHANGED vars
  BY <1>11 DEF RunInv, WrittenInv, vars
<1> QED
  BY <1>1, <1>2, <1>3, <1>4, <1>5, <1>6, <1>7, <1>8, <1>9, <1>10, <1>11 DEF Next, Export

-----------------------------------------------------------------------------
(***************************************************************************)
(* The importing side.                                                     *)
(***************************************************************************)
\* What was pushed stays so.
LEMMA PublishedStays ==
  ASSUME TypeOK, HistoryInv, pushed <= pushed', pushed' \in Int,
         \A i \in 1 .. Len(log) : log'[i] = log[i]
  PROVE  \A m : Published(m) => Published(m)'
<1>1. pushed \in Nat /\ pushed <= Len(log) /\ Len(log) \in Nat
  BY DEF TypeOK
<1>2. \A i \in 1 .. pushed : i \in 1 .. pushed' /\ i \in 1 .. Len(log)
  BY <1>1
<1>3. ASSUME NEW m, NEW i \in 1 .. pushed, m = log[i].manifest
      PROVE  m = log'[i].manifest /\ i \in 1 .. pushed'
  BY <1>2, <1>3
<1> QED BY <1>3 DEF Published

\* What a mirror delivers was pushed, and nothing later was.
LEMMA RemoteIsLatest ==
  ASSUME Inv
  PROVE  /\ Remote.manifest.stamp \in Nat
         /\ Remote.manifest.stamp > 0 => Published(Remote.manifest)
         /\ \A m : Published(m) => m.stamp \in Nat \ {0} /\ m.stamp <= Remote.manifest.stamp
<1>1. pushed \in Nat /\ pushed <= Len(log) /\ Len(log) \in Nat
  BY DEF Inv, TypeOK
<1>2. CASE pushed = 0
  BY <1>1, <1>2 DEF Remote, TreeAt, EmptyTree, NoManifest, Published
<1>3. CASE pushed # 0
  <2>1. Remote = log[pushed] /\ pushed \in 1 .. pushed /\ pushed \in 1 .. Len(log)
    BY <1>1, <1>3 DEF Remote, TreeAt
  <2>2. \A i \in 1 .. pushed :
          /\ log[i].manifest.stamp \in Nat \ {0}
          /\ log[i].manifest.stamp <= Remote.manifest.stamp
    <3> TAKE i \in 1 .. pushed
    <3>1. i \in 1 .. Len(log) /\ (i = pushed \/ i < pushed)
      BY <1>1
    <3> QED BY <2>1, <3>1, LastIsLater DEF Inv, HistoryInv
  <2> QED BY <2>1, <2>2 DEF Published
<1> QED BY <1>2, <1>3

LEMMA StepReader ==
  ASSUME Inv, [Next]_vars
  PROVE  ReaderInv'
<1> USE DEF Inv, outside, importer, exporter, assembly, git
<1>1. CASE UNCHANGED << copy, importer, git >>
  BY <1>1 DEF ReaderInv, Published
<1>2. CASE Commit \/ Push
  <2>1. UNCHANGED << copy, importer >>
    BY <1>2 DEF Commit, Push
  <2>2. pushed \in 0 .. Len(log) /\ Len(log) \in Nat
    BY DEF TypeOK
  <2>3. pushed <= pushed' /\ pushed' \in Int
    BY <1>2, <2>2 DEF Commit, Push
  <2>4. \A i \in 1 .. Len(log) : log'[i] = log[i]
    BY <1>2 DEF Commit, Push, TypeOK
  <2>5. \A m : Published(m) => Published(m)'
    BY <2>3, <2>4, PublishedStays
  <2> QED BY <2>1, <2>5 DEF ReaderInv
<1>3. CASE Deliver \/ Damage
  <2>1. UNCHANGED << importer, git >>
    BY <1>3 DEF Deliver, Damage, DeliverFile, DeliverManifest, Carried
  <2>2. copy'.manifest \in {copy.manifest, Remote.manifest, TornManifest}
    BY <1>3 DEF Deliver, Damage, DeliverFile, DeliverManifest, Carried, TypeOK, Tree
  <2>3. \A m : Published(m)' <=> Published(m)
    BY <2>1 DEF Published
  <2>4. accepted.stamp <= Remote.manifest.stamp
    BY RemoteIsLatest DEF ReaderInv, NoManifest
  <2>5. reading => wanted.stamp <= Remote.manifest.stamp
    BY RemoteIsLatest DEF ReaderInv
  <2>6. ~ (TornManifest.stamp > 0)
    BY DEF TornManifest
  <2> QED BY <2>1, <2>2, <2>3, <2>4, <2>5, <2>6, RemoteIsLatest DEF ReaderInv
<1>4. CASE StartRead
  <2>1. /\ reading' = TRUE /\ wanted' = copy.manifest /\ read' = NoFiles /\ accepted' = accepted
        /\ copy' = copy /\ copy.manifest.stamp > 0 /\ UNCHANGED git
    BY <1>4 DEF StartRead
  <2>2. \A m : Published(m)' <=> Published(m)
    BY <2>1 DEF Published
  <2>3. copy.manifest.stamp \in Int
    BY DEF TypeOK, Tree, Manifest
  <2> QED BY <2>1, <2>2, <2>3, Directories DEF ReaderInv
<1>5. CASE ReadFile
  <2> DEFINE p == Least(DOMAIN wanted.files \ DOMAIN read)
  <2>1. /\ accepted' = accepted /\ copy' = copy /\ reading /\ UNCHANGED git
        /\ \/ reading' = FALSE
           \/ Intact(p) /\ read' = Put(read, p, copy.files[p]) /\ UNCHANGED << reading, wanted >>
    BY <1>5 DEF ReadFile
  <2>2. \A m : Published(m)' <=> Published(m)
    BY <2>1 DEF Published
  <2>3. CASE reading' = FALSE
    BY <2>1, <2>2, <2>3 DEF ReaderInv
  <2>4. CASE reading' # FALSE
    <3>1. Intact(p) /\ read' = Put(read, p, wanted.files[p]) /\ reading' = reading
          /\ wanted' = wanted
      BY <2>1, <2>4 DEF Intact
    <3>2. p \in DOMAIN wanted.files
      <4>1. DOMAIN wanted.files \ DOMAIN read # {}
        BY <1>5 DEF ReadFile, ReaderInv
      <4>2. DOMAIN wanted.files \ DOMAIN read \in SUBSET Nat
        BY MirrorAssumption, PartialFunctions, Directories DEF TypeOK, Manifest
      <4> QED BY <4>1, <4>2, LeastIsOne
    <3>3. /\ DOMAIN read' \subseteq DOMAIN wanted.files
          /\ \A q \in DOMAIN read' : read'[q] = wanted.files[q]
      BY <2>1, <3>1, <3>2 DEF Put, ReaderInv
    <3> HIDE DEF p
    <3> QED BY <2>1, <2>2, <3>1, <3>3 DEF ReaderInv
  <2> QED BY <2>3, <2>4
<1>6. CASE FinishRead
  <2>1. /\ reading /\ ~ reading' /\ copy' = copy /\ UNCHANGED git
        /\ accepted' = [files |-> read, stamp |-> wanted.stamp]
        /\ DOMAIN read = DOMAIN wanted.files
    BY <1>6 DEF FinishRead
  <2>2. \A m : Published(m)' <=> Published(m)
    BY <2>1 DEF Published
  <2>3. accepted' = wanted
    <3>1. read \in Listing /\ wanted.files \in Listing /\ wanted \in Manifest
      BY DEF TypeOK, Manifest
    <3>2. /\ read = [p \in DOMAIN read |-> read[p]]
          /\ wanted.files = [p \in DOMAIN wanted.files |-> wanted.files[p]]
      BY <3>1, PartialFunctions, Directories
    <3>3. read = wanted.files
      BY <2>1, <3>2 DEF ReaderInv
    <3> QED BY <2>1, <3>1, <3>3 DEF Manifest
  <2> QED BY <2>1, <2>2, <2>3 DEF ReaderInv
<1>7. CASE Export /\ ~ (Commit \/ Push)
  BY <1>1, <1>7
  DEF Export, StartExport, ReadSection, ReadAddresses, SectionRead, WriteFile, FilesWritten,
      Prune, WriteManifest
<1>8. CASE ExportFails \/ SourceSets \/ SourceRemoves \/ UNCHANGED vars
  BY <1>1, <1>8 DEF ExportFails, SourceSets, SourceRemoves, Edit, vars
<1> QED BY <1>2, <1>3, <1>4, <1>5, <1>6, <1>7, <1>8 DEF Next, Export, Import

-----------------------------------------------------------------------------
(***************************************************************************)
(* Theorems.                                                               *)
(***************************************************************************)
LEMMA InitialInv == Init => Inv
<1> SUFFICES ASSUME Init PROVE Inv
  OBVIOUS
<1> USE DEF Init
<1>1. TypeOK
  <2>1. NoFiles \in UNION {[K -> Value] : K \in SUBSET Subnet}
    BY Directories DEF PartialFunction
  <2>2. NoFiles \in Listing /\ NoManifest \in Manifest /\ EmptyTree \in Tree
    BY Documents, Directories
  <2>3. log \in Seq(Tree) /\ pushed \in 0 .. Len(log)
    OBVIOUS
  <2>4. listed \in UNION {[K -> Value] : K \in SUBSET Subnet}
    BY <2>1
  <2>5. faults \in 0 .. MaxFaults /\ edits \in 0 .. MaxEdits
    BY MirrorAssumption
  <2> QED BY <2>2, <2>3, <2>4, <2>5 DEF TypeOK, Phase
<1>2. Len(log) = 0
  OBVIOUS
<1>3. HistoryInv /\ WorkInv
  BY <1>2 DEF HistoryInv, WorkInv, EmptyTree, NoManifest
<1>4. RunInv /\ ReaderInv
  BY DEF RunInv, ReaderInv, EmptyTree, NoManifest
<1> QED BY <1>1, <1>3, <1>4 DEF Inv

LEMMA Invariance == Spec => []Inv
<1>1. Inv /\ [Next]_vars => Inv'
  BY StepTypes, StepCommits, StepRun, StepReader DEF Inv
<1> QED BY <1>1, InitialInv, PTL DEF Spec

\* Every variable keeps its type, whatever fails: the two working copies are
\* directories of whole or torn files at every moment, and the clock runs.
THEOREM TypeCorrect == Spec => []TypeOK
<1>1. Inv => TypeOK
  BY DEF Inv
<1> QED BY <1>1, Invariance, PTL

\* Commit: a bijection between the files and the documents that were read.
THEOREM CommitsAreComplete == Spec => CommitsWhatWasRead
<1>1. ASSUME Inv, [Next]_vars, log' # log
      PROVE  /\ {work.files[p] : p \in DOMAIN work.files} = docs
             /\ Cardinality(DOMAIN work.files) = Cardinality(docs)
             /\ work.manifest.files = work.files
  <2>1. phase = "commit"
    BY <1>1
    DEF Next, Export, StartExport, ReadSection, ReadAddresses, SectionRead, WriteFile,
        FilesWritten, Prune, WriteManifest, Commit, Push, ExportFails, Import, StartRead,
        ReadFile, FinishRead, Deliver, DeliverFile, DeliverManifest, Damage, Carried,
        SourceSets, SourceRemoves, Edit, vars, outside, exporter, git
  <2>2. work.files = files /\ work.manifest.files = files
    BY <1>1, <2>1, CommitOfRun
  <2>3. WrittenInv /\ docs \ unwritten = docs
    BY <1>1, <2>1 DEF Inv, RunInv
  <2>4. {files[p] : p \in DOMAIN files} = docs
    BY <2>3 DEF WrittenInv
  <2>5. Cardinality(DOMAIN files) = Cardinality(docs)
    <3> DEFINE f == [p \in DOMAIN files |-> files[p]]
    <3>1. f \in Bijection(DOMAIN files, docs)
      <4>1. f \in [DOMAIN files -> docs]
        BY <2>3 DEF WrittenInv
      <4>2. \A p, q \in DOMAIN files : f[p] = f[q] => p = q
        BY <2>3 DEF WrittenInv
      <4>3. \A d \in docs : \E p \in DOMAIN files : f[p] = d
        BY <2>4
      <4> HIDE DEF f
      <4> QED BY <4>1, <4>2, <4>3 DEF Bijection, Injection, Surjection, IsInjective
    <3>2. ExistsBijection(DOMAIN files, docs)
      BY <3>1 DEF ExistsBijection
    <3> QED BY <2>3, <3>2, FS_Bijection DEF WrittenInv
  <2> QED BY <2>2, <2>4, <2>5
<1> QED BY <1>1, Invariance, PTL DEF Spec, CommitsWhatWasRead

-----------------------------------------------------------------------------
(***************************************************************************)
(* The refinement.  A published manifest has one place in the log, and the *)
(* order of places is that of stamps.                                      *)
(***************************************************************************)
Placed ==
  \/ accepted = NoManifest /\ AcceptedCommit = 0
  \/ /\ accepted # NoManifest
     /\ \E i \in 1 .. pushed : accepted = log[i].manifest /\ AcceptedCommit = i

LEMMA PlaceOfAccepted == Inv => Placed
<1> SUFFICES ASSUME Inv PROVE Placed
  OBVIOUS
<1>1. CASE accepted = NoManifest
  BY <1>1 DEF Placed, AcceptedCommit
<1>2. CASE accepted # NoManifest
  <2>1. PICK i \in 1 .. pushed : accepted = log[i].manifest
    BY <1>2 DEF Inv, ReaderInv, Published
  <2>2. i \in 1 .. Len(log) /\ Len(log) \in Nat
    BY DEF Inv, TypeOK
  <2>3. \A j \in 1 .. Len(log) : log[j].manifest = accepted => j = i
    <3> TAKE j \in 1 .. Len(log)
    <3> HAVE log[j].manifest = accepted
    <3>1. ~ (i < j) /\ ~ (j < i)
      BY <2>1, <2>2, LastIsLater DEF Inv, HistoryInv
    <3> QED BY <2>2, <3>1
  <2>4. {j \in 1 .. Len(log) : log[j].manifest = accepted} = {i}
    BY <2>1, <2>2, <2>3
  <2>5. Least({i}) = i
    BY <2>2 DEF Least
  <2>6. AcceptedCommit = i
    BY <1>2, <2>4, <2>5 DEF AcceptedCommit
  <2> QED BY <1>2, <2>1, <2>6 DEF Placed
<1> QED BY <1>1, <1>2

\* The history of the register: the contents that were pushed.
Pushed == [i \in 1 .. pushed |-> log[i].manifest.files]

PushedType == Pushed \in Seq(Listing) /\ Len(Pushed) = pushed /\ pushed \in Nat

LEMMA PushedIsHistory == Inv => PushedType
<1> SUFFICES ASSUME Inv PROVE PushedType
  OBVIOUS
<1>1. pushed \in Nat /\ \A i \in 1 .. pushed : i \in 1 .. Len(log)
  BY DEF Inv, TypeOK
<1>2. \A i \in 1 .. pushed : log[i].manifest.files \in Listing
  BY <1>1, LastIsLater DEF Inv, Tree, Manifest
<1> QED BY <1>1, <1>2 DEF Pushed, PushedType

LEMMA InitRefines == Init => Channel!Init
<1> SUFFICES ASSUME Init PROVE Channel!Init
  OBVIOUS
<1>1. pushed = 0 /\ accepted = NoManifest
  BY DEF Init
<1>2. Pushed = << >>
  BY <1>1 DEF Pushed
<1>3. NoFiles = [x \in {} |-> 0]
  BY DEF NoFiles
<1> QED BY <1>1, <1>2, <1>3 DEF Channel!Init, Channel!Nothing, Pushed, AcceptedCommit, NoManifest

\* Commits and failures do not show; a push publishes; the end of a reading takes up.
LEMMA StepRefines ==
  ASSUME Inv, Inv', [Next]_vars
  PROVE  [Channel!Next]_(Channel!vars)
<1> USE DEF outside, importer, exporter, assembly, git
<1> DEFINE shown == << Pushed, AcceptedCommit, accepted.files >>
<1>0. /\ Inv => Placed /\ PushedType
      /\ Inv' => Placed' /\ PushedType'
  BY PlaceOfAccepted, PushedIsHistory, PTL
<1>1. Channel!vars = shown
  BY DEF Channel!vars, Pushed
<1>2. CASE UNCHANGED << log, pushed, accepted >>
  <2>1. shown' = shown
    BY <1>2 DEF Pushed, AcceptedCommit
  <2> QED BY <2>1 DEF Channel!vars, Pushed
<1>3. CASE Commit
  <2>1. pushed' = pushed /\ accepted' = accepted
    BY <1>3 DEF Commit
  <2>2. \A i \in 1 .. pushed : log'[i] = log[i]
    <3>1. \A i \in 1 .. Len(log) : log'[i] = log[i]
      BY <1>3 DEF Commit, Inv, TypeOK
    <3> QED BY <3>1 DEF Inv, TypeOK
  <2>3. Pushed' = Pushed
    BY <2>1, <2>2 DEF Pushed
  <2>4. AcceptedCommit' = AcceptedCommit
    <3>1. CASE accepted = NoManifest
      BY <2>1, <3>1 DEF AcceptedCommit
    <3>2. CASE accepted # NoManifest
      <4>1. PICK i \in 1 .. pushed : accepted = log[i].manifest /\ AcceptedCommit = i
        BY <1>0, <3>2 DEF Placed
      <4>2. PICK j \in 1 .. pushed : accepted = log'[j].manifest /\ AcceptedCommit' = j
        BY <1>0, <2>1, <3>2 DEF Placed
      <4>3. log[j].manifest = log[i].manifest
        BY <2>2, <4>1, <4>2
      <4>4. i \in 1 .. Len(log) /\ j \in 1 .. Len(log)
        BY DEF Inv, TypeOK
      <4>5. ~ (i < j) /\ ~ (j < i)
        BY <4>3, <4>4, LastIsLater DEF Inv, HistoryInv
      <4> QED BY <4>1, <4>2, <4>5
    <3> QED BY <3>1, <3>2
  <2> QED BY <2>1, <2>3, <2>4 DEF Channel!vars, Pushed
<1>4. CASE Push
  <2>1. log' = log /\ accepted' = accepted /\ pushed' = Len(log) /\ pushed < pushed'
    BY <1>4 DEF Push, Inv, RunInv
  <2>2. AcceptedCommit' = AcceptedCommit
    BY <2>1 DEF AcceptedCommit
  <2>3. /\ Pushed \in Seq(Listing) /\ Len(Pushed) = pushed /\ pushed \in Nat
        /\ Pushed' \in Seq(Listing) /\ Len(Pushed') = pushed' /\ pushed' \in Nat
    BY <1>0 DEF PushedType
  <2>4. \A i \in 1 .. pushed : Pushed'[i] = Pushed[i]
    BY <2>1, <2>3 DEF Pushed
  <2>5. SubSeq(Pushed', 1, Len(Pushed)) = Pushed
    <3>1. \A i \in 1 .. pushed : Pushed'[i] \in Listing
      BY <2>3, <2>4
    <3>2. /\ SubSeq(Pushed', 1, pushed) \in Seq(Listing)
          /\ Len(SubSeq(Pushed', 1, pushed)) = pushed
          /\ \A i \in 1 .. pushed : SubSeq(Pushed', 1, pushed)[i] = Pushed'[i]
      BY <2>3, <3>1, SubSeqProperties
    <3> QED BY <2>3, <2>4, <3>2, SeqEqual
  <2>6. Len(Pushed') > Len(Pushed)
    BY <2>1, <2>3
  <2> QED BY <2>1, <2>2, <2>5, <2>6 DEF Channel!Next, Channel!Publish, Pushed
<1>5. CASE FinishRead
  <2>1. /\ reading /\ log' = log /\ pushed' = pushed
        /\ accepted' = [files |-> read, stamp |-> wanted.stamp]
    BY <1>5 DEF FinishRead
  <2>2. accepted' # NoManifest
    <3>1. wanted.stamp > 0
      BY <2>1, RemoteIsLatest DEF Inv, ReaderInv
    <3> QED BY <2>1, <3>1 DEF NoManifest
  <2>3. PICK j \in 1 .. pushed : accepted' = log[j].manifest /\ AcceptedCommit' = j
    BY <1>0, <2>1, <2>2 DEF Placed
  <2>4. j \in 1 .. Len(log) /\ pushed \in Nat /\ Len(log) \in Nat /\ pushed <= Len(log)
    BY DEF Inv, TypeOK
  <2>5. Len(Pushed) = pushed
    BY <1>0 DEF PushedType
  <2>6. accepted.stamp <= log[j].manifest.stamp
    BY <2>1, <2>3 DEF Inv, ReaderInv
  <2>7. AcceptedCommit <= j /\ AcceptedCommit \in Nat
    <3>1. CASE accepted = NoManifest
      BY <2>4, <3>1 DEF AcceptedCommit
    <3>2. CASE accepted # NoManifest
      <4>1. PICK i \in 1 .. pushed : accepted = log[i].manifest /\ AcceptedCommit = i
        BY <1>0, <3>2 DEF Placed
      <4>2. i \in 1 .. Len(log)
        BY <2>4
      <4>3. ~ (j < i)
        BY <2>4, <2>6, <4>1, <4>2, LastIsLater DEF Inv, HistoryInv
      <4> QED BY <2>4, <4>1, <4>3
    <3> QED BY <3>1, <3>2
  <2>8. Pushed' = Pushed /\ Pushed[j] = accepted'.files
    BY <2>1, <2>3 DEF Pushed
  <2>9. AcceptedCommit' \in AcceptedCommit .. Len(Pushed) /\ AcceptedCommit' > 0
    BY <2>3, <2>4, <2>5, <2>7
  <2> QED
    BY <2>3, <2>8, <2>9 DEF Channel!Next, Channel!TakeUp, Pushed
<1>6. Commit \/ Push \/ FinishRead \/ UNCHANGED << log, pushed, accepted >>
  BY DEF Next, Export, StartExport, ReadSection, ReadAddresses, SectionRead, WriteFile,
      FilesWritten, Prune, WriteManifest, ExportFails, Import, StartRead, ReadFile, Deliver,
      DeliverFile, DeliverManifest, Damage, Carried, SourceSets, SourceRemoves, Edit, vars
<1> QED BY <1>2, <1>3, <1>4, <1>5, <1>6

\* The path of a snapshot is a register: in any order of delivery, whatever is
\* damaged and whichever run is killed, what is taken up was published as it is,
\* and is never older than what was taken up before.
THEOREM Refinement == Spec => ChannelSpec
<1>1. Inv /\ Inv' /\ [Next]_vars => [Channel!Next]_(Channel!vars)
  BY StepRefines
<1>2. QED BY <1>1, InitRefines, Invariance, PTL DEF Spec, ChannelSpec, Channel!Spec

-----------------------------------------------------------------------------
(***************************************************************************)
(* What a commit is for, and what a success means, each under the          *)
(* condition on the options and failures that it needs.                    *)
(***************************************************************************)
\* A step that ends a run as a success, or commits, is one of the last three.
LEMMA LastSteps ==
  ASSUME [Next]_vars, ~ (WriteManifest \/ Commit \/ Push)
  PROVE  log' = log /\ pushed' = pushed /\ outcome' \in {outcome, "none", "failed"}
BY DEF Next, Export, StartExport, ReadSection, ReadAddresses, SectionRead, WriteFile,
    FilesWritten, Prune, ExportFails, Import, StartRead, ReadFile, FinishRead, Deliver,
    DeliverFile, DeliverManifest, Damage, Carried, SourceSets, SourceRemoves, Edit, Ends, vars,
    outside, exporter, importer, git, assembly

\* A run that is about to push has just committed what it wrote.
PushedInv ==
  /\ phase = "push" => work = Last
  /\ phase # "idle" => outcome = "none"

LEMMA PushedStep ==
  ASSUME Inv, PushedInv, [Next]_vars
  PROVE  /\ PushedInv'
         /\ option = "push" /\ phase # "idle" /\ outcome' = "ok" =>
              TreeAt(pushed') = work' \/ (phase = "commit" /\ Unpushed)
<1> USE DEF outside, importer, exporter, assembly, git
<1>1. CASE StartExport \/ ReadSection \/ ReadAddresses \/ SectionRead \/ FilesWritten
  BY <1>1 DEF StartExport, ReadSection, ReadAddresses, SectionRead, FilesWritten, Ends, PushedInv
<1>2. CASE WriteFile \/ Prune \/ WriteManifest
  BY <1>2 DEF WriteFile, Prune, WriteManifest, Ends, PushedInv
<1>3. CASE Commit
  <2>1. CASE Clean
    <3>1. pushed \in 0 .. Len(log) /\ Len(log) \in Nat
      BY DEF Inv, TypeOK
    <3>2. CASE Unpushed
      BY <1>3, <2>1, <3>2 DEF Commit, Ends, PushedInv
    <3>3. CASE pushed = Len(log)
      BY <1>3, <2>1, <3>3 DEF Commit, Ends, PushedInv, Clean
    <3> QED BY <3>1, <3>2, <3>3 DEF Unpushed
  <2>2. CASE ~ Clean
    <3>1. log' = Append(log, work) /\ work' = work /\ pushed' = pushed
      BY <1>3, <2>2 DEF Commit
    <3>2. Last' = work
      BY <3>1 DEF Last, TreeAt, Inv, TypeOK
    <3> QED BY <1>3, <2>2, <3>1, <3>2 DEF Commit, Ends, PushedInv
  <2> QED BY <2>1, <2>2
<1>4. CASE Push
  BY <1>4 DEF Push, Ends, PushedInv, Last
<1>5. CASE ExportFails
  BY <1>5 DEF ExportFails, Ends, PushedInv
<1>6. CASE Import \/ Deliver \/ Damage \/ SourceSets \/ SourceRemoves \/ UNCHANGED vars
  <2>1. UNCHANGED exporter
    BY <1>6
    DEF Import, StartRead, ReadFile, FinishRead, Deliver, DeliverFile, DeliverManifest, Damage,
        Carried, SourceSets, SourceRemoves, Edit, vars
  <2> QED BY <2>1 DEF PushedInv, Last, TreeAt
<1> QED BY <1>1, <1>2, <1>3, <1>4, <1>5, <1>6 DEF Next, Export

\* A run with --push that succeeds leaves what it wrote on the remote, whatever runs
\* without --push there are; unless it had nothing to commit and an earlier commit was
\* not pushed, or not successfully (commit_snapshot, ipam_export.py).
THEOREM SuccessPublishes == Spec => SuccessIsPublished
<1>1. Init => PushedInv
  BY DEF Init, PushedInv
<1>2. /\ Inv /\ PushedInv /\ [Next]_vars => PushedInv'
      /\ Inv /\ PushedInv /\ [Next]_vars =>
           (option = "push" /\ phase # "idle" /\ outcome' = "ok" =>
              TreeAt(pushed') = work' \/ (phase = "commit" /\ Unpushed))
  BY PushedStep
<1> QED BY <1>1, <1>2, Invariance, PTL DEF Spec, SuccessIsPublished

\* The manifest in the working copy is the last commit's, until a run writes one
\* because the documents have changed.
ManifestInv ==
  faults = 0 =>
    \/ work.manifest = Last.manifest
    \/ phase = "commit" /\ (Len(log) = 0 \/ files # Last.manifest.files)

LEMMA ManifestStep ==
  ASSUME Inv, ManifestInv, [Next]_vars, "write" \notin Options
  PROVE  ManifestInv'
<1> USE DEF Inv, outside, importer, exporter, assembly, git
<1>1. faults \in Nat /\ (faults' = 0 => faults = 0)
  BY MirrorAssumption
  DEF TypeOK, Next, Export, StartExport, ReadSection, ReadAddresses, SectionRead, WriteFile,
      FilesWritten, Prune, WriteManifest, Commit, Push, ExportFails, Import, StartRead, ReadFile,
      FinishRead, Deliver, DeliverFile, DeliverManifest, Damage, Carried, SourceSets,
      SourceRemoves, Edit, vars
<1>2. CASE phase # "commit" /\ log' = log /\ work'.manifest = work.manifest
  BY <1>1, <1>2 DEF ManifestInv, Last, TreeAt
<1>3. CASE WriteManifest
  <2>1. /\ phase' = "commit" /\ log' = log /\ files' = files
        /\ work'.manifest = [files |-> files, stamp |-> Stamp]
    BY <1>3, MirrorAssumption DEF WriteManifest, TypeOK, Tree
  <2>2. Last' = Last
    BY <2>1 DEF Last, TreeAt
  <2>3. CASE work.manifest.stamp > 0 /\ work.manifest.files = files
    <3>1. work'.manifest = work.manifest
      BY <2>1, <2>3 DEF Stamp, TypeOK, Tree, Manifest
    <3> QED BY <1>1, <1>3, <2>2, <3>1 DEF ManifestInv, WriteManifest
  <2>4. CASE ~ (work.manifest.stamp > 0 /\ work.manifest.files = files)
    <3>1. faults = 0 => work.manifest = Last.manifest
      BY <1>3 DEF ManifestInv, WriteManifest
    <3>2. Last.manifest.stamp > 0 \/ Len(log) = 0
      BY LastIsLater DEF HistoryInv, Last, TreeAt
    <3> QED BY <1>1, <2>1, <2>2, <2>4, <3>1, <3>2 DEF ManifestInv
  <2> QED BY <2>3, <2>4
<1>4. CASE Commit
  <2>1. CASE Clean
    BY <1>4, <2>1 DEF Commit, Clean, ManifestInv, Last, TreeAt
  <2>2. CASE ~ Clean
    <3>1. Last' = work /\ work' = work
      BY <1>4, <2>2 DEF Commit, Last, TreeAt, TypeOK
    <3> QED BY <3>1 DEF ManifestInv
  <2> QED BY <2>1, <2>2
<1>5. CASE ExportFails
  <2>1. faults' # 0
    BY <1>1, <1>5 DEF ExportFails
  <2> QED BY <2>1 DEF ManifestInv
<1>6. CASE Export /\ ~ (WriteManifest \/ Commit)
  <2>1. phase # "commit" /\ log' = log
    BY <1>6
    DEF Export, StartExport, ReadSection, ReadAddresses, SectionRead, WriteFile, FilesWritten,
        Prune, Push
  <2>2. work'.manifest = work.manifest
    BY <1>6
    DEF Export, StartExport, ReadSection, ReadAddresses, SectionRead, WriteFile, FilesWritten,
        Prune, Push, TypeOK, Tree
  <2> QED BY <1>2, <2>1, <2>2
<1>7. CASE Import \/ Deliver \/ Damage \/ SourceSets \/ SourceRemoves \/ UNCHANGED vars
  <2>1. UNCHANGED exporter
    BY <1>7
    DEF Import, StartRead, ReadFile, FinishRead, Deliver, DeliverFile, DeliverManifest, Damage,
        Carried, SourceSets, SourceRemoves, Edit, vars
  <2> QED BY <1>1, <2>1 DEF ManifestInv, Last, TreeAt
<1> QED BY <1>3, <1>4, <1>5, <1>6, <1>7 DEF Next

\* Two commits in a row differ in their documents, as long as no run has failed
\* half way, and none is started that writes and does not commit.
THEOREM CommitsAreChanges ==
  ASSUME "write" \notin Options
  PROVE  Spec => CommitsOnlyChanges
<1>1. Init => ManifestInv
  BY DEF Init, ManifestInv, Last, TreeAt
<1>2. Inv /\ ManifestInv /\ [Next]_vars => ManifestInv'
  BY ManifestStep
<1>3. ASSUME Inv, ManifestInv, [Next]_vars, log' # log, faults = 0
      PROVE  work.files # TreeAt(Len(log)).files
  <2>1. Commit /\ phase = "commit" /\ ~ Clean
    <3>1. WriteManifest \/ Commit \/ Push
      BY <1>3, LastSteps
    <3> QED BY <1>3, <3>1 DEF WriteManifest, Commit, Push, git
  <2>2. /\ work.files = files /\ work.manifest # Last.manifest
        /\ work.manifest.files = files
    BY <1>3, <2>1, CommitOfRun
  <2>3. Len(log) = 0 \/ files # Last.manifest.files
    BY <1>3, <2>2 DEF ManifestInv
  <2>4. CASE Len(log) = 0
    <3>1. Last.files = NoFiles
      BY <2>4 DEF Last, TreeAt, EmptyTree
    <3>2. PICK d \in docs : PathOf[d.key] \in DOMAIN files
      BY <1>3, <2>1 DEF Inv, RunInv, WrittenInv
    <3> QED BY <2>2, <3>1, <3>2, Directories DEF Last
  <2>5. CASE Len(log) # 0 /\ files # Last.manifest.files
    <3>1. Last.files = Last.manifest.files
      BY <1>3, <2>5, LastIsLater DEF Inv, HistoryInv, Last, TreeAt
    <3> QED BY <2>2, <2>5, <3>1 DEF Last
  <2> QED BY <2>3, <2>4, <2>5
<1> QED BY <1>1, <1>2, <1>3, Invariance, PTL DEF Spec, CommitsOnlyChanges
=============================================================================

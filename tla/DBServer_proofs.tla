--------------------------- MODULE DBServer_proofs ---------------------------
(***************************************************************************)
(* Proofs about DBServer, for every set of labels, pictures and            *)
(* extensions, every length of label and every bound on the ids: what an   *)
(* answer of 200 promises of the file, and that an upload is stored for    *)
(* what it is.                                                             *)
(*                                                                         *)
(* They stand on the proofs about ImageDB.  Each call of the database is a *)
(* step of ImageDB, its refinement makes it a step of the abstract         *)
(* store, and what follows reasons about the two maps of that: Live, the   *)
(* images in memory, and Saved, those in a file that can be loaded.        *)
(***************************************************************************)
EXTENDS DBServer, FiniteSetTheorems, SequenceTheorems, TLAPS

DBP == INSTANCE ImageDB_proofs

Readable == DBP!Loadable(disk)
Sound == DBP!IInv /\ DBP!SavingEmptiedFile

-----------------------------------------------------------------------------
(* The database the proofs are about is the one the server calls.          *)

LEMMA SameSets ==
    /\ DB!Ids = DBP!Ids /\ DB!Unreadable = DBP!Unreadable
    /\ DB!ClientLabels = DBP!ClientLabels /\ ClientLabels = DBP!ClientLabels
    /\ DB!FeatureInfo = DBP!FeatureInfo /\ DB!LabelMap = DBP!LabelMap
    /\ DB!File = DBP!File
BY DEF DB!Ids, DBP!Ids, DB!Unreadable, DBP!Unreadable, DB!ClientLabels, ClientLabels,
       DBP!ClientLabels, DB!FeatureInfo, DBP!FeatureInfo, DB!LabelMap, DBP!LabelMap,
       DB!LabelText, DBP!LabelText, DB!File, DBP!File

LEMMA Assumptions ==
    /\ DBP!MaxIdAssumption /\ DBP!LabelsAssumption
    /\ DBP!FeaturesAssumption /\ DBP!NoFileAssumption
BY DatabaseAssumption, SameSets
   DEF DBP!MaxIdAssumption, DBP!LabelsAssumption, DBP!FeaturesAssumption,
       DBP!NoFileAssumption

LEMMA SameSize == \A S : DB!Cardinality(S) = DBP!Cardinality(S)
BY DEF DB!Cardinality, DBP!Cardinality

LEMMA SameFiles ==
    ASSUME NEW labels, NEW feats, NEW f
    PROVE  /\ DB!FileOf(labels, feats) = DBP!FileOf(labels, feats)
           /\ DB!Prefixes(labels, feats) = DBP!Prefixes(labels, feats)
           /\ DB!Loadable(f) <=> DBP!Loadable(f)
           /\ DB!LoadedLabels(f) = DBP!LoadedLabels(f)
           /\ DB!ImagesOf(labels, feats) = DBP!ImagesOf(labels, feats)
<1> USE SameSets, SameSize
<1>1. DB!Keys(labels) = DBP!Keys(labels) /\ DB!Keys(f.labels) = DBP!Keys(f.labels)
  BY DEF DB!Keys, DBP!Keys
<1>2. DB!FileOf(labels, feats) = DBP!FileOf(labels, feats)
  BY <1>1 DEF DB!FileOf, DBP!FileOf
<1>3. DB!HeaderCuts(labels) = DBP!HeaderCuts(labels)
  BY DEF DB!HeaderCuts, DBP!HeaderCuts
<1>4. DB!Exported(feats) = DBP!Exported(feats)
  BY DEF DB!Exported, DBP!Exported
<1>5. DB!TruncatedFile = DBP!TruncatedFile
  BY DEF DB!TruncatedFile, DBP!TruncatedFile, DB!NoLabels, DBP!NoLabels
<1>6. DB!Prefixes(labels, feats) = DBP!Prefixes(labels, feats)
  BY <1>1, <1>3, <1>4, <1>5 DEF DB!Prefixes, DBP!Prefixes
<1>7. DB!HasUnreadable(f.labels) <=> DBP!HasUnreadable(f.labels)
  BY DEF DB!HasUnreadable, DBP!HasUnreadable
<1>8. DB!Loadable(f) <=> DBP!Loadable(f)
  BY <1>1, <1>7 DEF DB!Loadable, DBP!Loadable
<1>9. DB!LoadedLabels(f) = DBP!LoadedLabels(f)
  BY DEF DB!LoadedLabels, DBP!LoadedLabels, DB!HasUnreadable, DBP!HasUnreadable,
         DB!Misread, DBP!Misread, DB!TextAfter, DBP!TextAfter, DB!Keys, DBP!Keys
<1>10. DB!ImagesOf(labels, feats) = DBP!ImagesOf(labels, feats)
  BY DEF DB!ImagesOf, DBP!ImagesOf
<1> QED
  BY <1>2, <1>6, <1>8, <1>9, <1>10

LEMMA SameLoad == DB!Load <=> DBP!LoadFails \/ DBP!LoadSucceeds
<1>1. DB!Loadable(disk) <=> DBP!Loadable(disk)
  BY SameFiles
<1>2. DB!LoadedLabels(disk) = DBP!LoadedLabels(disk)
  BY SameFiles
<1>3. DB!TruncatedFile = DBP!TruncatedFile
  BY SameSets DEF DB!TruncatedFile, DBP!TruncatedFile, DB!NoLabels, DBP!NoLabels
<1>4. DB!CounterAfter(disk.labels) = DBP!CounterAfter(disk.labels)
  BY SameSets DEF DB!CounterAfter, DBP!CounterAfter, DB!Keys, DBP!Keys
<1>5. DB!HasUnreadable(disk.labels) <=> DBP!HasUnreadable(disk.labels)
  BY SameSets DEF DB!HasUnreadable, DBP!HasUnreadable
<1> QED
  BY <1>1, <1>2, <1>3, <1>4, <1>5
  DEF DB!Load, DB!LoadFails, DB!LoadSucceeds, DB!ReadFails, DB!ReadSucceeds,
      DBP!LoadFails, DBP!LoadSucceeds, DBP!ReadFails, DBP!ReadSucceeds

LEMMA SameTree == DB!CurrentTree = DBP!CurrentTree
BY DEF DB!CurrentTree, DBP!CurrentTree, DB!Coalesced, DBP!Coalesced

LEMMA SameMemory ==
    /\ DB!Coalesce <=> DBP!Coalesce
    /\ \A hits : DB!Match(hits) <=> DBP!Match(hits)
    /\ \A l, fs : DB!AddImageFeatures(l, fs) <=> DBP!AddImageFeatures(l, fs)
    /\ \A l : DB!RemoveImage(l) <=> DBP!RemoveImage(l)
<1>1. DB!Coalesce <=> DBP!Coalesce
  BY SameTree DEF DB!Coalesce, DBP!Coalesce
<1>2. ASSUME NEW hits PROVE DB!Match(hits) <=> DBP!Match(hits)
  BY SameTree, SameSets
  DEF DB!Match, DBP!Match, DB!LabelsAfterLookup, DBP!LabelsAfterLookup
<1>3. ASSUME NEW l, NEW fs
      PROVE  DB!AddImageFeatures(l, fs) <=> DBP!AddImageFeatures(l, fs)
  BY SameSets DEF DB!AddImageFeatures, DBP!AddImageFeatures, DB!label_exists,
                  DBP!label_exists
<1>4. ASSUME NEW l PROVE DB!RemoveImage(l) <=> DBP!RemoveImage(l)
  <2>1. ASSUME NEW id PROVE DB!IsFirstIdFor(id, l) <=> DBP!IsFirstIdFor(id, l)
    BY SameSets DEF DB!IsFirstIdFor, DBP!IsFirstIdFor
  <2>2. ASSUME NEW k, NEW id PROVE DB!IsFirstInfo(k, id) <=> DBP!IsFirstInfo(k, id)
    BY DEF DB!IsFirstInfo, DBP!IsFirstInfo
  <2>3. ASSUME NEW k
        PROVE  DB!WithoutAt(m_uncoalesced_features, k) =
               DBP!WithoutAt(m_uncoalesced_features, k)
    BY DEF DB!WithoutAt, DBP!WithoutAt
  <2>4. ASSUME NEW id
        PROVE  DB!HasId(m_uncoalesced_features, id) <=>
               DBP!HasId(m_uncoalesced_features, id)
    BY DEF DB!HasId, DBP!HasId
  <2> QED
    BY <2>1, <2>2, <2>3, <2>4, SameSets DEF DB!RemoveImage, DBP!RemoveImage
<1> QED
  BY <1>1, <1>2, <1>3, <1>4

LEMMA SameSaves ==
    /\ DB!SaveBegins <=> DBP!SaveBegins
    /\ DB!SaveFinishes <=> DBP!SaveFinishes
    /\ DB!SaveFails <=> DBP!SaveFails
    /\ DB!Crash <=> DBP!Crash
<1>1. DB!TruncatedFile = DBP!TruncatedFile
  BY SameSets DEF DB!TruncatedFile, DBP!TruncatedFile, DB!NoLabels, DBP!NoLabels
<1>2. DB!SaveBegins <=> DBP!SaveBegins
  BY <1>1 DEF DB!SaveBegins, DBP!SaveBegins, DB!OpenForWriting, DBP!OpenForWriting,
              DB!memory, DBP!memory
<1>3. DB!SaveFinishes <=> DBP!SaveFinishes
  BY SameFiles DEF DB!SaveFinishes, DBP!SaveFinishes, DB!Exported, DBP!Exported,
                   DB!memory, DBP!memory
<1>4. DB!SaveFails <=> DBP!SaveFails
  BY SameFiles DEF DB!SaveFails, DBP!SaveFails, DB!memory, DBP!memory
<1>5. DB!Crash <=> DBP!Crash
  BY SameFiles, SameSets DEF DB!Crash, DBP!Crash, DB!NoLabels, DBP!NoLabels
<1> QED
  BY <1>2, <1>3, <1>4, <1>5

LEMMA SameInit == DB!Init <=> DBP!Init
<1>1. DB!NoLabels = DBP!NoLabels
  BY SameSets DEF DB!NoLabels, DBP!NoLabels
<1>2. \A l, fs : DB!DbAddFile(l, fs) = DBP!DbAddFile(l, fs)
  BY <1>1, SameFiles DEF DB!DbAddFile, DBP!DbAddFile
<1> QED
  BY <1>1, <1>2 DEF DB!Init, DBP!Init, DB!Constructed, DBP!Constructed

-----------------------------------------------------------------------------
(* What a call of the database does to the two maps.                       *)

\* Whatever the database does, it stays sound.
LEMMA StaysSound ==
    ASSUME Sound, DBP!Next \/ UNCHANGED DBP!vars
    PROVE  Sound'
<1>1. DBP!IInv'
  BY Assumptions, DBP!IInvStep DEF Sound
<1>2. DBP!SavingEmptiedFile'
  BY Assumptions, DBP!SavingEmptiedFileStep DEF Sound
<1> QED
  BY <1>1, <1>2 DEF Sound

LEMMA SameMaps ==
    /\ Live = DBP!ImagesOf(m_labels, m_uncoalesced_features)
    /\ Live' = DBP!ImagesOf(m_labels, m_uncoalesced_features)'
    /\ Saved = DBP!ImagesOf(disk.labels, disk.feats)
    /\ Saved' = DBP!ImagesOf(disk.labels, disk.feats)'
<1>1. Live' = DB!ImagesOf(m_labels', m_uncoalesced_features')
  BY DEF Live, DB!ImagesOf
<1>2. DBP!ImagesOf(m_labels, m_uncoalesced_features)' =
      DBP!ImagesOf(m_labels', m_uncoalesced_features')
  BY DEF DBP!ImagesOf
<1>3. Saved' = DB!ImagesOf(disk'.labels, disk'.feats)
  BY DEF Saved, DB!ImagesOf
<1>4. DBP!ImagesOf(disk.labels, disk.feats)' = DBP!ImagesOf(disk'.labels, disk'.feats)
  BY DEF DBP!ImagesOf
<1> QED
  BY <1>1, <1>2, <1>3, <1>4, SameFiles DEF Live, Saved

LEMMA MapTypes ==
    ASSUME Sound
    PROVE  /\ m_filename \in BOOLEAN
           /\ m_filename => Live \in [ClientLabels -> FeatureSets \union {NoImage}]
           /\ disk # NoFile => Saved \in [ClientLabels -> FeatureSets \union {NoImage}]
           /\ Readable => disk # NoFile
<1>1. m_labels \in DBP!LabelMap /\ m_uncoalesced_features \in Seq(DBP!FeatureInfo)
      /\ m_filename \in BOOLEAN
  BY DEF Sound, DBP!IInv, DBP!TypeOK
<1>2. Live \in [ClientLabels -> FeatureSets \union {NoImage}]
  BY <1>1, Assumptions, DBP!ImagesType, SameMaps, SameSets
<1>3. ASSUME disk # NoFile
      PROVE  Saved \in [ClientLabels -> FeatureSets \union {NoImage}]
  <2>1. disk \in DBP!File
    BY <1>3 DEF Sound, DBP!IInv, DBP!TypeOK
  <2>2. disk.labels \in DBP!LabelMap /\ disk.feats \in Seq(DBP!FeatureInfo)
    BY <2>1 DEF DBP!File
  <2> QED
    BY <2>2, Assumptions, DBP!ImagesType, SameMaps, SameSets
<1> QED
  BY <1>1, <1>2, <1>3 DEF Readable, DBP!Loadable

LEMMA Loads ==
    ASSUME Sound, DB!Load
    PROVE  /\ Sound' /\ disk' = disk /\ pc = "down" /\ pc' = "idle"
           /\ Saved' = Saved /\ Readable' = Readable
           /\ m_filename' => Readable /\ Live' = Saved
<1>1. DBP!LoadFails \/ DBP!LoadSucceeds
  BY SameLoad
<1>2. Sound'
  BY <1>1, StaysSound DEF DBP!Next
<1>3. DBP!Store!Restart
  BY <1>1, Assumptions, DBP!StoreRestart DEF Sound
<1>4. /\ disk' = disk /\ pc = "down" /\ pc' = "idle" /\ m_filename = FALSE
      /\ m_filename' => Readable
  BY <1>1 DEF DBP!LoadFails, DBP!LoadSucceeds, DBP!ReadFails, DBP!ReadSucceeds, Readable,
              Sound, DBP!IInv, DBP!Constructed
<1>5. m_filename' => Live' = Saved
  BY <1>3, <1>4, SameMaps DEF DBP!Store!Restart, Readable
<1>6. Saved' = Saved /\ Readable' = Readable
  BY <1>4 DEF Saved, DB!ImagesOf, Readable, DBP!Loadable
<1> QED
  BY <1>2, <1>4, <1>5, <1>6

LEMMA Stutters ==
    ASSUME Sound, DB!Coalesce \/ \E hits \in SUBSET DB!CurrentTree : DB!Match(hits)
    PROVE  /\ Sound' /\ UNCHANGED <<m_filename, disk, pc, m_uncoalesced_features>>
           /\ pc = "idle" /\ Saved' = Saved /\ Readable' = Readable
           /\ m_filename => Live' = Live
<1>1. DBP!Coalesce \/ \E hits \in SUBSET DBP!CurrentTree : DBP!Match(hits)
  BY SameTree, SameMemory
<1>2. Sound'
  BY <1>1, StaysSound DEF DBP!Next
<1>3. UNCHANGED DBP!Store!vars
  BY <1>1, Assumptions, DBP!StoreStutters DEF Sound
<1>4. UNCHANGED <<m_filename, disk, pc, m_uncoalesced_features>> /\ pc = "idle"
  BY <1>1 DEF DBP!Coalesce, DBP!Match
<1>5. m_filename => Live' = Live
  BY <1>3, <1>4, SameMaps DEF DBP!Store!vars
<1>6. Saved' = Saved /\ Readable' = Readable
  BY <1>4 DEF Saved, DB!ImagesOf, Readable, DBP!Loadable
<1> QED
  BY <1>2, <1>4, <1>5, <1>6

LEMMA Adds ==
    ASSUME Sound, NEW l \in ClientLabels, NEW fs \in FeatureSets,
           DB!AddImageFeatures(l, fs)
    PROVE  /\ Sound' /\ UNCHANGED <<m_filename, disk, pc>> /\ pc = "idle"
           /\ Saved' = Saved /\ Readable' = Readable
           /\ m_filename => Live' = [Live EXCEPT ![l] = fs]
<1>1. DBP!AddImageFeatures(l, fs) /\ l \in DBP!ClientLabels
  BY SameMemory, SameSets
<1>2. Sound'
  BY <1>1, StaysSound DEF DBP!Next
<1>3. UNCHANGED <<m_filename, disk, pc>> /\ pc = "idle"
  BY <1>1 DEF DBP!AddImageFeatures
<1>4. m_filename => DBP!Store!Add(l, fs)
  BY <1>1, Assumptions, DBP!StoreAdd DEF Sound
<1>5. m_filename => Live' = [Live EXCEPT ![l] = fs]
  BY <1>3, <1>4, SameMaps DEF DBP!Store!Add
<1>6. Saved' = Saved /\ Readable' = Readable
  BY <1>3 DEF Saved, DB!ImagesOf, Readable, DBP!Loadable
<1> QED
  BY <1>2, <1>3, <1>5, <1>6

LEMMA Removes ==
    ASSUME Sound, NEW l \in ClientLabels, DB!RemoveImage(l)
    PROVE  /\ Sound' /\ UNCHANGED <<m_filename, disk, pc>> /\ pc = "idle"
           /\ Saved' = Saved /\ Readable' = Readable
           /\ m_filename => Live' = [Live EXCEPT ![l] = NoImage]
<1>1. DBP!RemoveImage(l) /\ l \in DBP!ClientLabels
  BY SameMemory, SameSets
<1>2. Sound'
  BY <1>1, StaysSound DEF DBP!Next
<1>3. UNCHANGED <<m_filename, disk, pc>> /\ pc = "idle"
  BY <1>1 DEF DBP!RemoveImage
<1>4. m_filename => DBP!Store!Remove(l)
  BY <1>1, Assumptions, DBP!StoreRemove DEF Sound
<1>5. m_filename => Live' = [Live EXCEPT ![l] = NoImage]
  BY <1>3, <1>4, SameMaps DEF DBP!Store!Remove
<1>6. Saved' = Saved /\ Readable' = Readable
  BY <1>3 DEF Saved, DB!ImagesOf, Readable, DBP!Loadable
<1> QED
  BY <1>2, <1>3, <1>5, <1>6

\* The file is empty from the first step of a save on.
LEMMA BeginsSave ==
    ASSUME Sound, DB!SaveBegins
    PROVE  /\ Sound' /\ UNCHANGED m_filename /\ m_filename
           /\ pc = "idle" /\ pc' = "saving" /\ ~Readable' /\ Live' = Live
<1>1. DBP!SaveBegins
  BY SameSaves
<1>2. Sound'
  BY <1>1, StaysSound DEF DBP!Next
<1>3. /\ UNCHANGED <<m_labels, m_uncoalesced_features, m_filename>> /\ m_filename
      /\ pc = "idle" /\ pc' = "saving" /\ disk' = DBP!TruncatedFile
  BY <1>1 DEF DBP!SaveBegins, DBP!OpenForWriting, DBP!memory
<1>4. ~Readable'
  BY <1>3 DEF Readable, DBP!Loadable, DBP!TruncatedFile
<1>5. Live' = Live
  BY <1>3 DEF Live, DB!ImagesOf
<1> QED
  BY <1>2, <1>3, <1>4, <1>5

LEMMA FinishesSave ==
    ASSUME Sound, DB!SaveFinishes
    PROVE  /\ Sound' /\ UNCHANGED <<m_filename, m_labels, m_uncoalesced_features>>
           /\ m_filename /\ pc = "saving" /\ pc' = "idle" /\ Live' = Live
           /\ Readable' => Saved' = Live
           /\ ~Readable' => \E l \in DB!Unreadable : Live[l] # NoImage
           /\ \A k \in 1..Len(m_uncoalesced_features) :
                NumFeatures[m_uncoalesced_features[k].features] > 0
<1>1. DBP!SaveFinishes
  BY SameSaves
<1>2. Sound'
  BY <1>1, StaysSound DEF DBP!Next
<1>3. /\ UNCHANGED <<m_labels, m_uncoalesced_features, m_filename>>
      /\ pc = "saving" /\ pc' = "idle" /\ m_filename
      /\ Len(m_uncoalesced_features) \in DBP!Exported(m_uncoalesced_features)
  BY <1>1 DEF DBP!SaveFinishes, DBP!memory, Sound, DBP!IInv
<1>4. DBP!Store!WriteOut
  BY <1>1, Assumptions, DBP!StoreSaveFinishes DEF Sound
<1>5. Readable' => Saved' = Live
  BY <1>3, <1>4, SameMaps DEF DBP!Store!WriteOut, Readable
<1>6. ~Readable' => \E l \in DB!Unreadable : Live[l] # NoImage
  BY <1>3, <1>4, SameMaps, SameSets DEF DBP!Store!WriteOut, DBP!Store!Stored, Readable
<1>7. Live' = Live
  BY <1>3 DEF Live, DB!ImagesOf
<1>8. \A k \in 1..Len(m_uncoalesced_features) :
        NumFeatures[m_uncoalesced_features[k].features] > 0
  BY <1>3 DEF DBP!Exported
<1> QED
  BY <1>2, <1>3, <1>5, <1>6, <1>7, <1>8

LEMMA TornFile ==
    ASSUME Sound, pc = "saving", disk' \in DBP!Prefixes(m_labels, m_uncoalesced_features)
    PROVE  m_filename /\ (Readable' => Saved' = Live)
<1>1. m_filename
  BY DEF Sound, DBP!IInv
<1>2. DBP!Store!WriteOut \/ ~DBP!Loadable(disk')
  BY Assumptions, DBP!StoreTornSave DEF Sound
<1>3. DBP!Loadable(disk') = Readable'
  BY DEF Readable, DBP!Loadable
<1> QED
  BY <1>1, <1>2, <1>3, SameMaps DEF DBP!Store!WriteOut, Readable

LEMMA FailsSave ==
    ASSUME Sound, DB!SaveFails
    PROVE  /\ Sound' /\ UNCHANGED m_filename /\ m_filename
           /\ pc = "saving" /\ pc' = "idle" /\ Live' = Live
           /\ Readable' => Saved' = Live
<1>1. DBP!SaveFails
  BY SameSaves
<1>2. Sound'
  BY <1>1, StaysSound DEF DBP!Next
<1>3. /\ UNCHANGED <<m_labels, m_uncoalesced_features, m_filename>>
      /\ pc = "saving" /\ pc' = "idle"
      /\ disk' \in DBP!Prefixes(m_labels, m_uncoalesced_features)
  BY <1>1 DEF DBP!SaveFails, DBP!memory
<1>4. Live' = Live
  BY <1>3 DEF Live, DB!ImagesOf
<1> QED
  BY <1>2, <1>3, <1>4, TornFile

LEMMA Dies ==
    ASSUME Sound, DB!Crash
    PROVE  /\ Sound' /\ pc' = "down" /\ m_filename' = FALSE
           /\ pc = "saving" => m_filename /\ (Readable' => Saved' = Live)
           /\ pc # "saving" => Readable' = Readable /\ Saved' = Saved
<1>1. DBP!Crash
  BY SameSaves
<1>2. Sound'
  BY <1>1, StaysSound DEF DBP!Next
<1>3. pc' = "down" /\ m_filename' = FALSE
  BY <1>1 DEF DBP!Crash
<1>4. CASE pc = "saving"
  BY <1>1, <1>2, <1>3, <1>4, TornFile DEF DBP!Crash
<1>5. CASE pc # "saving"
  <2>1. disk' = disk
    BY <1>1, <1>5 DEF DBP!Crash
  <2> QED
    BY <1>2, <1>3, <1>5, <2>1 DEF Saved, DB!ImagesOf, Readable, DBP!Loadable
<1> QED
  BY <1>4, <1>5

-----------------------------------------------------------------------------
(* The inductive invariant.                                                *)

Part == [name: {"image"}, ext: Exts, image: FeatureSets]
          \union [name: {"label"}, ext: {NoExt}, label: Labels]
\* What can be left of a form.
RestsOf(body) == {SubSeq(body, k, Len(body)) : k \in 1..3}
Rests == UNION {RestsOf(body) : body \in Bodies("add")}
Sent == [label: ClientLabels, image: FeatureSets \union {NoImage}, intact: BOOLEAN]

TypesOK ==
    /\ phase \in Phases
    /\ handler \in {"none", "add", "del", "match"}
    /\ parts \in Seq(Part)
    /\ parts \in Rests
    /\ begun \in BOOLEAN /\ xx_image_file \in BOOLEAN
    /\ xx_image_label \in ClientLabels
    /\ xx_image_filename \in Exts
    /\ image_files \in [Exts -> FeatureSets \union {NoImage, TornImage}]
    /\ sent \in Sent
    /\ response \in [handler: {"none", "add", "del", "match"},
                     status: {0, 200, 400, 500}]
    /\ promised \in [ClientLabels -> FeatureSets \union {NoImage, InDoubt}]

PcFollowsPhase ==
    pc = CASE phase = "down" -> "down"
           [] phase = "saving" -> "saving"
           [] OTHER -> "idle"

Changing == phase \in {"changed", "saving"}

\* What memory owes to the answers, but for the label it is changing.
MemoryKeepsPromises ==
    m_filename => \A l \in ClientLabels :
        ~(Changing /\ l = xx_image_label) => promised[l] \in {Live[l], InDoubt}
FileKeepsPromises ==
    Readable => \A l \in ClientLabels : promised[l] \in {Saved[l], InDoubt}

Has(body, name) == \E k \in 1..Len(body) : body[k].name = name

\* The parts to come are those that were sent, one of a kind...
PartsAreSent(body, s) ==
    /\ \A j, k \in 1..Len(body) : body[j].name = body[k].name => j = k
    /\ \A k \in 1..Len(body) :
         /\ body[k].name = "image" => body[k].image = s.image
         /\ body[k].name = "label" => body[k].label = s.label
\* ... the first chunk of an image truncates its file ...
FirstChunkOpens == Has(parts, "image") /\ xx_image_file => begun
\* ... and what has come is in its place.
ReceivedIsSent ==
    phase \in {"receiving", "processing"} /\ sent.intact =>
        /\ ~Has(parts, "image") /\ sent.image # NoImage =>
             image_files[xx_image_filename] = sent.image
        /\ ~Has(parts, "label") => xx_image_label \in LastChunkOf(sent.label)
NothingLeft == phase # "receiving" => parts = <<>>
UploadIsSound ==
    PartsAreSent(parts, sent) /\ FirstChunkOpens /\ ReceivedIsSent /\ NothingLeft

AddedIsSent ==
    Changing /\ handler = "add" /\ sent.intact /\ sent.image # NoImage =>
        /\ xx_image_label \in LastChunkOf(sent.label)
        /\ m_filename => Live[xx_image_label] = sent.image

\* The answer to a request is looked at until the next.
AnswerIsLast == phase # "accept" => response = NoResponse
OkHasSaved ==
    phase = "accept" /\ response.status = 200 /\ response.handler # "match" =>
        /\ (\E l \in DB!Unreadable : Live[l] # NoImage) \/ (Readable /\ Saved = Live)
        /\ \A k \in 1..Len(m_uncoalesced_features) :
             NumFeatures[m_uncoalesced_features[k].features] > 0

IInv ==
    /\ Sound
    /\ TypesOK
    /\ PcFollowsPhase
    /\ MemoryKeepsPromises
    /\ FileKeepsPromises
    /\ UploadIsSound
    /\ AddedIsSent
    /\ AnswerIsLast
    /\ OkHasSaved

-----------------------------------------------------------------------------
(* Forms.                                                                  *)

LEMMA BodyShape ==
    ASSUME NEW h \in {"add", "del", "match"}, NEW body \in Bodies(h)
    PROVE  /\ body \in Seq(Part) /\ Len(body) \in 0..2 /\ body \in Bodies("add")
           /\ \A j, k \in 1..Len(body) : body[j].name = body[k].name => j = k
           /\ h = "del" => ~Has(body, "image")
           /\ body # <<>> => Head(body).ext \in Exts
<1>1. ASSUME NEW i \in ImageForms
      PROVE  i \in Seq(Part) /\ Len(i) = 1 /\ i[1].name = "image" /\ i[1].ext \in Exts
  <2>1. PICK x \in Exts, fs \in FeatureSets : i = <<ImagePart(x, fs)>>
    BY DEF ImageForms
  <2>2. ImagePart(x, fs) \in Part /\ ImagePart(x, fs).name = "image"
        /\ ImagePart(x, fs).ext \in Exts
    BY DEF ImagePart, Part
  <2> QED
    BY <2>1, <2>2
<1>2. ASSUME NEW l \in LabelForms
      PROVE  l \in Seq(Part) /\ Len(l) = 1 /\ l[1].name = "label" /\ l[1].ext \in Exts
  <2>1. PICK label \in Labels : l = <<LabelPart(label)>>
    BY DEF LabelForms
  <2>2. LabelPart(label) \in Part /\ LabelPart(label).name = "label"
        /\ LabelPart(label).ext \in Exts
    BY UploadsAssumption DEF LabelPart, Part
  <2> QED
    BY <2>1, <2>2
<1>3. body \in Bodies("add")
  BY DEF Bodies
<1>4. CASE body = <<>>
  BY <1>3, <1>4 DEF Has
<1>5. CASE body \in ImageForms /\ h # "del"
  BY <1>1, <1>3, <1>5
<1>6. CASE body \in LabelForms
  BY <1>2, <1>3, <1>6 DEF Has
<1>7. CASE body \in TwoPartForms /\ h = "add"
  <2>1. \E i \in ImageForms, l \in LabelForms : body = i \o l \/ body = l \o i
    <3>1. CASE body \in {i \o l : i \in ImageForms, l \in LabelForms}
      BY <3>1
    <3>2. CASE body \in {l \o i : i \in ImageForms, l \in LabelForms}
      BY <3>2
    <3> QED
      BY <1>7, <3>1, <3>2 DEF TwoPartForms
  <2>2. PICK i \in ImageForms, l \in LabelForms : body = i \o l \/ body = l \o i
    BY <2>1
  <2>3. /\ i \in Seq(Part) /\ Len(i) = 1 /\ i[1].name = "image" /\ i[1].ext \in Exts
        /\ l \in Seq(Part) /\ Len(l) = 1 /\ l[1].name = "label" /\ l[1].ext \in Exts
    BY <1>1, <1>2
  <2>4. ASSUME NEW s \in Seq(Part), NEW t \in Seq(Part), Len(s) = 1, Len(t) = 1
        PROVE  /\ s \o t \in Seq(Part) /\ Len(s \o t) = 2
               /\ (s \o t)[1] = s[1] /\ (s \o t)[2] = t[1]
    <3>1. s \o t \in Seq(Part) /\ Len(s \o t) = Len(s) + Len(t)
      BY ConcatProperties
    <3>2. 1 \in 1..Len(s) + Len(t) /\ 2 \in 1..Len(s) + Len(t)
      BY <2>4
    <3>3. (s \o t)[1] = s[1] /\ (s \o t)[2] = t[2 - Len(s)]
      BY <2>4, <3>2, ConcatProperties
    <3> QED
      BY <2>4, <3>1, <3>3
  <2>5. /\ body \in Seq(Part) /\ Len(body) = 2
        /\ \/ body[1] = i[1] /\ body[2] = l[1]
           \/ body[1] = l[1] /\ body[2] = i[1]
    <3>1. CASE body = i \o l
      BY <2>3, <2>4, <3>1
    <3>2. CASE body = l \o i
      BY <2>3, <2>4, <3>2
    <3> QED
      BY <2>2, <3>1, <3>2
  <2>6. Head(body) = body[1]
    BY <2>5
  <2> QED
    BY <1>3, <1>7, <2>3, <2>5, <2>6
<1> QED
  BY <1>4, <1>5, <1>6, <1>7 DEF Bodies

LEMMA SentByBody ==
    ASSUME NEW body \in Seq(Part),
           \A j, k \in 1..Len(body) : body[j].name = body[k].name => j = k
    PROVE  /\ SentBy(body) \in Sent
           /\ PartsAreSent(body, SentBy(body))
           /\ ~Has(body, "image") => SentBy(body).image = NoImage
           /\ ~Has(body, "label") => SentBy(body).label = EmptyLabel
<1> DEFINE all == {body[k] : k \in 1..Len(body)}
           img == CHOOSE p \in all : p.name = "image"
           lab == CHOOSE p \in all : p.name = "label"
<1>1. SentBy(body) = [label |-> IF Has(body, "label") THEN lab.label ELSE EmptyLabel,
                      image |-> IF Has(body, "image") THEN img.image ELSE NoImage,
                      intact |-> TRUE]
  BY DEF SentBy, Has
<1>2. \A k \in 1..Len(body) : body[k] \in Part
  OBVIOUS
<1>3. Has(body, "image") => \E k \in 1..Len(body) : img = body[k] /\ body[k].name = "image"
  BY DEF Has
<1>4. Has(body, "label") => \E k \in 1..Len(body) : lab = body[k] /\ body[k].name = "label"
  BY DEF Has
<1> HIDE DEF img, lab
<1>5. ASSUME NEW k \in 1..Len(body)
      PROVE  /\ body[k].name = "image" => Has(body, "image") /\ img = body[k]
             /\ body[k].name = "label" => Has(body, "label") /\ lab = body[k]
  BY <1>3, <1>4 DEF Has
<1>6. Has(body, "image") => img.image \in FeatureSets
  BY <1>2, <1>3 DEF Part
<1>7. Has(body, "label") => lab.label \in ClientLabels
  BY <1>2, <1>4 DEF Part, ClientLabels, DB!ClientLabels
<1>8. EmptyLabel \in ClientLabels
  BY DEF ClientLabels, DB!ClientLabels, DB!Unreadable
<1> QED
  BY <1>1, <1>5, <1>6, <1>7, <1>8 DEF Sent, PartsAreSent

LEMMA NoParts ==
    /\ SentBy(<<>>) = [label |-> EmptyLabel, image |-> NoImage, intact |-> TRUE]
    /\ SentBy(<<>>) \in Sent
    /\ \A s : PartsAreSent(<<>>, s)
    /\ \A name : ~Has(<<>>, name)
    /\ <<>> \in Seq(Part)
    /\ <<>> \in Rests
<1>1. <<>> \in Bodies("add") /\ <<>> = SubSeq(<<>>, 1, Len(<<>>))
  BY DEF Bodies
<1>2. SentBy(<<>>) = [label |-> EmptyLabel, image |-> NoImage, intact |-> TRUE]
  BY DEF SentBy
<1>3. EmptyLabel \in ClientLabels
  BY DEF ClientLabels, DB!ClientLabels, DB!Unreadable
<1>4. SentBy(<<>>) \in Sent
  <2>1. NoImage \in FeatureSets \union {NoImage} /\ TRUE \in BOOLEAN
    OBVIOUS
  <2>2. [label |-> EmptyLabel, image |-> NoImage, intact |-> TRUE] \in Sent
    BY <1>3, <2>1 DEF Sent
  <2> QED
    BY <1>2, <2>2
<1>5. <<>> \in Rests
  <2>1. <<>> \in RestsOf(<<>>)
    BY <1>1 DEF RestsOf
  <2> QED
    BY <1>1, <2>1 DEF Rests
<1> QED
  BY <1>1, <1>2, <1>4, <1>5 DEF PartsAreSent, Has

\* A part less.
LEMMA RestOfParts ==
    ASSUME TypesOK, UploadIsSound, parts # <<>>
    PROVE  /\ Head(parts) \in Part /\ Head(parts) = parts[1] /\ 1 \in 1..Len(parts)
           /\ Tail(parts) \in Seq(Part)
           /\ Tail(parts) \in Rests
           /\ PartsAreSent(Tail(parts), sent)
           /\ \A name : Has(Tail(parts), name) => Has(parts, name)
           /\ ~Has(Tail(parts), Head(parts).name)
           /\ \A name : name # Head(parts).name /\ Has(parts, name) =>
                Has(Tail(parts), name)
<1>1. parts \in Seq(Part) /\ PartsAreSent(parts, sent)
  BY DEF TypesOK, UploadIsSound
<1>2. Head(parts) \in Part /\ Head(parts) = parts[1] /\ 1 \in 1..Len(parts)
  BY <1>1
<1>3. /\ Tail(parts) \in Seq(Part) /\ Len(Tail(parts)) = Len(parts) - 1
      /\ \A k \in 1..Len(Tail(parts)) : k + 1 \in 1..Len(parts) /\ Tail(parts)[k] = parts[k + 1]
  BY <1>1
<1>4. PartsAreSent(Tail(parts), sent)
  BY <1>1, <1>3 DEF PartsAreSent
<1>5. \A name : Has(Tail(parts), name) => Has(parts, name)
  BY <1>3 DEF Has
<1>6. ~Has(Tail(parts), Head(parts).name)
  BY <1>1, <1>2, <1>3 DEF Has, PartsAreSent
<1>7. ASSUME NEW name, name # Head(parts).name, Has(parts, name)
      PROVE  Has(Tail(parts), name)
  <2>1. PICK k \in 1..Len(parts) : parts[k].name = name
    BY <1>7 DEF Has
  <2>2. k # 1 /\ k - 1 \in 1..Len(Tail(parts))
    BY <1>1, <1>2, <1>3, <1>7, <2>1
  <2>3. Tail(parts)[k - 1] = parts[k]
    BY <1>1, <2>2
  <2> QED
    BY <2>1, <2>2, <2>3 DEF Has
<1>8. Tail(parts) \in Rests
  <2>1. PICK body \in Bodies("add") : parts \in RestsOf(body)
    BY DEF TypesOK, Rests
  <2>2. PICK k \in 1..3 : parts = SubSeq(body, k, Len(body))
    BY <2>1 DEF RestsOf
  <2>3. body \in Seq(Part) /\ Len(body) \in 0..2
    BY BodyShape
  <2>4. k <= Len(body)
    BY <2>2, <2>3
  <2>5. Tail(parts) = SubSeq(body, k + 1, Len(body)) /\ k + 1 \in 1..3
    BY <2>2, <2>3, <2>4
  <2>6. Tail(parts) \in RestsOf(body)
    BY <2>5 DEF RestsOf
  <2> QED
    BY <2>6 DEF Rests
<1> QED
  BY <1>2, <1>3, <1>4, <1>5, <1>6, <1>7, <1>8

-----------------------------------------------------------------------------
(* The parts of the invariant that most steps leave alone.                 *)

LEMMA Quiet ==
    ASSUME Sound, UNCHANGED dbvars
    PROVE  /\ Sound' /\ UNCHANGED <<m_filename, disk, pc, m_uncoalesced_features>>
           /\ Live' = Live /\ Saved' = Saved /\ Readable' = Readable
<1>1. UNCHANGED DBP!vars
  BY DEF dbvars, DBP!vars, DBP!memory
<1>2. Sound'
  BY <1>1, StaysSound
<1> QED
  BY <1>2 DEF dbvars, Live, Saved, DB!ImagesOf, Readable, DBP!Loadable

LEMMA NextUpload ==
    UploadIsSound' <=>
        /\ PartsAreSent(parts', sent')
        /\ Has(parts', "image") /\ xx_image_file' => begun'
        /\ phase' \in {"receiving", "processing"} /\ sent'.intact =>
             /\ ~Has(parts', "image") /\ sent'.image # NoImage =>
                  image_files'[xx_image_filename'] = sent'.image
             /\ ~Has(parts', "label") => xx_image_label' \in LastChunkOf(sent'.label)
        /\ phase' # "receiving" => parts' = <<>>
BY DEF UploadIsSound, PartsAreSent, FirstChunkOpens, ReceivedIsSent, NothingLeft, Has,
       LastChunkOf

\* The handler works, or another one starts to.
LEMMA RequestKept ==
    ASSUME TypesOK, UploadIsSound, AnswerIsLast, UNCHANGED <<request, uploads, promised>>,
           UNCHANGED response, phase' \in Phases \ {"receiving", "processing"},
           phase # "receiving", phase # "accept"
    PROVE  TypesOK' /\ UploadIsSound' /\ AnswerIsLast' /\ OkHasSaved'
<1>1. TypesOK'
  BY DEF TypesOK, request, uploads
<1>2. UploadIsSound'
  BY NextUpload DEF UploadIsSound, request, uploads, NothingLeft, FirstChunkOpens
<1>3. AnswerIsLast'
  BY DEF AnswerIsLast
<1>4. response'.status = 0
  BY DEF AnswerIsLast, NoResponse
<1> QED
  BY <1>1, <1>2, <1>3, <1>4 DEF OkHasSaved

LEMMA Returned ==
    ASSUME HandlerReturns, phase' \in {"accept", "down"}
    PROVE  /\ UploadIsSound' /\ AddedIsSent'
           /\ handler' = "none" /\ begun' = FALSE
           /\ sent' \in Sent /\ parts' \in Seq(Part)
           /\ parts' \in Rests
<1>1. /\ handler' = "none" /\ begun' = FALSE /\ parts' = <<>>
      /\ sent' \in Sent /\ parts' \in Seq(Part)
      /\ parts' \in Rests
  BY NoParts DEF HandlerReturns
<1>2. PartsAreSent(parts', sent') /\ ~Has(parts', "image")
  BY <1>1, NoParts
<1>3. UploadIsSound'
  BY <1>1, <1>2, NextUpload
<1>4. AddedIsSent'
  BY DEF AddedIsSent, Changing
<1> QED
  BY <1>1, <1>3, <1>4

LEMMA Answered ==
    ASSUME TypesOK, NEW h \in {"none", "add", "del", "match"}, NEW status \in {200, 400, 500},
           Answer(h, status), UNCHANGED uploads,
           promised' \in [ClientLabels -> FeatureSets \union {NoImage, InDoubt}]
    PROVE  /\ TypesOK' /\ UploadIsSound' /\ AddedIsSent' /\ AnswerIsLast'
           /\ phase' = "accept" /\ response'.handler = h /\ response'.status = status
<1>1. HandlerReturns /\ phase' = "accept" /\ response' = [handler |-> h, status |-> status]
  BY DEF Answer
<1>2. response' \in [handler: {"none", "add", "del", "match"}, status: {0, 200, 400, 500}]
  BY <1>1
<1>3. TypesOK'
  BY <1>1, <1>2, Returned DEF TypesOK, uploads, Phases
<1> QED
  BY <1>1, <1>3, Returned DEF AnswerIsLast

\* A failed change, unless nothing was changed.
LEMMA FailureStatus ==
    ASSUME NEW h PROVE Failure(h) \in {400, 500}
BY DEF Failure

-----------------------------------------------------------------------------
(* Every step keeps the invariant.  Between requests.                      *)

LEMMA StartLoadsStep == ASSUME IInv, StartLoads PROVE IInv'
<1>1. /\ phase = "down" /\ phase' = "starting" /\ DB!Load
      /\ UNCHANGED <<request, uploads, response, promised>>
  BY DEF StartLoads
<1>2. /\ Sound' /\ disk' = disk /\ pc' = "idle" /\ Saved' = Saved /\ Readable' = Readable
      /\ m_filename' => Readable /\ Live' = Saved
  BY <1>1, Loads DEF IInv
<1>3. TypesOK' /\ UploadIsSound' /\ AnswerIsLast' /\ OkHasSaved'
  BY <1>1, RequestKept DEF IInv, Phases
<1>4. PcFollowsPhase' /\ AddedIsSent'
  BY <1>1, <1>2 DEF PcFollowsPhase, AddedIsSent, Changing
<1>5. FileKeepsPromises'
  BY <1>1, <1>2 DEF IInv, FileKeepsPromises
<1>6. MemoryKeepsPromises'
  BY <1>1, <1>2 DEF IInv, FileKeepsPromises, MemoryKeepsPromises
<1> QED
  BY <1>2, <1>3, <1>4, <1>5, <1>6 DEF IInv

LEMMA StartCoalescesStep == ASSUME IInv, StartCoalesces PROVE IInv'
<1>1. /\ phase = "starting" /\ phase' = "accept" /\ DB!Coalesce
      /\ UNCHANGED <<request, uploads, response, promised>>
  BY DEF StartCoalesces
<1>2. /\ Sound' /\ UNCHANGED <<m_filename, pc>> /\ pc = "idle"
      /\ Saved' = Saved /\ Readable' = Readable /\ (m_filename => Live' = Live)
  BY <1>1, Stutters DEF IInv
<1>3. TypesOK' /\ UploadIsSound' /\ AnswerIsLast' /\ OkHasSaved'
  BY <1>1, RequestKept DEF IInv, Phases
<1>4. PcFollowsPhase' /\ AddedIsSent'
  BY <1>1, <1>2 DEF PcFollowsPhase, AddedIsSent, Changing
<1>5. FileKeepsPromises'
  BY <1>1, <1>2 DEF IInv, FileKeepsPromises
<1>6. MemoryKeepsPromises'
  BY <1>1, <1>2 DEF IInv, MemoryKeepsPromises, Changing
<1> QED
  BY <1>2, <1>3, <1>4, <1>5, <1>6 DEF IInv

\* An answer to a request that changed nothing.
LEMMA NothingChanged ==
    ASSUME IInv, UNCHANGED <<dbvars, promised>>, phase \notin {"changed", "saving", "down"},
           phase' \in {"accept", "receiving", "processing"}
    PROVE  Sound' /\ PcFollowsPhase' /\ FileKeepsPromises' /\ MemoryKeepsPromises'
           /\ AddedIsSent'
<1>1. /\ Sound' /\ UNCHANGED <<m_filename, pc>>
      /\ Live' = Live /\ Saved' = Saved /\ Readable' = Readable
  BY Quiet DEF IInv
<1>2. PcFollowsPhase' /\ AddedIsSent'
  BY <1>1 DEF IInv, PcFollowsPhase, AddedIsSent, Changing
<1>3. FileKeepsPromises'
  BY <1>1 DEF IInv, FileKeepsPromises
<1>4. MemoryKeepsPromises'
  BY <1>1 DEF IInv, MemoryKeepsPromises, Changing
<1> QED
  BY <1>1, <1>2, <1>3, <1>4

LEMMA RefuseRequestStep ==
    ASSUME IInv, NEW h \in {"add", "del", "match"}, RefuseRequest(h)
    PROVE  IInv'
<1>1. phase = "accept" /\ Answer(h, 400) /\ UNCHANGED <<dbvars, uploads, promised>>
  BY DEF RefuseRequest
<1>2. promised' \in [ClientLabels -> FeatureSets \union {NoImage, InDoubt}]
  BY <1>1 DEF IInv, TypesOK
<1>3. /\ TypesOK' /\ UploadIsSound' /\ AnswerIsLast'
      /\ phase' = "accept" /\ response'.status = 400
  BY <1>1, <1>2, Answered DEF IInv
<1>4. OkHasSaved'
  BY <1>3 DEF OkHasSaved
<1>5. Sound' /\ PcFollowsPhase' /\ FileKeepsPromises' /\ MemoryKeepsPromises'
      /\ AddedIsSent'
  BY <1>1, <1>3, NothingChanged
<1> QED
  BY <1>3, <1>4, <1>5 DEF IInv

LEMMA AcceptRequestStep ==
    ASSUME IInv, NEW h \in {"add", "del", "match"}, NEW body \in Bodies(h),
           AcceptRequest(h, body)
    PROVE  IInv'
<1>1. /\ phase = "accept" /\ phase' = "receiving" /\ handler' = h /\ parts' = body
      /\ begun' = FALSE /\ sent' = SentBy(body) /\ response' = NoResponse
      /\ PrepareToReceive(h, body) /\ UNCHANGED <<dbvars, image_files, promised>>
  BY DEF AcceptRequest
<1>2. /\ body \in Seq(Part) /\ Len(body) \in 0..2 /\ body \in Bodies("add")
      /\ \A j, k \in 1..Len(body) : body[j].name = body[k].name => j = k
      /\ h = "del" => ~Has(body, "image")
      /\ body # <<>> => Head(body).ext \in Exts
  BY BodyShape
<1>3. /\ SentBy(body) \in Sent /\ PartsAreSent(body, SentBy(body))
      /\ ~Has(body, "image") => SentBy(body).image = NoImage
      /\ ~Has(body, "label") => SentBy(body).label = EmptyLabel
  BY <1>2, SentByBody
<1>4. /\ xx_image_label' = EmptyLabel
      /\ h = "del" => UNCHANGED <<xx_image_file, xx_image_filename>>
      /\ h # "del" => xx_image_file' = FALSE
                      /\ xx_image_filename' = IF body = <<>> THEN NoExt ELSE Head(body).ext
  BY <1>1 DEF PrepareToReceive
<1>5. xx_image_file' \in BOOLEAN /\ xx_image_filename' \in Exts
      /\ xx_image_label' \in ClientLabels
  <2>1. xx_image_label' \in ClientLabels
    BY <1>4 DEF ClientLabels, DB!ClientLabels, DB!Unreadable
  <2>2. xx_image_file \in BOOLEAN /\ xx_image_filename \in Exts /\ NoExt \in Exts
    BY UploadsAssumption DEF IInv, TypesOK
  <2>3. CASE h = "del"
    BY <1>4, <2>1, <2>2, <2>3
  <2>4. CASE h # "del"
    BY <1>2, <1>4, <2>1, <2>2, <2>4
  <2> QED
    BY <2>3, <2>4
<1>6. body \in Rests
  <2>1. body = SubSeq(body, 1, Len(body))
    BY <1>2
  <2>2. body \in RestsOf(body)
    <3>1. 1 \in 1..3
      OBVIOUS
    <3> QED
      BY <2>1, <3>1 DEF RestsOf
  <2> QED
    BY <1>2, <2>2 DEF Rests
<1>7. response' \in [handler: {"none", "add", "del", "match"}, status: {0, 200, 400, 500}]
  BY <1>1 DEF NoResponse
<1>8. TypesOK'
  <2>1. parts' \in Rests
    BY <1>1, <1>6
  <2>2. parts' \in Seq(Part) /\ sent' \in Sent /\ phase' \in Phases
        /\ handler' \in {"none", "add", "del", "match"} /\ begun' \in BOOLEAN
    BY <1>1, <1>2, <1>3 DEF Phases
  <2>3. image_files' \in [Exts -> FeatureSets \union {NoImage, TornImage}]
        /\ promised' \in [ClientLabels -> FeatureSets \union {NoImage, InDoubt}]
    BY <1>1 DEF IInv, TypesOK
  <2> QED
    BY <1>5, <1>7, <2>1, <2>2, <2>3 DEF TypesOK
<1>9. UploadIsSound'
  <2>1. Has(parts', "image") /\ xx_image_file' => begun'
    BY <1>1, <1>2, <1>4
  <2>2. EmptyLabel \in LastChunkOf(EmptyLabel)
    BY DEF LastChunkOf
  <2> QED
    BY <1>1, <1>3, <1>4, <2>1, <2>2, NextUpload
<1>10. AnswerIsLast' /\ OkHasSaved'
  BY <1>1 DEF AnswerIsLast, OkHasSaved
<1>11. Sound' /\ PcFollowsPhase' /\ FileKeepsPromises' /\ MemoryKeepsPromises'
       /\ AddedIsSent'
  BY <1>1, NothingChanged
<1> QED
  BY <1>8, <1>9, <1>10, <1>11 DEF IInv

-----------------------------------------------------------------------------
(* The upload.                                                             *)

LEMMA TwoKinds == \A p \in Part : p.name \in {"image", "label"}
BY DEF Part

\* What a receiving step leaves alone.
LEMMA StillUnanswered ==
    ASSUME IInv, phase = "receiving", phase' \in {"receiving", "processing"},
           UNCHANGED <<dbvars, response, promised>>
    PROVE  /\ Sound' /\ PcFollowsPhase' /\ FileKeepsPromises' /\ MemoryKeepsPromises'
           /\ AddedIsSent' /\ AnswerIsLast' /\ OkHasSaved'
           /\ phase' \in Phases
           /\ response' \in [handler: {"none", "add", "del", "match"},
                             status: {0, 200, 400, 500}]
           /\ promised' \in [ClientLabels -> FeatureSets \union {NoImage, InDoubt}]
<1>1. Sound' /\ PcFollowsPhase' /\ FileKeepsPromises' /\ MemoryKeepsPromises'
      /\ AddedIsSent'
  BY NothingChanged
<1>2. AnswerIsLast' /\ OkHasSaved' /\ phase' \in Phases
  BY DEF IInv, AnswerIsLast, OkHasSaved, Phases
<1> QED
  BY <1>1, <1>2 DEF IInv, TypesOK

\* The file that is open was opened for this request, so a chunk is what is in
\* it now.
LEMMA StoresChunk ==
    ASSUME IInv, Has(parts, "image"),
           NEW content \in FeatureSets \union {TornImage}, StoreChunk(content)
    PROVE  /\ xx_image_file' = TRUE
           /\ image_files' \in [Exts -> FeatureSets \union {NoImage, TornImage}]
           /\ image_files'[xx_image_filename] = content
<1>1. /\ image_files \in [Exts -> FeatureSets \union {NoImage, TornImage}]
      /\ xx_image_filename \in Exts /\ (xx_image_file => begun)
  BY DEF IInv, TypesOK, UploadIsSound, FirstChunkOpens
<1>2. xx_image_file' = TRUE
      /\ image_files' = [image_files EXCEPT ![xx_image_filename] = content]
  BY <1>1 DEF StoreChunk
<1> QED
  BY <1>1, <1>2

LEMMA ReceiveImageStep ==
    ASSUME IInv, NEW last \in BOOLEAN, ReceiveImage(last) PROVE IInv'
<1>1. /\ phase = "receiving" /\ parts # <<>> /\ Head(parts).name = "image"
      /\ StoreChunk(IF last THEN Head(parts).image ELSE TornImage)
      /\ begun' = ~last /\ parts' = (IF last THEN Tail(parts) ELSE parts)
      /\ UNCHANGED <<dbvars, response, promised>>
      /\ UNCHANGED <<phase, handler, sent, xx_image_label, xx_image_filename>>
  BY DEF ReceiveImage
<1>2. /\ Head(parts) \in Part /\ Head(parts) = parts[1] /\ 1 \in 1..Len(parts)
      /\ Tail(parts) \in Seq(Part) /\ PartsAreSent(Tail(parts), sent)
      /\ Tail(parts) \in Rests
      /\ ~Has(Tail(parts), "image")
      /\ Has(parts, "label") => Has(Tail(parts), "label")
  <2>1. "label" # Head(parts).name
    BY <1>1
  <2> QED
    BY <1>1, <2>1, RestOfParts DEF IInv
<1>3. Has(parts, "image")
  BY <1>1, <1>2 DEF Has
<1>4. Head(parts).image = sent.image /\ Head(parts).image \in FeatureSets
  BY <1>1, <1>2 DEF IInv, UploadIsSound, PartsAreSent, Part
<1>5. /\ xx_image_file' = TRUE
      /\ image_files' \in [Exts -> FeatureSets \union {NoImage, TornImage}]
      /\ last => image_files'[xx_image_filename] = Head(parts).image
  <2>1. CASE last
    <3>1. StoreChunk(Head(parts).image)
      BY <1>1, <2>1
    <3> QED
      BY <1>3, <1>4, <2>1, <3>1, StoresChunk
  <2>2. CASE ~last
    <3>1. StoreChunk(TornImage)
      BY <1>1, <2>2
    <3> QED
      BY <1>3, <2>2, <3>1, StoresChunk
  <2> QED
    BY <2>1, <2>2
<1>6. TypesOK'
  <2>1. parts' \in Seq(Part)
        /\ parts' \in Rests
    BY <1>1, <1>2 DEF IInv, TypesOK
  <2>2. begun' \in BOOLEAN /\ xx_image_file' \in BOOLEAN
    BY <1>1, <1>5
  <2> QED
    BY <1>1, <1>5, <2>1, <2>2 DEF IInv, TypesOK
<1>7. UploadIsSound'
  <2>1. CASE last
    BY <1>1, <1>2, <1>4, <1>5, <2>1, NextUpload DEF IInv, UploadIsSound, ReceivedIsSent
  <2>2. CASE ~last
    BY <1>1, <1>3, <2>2, NextUpload DEF IInv, UploadIsSound, ReceivedIsSent
  <2> QED
    BY <2>1, <2>2
<1>8. phase' \in {"receiving", "processing"}
  BY <1>1
<1> QED
  BY <1>1, <1>6, <1>7, <1>8, StillUnanswered DEF IInv

LEMMA PiecesOfLabels ==
    ASSUME NEW label \in Labels, NEW l
    PROVE  /\ l \in LastChunkOf(label) => l \in ClientLabels
           /\ l \in {JunkLabel} \union Pieces[label] => l \in ClientLabels
<1>1. Pieces[label] \subseteq Labels
  BY PiecesAssumption
<1> QED
  BY <1>1 DEF LastChunkOf, ClientLabels, DB!ClientLabels, DB!Unreadable

LEMMA ReceiveLabelStep == ASSUME IInv, ReceiveLabel PROVE IInv'
<1>1. /\ phase = "receiving" /\ parts # <<>> /\ Head(parts).name = "label"
      /\ xx_image_label' \in LastChunkOf(Head(parts).label) /\ parts' = Tail(parts)
      /\ UNCHANGED <<dbvars, response, promised>>
      /\ UNCHANGED <<phase, handler, begun, sent, xx_image_file, xx_image_filename,
                     image_files>>
  BY DEF ReceiveLabel
<1>2. /\ Head(parts) \in Part /\ Head(parts) = parts[1] /\ 1 \in 1..Len(parts)
      /\ Tail(parts) \in Seq(Part) /\ PartsAreSent(Tail(parts), sent)
      /\ Tail(parts) \in Rests
      /\ Has(Tail(parts), "image") <=> Has(parts, "image")
  <2>1. "image" # Head(parts).name
    BY <1>1
  <2> QED
    BY <1>1, <2>1, RestOfParts DEF IInv
<1>3. Head(parts).label = sent.label /\ Head(parts).label \in Labels
  BY <1>1, <1>2 DEF IInv, UploadIsSound, PartsAreSent, Part
<1>4. xx_image_label' \in ClientLabels
  BY <1>1, <1>3, PiecesOfLabels
<1>5. TypesOK'
  BY <1>1, <1>2, <1>4 DEF IInv, TypesOK
<1>6. UploadIsSound'
  BY <1>1, <1>2, <1>3, NextUpload
  DEF IInv, UploadIsSound, FirstChunkOpens, ReceivedIsSent
<1>7. phase' \in {"receiving", "processing"}
  BY <1>1
<1> QED
  BY <1>1, <1>5, <1>6, <1>7, StillUnanswered DEF IInv

LEMMA LoseRestStep == ASSUME IInv, LoseRest PROVE IInv'
<1>1. /\ phase = "receiving" /\ parts # <<>> /\ phase' = "processing" /\ parts' = <<>>
      /\ sent' = [sent EXCEPT !.intact = FALSE]
      /\ UNCHANGED <<dbvars, response, promised>>
      /\ UNCHANGED <<handler, begun, xx_image_filename>>
  BY DEF LoseRest
<1>2. Head(parts) \in Part /\ Head(parts) = parts[1] /\ 1 \in 1..Len(parts)
  BY <1>1, RestOfParts DEF IInv
<1>3. sent' \in Sent /\ sent'.intact = FALSE
  <2>1. sent \in Sent /\ FALSE \in BOOLEAN
    BY DEF IInv, TypesOK
  <2> QED
    BY <1>1, <2>1 DEF Sent
<1>4. /\ xx_image_file' \in BOOLEAN /\ xx_image_label' \in ClientLabels
      /\ image_files' \in [Exts -> FeatureSets \union {NoImage, TornImage}]
  <2>1. /\ xx_image_file \in BOOLEAN /\ xx_image_label \in ClientLabels
        /\ image_files \in [Exts -> FeatureSets \union {NoImage, TornImage}]
    BY DEF IInv, TypesOK
  <2>2. CASE Head(parts).name = "image" /\ StoreChunk(TornImage) /\ UNCHANGED xx_image_label
    <3>1. Has(parts, "image")
      BY <1>2, <2>2 DEF Has
    <3> QED
      BY <2>1, <2>2, <3>1, StoresChunk
  <2>3. CASE /\ Head(parts).name = "label"
             /\ xx_image_label' \in {JunkLabel} \union Pieces[Head(parts).label]
             /\ UNCHANGED <<xx_image_file, image_files>>
    <3>1. Head(parts).label \in Labels
      BY <1>2, <2>3 DEF Part
    <3> QED
      BY <2>1, <2>3, <3>1, PiecesOfLabels
  <2>4. CASE UNCHANGED <<xx_image_label, xx_image_file, image_files>>
    BY <2>1, <2>4
  <2> QED
    BY <2>2, <2>3, <2>4 DEF LoseRest
<1>5. /\ Sound' /\ PcFollowsPhase' /\ FileKeepsPromises' /\ MemoryKeepsPromises'
      /\ AddedIsSent' /\ AnswerIsLast' /\ OkHasSaved'
      /\ phase' \in Phases
      /\ response' \in [handler: {"none", "add", "del", "match"},
                        status: {0, 200, 400, 500}]
      /\ promised' \in [ClientLabels -> FeatureSets \union {NoImage, InDoubt}]
  BY <1>1, StillUnanswered
<1>6. TypesOK'
  BY <1>1, <1>3, <1>4, <1>5, NoParts DEF IInv, TypesOK
<1>7. UploadIsSound'
  BY <1>1, <1>3, NoParts, NextUpload
<1> QED
  BY <1>5, <1>6, <1>7 DEF IInv

LEMMA FinishReceivingStep == ASSUME IInv, FinishReceiving PROVE IInv'
<1>1. /\ phase = "receiving" /\ parts = <<>> /\ phase' = "processing"
      /\ UNCHANGED <<dbvars, response, promised>> /\ UNCHANGED request /\ UNCHANGED uploads
  BY DEF FinishReceiving
<1>2. /\ Sound' /\ PcFollowsPhase' /\ FileKeepsPromises' /\ MemoryKeepsPromises'
      /\ AddedIsSent' /\ AnswerIsLast' /\ OkHasSaved' /\ phase' \in Phases
  BY <1>1, StillUnanswered
<1>3. TypesOK'
  BY <1>1, <1>2 DEF IInv, TypesOK, request, uploads
<1>4. UploadIsSound'
  BY <1>1, NextUpload
  DEF IInv, UploadIsSound, FirstChunkOpens, ReceivedIsSent, request, uploads
<1> QED
  BY <1>2, <1>3, <1>4 DEF IInv

-----------------------------------------------------------------------------
(* The change and the save.                                                *)

LEMMA WhatIsDecoded ==
    ASSUME TypesOK, NEW fs \in Decoded
    PROVE  /\ fs \in FeatureSets
           /\ image_files[xx_image_filename] \in FeatureSets =>
                fs = image_files[xx_image_filename]
<1>1. image_files[xx_image_filename] \in FeatureSets \union {NoImage, TornImage}
  BY DEF TypesOK
<1> QED
  BY <1>1, UploadsAssumption DEF Decoded

LEMMA AddImageStep == ASSUME IInv, AddImage PROVE IInv'
<1>1. /\ phase = "processing" /\ handler = "add" /\ phase' = "changed"
      /\ UNCHANGED <<request, uploads, promised>> /\ UNCHANGED response
  BY DEF AddImage
<1>2. PICK fs \in Decoded : DB!AddImageFeatures(xx_image_label, fs)
  BY DEF AddImage
<1>3. fs \in FeatureSets /\ xx_image_label \in ClientLabels
  BY WhatIsDecoded DEF IInv, TypesOK
<1>4. /\ Sound' /\ UNCHANGED <<m_filename, disk, pc>> /\ pc = "idle"
      /\ Saved' = Saved /\ Readable' = Readable
      /\ m_filename => Live' = [Live EXCEPT ![xx_image_label] = fs]
  BY <1>2, <1>3, Adds DEF IInv
<1>5. m_filename => Live \in [ClientLabels -> FeatureSets \union {NoImage}]
  BY MapTypes DEF IInv
<1>6. TypesOK' /\ UploadIsSound' /\ AnswerIsLast' /\ OkHasSaved'
  BY <1>1, RequestKept DEF IInv, Phases
<1>7. UNCHANGED <<xx_image_label, sent>>
  BY <1>1 DEF request, uploads
<1>8. ASSUME sent.intact, sent.image # NoImage
      PROVE  xx_image_label \in LastChunkOf(sent.label) /\ fs = sent.image
  <2>1. parts = <<>> /\ ReceivedIsSent
    BY <1>1 DEF IInv, UploadIsSound, NothingLeft
  <2>2. /\ image_files[xx_image_filename] = sent.image
        /\ xx_image_label \in LastChunkOf(sent.label)
    BY <1>1, <1>8, <2>1, NoParts DEF ReceivedIsSent
  <2>3. sent.image \in FeatureSets
    BY <1>8 DEF IInv, TypesOK, Sent
  <2> QED
    BY <2>2, <2>3, WhatIsDecoded DEF IInv
<1>9. AddedIsSent'
  BY <1>3, <1>4, <1>5, <1>7, <1>8 DEF AddedIsSent, LastChunkOf
<1>10. MemoryKeepsPromises'
  BY <1>1, <1>4, <1>5, <1>7 DEF IInv, MemoryKeepsPromises, Changing
<1>11. FileKeepsPromises' /\ PcFollowsPhase'
  BY <1>1, <1>4 DEF IInv, FileKeepsPromises, PcFollowsPhase
<1> QED
  BY <1>4, <1>6, <1>9, <1>10, <1>11 DEF IInv

LEMMA DelImageStep == ASSUME IInv, DelImage PROVE IInv'
<1>1. /\ phase = "processing" /\ handler = "del" /\ phase' = "changed"
      /\ DB!RemoveImage(xx_image_label)
      /\ UNCHANGED <<request, uploads, promised>> /\ UNCHANGED response
  BY DEF DelImage
<1>2. xx_image_label \in ClientLabels
  BY DEF IInv, TypesOK
<1>3. /\ Sound' /\ UNCHANGED <<m_filename, disk, pc>> /\ pc = "idle"
      /\ Saved' = Saved /\ Readable' = Readable
      /\ m_filename => Live' = [Live EXCEPT ![xx_image_label] = NoImage]
  BY <1>1, <1>2, Removes DEF IInv
<1>4. m_filename => Live \in [ClientLabels -> FeatureSets \union {NoImage}]
  BY MapTypes DEF IInv
<1>5. TypesOK' /\ UploadIsSound' /\ AnswerIsLast' /\ OkHasSaved'
  BY <1>1, RequestKept DEF IInv, Phases
<1>6. UNCHANGED <<xx_image_label, handler>>
  BY <1>1 DEF request, uploads
<1>7. AddedIsSent'
  BY <1>1, <1>6 DEF AddedIsSent
<1>8. MemoryKeepsPromises'
  BY <1>1, <1>3, <1>4, <1>6 DEF IInv, MemoryKeepsPromises, Changing
<1>9. FileKeepsPromises' /\ PcFollowsPhase'
  BY <1>1, <1>3 DEF IInv, FileKeepsPromises, PcFollowsPhase
<1> QED
  BY <1>3, <1>5, <1>7, <1>8, <1>9 DEF IInv

LEMMA RefuseImageStep == ASSUME IInv, RefuseImage PROVE IInv'
<1>1. /\ phase = "processing" /\ handler \in {"add", "del", "match"}
      /\ Answer(handler, Failure(handler)) /\ UNCHANGED <<dbvars, promised>>
      /\ UNCHANGED uploads
  BY DEF RefuseImage
<1>2. promised' \in [ClientLabels -> FeatureSets \union {NoImage, InDoubt}]
  BY <1>1 DEF IInv, TypesOK
<1>3. Failure(handler) \in {400, 500}
  BY FailureStatus
<1>4. /\ TypesOK' /\ UploadIsSound' /\ AnswerIsLast'
      /\ phase' = "accept" /\ response'.status \in {400, 500}
  BY <1>1, <1>2, <1>3, Answered DEF IInv
<1>5. OkHasSaved'
  BY <1>4 DEF OkHasSaved
<1>6. Sound' /\ PcFollowsPhase' /\ FileKeepsPromises' /\ MemoryKeepsPromises'
      /\ AddedIsSent'
  BY <1>1, <1>4, NothingChanged
<1> QED
  BY <1>4, <1>5, <1>6 DEF IInv

LEMMA MatchImageStep == ASSUME IInv, MatchImage PROVE IInv'
<1>1. /\ phase = "processing" /\ Answer("match", 200) /\ UNCHANGED uploads
      /\ promised' = promised /\ \E hits \in SUBSET DB!CurrentTree : DB!Match(hits)
  BY DEF MatchImage
<1>2. promised' \in [ClientLabels -> FeatureSets \union {NoImage, InDoubt}]
  BY <1>1 DEF IInv, TypesOK
<1>3. /\ TypesOK' /\ UploadIsSound' /\ AddedIsSent' /\ AnswerIsLast'
      /\ phase' = "accept" /\ response'.handler = "match"
  BY <1>1, <1>2, Answered DEF IInv
<1>4. /\ Sound' /\ UNCHANGED <<m_filename, pc>> /\ pc = "idle"
      /\ Saved' = Saved /\ Readable' = Readable /\ (m_filename => Live' = Live)
  BY <1>1, Stutters DEF IInv
<1>5. OkHasSaved' /\ PcFollowsPhase'
  BY <1>3, <1>4 DEF OkHasSaved, PcFollowsPhase
<1>6. FileKeepsPromises'
  BY <1>1, <1>4 DEF IInv, FileKeepsPromises
<1>7. MemoryKeepsPromises'
  BY <1>1, <1>4 DEF IInv, MemoryKeepsPromises, Changing
<1> QED
  BY <1>3, <1>4, <1>5, <1>6, <1>7 DEF IInv

LEMMA SaveBeginsStep == ASSUME IInv, SaveBegins PROVE IInv'
<1>1. /\ phase = "changed" /\ phase' = "saving" /\ DB!SaveBegins
      /\ UNCHANGED <<request, uploads, promised>> /\ UNCHANGED response
  BY DEF SaveBegins
<1>2. Sound' /\ UNCHANGED m_filename /\ pc' = "saving" /\ ~Readable' /\ Live' = Live
  BY <1>1, BeginsSave DEF IInv
<1>3. TypesOK' /\ UploadIsSound' /\ AnswerIsLast' /\ OkHasSaved'
  BY <1>1, RequestKept DEF IInv, Phases
<1>4. UNCHANGED <<xx_image_label, handler, sent>>
  BY <1>1 DEF request, uploads
<1>5. AddedIsSent' /\ PcFollowsPhase'
  BY <1>1, <1>2, <1>4 DEF IInv, AddedIsSent, Changing, PcFollowsPhase, LastChunkOf
<1>6. MemoryKeepsPromises' /\ FileKeepsPromises'
  BY <1>1, <1>2, <1>4 DEF IInv, MemoryKeepsPromises, FileKeepsPromises, Changing
<1> QED
  BY <1>2, <1>3, <1>5, <1>6 DEF IInv

\* Nothing is owed any more to the label of a failed change, and the others
\* were not touched.
LEMMA Unsaved ==
    ASSUME IInv, Changing, AnswerUnsaved, UNCHANGED m_filename, Live' = Live
    PROVE  /\ TypesOK' /\ UploadIsSound' /\ AddedIsSent' /\ AnswerIsLast' /\ OkHasSaved'
           /\ phase' = "accept" /\ MemoryKeepsPromises'
           /\ \A l \in ClientLabels : l # xx_image_label => promised'[l] = promised[l]
           /\ promised'[xx_image_label] = InDoubt
<1>1. /\ Answer(handler, Failure(handler)) /\ UNCHANGED uploads
      /\ promised' = [promised EXCEPT ![xx_image_label] = InDoubt]
  BY DEF AnswerUnsaved
<1>2. /\ promised \in [ClientLabels -> FeatureSets \union {NoImage, InDoubt}]
      /\ xx_image_label \in ClientLabels /\ handler \in {"none", "add", "del", "match"}
  BY DEF IInv, TypesOK
<1>3. /\ promised' \in [ClientLabels -> FeatureSets \union {NoImage, InDoubt}]
      /\ \A l \in ClientLabels : l # xx_image_label => promised'[l] = promised[l]
      /\ promised'[xx_image_label] = InDoubt
  BY <1>1, <1>2
<1>4. /\ TypesOK' /\ UploadIsSound' /\ AddedIsSent' /\ AnswerIsLast'
      /\ phase' = "accept" /\ response'.status \in {400, 500}
  BY <1>1, <1>2, <1>3, FailureStatus, Answered DEF IInv
<1>5. OkHasSaved'
  BY <1>4 DEF OkHasSaved
<1>6. MemoryKeepsPromises'
  BY <1>3 DEF IInv, MemoryKeepsPromises
<1> QED
  BY <1>3, <1>4, <1>5, <1>6

LEMMA CannotSaveStep == ASSUME IInv, CannotSave PROVE IInv'
<1>1. phase = "changed" /\ AnswerUnsaved /\ UNCHANGED dbvars
  BY DEF CannotSave
<1>2. /\ Sound' /\ UNCHANGED <<m_filename, pc>>
      /\ Live' = Live /\ Saved' = Saved /\ Readable' = Readable
  BY <1>1, Quiet DEF IInv
<1>3. /\ TypesOK' /\ UploadIsSound' /\ AddedIsSent' /\ AnswerIsLast' /\ OkHasSaved'
      /\ phase' = "accept" /\ MemoryKeepsPromises'
      /\ \A l \in ClientLabels : l # xx_image_label => promised'[l] = promised[l]
      /\ promised'[xx_image_label] = InDoubt
  BY <1>1, <1>2, Unsaved DEF Changing
<1>4. FileKeepsPromises'
  BY <1>2, <1>3 DEF IInv, FileKeepsPromises
<1>5. PcFollowsPhase'
  BY <1>1, <1>2, <1>3 DEF IInv, PcFollowsPhase
<1> QED
  BY <1>2, <1>3, <1>4, <1>5 DEF IInv

LEMMA SaveFailsStep == ASSUME IInv, SaveFails PROVE IInv'
<1>1. phase = "saving" /\ DB!SaveFails /\ AnswerUnsaved
  BY DEF SaveFails
<1>2. /\ Sound' /\ UNCHANGED m_filename /\ m_filename /\ pc' = "idle" /\ Live' = Live
      /\ (Readable' => Saved' = Live)
  BY <1>1, FailsSave DEF IInv
<1>3. /\ TypesOK' /\ UploadIsSound' /\ AddedIsSent' /\ AnswerIsLast' /\ OkHasSaved'
      /\ phase' = "accept" /\ MemoryKeepsPromises'
      /\ \A l \in ClientLabels : l # xx_image_label => promised'[l] = promised[l]
      /\ promised'[xx_image_label] = InDoubt
  BY <1>1, <1>2, Unsaved DEF Changing
<1>4. FileKeepsPromises'
  BY <1>2, <1>3 DEF IInv, MemoryKeepsPromises, FileKeepsPromises
<1>5. PcFollowsPhase'
  BY <1>2, <1>3 DEF PcFollowsPhase
<1> QED
  BY <1>2, <1>3, <1>4, <1>5 DEF IInv

LEMMA SaveFinishesStep == ASSUME IInv, SaveFinishes PROVE IInv'
<1>1. /\ phase = "saving" /\ DB!SaveFinishes /\ Answer(handler, 200) /\ UNCHANGED uploads
      /\ promised' = [promised EXCEPT ![xx_image_label] = Live[xx_image_label]]
  BY DEF SaveFinishes
<1>2. /\ Sound' /\ UNCHANGED <<m_filename, m_labels, m_uncoalesced_features>>
      /\ m_filename /\ pc' = "idle" /\ Live' = Live
      /\ (Readable' => Saved' = Live)
      /\ (~Readable' => \E l \in DB!Unreadable : Live[l] # NoImage)
      /\ \A k \in 1..Len(m_uncoalesced_features) :
           NumFeatures[m_uncoalesced_features[k].features] > 0
  BY <1>1, FinishesSave DEF IInv
<1>3. /\ promised \in [ClientLabels -> FeatureSets \union {NoImage, InDoubt}]
      /\ xx_image_label \in ClientLabels /\ handler \in {"none", "add", "del", "match"}
      /\ Live \in [ClientLabels -> FeatureSets \union {NoImage}]
  BY <1>2, MapTypes DEF IInv, TypesOK
<1>4. /\ promised' \in [ClientLabels -> FeatureSets \union {NoImage, InDoubt}]
      /\ \A l \in ClientLabels : l # xx_image_label => promised'[l] = promised[l]
      /\ promised'[xx_image_label] = Live[xx_image_label]
  BY <1>1, <1>3
<1>5. /\ TypesOK' /\ UploadIsSound' /\ AddedIsSent' /\ AnswerIsLast'
      /\ phase' = "accept"
  BY <1>1, <1>3, <1>4, Answered DEF IInv
<1>6. OkHasSaved'
  BY <1>2 DEF OkHasSaved
<1>7. MemoryKeepsPromises'
  BY <1>2, <1>4 DEF IInv, MemoryKeepsPromises
<1>8. FileKeepsPromises'
  BY <1>2, <1>4 DEF IInv, MemoryKeepsPromises, FileKeepsPromises
<1>9. PcFollowsPhase'
  BY <1>2, <1>5 DEF PcFollowsPhase
<1> QED
  BY <1>2, <1>5, <1>6, <1>7, <1>8, <1>9 DEF IInv

LEMMA CrashStep == ASSUME IInv, Crash PROVE IInv'
<1>1. /\ phase # "down" /\ DB!Crash /\ phase' = "down" /\ response' = NoResponse
      /\ promised' = IF Changing THEN [promised EXCEPT ![xx_image_label] = InDoubt]
                     ELSE promised
      /\ HandlerReturns
      /\ xx_image_label' = EmptyLabel /\ xx_image_file' = FALSE
      /\ xx_image_filename' = NoExt
      /\ image_files' = IF phase = "receiving" /\ xx_image_file
                        THEN [image_files EXCEPT ![xx_image_filename] = TornImage]
                        ELSE image_files
  BY DEF Crash, Changing
<1>2. /\ Sound' /\ pc' = "down" /\ m_filename' = FALSE
      /\ (pc = "saving" => m_filename /\ (Readable' => Saved' = Live))
      /\ (pc # "saving" => Readable' = Readable /\ Saved' = Saved)
  BY <1>1, Dies DEF IInv
<1>3. /\ promised \in [ClientLabels -> FeatureSets \union {NoImage, InDoubt}]
      /\ image_files \in [Exts -> FeatureSets \union {NoImage, TornImage}]
      /\ xx_image_label \in ClientLabels /\ xx_image_filename \in Exts
  BY DEF IInv, TypesOK
<1>4. /\ UploadIsSound' /\ AddedIsSent' /\ handler' = "none" /\ begun' = FALSE
      /\ sent' \in Sent /\ parts' \in Seq(Part) /\ parts' \in Rests
  BY <1>1, Returned
<1>5. /\ promised' \in [ClientLabels -> FeatureSets \union {NoImage, InDoubt}]
      /\ image_files' \in [Exts -> FeatureSets \union {NoImage, TornImage}]
  BY <1>1, <1>3
<1>6. response' \in [handler: {"none", "add", "del", "match"}, status: {0, 200, 400, 500}]
  BY <1>1 DEF NoResponse
<1>7. xx_image_label' \in ClientLabels /\ xx_image_filename' \in Exts
  BY <1>1, UploadsAssumption DEF ClientLabels, DB!ClientLabels, DB!Unreadable
<1>8. TypesOK'
  BY <1>1, <1>4, <1>5, <1>6, <1>7 DEF TypesOK, Phases
<1>9. PcFollowsPhase' /\ AnswerIsLast' /\ OkHasSaved' /\ MemoryKeepsPromises'
  BY <1>1, <1>2 DEF PcFollowsPhase, AnswerIsLast, OkHasSaved, MemoryKeepsPromises
<1>10. FileKeepsPromises'
  <2>1. \A l \in ClientLabels :
          IF Changing /\ l = xx_image_label THEN promised'[l] = InDoubt
          ELSE promised'[l] = promised[l]
    BY <1>1, <1>3
  <2>2. CASE pc = "saving"
    BY <1>2, <2>1, <2>2 DEF IInv, MemoryKeepsPromises, FileKeepsPromises
  <2>3. CASE pc # "saving"
    BY <1>2, <2>1, <2>3 DEF IInv, FileKeepsPromises
  <2> QED
    BY <2>2, <2>3
<1> QED
  BY <1>2, <1>4, <1>8, <1>9, <1>10 DEF IInv

LEMMA StutterStep == ASSUME IInv, UNCHANGED vars PROVE IInv'
<1>1. UNCHANGED <<dbvars, phase, response, promised>> /\ UNCHANGED request
      /\ UNCHANGED uploads
  BY DEF vars
<1>2. /\ Sound' /\ UNCHANGED <<m_filename, disk, pc, m_uncoalesced_features>>
      /\ Live' = Live /\ Saved' = Saved /\ Readable' = Readable
  BY <1>1, Quiet DEF IInv
<1>3. TypesOK'
  BY <1>1 DEF IInv, TypesOK, request, uploads
<1>4. UploadIsSound'
  BY <1>1, NextUpload
  DEF IInv, UploadIsSound, FirstChunkOpens, ReceivedIsSent, NothingLeft, request, uploads
<1>5. PcFollowsPhase' /\ FileKeepsPromises' /\ AnswerIsLast' /\ OkHasSaved'
  BY <1>1, <1>2 DEF IInv, PcFollowsPhase, FileKeepsPromises, AnswerIsLast, OkHasSaved
<1>6. MemoryKeepsPromises' /\ AddedIsSent'
  BY <1>1, <1>2 DEF IInv, MemoryKeepsPromises, AddedIsSent, Changing, LastChunkOf, request,
                    uploads
<1> QED
  BY <1>2, <1>3, <1>4, <1>5, <1>6 DEF IInv

-----------------------------------------------------------------------------

LEMMA IInvInit == Init => IInv
<1> SUFFICES ASSUME Init PROVE IInv
  OBVIOUS
<1>1. DBP!Init
  BY SameInit DEF Init
<1>2. pc = "down" /\ m_filename = FALSE
  BY <1>1 DEF DBP!Init, DBP!Constructed
<1>3. Sound
  BY <1>1, <1>2, Assumptions, DBP!IInvInit DEF Sound, DBP!SavingEmptiedFile
<1>4. /\ phase = "down" /\ handler = "none" /\ parts = <<>> /\ begun = FALSE
      /\ sent = SentBy(<<>>) /\ xx_image_label = EmptyLabel /\ xx_image_file = FALSE
      /\ xx_image_filename = NoExt /\ image_files = [x \in Exts |-> NoImage]
      /\ response = NoResponse
      /\ promised = IF disk = NoFile THEN [l \in ClientLabels |-> NoImage] ELSE Saved
  BY DEF Init
<1>5. promised \in [ClientLabels -> FeatureSets \union {NoImage, InDoubt}]
      /\ (Readable => promised = Saved)
  BY <1>3, <1>4, MapTypes
<1>6. response \in [handler: {"none", "add", "del", "match"}, status: {0, 200, 400, 500}]
  BY <1>4 DEF NoResponse
<1>7. xx_image_label \in ClientLabels /\ xx_image_filename \in Exts
  BY <1>4, UploadsAssumption DEF ClientLabels, DB!ClientLabels, DB!Unreadable
<1>8. TypesOK
  BY <1>4, <1>5, <1>6, <1>7, NoParts DEF TypesOK, Phases
<1>9. UploadIsSound
  BY <1>4, NoParts DEF UploadIsSound, FirstChunkOpens, ReceivedIsSent, NothingLeft
<1>10. PcFollowsPhase /\ AddedIsSent /\ AnswerIsLast /\ OkHasSaved /\ MemoryKeepsPromises
  BY <1>2, <1>4 DEF PcFollowsPhase, AddedIsSent, Changing, AnswerIsLast, OkHasSaved,
                    MemoryKeepsPromises
<1>11. FileKeepsPromises
  BY <1>5 DEF FileKeepsPromises
<1> QED
  BY <1>3, <1>8, <1>9, <1>10, <1>11 DEF IInv

LEMMA IInvStep == IInv /\ [Next]_vars => IInv'
<1> SUFFICES ASSUME IInv, [Next]_vars PROVE IInv'
  OBVIOUS
<1>1. ASSUME NEW h \in {"add", "del", "match"}, RefuseRequest(h) PROVE IInv'
  BY <1>1, RefuseRequestStep
<1>2. ASSUME NEW h \in {"add", "del", "match"}, NEW body \in Bodies(h),
             AcceptRequest(h, body)
      PROVE  IInv'
  BY <1>2, AcceptRequestStep
<1>3. ASSUME NEW last \in BOOLEAN, ReceiveImage(last) PROVE IInv'
  BY <1>3, ReceiveImageStep
<1>4. CASE StartLoads
  BY <1>4, StartLoadsStep
<1>5. CASE StartCoalesces
  BY <1>5, StartCoalescesStep
<1>6. CASE ReceiveLabel
  BY <1>6, ReceiveLabelStep
<1>7. CASE LoseRest
  BY <1>7, LoseRestStep
<1>8. CASE FinishReceiving
  BY <1>8, FinishReceivingStep
<1>9. CASE AddImage
  BY <1>9, AddImageStep
<1>10. CASE DelImage
  BY <1>10, DelImageStep
<1>11. CASE RefuseImage
  BY <1>11, RefuseImageStep
<1>12. CASE MatchImage
  BY <1>12, MatchImageStep
<1>13. CASE SaveBegins
  BY <1>13, SaveBeginsStep
<1>14. CASE CannotSave
  BY <1>14, CannotSaveStep
<1>15. CASE SaveFails
  BY <1>15, SaveFailsStep
<1>16. CASE SaveFinishes
  BY <1>16, SaveFinishesStep
<1>17. CASE Crash
  BY <1>17, CrashStep
<1>18. CASE UNCHANGED vars
  BY <1>18, StutterStep
<1> QED
  BY <1>1, <1>2, <1>3, <1>4, <1>5, <1>6, <1>7, <1>8, <1>9, <1>10, <1>11, <1>12, <1>13,
     <1>14, <1>15, <1>16, <1>17, <1>18
  DEF Next, ServerStep

\* What the theorems below rest on: the database and its file are sound, memory
\* and file owe the answered requests what they promised, and the upload holds
\* what was sent of it so far.
THEOREM InductiveInvariant == Spec => []IInv
<1> QED
  BY IInvInit, IInvStep, PTL DEF Spec

-----------------------------------------------------------------------------
(* The theorems.                                                           *)

\* Every variable of the server stays in its type (DBServer.cpp:53-61), for any
\* labels, pictures and extensions.
THEOREM TypeCorrect == Spec => []TypeOK
<1>1. IInv => TypeOK
  <2> SUFFICES ASSUME IInv PROVE TypeOK
    OBVIOUS
  <2>1. DBP!TypeOK
    BY DEF IInv, Sound, DBP!IInv
  <2>2. DB!TypeOK
    BY <2>1, SameSets DEF DB!TypeOK, DBP!TypeOK
  <2>3. TypesOK
    BY DEF IInv
  <2>4. \E body \in Bodies("add"), k \in 1..3 : parts = SubSeq(body, k, Len(body))
    BY <2>3 DEF TypesOK, Rests, RestsOf
  <2> QED
    BY <2>2, <2>3, <2>4 DEF TypeOK, TypesOK, Sent
<1> QED
  BY <1>1, InductiveInvariant, PTL

\* An add or a del answered 200 is in the file with all the rest of memory
\* (DBServer.cpp:393-394, 482-483), but for a label that load cannot read back.
THEOREM OkSaved == Spec => []OkMeansSaved
<1>1. IInv => OkMeansSaved
  <2> SUFFICES ASSUME IInv, phase = "accept", response.status = 200,
                      response.handler # "match"
               PROVE  \/ \E l \in DB!Unreadable : DB!label_exists(l)
                      \/ DB!Loadable(disk) /\ Saved = Live
    BY DEF OkMeansSaved
  <2>1. (\E l \in DB!Unreadable : Live[l] # NoImage) \/ (Readable /\ Saved = Live)
    BY DEF IInv, OkHasSaved
  <2>2. Readable => DB!Loadable(disk)
    BY SameFiles DEF Readable
  <2>3. ASSUME NEW l \in DB!Unreadable, Live[l] # NoImage PROVE DB!label_exists(l)
    <3>1. l \in DB!ClientLabels
      BY DEF DB!ClientLabels
    <3> QED
      BY <2>3, <3>1 DEF Live, DB!ImagesOf, DB!label_exists
  <2> QED
    BY <2>1, <2>2, <2>3
<1> QED
  BY <1>1, InductiveInvariant, PTL

\* A file that loads has, through any number of failed saves and crashes
\* (ImageDB.cpp:320-351), what the last answered request about a label left.
THEOREM PromisesKept == Spec => []ReadableFileKeepsPromises
<1>1. IInv => ReadableFileKeepsPromises
  BY SameFiles DEF IInv, FileKeepsPromises, ReadableFileKeepsPromises, Readable
<1> QED
  BY <1>1, InductiveInvariant, PTL

\* While one image without features is in memory no add or del is answered 200
\* (imgfeatures.c:833), however large the database.
THEOREM OkHasFeatures == Spec => []OkMeansAllImagesHaveFeatures
<1>1. IInv => OkMeansAllImagesHaveFeatures
  BY DEF IInv, OkHasSaved, OkMeansAllImagesHaveFeatures
<1> QED
  BY <1>1, InductiveInvariant, PTL

\* The shared upload file and globals (DBServer.cpp:53-55) never mix two
\* requests: what an intact add stores is its own picture and label.
THEOREM StoredIsSent == Spec => []AddStoresWhatWasSent
<1>1. IInv => AddStoresWhatWasSent
  <2> SUFFICES ASSUME IInv, phase = "saving", handler = "add", sent.intact,
                      sent.image # NoImage
               PROVE  /\ Live[xx_image_label] = sent.image
                      /\ xx_image_label # sent.label =>
                           sent.label \in LongLabels /\ xx_image_label \in Pieces[sent.label]
    BY DEF AddStoresWhatWasSent
  <2>1. pc = "saving"
    BY DEF IInv, PcFollowsPhase
  <2>2. m_filename
    BY <2>1 DEF IInv, Sound, DBP!IInv
  <2>3. /\ xx_image_label \in LastChunkOf(sent.label)
        /\ Live[xx_image_label] = sent.image
    BY <2>2 DEF IInv, AddedIsSent, Changing
  <2> QED
    BY <2>3 DEF LastChunkOf
<1> QED
  BY <1>1, InductiveInvariant, PTL

\* Without a file name (ImageDB.cpp:322) the server changes no file and answers
\* no add or del with 200.
THEOREM UnloadedOnlyMatches == Spec => UnloadedServerOnlyMatches
<1> DEFINE Quietly ==
      phase # "down" /\ phase' # "down" /\ ~m_filename' =>
        /\ disk' = disk
        /\ response' # response => response'.status # 200 \/ response'.handler = "match"
<1>1. ASSUME IInv, [Next]_vars PROVE Quietly \/ UNCHANGED vars
  <2> SUFFICES ASSUME Next, phase # "down", phase' # "down", ~m_filename'
               PROVE  /\ disk' = disk
                      /\ response' # response =>
                           response'.status # 200 \/ response'.handler = "match"
    BY <1>1
  <2> USE <1>1
  <2>1. ASSUME NEW h \in {"add", "del", "match"}, RefuseRequest(h)
        PROVE  disk' = disk /\ response'.status # 200
    BY <2>1 DEF RefuseRequest, Answer, dbvars
  <2>2. ASSUME NEW h, NEW body, AcceptRequest(h, body)
        PROVE  disk' = disk /\ response'.status # 200
    BY <2>2 DEF AcceptRequest, NoResponse, dbvars
  <2>3. ~StartLoads /\ ~Crash
    BY DEF StartLoads, Crash
  <2>4. ASSUME StartCoalesces PROVE disk' = disk /\ response' = response
    BY <2>4, Stutters DEF StartCoalesces, IInv
  <2>5. ASSUME (\E last \in BOOLEAN : ReceiveImage(last)) \/ ReceiveLabel \/ LoseRest
                 \/ FinishReceiving
        PROVE  disk' = disk /\ response' = response
    BY <2>5 DEF ReceiveImage, ReceiveLabel, LoseRest, FinishReceiving, dbvars
  <2>6. ASSUME AddImage PROVE disk' = disk /\ response' = response
    BY <2>6 DEF AddImage, DB!AddImageFeatures
  <2>7. ASSUME DelImage PROVE disk' = disk /\ response' = response
    BY <2>7 DEF DelImage, DB!RemoveImage
  <2>8. ASSUME RefuseImage PROVE disk' = disk /\ response'.status # 200
    BY <2>8, FailureStatus DEF RefuseImage, Answer, dbvars
  <2>9. ASSUME MatchImage PROVE disk' = disk /\ response'.handler = "match"
    BY <2>9, Stutters DEF MatchImage, Answer, IInv
  <2>10. ~SaveBegins
    BY BeginsSave DEF SaveBegins, IInv
  <2>11. ASSUME CannotSave PROVE disk' = disk /\ response'.status # 200
    BY <2>11, FailureStatus DEF CannotSave, AnswerUnsaved, Answer, dbvars
  <2>12. ~SaveFails
    BY FailsSave DEF SaveFails, IInv
  <2>13. ~SaveFinishes
    BY FinishesSave DEF SaveFinishes, IInv
  <2> QED
    BY <2>1, <2>2, <2>3, <2>4, <2>5, <2>6, <2>7, <2>8, <2>9, <2>10, <2>11, <2>12, <2>13
    DEF Next, ServerStep
<1> QED
  BY <1>1, InductiveInvariant, PTL DEF Spec, UnloadedServerOnlyMatches, Quietly

=============================================================================

------------------------------- MODULE ImageDB -------------------------------
(***************************************************************************)
(* The image database: class ImageDB, engine/src/ImageDB.{hpp,cpp}, with   *)
(* the feature import and export of engine/src/imgfeatures.c it saves and  *)
(* loads through.  One process holds one ImageDB object in memory and one  *)
(* file on disk.  The public methods are the actions; a client (the        *)
(* server, the command line tools) decides their order.                    *)
(*                                                                         *)
(* Abstractions.  A feature array is a model value of FeatureSets, of      *)
(* which only the number of features is known.  A label is the decimal     *)
(* text of a number (the web site labels an image with its note id), the   *)
(* empty text, or junk, where one value stands for every text nobody       *)
(* chose.  An int or unsigned id is bounded by MaxId, which a guard of     *)
(* AddImageFeatures enforces.  A file is the sequence of its records;      *)
(* stdio buffers, so what reached the disk when a save stops is any prefix *)
(* of them.  A load that has lost its place in the file fails.             *)
(***************************************************************************)
EXTENDS Integers, Sequences, FiniteSets

CONSTANTS
    MaxId,         \* bound on image ids (unsigned long m_id_counter)
    Labels,        \* labels clients use, each the text of a number
    EmptyLabel,    \* the label "", what a request without a label part leaves
    JunkLabel,     \* part of a file, or a torn label part with its line break
    NoLabel,       \* the id is not a key of m_labels
    FeatureSets,   \* results of sift_features
    NumFeatures,   \* how many features each of them has
    NoFile,        \* there is nothing at the database path
    NoImage        \* in properties: no image under that label

Ids == 0..MaxId
LabelText == Ids \union {EmptyLabel, JunkLabel}
\* The format of the file has a line for each label: one that is empty or has
\* a line break in it is written all the same.
Unreadable == {EmptyLabel, JunkLabel}
ClientLabels == Labels \union Unreadable

ASSUME MaxIdAssumption == MaxId \in Nat
ASSUME LabelsAssumption ==
    /\ Labels \subseteq Ids
    /\ {EmptyLabel, JunkLabel, NoLabel} \intersect Ids = {}
    /\ EmptyLabel # JunkLabel /\ EmptyLabel # NoLabel /\ JunkLabel # NoLabel
ASSUME FeaturesAssumption ==
    NumFeatures \in [FeatureSets -> Nat] /\ NoImage \notin FeatureSets

VARIABLES
    m_labels,                \* std::map id -> label
    m_uncoalesced_features,  \* vector of FeatureInfo, in order of insertion
    m_kd_tree,               \* the images whose features the tree indexes
    m_need_to_coalesce,      \* the tree does not reflect the vector
    m_id_counter,            \* the id the next image gets
    m_filename,              \* a load succeeded, so save() knows its path
    disk,                    \* the file at that path
    pc                       \* "down", "idle", or "saving" (inside save)

memory == <<m_labels, m_uncoalesced_features, m_kd_tree, m_need_to_coalesce,
            m_id_counter, m_filename>>
vars == <<memory, disk, pc>>

FeatureInfo == [id: Ids, features: FeatureSets]
LabelMap == [Ids -> LabelText \union {NoLabel}]
File == [count: {-1} \union Nat, labels: LabelMap, feats: Seq(FeatureInfo)]
ASSUME NoFileAssumption == NoFile \notin File

-----------------------------------------------------------------------------
(* The maps and the vector.                                                *)

NoLabels == [i \in Ids |-> NoLabel]
Keys(labels) == {i \in Ids : labels[i] # NoLabel}
HasId(feats, id) == \E k \in 1..Len(feats) : feats[k].id = id

\* Mutant of the next: erases the last element instead of the found one.
WithoutLast(feats, k) == SubSeq(feats, 1, Len(feats) - 1)

WithoutAt(feats, k) ==
    [j \in 1..(Len(feats) - 1) |-> IF j < k THEN feats[j] ELSE feats[j + 1]]

label_exists(label) == \E id \in Ids : m_labels[id] = label

\* std::map iterates in the order of its keys: the first of them is the least.
IsFirstIdFor(id, label) ==
    /\ m_labels[id] = label
    /\ \A j \in Ids : j < id => m_labels[j] # label

IsFirstInfo(k, id) ==
    /\ m_uncoalesced_features[k].id = id
    /\ \A j \in 1..(k - 1) : m_uncoalesced_features[j].id # id

\* An image without features leaves nothing in the coalesced array.
Coalesced(feats) ==
    {r \in {feats[k] : k \in 1..Len(feats)} : NumFeatures[r.features] > 0}

\* Mutant of the next: takes the tree to be built when it is not.
StaleTree == m_kd_tree

CurrentTree ==
    IF m_need_to_coalesce THEN Coalesced(m_uncoalesced_features) ELSE m_kd_tree

\* label_for_id is m_labels[id]: operator[] inserts "" under a missing key.
LabelsAfterLookup(hits) ==
    [i \in Ids |-> IF m_labels[i] = NoLabel /\ \E r \in hits : r.id = i
                   THEN EmptyLabel ELSE m_labels[i]]

MatchedLabels(hits) == {LabelsAfterLookup(hits)[r.id] : r \in hits}

-----------------------------------------------------------------------------
(* The file.                                                               *)

FileOf(labels, feats) ==
    [count |-> Cardinality(Keys(labels)), labels |-> labels, feats |-> feats]

TruncatedFile == [count |-> -1, labels |-> NoLabels, feats |-> <<>>]

\* The header stops after the entry of some id, perhaps inside its label.
HeaderCuts(labels) ==
    {[i \in Ids |-> IF i < b \/ (i = b /\ whole) THEN labels[i]
                    ELSE IF i = b /\ labels[i] \notin {NoLabel, EmptyLabel} THEN JunkLabel
                    ELSE NoLabel] : b \in Ids, whole \in BOOLEAN}

\* Mutant of the next: writes an image without features as any other.
ExportedAlways(feats) == 0..Len(feats)

\* export_features_*_f refuses an image without features; save stops there.
Exported(feats) ==
    {k \in 0..Len(feats) :
        \A j \in 1..k : NumFeatures[feats[j].features] > 0}

\* What may have reached the disk when a save of (labels, feats) stops.
Prefixes(labels, feats) ==
    LET count == Cardinality(Keys(labels)) IN
    {TruncatedFile}
      \union {[count |-> count, labels |-> h, feats |-> <<>>] :
                 h \in HeaderCuts(labels)}
      \union {[count |-> count, labels |-> labels, feats |-> SubSeq(feats, 1, k)] :
                 k \in Exported(feats)}

\* After an id load skips white space, so an empty label line is skipped and
\* from there on each id is taken for the label before it and each label for
\* an id; behind the last line of the header is feature data, if any.  Behind a
\* label with a line break there is no id, and load gives up.
TextAfter(labels, i) ==
    LET later == {j \in Keys(labels) : j > i}
    IN  IF later = {} THEN JunkLabel
        ELSE CHOOSE j \in later : \A m \in later : j <= m

Misread(f) ==
    LET e == CHOOSE i \in Ids : /\ f.labels[i] \in Unreadable
                               /\ \A j \in Ids : j < i => f.labels[j] \notin Unreadable
        inPlace(i) == i < e \/ f.labels[i] = JunkLabel
        key(i) == IF i <= e THEN i ELSE f.labels[i]
        text(i) == IF inPlace(i) THEN f.labels[i] ELSE TextAfter(f.labels, i)
        there(i) == inPlace(i) \/ f.feats # <<>> \/ \E j \in Keys(f.labels) : j > i
        reached(i) == \A j \in Ids : j < i => f.labels[j] # JunkLabel
        readers(k) == {i \in Keys(f.labels) : there(i) /\ reached(i) /\ key(i) = k}
    IN  [k \in Ids |-> IF readers(k) = {} THEN NoLabel
                       ELSE text(CHOOSE i \in readers(k) :
                                    \A j \in readers(k) : j <= i)]

HasUnreadable(labels) == \E i \in Ids : labels[i] \in Unreadable

LoadedLabels(f) == IF HasUnreadable(f.labels) THEN Misread(f) ELSE f.labels

\* Mutant of the next: looks at the header only.
LoadableByHeader(f) ==
    /\ f # NoFile
    /\ f.count # -1
    /\ ~HasUnreadable(f.labels)
    /\ Cardinality(Keys(f.labels)) = f.count

\* load returns true: as many entries and as many feature blocks as counted.
Loadable(f) ==
    /\ f # NoFile
    /\ f.count # -1
    /\ ~HasUnreadable(f.labels)
    /\ Cardinality(Keys(f.labels)) = f.count
    /\ Len(f.feats) >= f.count

\* Mutants of the next: the number of images; the id after the next.
CounterByCount(labels) == Cardinality(Keys(labels))
CounterSkipsOne(labels) ==
    CHOOSE n \in 2..(MaxId + 2) :
        /\ \A i \in Keys(labels) : i + 1 < n
        /\ n = 2 \/ (n - 2) \in Keys(labels)

\* max_id + 1, where max_id starts at 0.
CounterAfter(labels) ==
    CHOOSE n \in 1..(MaxId + 1) :
        /\ \A i \in Keys(labels) : i < n
        /\ n = 1 \/ (n - 1) \in Keys(labels)

-----------------------------------------------------------------------------
(* The methods.                                                            *)

TypeOK ==
    /\ m_labels \in LabelMap
    /\ m_uncoalesced_features \in Seq(FeatureInfo)
    /\ m_kd_tree \subseteq FeatureInfo
    /\ m_need_to_coalesce \in BOOLEAN
    /\ m_id_counter \in 0..(MaxId + 1)
    /\ m_filename \in BOOLEAN
    /\ disk \in File \union {NoFile}
    /\ pc \in {"down", "idle", "saving"}

Constructed ==
    /\ m_labels = NoLabels
    /\ m_uncoalesced_features = <<>>
    /\ m_kd_tree = {}
    /\ m_need_to_coalesce = TRUE
    /\ m_id_counter = 0
    /\ m_filename = FALSE

\* db-add made the file with its first image, or nobody made one.
DbAddFile(label, fs) ==
    FileOf([NoLabels EXCEPT ![0] = label], <<[id |-> 0, features |-> fs]>>)

Init ==
    /\ Constructed
    /\ pc = "down"
    /\ disk \in {NoFile} \union
                {DbAddFile(l, fs) : l \in Labels,
                                    fs \in {x \in FeatureSets : NumFeatures[x] > 0}}

\* load(path) where path is this file.  A bad one leaves what was read of it in
\* memory, and no file name.
ReadFails(file) ==
    /\ pc = "down"
    /\ ~Loadable(file)
    /\ pc' = "idle"
    /\ IF file = NoFile \/ file = TruncatedFile
       THEN UNCHANGED <<m_labels, m_uncoalesced_features>>
       ELSE /\ m_labels' = LoadedLabels(file)
            /\ m_uncoalesced_features' =
                 IF HasUnreadable(file.labels) THEN <<>> ELSE file.feats
    /\ UNCHANGED <<m_kd_tree, m_need_to_coalesce, m_id_counter, m_filename>>

ReadSucceeds(file) ==
    /\ pc = "down"
    /\ Loadable(file)
    /\ pc' = "idle"
    /\ m_labels' = file.labels
    /\ m_uncoalesced_features' = SubSeq(file.feats, 1, file.count)
    /\ m_filename' = TRUE
    /\ m_id_counter' = CounterAfter(file.labels)
    /\ m_need_to_coalesce' = TRUE
    /\ UNCHANGED m_kd_tree

LoadFails == ReadFails(disk) /\ UNCHANGED disk
LoadSucceeds == ReadSucceeds(disk) /\ UNCHANGED disk

Load == LoadFails \/ LoadSucceeds

AddImageFeatures(label, fs) ==
    /\ pc = "idle"
    /\ ~label_exists(label)
    /\ m_id_counter \in Ids                       \* the bound MaxId
    /\ m_id_counter' = m_id_counter + 1
    /\ m_labels' = [m_labels EXCEPT ![m_id_counter] = label]
    /\ m_uncoalesced_features' =
         Append(m_uncoalesced_features, [id |-> m_id_counter, features |-> fs])
    /\ m_need_to_coalesce' = TRUE
    /\ UNCHANGED <<m_kd_tree, m_filename, disk, pc>>

\* Mutant of the next: the tree is not marked as out of date.
RemoveImageQuietly(label) ==
    /\ pc = "idle"
    /\ \E id \in Ids :
         /\ IsFirstIdFor(id, label)
         /\ m_labels' = [m_labels EXCEPT ![id] = NoLabel]
         /\ \E k \in 1..Len(m_uncoalesced_features) :
              /\ IsFirstInfo(k, id)
              /\ m_uncoalesced_features' = WithoutAt(m_uncoalesced_features, k)
    /\ UNCHANGED <<m_kd_tree, m_need_to_coalesce, m_id_counter, m_filename, disk, pc>>

RemoveImage(label) ==
    /\ pc = "idle"
    /\ \E id \in Ids :
         /\ IsFirstIdFor(id, label)
         /\ m_labels' = [m_labels EXCEPT ![id] = NoLabel]
         /\ \/ \E k \in 1..Len(m_uncoalesced_features) :
                 /\ IsFirstInfo(k, id)
                 /\ m_uncoalesced_features' = WithoutAt(m_uncoalesced_features, k)
                 /\ m_need_to_coalesce' = TRUE
            \/ /\ ~HasId(m_uncoalesced_features, id)
               /\ UNCHANGED <<m_uncoalesced_features, m_need_to_coalesce>>
    /\ UNCHANGED <<m_kd_tree, m_id_counter, m_filename, disk, pc>>

Coalesce ==
    /\ pc = "idle"
    /\ m_kd_tree' = CurrentTree
    /\ m_need_to_coalesce' = FALSE
    /\ UNCHANGED <<m_labels, m_uncoalesced_features, m_id_counter, m_filename,
                   disk, pc>>

\* hits: the images the query's nearest features belong to.
Match(hits) ==
    /\ pc = "idle"
    /\ m_kd_tree' = CurrentTree
    /\ m_need_to_coalesce' = FALSE
    /\ m_labels' = LabelsAfterLookup(hits)
    /\ UNCHANGED <<m_uncoalesced_features, m_id_counter, m_filename, disk, pc>>

\* save(path): fopen(path, "w") truncates the file in place.
OpenForWriting ==
    /\ pc = "idle"
    /\ pc' = "saving"
    /\ disk' = TruncatedFile
    /\ UNCHANGED memory

\* Mutant of the next: saves without the file name of a load.
SaveBeginsAnyway == OpenForWriting

\* save(): the file name of the last load, or nothing to do.
SaveBegins == m_filename /\ OpenForWriting

\* Every image exported and fclose succeeded.
SaveFinishes ==
    /\ pc = "saving"
    /\ Len(m_uncoalesced_features) \in Exported(m_uncoalesced_features)
    /\ disk' = FileOf(m_labels, m_uncoalesced_features)
    /\ pc' = "idle"
    /\ UNCHANGED memory

\* An image could not be exported, or fclose failed.
SaveFails ==
    /\ pc = "saving"
    /\ disk' \in Prefixes(m_labels, m_uncoalesced_features)
    /\ pc' = "idle"
    /\ UNCHANGED memory

Crash ==
    /\ pc # "down"
    /\ pc' = "down"
    /\ m_labels' = NoLabels
    /\ m_uncoalesced_features' = <<>>
    /\ m_kd_tree' = {}
    /\ m_need_to_coalesce' = TRUE
    /\ m_id_counter' = 0
    /\ m_filename' = FALSE
    /\ IF pc = "saving"
       THEN disk' \in Prefixes(m_labels, m_uncoalesced_features)
       ELSE UNCHANGED disk

Next ==
    \/ LoadFails
    \/ LoadSucceeds
    \/ \E l \in ClientLabels, fs \in FeatureSets : AddImageFeatures(l, fs)
    \/ \E l \in ClientLabels : RemoveImage(l)
    \/ Coalesce
    \/ \E hits \in SUBSET CurrentTree : Match(hits)
    \/ SaveBegins
    \/ SaveFinishes
    \/ SaveFails
    \/ Crash

Spec == Init /\ [][Next]_vars

-----------------------------------------------------------------------------
(* Properties.                                                             *)

\* What memory and a file that loads have in common.
UniqueLabels(labels) ==
    \A i, j \in Keys(labels) : labels[i] = labels[j] => i = j
UniqueIds(feats) ==
    \A j, k \in 1..Len(feats) : feats[j].id = feats[k].id => j = k
SameIds(labels, feats) ==
    \A i \in Ids : i \in Keys(labels) <=> HasId(feats, i)
SameSize(labels, feats) == Cardinality(Keys(labels)) = Len(feats)

Agree(labels, feats) ==
    /\ UniqueLabels(labels)
    /\ UniqueIds(feats)
    /\ SameIds(labels, feats)
    /\ SameSize(labels, feats)

\* In a process that loaded its file the label map and the feature vector
\* describe the same images: add_image_features, remove_image and load change
\* both, and match's m_labels[id] never meets an id that is not there
\* (ImageDB.cpp:129-150, 180-183, 274-301).
LabelsAgreeWithFeatures ==
    m_filename => Agree(m_labels, m_uncoalesced_features)

\* The next id is above every id in use, so m_labels[id] = label in
\* add_image_features never replaces the label of another image.
NextIdIsFresh == m_filename => \A i \in Keys(m_labels) : i < m_id_counter

\* m_need_to_coalesce is the only thing that makes match rebuild the tree:
\* while it is false the tree indexes exactly the images in the vector.
TreeIsCurrent ==
    ~m_need_to_coalesce => m_kd_tree = Coalesced(m_uncoalesced_features)

\* However a save stopped, a file that a load accepts holds a complete
\* database: a torn one is always noticed by the counts.
LoadableFileIsWhole == Loadable(disk) => Agree(disk.labels, disk.feats)

\* Every image in a file has a feature: import_features and load take
\* features[0] of each (ImageDB.cpp:421) and exhaustive_match frees the
\* neighbours a search in an empty tree never set (ImageDB.cpp:202-212).
FileImagesHaveFeatures ==
    disk # NoFile =>
        \A k \in 1..Len(disk.feats) : NumFeatures[disk.feats[k].features] > 0

\* A match of a process that loaded its file names images that are in it, by
\* the labels their clients gave them.
MatchNamesLiveImages ==
    m_filename =>
        \A hits \in SUBSET CurrentTree :
            MatchedLabels(hits) \subseteq {m_labels[i] : i \in Keys(m_labels)}

-----------------------------------------------------------------------------
(* The database implements the map from labels to images it promises.      *)

ImagesOf(labels, feats) ==
    [l \in ClientLabels |->
        IF \E id \in Ids, k \in 1..Len(feats) : labels[id] = l /\ feats[k].id = id
        THEN feats[CHOOSE k \in 1..Len(feats) : labels[feats[k].id] = l].features
        ELSE NoImage]

Store == INSTANCE ImageStore WITH
    Names <- ClientLabels,
    Unsavable <- Unreadable,
    Images <- FeatureSets,
    Nothing <- NoImage,
    status <- CASE pc = "down" -> "down"
                [] pc # "down" /\ m_filename -> "serving"
                [] OTHER -> "broken",
    images <- IF m_filename THEN ImagesOf(m_labels, m_uncoalesced_features)
              ELSE [l \in ClientLabels |-> NoImage],
    readable <- Loadable(disk),
    saved <- IF Loadable(disk) THEN ImagesOf(disk.labels, disk.feats)
             ELSE [l \in ClientLabels |-> NoImage]

\* Whatever saves stopped and whenever the process died, a restart serves
\* exactly the images of the last whole save or none, and a process that
\* could not load its file never writes it.
ImplementsStore == Store!Spec
=============================================================================

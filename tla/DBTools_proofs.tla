---------------------------- MODULE DBTools_proofs ----------------------------
(***************************************************************************)
(* Proofs about DBTools, for every set of labels and images and every      *)
(* bound on the ids and the lists: two processes change one file without a *)
(* lock, and images are lost by a stale save and by nothing else.          *)
(*                                                                         *)
(* What a map of labels and a vector of features are to each other is      *)
(* proved beside ImageDB; P brings it here once for both processes.        *)
(***************************************************************************)
EXTENDS DBTools, FiniteSetTheorems, SequenceTheorems, TLAPS

P == INSTANCE ImageDB_proofs WITH
    m_labels <- s_labels, m_uncoalesced_features <- s_features,
    m_kd_tree <- s_tree, m_need_to_coalesce <- s_coalesce,
    m_id_counter <- s_counter, m_filename <- s_filename, pc <- s_pc

\* Map, vector and next id of a process that loaded or made its database.
Whole(labels, feats) ==
    /\ labels \in P!LabelMap
    /\ feats \in Seq(P!FeatureInfo)
    /\ P!Agree(labels, feats)

Holds(labels, feats, counter) ==
    /\ Whole(labels, feats)
    /\ \A i \in P!Keys(labels) : i < counter

\* Two maps of images differ under one label at most.
SameBut(l, images, others) == \A m \in Labels \ {l} : images[m] = others[m]

\* The images in memory are the promised ones, but for those being changed.
Owes(labels, feats, changed) ==
    \A l \in Labels \ changed : promised[l] \in {P!ImagesOf(labels, feats)[l], InDoubt}

-----------------------------------------------------------------------------
(* The invariant.                                                          *)

Phases == {"down", "idle", "saving"}
Kinds == {"add", "addlist", "del", "read"}
Jobs == [kind: Kinds \union {"none"}, changed: SUBSET Labels]

ProcessesOK ==
    /\ s_pc \in Phases /\ t_pc \in Phases
    /\ s_filename \in BOOLEAN /\ lost \in BOOLEAN
    /\ job \in Jobs
    /\ s_pc = "down" => ~s_filename
    /\ s_pc = "saving" => s_filename
    /\ t_pc = "down" => /\ t_labels = P!NoLabels /\ t_features = <<>>
                        /\ t_counter = 0

MemoryOK ==
    /\ s_filename => Holds(s_labels, s_features, s_counter)
    /\ t_pc # "down" => Holds(t_labels, t_features, t_counter)

DiskOK ==
    /\ disk \in P!File \union {NoFile}
    /\ s_pc = "saving" \/ t_pc = "saving" => disk = P!TruncatedFile
    /\ P!Loadable(disk) => P!Agree(disk.labels, disk.feats)

\* Only one saves, and the other's view is stale by then; a process that saves
\* a stale view is the end of all promises.
StaleOK ==
    /\ s_pc = "saving" => /\ t_pc # "saving"
                          /\ t_pc # "down" => "tool" \in stale
                          /\ "server" \in stale => lost
    /\ t_pc = "saving" => /\ s_pc # "down" => "server" \in stale
                          /\ "tool" \in stale => lost

PromisesOK ==
    /\ lost => \A l \in Labels : promised[l] = InDoubt
    /\ P!Loadable(disk) => Owes(disk.labels, disk.feats, {})
    /\ disk = NoFile => \A l \in Labels : promised[l] \in {NoImage, InDoubt}
    /\ s_filename /\ "server" \notin stale => Owes(s_labels, s_features, {pending})
    /\ t_pc # "down" /\ "tool" \notin stale => Owes(t_labels, t_features, job.changed)

IInv == ProcessesOK /\ MemoryOK /\ DiskOK /\ StaleOK /\ PromisesOK

-----------------------------------------------------------------------------
(* Both processes' databases are the one the lemmas are about.             *)

LEMMA Assumptions ==
    /\ P!MaxIdAssumption /\ P!LabelsAssumption
    /\ P!FeaturesAssumption /\ P!NoFileAssumption
BY DatabaseAssumption
   DEF P!MaxIdAssumption, P!LabelsAssumption, P!FeaturesAssumption,
       P!NoFileAssumption, Server!Ids, P!Ids, Server!File, P!File, Server!LabelMap,
       P!LabelMap, Server!LabelText, P!LabelText, Server!FeatureInfo, P!FeatureInfo

LEMMA ServerSets ==
    /\ Server!Ids = P!Ids /\ Server!Unreadable = P!Unreadable
    /\ Server!ClientLabels = P!ClientLabels
    /\ Server!NoLabels = P!NoLabels /\ Server!TruncatedFile = P!TruncatedFile
    /\ \A S : Server!Cardinality(S) = P!Cardinality(S)
    /\ \A labels : Server!Keys(labels) = P!Keys(labels)
BY DEF Server!Ids, P!Ids, Server!Unreadable, P!Unreadable, Server!ClientLabels,
       P!ClientLabels, Server!NoLabels, P!NoLabels, Server!TruncatedFile,
       P!TruncatedFile, Server!Cardinality, P!Cardinality, Server!Keys, P!Keys

LEMMA ToolSets ==
    /\ Tool!Ids = P!Ids /\ Tool!Unreadable = P!Unreadable
    /\ Tool!ClientLabels = P!ClientLabels
    /\ Tool!NoLabels = P!NoLabels /\ Tool!TruncatedFile = P!TruncatedFile
    /\ \A S : Tool!Cardinality(S) = P!Cardinality(S)
    /\ \A labels : Tool!Keys(labels) = P!Keys(labels)
BY DEF Tool!Ids, P!Ids, Tool!Unreadable, P!Unreadable, Tool!ClientLabels,
       P!ClientLabels, Tool!NoLabels, P!NoLabels, Tool!TruncatedFile,
       P!TruncatedFile, Tool!Cardinality, P!Cardinality, Tool!Keys, P!Keys

LEMMA ServerFiles ==
    ASSUME NEW labels, NEW feats, NEW f
    PROVE  /\ Server!FileOf(labels, feats) = P!FileOf(labels, feats)
           /\ Server!Exported(feats) = P!Exported(feats)
           /\ Server!Prefixes(labels, feats) = P!Prefixes(labels, feats)
           /\ Server!Loadable(f) <=> P!Loadable(f)
           /\ Server!CounterAfter(labels) = P!CounterAfter(labels)
           /\ Server!ImagesOf(labels, feats) = P!ImagesOf(labels, feats)
           /\ Server!Agree(labels, feats) <=> P!Agree(labels, feats)
<1> USE ServerSets
<1>1. Server!FileOf(labels, feats) = P!FileOf(labels, feats)
  BY DEF Server!FileOf, P!FileOf
<1>2. Server!HeaderCuts(labels) = P!HeaderCuts(labels)
  BY DEF Server!HeaderCuts, P!HeaderCuts
<1>3. Server!Exported(feats) = P!Exported(feats)
  BY DEF Server!Exported, P!Exported
<1>4. Server!Prefixes(labels, feats) = P!Prefixes(labels, feats)
  BY <1>2, <1>3 DEF Server!Prefixes, P!Prefixes
<1>5. Server!HasUnreadable(f.labels) <=> P!HasUnreadable(f.labels)
  BY DEF Server!HasUnreadable, P!HasUnreadable
<1>6. Server!Loadable(f) <=> P!Loadable(f)
  BY <1>5 DEF Server!Loadable, P!Loadable
<1>7. Server!CounterAfter(labels) = P!CounterAfter(labels)
  BY DEF Server!CounterAfter, P!CounterAfter
<1>8. Server!ImagesOf(labels, feats) = P!ImagesOf(labels, feats)
  BY DEF Server!ImagesOf, P!ImagesOf
<1>9. Server!Agree(labels, feats) <=> P!Agree(labels, feats)
  BY DEF Server!Agree, P!Agree, Server!UniqueLabels, P!UniqueLabels, Server!UniqueIds,
         P!UniqueIds, Server!SameIds, P!SameIds, Server!HasId, P!HasId, Server!SameSize, P!SameSize
<1> QED
  BY <1>1, <1>3, <1>4, <1>6, <1>7, <1>8, <1>9

LEMMA ToolFiles ==
    ASSUME NEW labels, NEW feats, NEW f
    PROVE  /\ Tool!FileOf(labels, feats) = P!FileOf(labels, feats)
           /\ Tool!Exported(feats) = P!Exported(feats)
           /\ Tool!Prefixes(labels, feats) = P!Prefixes(labels, feats)
           /\ Tool!Loadable(f) <=> P!Loadable(f)
           /\ Tool!CounterAfter(labels) = P!CounterAfter(labels)
           /\ Tool!ImagesOf(labels, feats) = P!ImagesOf(labels, feats)
           /\ Tool!Agree(labels, feats) <=> P!Agree(labels, feats)
<1> USE ToolSets
<1>1. Tool!FileOf(labels, feats) = P!FileOf(labels, feats)
  BY DEF Tool!FileOf, P!FileOf
<1>2. Tool!HeaderCuts(labels) = P!HeaderCuts(labels)
  BY DEF Tool!HeaderCuts, P!HeaderCuts
<1>3. Tool!Exported(feats) = P!Exported(feats)
  BY DEF Tool!Exported, P!Exported
<1>4. Tool!Prefixes(labels, feats) = P!Prefixes(labels, feats)
  BY <1>2, <1>3 DEF Tool!Prefixes, P!Prefixes
<1>5. Tool!HasUnreadable(f.labels) <=> P!HasUnreadable(f.labels)
  BY DEF Tool!HasUnreadable, P!HasUnreadable
<1>6. Tool!Loadable(f) <=> P!Loadable(f)
  BY <1>5 DEF Tool!Loadable, P!Loadable
<1>7. Tool!CounterAfter(labels) = P!CounterAfter(labels)
  BY DEF Tool!CounterAfter, P!CounterAfter
<1>8. Tool!ImagesOf(labels, feats) = P!ImagesOf(labels, feats)
  BY DEF Tool!ImagesOf, P!ImagesOf
<1>9. Tool!Agree(labels, feats) <=> P!Agree(labels, feats)
  BY DEF Tool!Agree, P!Agree, Tool!UniqueLabels, P!UniqueLabels, Tool!UniqueIds,
         P!UniqueIds, Tool!SameIds, P!SameIds, Tool!HasId, P!HasId, Tool!SameSize, P!SameSize
<1> QED
  BY <1>1, <1>3, <1>4, <1>6, <1>7, <1>8, <1>9

-----------------------------------------------------------------------------
(* What a process does to the images it has.                               *)

\* load keeps all of a file it accepts.
LEMMA LoadedWhole ==
    ASSUME NEW f \in P!File, P!Loadable(f), P!Agree(f.labels, f.feats)
    PROVE  /\ SubSeq(f.feats, 1, f.count) = f.feats
           /\ Holds(f.labels, f.feats, P!CounterAfter(f.labels))
<1>1. f.labels \in P!LabelMap /\ f.feats \in Seq(P!FeatureInfo)
  BY DEF P!File
<1>2. f.count = Len(f.feats)
  BY DEF P!Loadable, P!Agree, P!SameSize
<1>3. SubSeq(f.feats, 1, f.count) = f.feats
  BY <1>1, <1>2, SubSeqFull
<1> QED
  BY <1>1, <1>3, Assumptions, P!CounterAfterIsFresh DEF Holds, Whole

\* A tool that makes the database starts without images.
LEMMA EmptyWhole ==
    /\ Holds(P!NoLabels, <<>>, 0)
    /\ \A l \in Labels : P!ImagesOf(P!NoLabels, <<>>)[l] = NoImage
<1>1. Labels \subseteq P!ClientLabels
  BY DEF P!ClientLabels
<1>2. \A l \in Labels, i \in P!Ids : P!NoLabels[i] # l
  BY Assumptions DEF P!NoLabels, P!LabelsAssumption
<1> QED
  BY <1>1, <1>2, Assumptions, P!NoKeys, P!AgreeEmpty, P!NoImageOfLabel DEF Holds, Whole

\* add_image_features adds the image of one label.
LEMMA AddedImages ==
    ASSUME NEW labels \in P!LabelMap, NEW feats \in Seq(P!FeatureInfo),
           P!Agree(labels, feats), NEW i \in P!Ids, labels[i] = NoLabel,
           NEW l \in P!ClientLabels, \A j \in P!Ids : labels[j] # l,
           NEW fs \in FeatureSets, Labels \subseteq P!ClientLabels
    PROVE  SameBut(l, P!ImagesOf([labels EXCEPT ![i] = l],
                                 Append(feats, [id |-> i, features |-> fs])),
                   P!ImagesOf(labels, feats))
<1>1. P!ImagesOf([labels EXCEPT ![i] = l],
                 Append(feats, [id |-> i, features |-> fs]))
        = [P!ImagesOf(labels, feats) EXCEPT ![l] = fs]
  BY Assumptions, P!ImagesAdded
<1> QED
  BY <1>1, Assumptions, P!ImagesType DEF SameBut

LEMMA AddedWhole ==
    ASSUME NEW labels, NEW feats, NEW i \in P!Ids, Holds(labels, feats, i),
           NEW l \in Labels, NEW fs \in FeatureSets, \A j \in P!Ids : labels[j] # l
    PROVE  /\ Holds([labels EXCEPT ![i] = l],
                    Append(feats, [id |-> i, features |-> fs]), i + 1)
           /\ SameBut(l, P!ImagesOf([labels EXCEPT ![i] = l],
                                    Append(feats, [id |-> i, features |-> fs])),
                      P!ImagesOf(labels, feats))
<1> DEFINE new == [labels EXCEPT ![i] = l]
           more == Append(feats, [id |-> i, features |-> fs])
<1>1. labels \in P!LabelMap /\ feats \in Seq(P!FeatureInfo) /\ P!Agree(labels, feats)
  BY DEF Holds, Whole
<1>2. l \in P!ClientLabels /\ l \in P!LabelText /\ Labels \subseteq P!ClientLabels
  BY Assumptions DEF P!ClientLabels, P!LabelText, P!LabelsAssumption
<1>3. P!Ids \subseteq Nat
  BY Assumptions DEF P!Ids, P!MaxIdAssumption
<1>4. labels[i] = NoLabel
  BY <1>3 DEF Holds, P!Keys
<1>5. P!Agree(new, more)
  BY <1>1, <1>2, <1>4, Assumptions, P!AgreeAdd
<1>6. new \in P!LabelMap /\ P!Keys(new) = P!Keys(labels) \union {i}
  BY <1>1, <1>2, <1>4, Assumptions, P!KeysAdded
<1>7. more \in Seq(P!FeatureInfo)
  BY <1>1 DEF P!FeatureInfo
<1>8. \A j \in P!Keys(new) : j < i + 1
  BY <1>3, <1>6 DEF Holds, P!Keys
<1>9. SameBut(l, P!ImagesOf(new, more), P!ImagesOf(labels, feats))
  BY <1>1, <1>2, <1>4, AddedImages
<1> QED
  BY <1>5, <1>6, <1>7, <1>8, <1>9 DEF Holds, Whole

\* remove_image finds the image of the label it erases, and takes that alone.
LEMMA LabelledInfo ==
    ASSUME NEW labels, NEW feats, NEW counter, Holds(labels, feats, counter),
           NEW l \in Labels, NEW id \in P!Ids, labels[id] = l
    PROVE  P!HasId(feats, id)
<1>1. l # NoLabel
  BY Assumptions DEF P!LabelsAssumption
<1> QED
  BY <1>1 DEF Holds, Whole, P!Agree, P!SameIds, P!Keys

LEMMA RemovedWhole ==
    ASSUME NEW labels, NEW feats, NEW counter, Holds(labels, feats, counter),
           NEW l \in Labels, NEW id \in P!Ids, labels[id] = l,
           NEW k \in 1..Len(feats), feats[k].id = id,
           NEW new, new = [labels EXCEPT ![id] = NoLabel],
           NEW less, less = P!WithoutAt(feats, k)
    PROVE  /\ Holds(new, less, counter)
           /\ SameBut(l, P!ImagesOf(new, less), P!ImagesOf(labels, feats))
<1>1. labels \in P!LabelMap /\ feats \in Seq(P!FeatureInfo) /\ P!Agree(labels, feats)
  BY DEF Holds, Whole
<1>2. l \in P!ClientLabels /\ Labels \subseteq P!ClientLabels
  BY DEF P!ClientLabels
<1>3. l # NoLabel
  BY Assumptions DEF P!LabelsAssumption
<1>4. P!Agree(new, less)
  BY <1>1, <1>3, Assumptions, P!AgreeRemove
<1>5. new \in P!LabelMap /\ P!Keys(new) = P!Keys(labels) \ {id}
  BY <1>1, <1>3, Assumptions, P!KeysRemoved
<1>6. less \in Seq(P!FeatureInfo)
  BY <1>1, Assumptions, P!WithoutAtProperties
<1>7. P!ImagesOf(new, less) = [P!ImagesOf(labels, feats) EXCEPT ![l] = NoImage]
  BY <1>1, <1>2, Assumptions, P!ImagesRemoved
<1>8. SameBut(l, P!ImagesOf(new, less), P!ImagesOf(labels, feats))
  BY <1>1, <1>2, <1>7, Assumptions, P!ImagesType DEF SameBut
<1> QED
  BY <1>4, <1>5, <1>6, <1>8 DEF Holds, Whole

\* Whatever a save that stops leaves is a file; if it loads it is whole.
LEMMA PrefixWhole ==
    ASSUME NEW labels, NEW feats, Whole(labels, feats),
           NEW f \in P!Prefixes(labels, feats)
    PROVE  /\ f \in P!File
           /\ P!Loadable(f) => f.labels = labels /\ f.feats = feats
BY Assumptions, P!PrefixesType, P!LoadablePrefixIsWhole DEF Whole

\* So is what a save that ends writes.
LEMMA SavedWhole ==
    ASSUME NEW labels, NEW feats, Whole(labels, feats)
    PROVE  /\ P!FileOf(labels, feats) \in P!File
           /\ P!FileOf(labels, feats).labels = labels
           /\ P!FileOf(labels, feats).feats = feats
BY Assumptions, P!FileOfType DEF Whole, P!FileOf

\* A file that is being written does not load, and is there.
LEMMA EmptiedFile ==
    /\ P!TruncatedFile \in P!File
    /\ ~P!Loadable(P!TruncatedFile)
    /\ NoFile \notin P!File /\ ~P!Loadable(NoFile)
<1>1. P!TruncatedFile \in P!File
  BY Assumptions, P!NoKeys DEF P!TruncatedFile, P!File
<1> QED
  BY <1>1, Assumptions DEF P!Loadable, P!TruncatedFile, P!NoFileAssumption

-----------------------------------------------------------------------------
(* The steps of the server.                                                *)

\* What a load accepts is whole, be it the file or a part of what the other
\* process is writing.
LEMMA SeenWhole ==
    ASSUME NEW other, NEW labels, NEW feats, other = "saving" => Whole(labels, feats),
           disk \in P!File \union {NoFile}, P!Loadable(disk) => P!Agree(disk.labels, disk.feats),
           NEW seen \in Visible(other, labels, feats), P!Loadable(seen)
    PROVE  /\ seen \in P!File /\ P!Agree(seen.labels, seen.feats)
           /\ other # "saving" => seen = disk
<1>1. CASE other = "saving"
  <2>1. seen \in P!Prefixes(labels, feats)
    BY <1>1, ServerFiles DEF Visible
  <2> QED
    BY <1>1, <2>1, PrefixWhole DEF Whole
<1>2. CASE other # "saving"
  BY <1>2, EmptiedFile DEF Visible
<1> QED
  BY <1>1, <1>2

LEMMA ServerLoadsStep == ASSUME IInv, ServerLoads PROVE IInv'
<1>1. PICK seen \in Visible(t_pc, t_labels, t_features) :
        Server!ReadFails(seen) \/ Server!ReadSucceeds(seen)
  BY DEF ServerLoads
<1>2. /\ s_pc = "down" /\ s_pc' = "idle" /\ s_filename = FALSE
      /\ UNCHANGED <<disk, pending, tool, lost, promised>>
      /\ stale' = IF t_pc = "saving" THEN stale \union {"server"} ELSE stale \ {"server"}
  BY <1>1 DEF ServerLoads, Server!ReadFails, Server!ReadSucceeds, IInv, ProcessesOK
<1>3. CASE Server!ReadFails(seen)
  <2>1. s_filename' = FALSE
    BY <1>2, <1>3 DEF Server!ReadFails
  <2>2. ProcessesOK' /\ MemoryOK' /\ DiskOK' /\ StaleOK'
    BY <1>2, <2>1
    DEF IInv, ProcessesOK, MemoryOK, DiskOK, StaleOK, tool, t_memory, Phases
  <2>3. PromisesOK'
    BY <1>2, <2>1 DEF IInv, PromisesOK, Owes, tool, t_memory
  <2> QED
    BY <2>2, <2>3 DEF IInv
<1>4. CASE Server!ReadSucceeds(seen)
  <2>1. P!Loadable(seen)
    BY <1>4, ServerFiles DEF Server!ReadSucceeds
  <2>2. t_pc = "saving" => Whole(t_labels, t_features)
    BY DEF IInv, MemoryOK, Holds
  <2>3. /\ seen \in P!File /\ P!Agree(seen.labels, seen.feats)
        /\ t_pc # "saving" => seen = disk
    BY <2>1, <2>2, SeenWhole DEF IInv, DiskOK
  <2>4. /\ s_filename' /\ s_labels' = seen.labels
        /\ s_features' = SubSeq(seen.feats, 1, seen.count)
        /\ s_counter' = Server!CounterAfter(seen.labels)
    BY <1>4 DEF Server!ReadSucceeds
  <2>5. s_features' = seen.feats /\ s_counter' = P!CounterAfter(seen.labels)
    BY <2>1, <2>3, <2>4, LoadedWhole, ServerFiles
  <2>6. Holds(s_labels', s_features', s_counter')
    BY <2>1, <2>3, <2>4, <2>5, LoadedWhole
  <2>7. "server" \notin stale' => Owes(disk.labels, disk.feats, {}) /\ seen = disk
    BY <1>2, <2>1, <2>3 DEF IInv, PromisesOK
  <2>8. s_filename' \in BOOLEAN
    BY <1>4 DEF Server!ReadSucceeds
  <2>9. ProcessesOK' /\ MemoryOK' /\ DiskOK' /\ StaleOK'
    BY <1>2, <2>4, <2>6, <2>8
    DEF IInv, ProcessesOK, MemoryOK, DiskOK, StaleOK, tool, t_memory, Phases
  <2>10. PromisesOK'
    BY <1>2, <2>4, <2>5, <2>7 DEF IInv, PromisesOK, Owes, tool, t_memory
  <2> QED
    BY <2>9, <2>10 DEF IInv
<1> QED
  BY <1>1, <1>3, <1>4

\* A change of memory by the server, of the label its request is about.
LEMMA ServerChanges ==
    ASSUME IInv, pending = NoLabel, s_pc = "idle",
           UNCHANGED <<tool, history, s_filename, disk, s_pc>>,
           NEW l \in Labels, pending' = l,
           s_filename => /\ Holds(s_labels', s_features', s_counter')
                         /\ SameBut(l, P!ImagesOf(s_labels', s_features'),
                                    P!ImagesOf(s_labels, s_features))
    PROVE  IInv'
<1>1. NoLabel \notin Labels
  BY Assumptions DEF P!LabelsAssumption
<1>2. ProcessesOK' /\ MemoryOK' /\ DiskOK' /\ StaleOK'
  BY DEF IInv, ProcessesOK, MemoryOK, DiskOK, StaleOK, tool, t_memory, history
<1>3. s_filename /\ "server" \notin stale => Owes(s_labels, s_features, {l})'
  BY <1>1 DEF IInv, PromisesOK, Owes, SameBut, history
<1>4. PromisesOK'
  BY <1>3 DEF IInv, PromisesOK, Owes, tool, t_memory, history
<1> QED
  BY <1>2, <1>4 DEF IInv

LEMMA ServerAddsStep ==
    ASSUME IInv, NEW l \in Labels, NEW fs \in FeatureSets, ServerAdds(l, fs)
    PROVE  IInv'
<1>1. /\ pending = NoLabel /\ pending' = l /\ s_pc = "idle"
      /\ UNCHANGED <<tool, history, s_filename, disk, s_pc>>
  BY DEF ServerAdds, Server!AddImageFeatures
<1>2. /\ s_counter \in P!Ids /\ \A j \in P!Ids : s_labels[j] # l
      /\ s_counter' = s_counter + 1
      /\ s_labels' = [s_labels EXCEPT ![s_counter] = l]
      /\ s_features' = Append(s_features, [id |-> s_counter, features |-> fs])
  BY ServerSets DEF ServerAdds, Server!AddImageFeatures, Server!label_exists
<1>3. ASSUME s_filename
      PROVE  /\ Holds(s_labels', s_features', s_counter')
             /\ SameBut(l, P!ImagesOf(s_labels', s_features'),
                        P!ImagesOf(s_labels, s_features))
  <2>1. Holds(s_labels, s_features, s_counter)
    BY <1>3 DEF IInv, MemoryOK
  <2> QED
    BY <1>2, <2>1, AddedWhole
<1> QED
  BY <1>1, <1>3, ServerChanges

LEMMA ServerRemovesStep ==
    ASSUME IInv, NEW l \in Labels, ServerRemoves(l)
    PROVE  IInv'
<1>1. /\ pending = NoLabel /\ pending' = l /\ s_pc = "idle" /\ s_counter' = s_counter
      /\ UNCHANGED <<tool, history, s_filename, disk, s_pc>>
  BY DEF ServerRemoves, Server!RemoveImage
<1>2. PICK id \in P!Ids :
         /\ s_labels[id] = l
         /\ s_labels' = [s_labels EXCEPT ![id] = NoLabel]
         /\ \/ \E k \in 1..Len(s_features) :
                 /\ s_features[k].id = id
                 /\ s_features' = P!WithoutAt(s_features, k)
            \/ ~P!HasId(s_features, id)
  BY ServerSets
  DEF ServerRemoves, Server!RemoveImage, Server!IsFirstIdFor, Server!IsFirstInfo,
      Server!HasId, P!HasId, Server!WithoutAt, P!WithoutAt
<1>3. ASSUME s_filename
      PROVE  /\ Holds(s_labels', s_features', s_counter')
             /\ SameBut(l, P!ImagesOf(s_labels', s_features'),
                        P!ImagesOf(s_labels, s_features))
  <2>1. Holds(s_labels, s_features, s_counter)
    BY <1>3 DEF IInv, MemoryOK
  <2>2. P!HasId(s_features, id)
    BY <1>2, <2>1, LabelledInfo
  <2>3. PICK k \in 1..Len(s_features) :
          s_features[k].id = id /\ s_features' = P!WithoutAt(s_features, k)
    BY <1>2, <2>2
  <2> QED
    BY <1>1, <1>2, <2>1, <2>3, RemovedWhole
<1> QED
  BY <1>1, <1>3, ServerChanges

LEMMA ServerSaveBeginsStep == ASSUME IInv, ServerSaveBegins PROVE IInv'
<1>1. /\ s_filename /\ s_pc = "idle" /\ s_pc' = "saving" /\ t_pc # "saving"
      /\ disk' = P!TruncatedFile /\ UNCHANGED <<s_memory, pending, tool>>
      /\ CountSave("server")
      /\ stale' = IF t_pc = "idle" THEN stale \union {"tool"} ELSE stale
  BY ServerSets DEF ServerSaveBegins, Server!SaveBegins, Server!OpenForWriting,
                    Server!memory, s_memory
<1>2. /\ "server" \in stale => lost' /\ \A l \in Labels : promised'[l] = InDoubt
      /\ "server" \notin stale => lost' = lost /\ promised' = promised
      /\ lost' \in BOOLEAN
  <2>1. lost \in BOOLEAN
    BY DEF IInv, ProcessesOK
  <2>2. CASE "server" \in stale
    BY <1>1, <2>2 DEF CountSave, NothingPromised
  <2>3. CASE "server" \notin stale
    BY <1>1, <2>1, <2>3 DEF CountSave
  <2> QED
    BY <2>2, <2>3
<1>3. ProcessesOK' /\ MemoryOK' /\ DiskOK'
  BY <1>1, <1>2, EmptiedFile
  DEF IInv, ProcessesOK, MemoryOK, DiskOK, tool, t_memory, s_memory, Phases
<1>4. StaleOK'
  BY <1>1, <1>2 DEF IInv, StaleOK, ProcessesOK, Phases, tool
<1>5. PromisesOK'
  BY <1>1, <1>2, EmptiedFile
  DEF IInv, PromisesOK, Owes, tool, t_memory, s_memory
<1> QED
  BY <1>3, <1>4, <1>5 DEF IInv

\* A save that ends, well or not, or that the server dies in: the file is whole
\* or does not load, and the answer is about the request's label alone.
LEMMA ServerSaveStops ==
    ASSUME IInv, s_pc = "saving", s_pc' \in {"idle", "down"},
           disk' \in P!File,
           P!Loadable(disk') => disk'.labels = s_labels /\ disk'.feats = s_features,
           NEW images, Promise({pending}, images), pending' = NoLabel,
           \A l \in Labels : images[l] \in {P!ImagesOf(s_labels, s_features)[l], InDoubt},
           \/ s_pc' = "idle" /\ UNCHANGED <<s_memory, stale>>
           \/ s_pc' = "down" /\ s_filename' = FALSE /\ stale' = stale \ {"server"},
           UNCHANGED <<tool, lost>>
    PROVE  IInv'
<1>1. NoLabel \notin Labels
  BY Assumptions DEF P!LabelsAssumption
<1>2. /\ s_filename /\ Holds(s_labels, s_features, s_counter)
      /\ t_pc # "saving" /\ (t_pc # "down" => "tool" \in stale)
      /\ "server" \in stale => lost
  BY DEF IInv, ProcessesOK, MemoryOK, StaleOK
<1>3. \A l \in Labels :
        promised'[l] = IF l = pending /\ ~lost THEN images[l] ELSE promised[l]
  BY DEF Promise
<1>4. \A l \in Labels :
        promised'[l] \in {P!ImagesOf(s_labels, s_features)[l], InDoubt}
  <2>1. CASE lost
    BY <1>3, <2>1 DEF IInv, PromisesOK
  <2>2. CASE ~lost
    BY <1>2, <1>3, <2>2 DEF IInv, PromisesOK, Owes
  <2> QED
    BY <2>1, <2>2
<1>5. lost => \A l \in Labels : promised'[l] = InDoubt
  BY <1>3 DEF IInv, PromisesOK
<1>6. ProcessesOK' /\ MemoryOK'
  BY <1>2 DEF IInv, ProcessesOK, MemoryOK, s_memory, tool, t_memory, Phases
<1>7. DiskOK'
  BY <1>2 DEF DiskOK, Holds, Whole, tool
<1>8. StaleOK'
  BY <1>2 DEF StaleOK, tool
<1>9. PromisesOK'
  <2>1. P!Loadable(disk') => Owes(disk.labels, disk.feats, {})'
    BY <1>4 DEF Owes
  <2>2. disk' # NoFile
    BY EmptiedFile
  <2>3. s_filename' => Owes(s_labels, s_features, {pending})'
    BY <1>4 DEF Owes, s_memory
  <2>4. t_pc' # "down" => "tool" \in stale'
    BY <1>2 DEF tool
  <2> QED
    BY <1>5, <2>1, <2>2, <2>3, <2>4 DEF PromisesOK
<1> QED
  BY <1>6, <1>7, <1>8, <1>9 DEF IInv

LEMMA Doubts == \A l \in Labels : NothingPromised[l] = InDoubt
BY DEF NothingPromised

LEMMA ServerSaveFinishesStep == ASSUME IInv, ServerSaveFinishes PROVE IInv'
<1>1. /\ s_pc = "saving" /\ s_pc' = "idle" /\ pending' = NoLabel
      /\ disk' = P!FileOf(s_labels, s_features)
      /\ Promise({pending}, View(s_labels, s_features))
      /\ UNCHANGED <<s_memory, stale, tool, lost>>
  BY ServerFiles DEF ServerSaveFinishes, ServerAnswers, Server!SaveFinishes,
                     Server!memory, s_memory
<1>2. Whole(s_labels, s_features)
  BY <1>1 DEF IInv, ProcessesOK, MemoryOK, Holds
<1>3. View(s_labels, s_features) = P!ImagesOf(s_labels, s_features)
  BY ServerFiles DEF View
<1> QED
  BY <1>1, <1>2, <1>3, SavedWhole, ServerSaveStops

LEMMA ServerSaveFailsStep == ASSUME IInv, ServerSaveFails PROVE IInv'
<1>1. /\ s_pc = "saving" /\ s_pc' = "idle" /\ pending' = NoLabel
      /\ disk' \in P!Prefixes(s_labels, s_features)
      /\ Promise({pending}, NothingPromised)
      /\ UNCHANGED <<s_memory, stale, tool, lost>>
  BY ServerFiles DEF ServerSaveFails, ServerAnswers, Server!SaveFails,
                     Server!memory, s_memory
<1>2. Whole(s_labels, s_features)
  BY <1>1 DEF IInv, ProcessesOK, MemoryOK, Holds
<1> QED
  BY <1>1, <1>2, Doubts, PrefixWhole, ServerSaveStops

\* Nothing is promised of the label of a request nobody saved.
LEMMA ServerDrops ==
    ASSUME IInv, s_pc # "saving", s_pc' \in {"idle", "down"}, disk' = disk,
           Promise({pending}, NothingPromised), pending' = NoLabel,
           \/ s_pc' = "idle" /\ UNCHANGED <<s_memory, stale>>
           \/ s_pc' = "down" /\ s_filename' = FALSE /\ stale' = stale \ {"server"},
           s_pc = "idle", UNCHANGED <<tool, lost>>
    PROVE  IInv'
<1>1. \A l \in Labels :
        promised'[l] = IF l = pending /\ ~lost THEN InDoubt ELSE promised[l]
  BY Doubts DEF Promise
<1>2. ProcessesOK' /\ MemoryOK' /\ DiskOK' /\ StaleOK'
  <2>1. ProcessesOK'
    BY DEF IInv, ProcessesOK, s_memory, tool, t_memory, Phases
  <2>2. MemoryOK'
    BY DEF IInv, MemoryOK, s_memory, tool, t_memory
  <2>3. DiskOK'
    BY DEF IInv, DiskOK, tool
  <2>4. StaleOK'
    BY DEF IInv, StaleOK, tool
  <2> QED
    BY <2>1, <2>2, <2>3, <2>4
<1>3. lost' => \A l \in Labels : promised'[l] = InDoubt
  BY <1>1 DEF IInv, PromisesOK
<1>4. P!Loadable(disk') => Owes(disk.labels, disk.feats, {})'
  BY <1>1 DEF IInv, PromisesOK, Owes
<1>5. disk' = NoFile => \A l \in Labels : promised'[l] \in {NoImage, InDoubt}
  BY <1>1 DEF IInv, PromisesOK
<1>6. s_filename' /\ "server" \notin stale' => Owes(s_labels, s_features, {pending})'
  <2> SUFFICES ASSUME s_pc' = "idle", UNCHANGED <<s_memory, stale>>, s_filename,
                      "server" \notin stale
               PROVE  Owes(s_labels, s_features, {pending})'
    BY DEF s_memory
  <2>1. Owes(s_labels, s_features, {pending})
    BY DEF IInv, PromisesOK
  <2>2. lost => \A l \in Labels : promised[l] = InDoubt
    BY DEF IInv, PromisesOK
  <2> QED
    BY <1>1, <2>1, <2>2 DEF Owes, s_memory
<1>7. t_pc' # "down" /\ "tool" \notin stale' => Owes(t_labels, t_features, job.changed)'
  BY <1>1 DEF IInv, PromisesOK, Owes, tool, t_memory
<1> QED
  BY <1>2, <1>3, <1>4, <1>5, <1>6, <1>7 DEF IInv, PromisesOK

LEMMA ServerCannotSaveStep == ASSUME IInv, ServerCannotSave PROVE IInv'
BY ServerDrops DEF ServerCannotSave, ServerAnswers

LEMMA ServerCrashesStep == ASSUME IInv, ServerCrashes PROVE IInv'
<1>1. /\ s_pc \in {"idle", "saving"} /\ s_pc' = "down" /\ s_filename' = FALSE
      /\ pending' = NoLabel /\ Promise({pending}, NothingPromised)
      /\ stale' = stale \ {"server"} /\ UNCHANGED <<tool, lost>>
      /\ IF s_pc = "saving" THEN disk' \in P!Prefixes(s_labels, s_features)
                            ELSE disk' = disk
  BY ServerFiles DEF ServerCrashes, Server!Crash, IInv, ProcessesOK, Phases
<1>2. CASE s_pc = "saving"
  <2>1. Whole(s_labels, s_features)
    BY <1>2 DEF IInv, ProcessesOK, MemoryOK, Holds
  <2> QED
    BY <1>1, <1>2, <2>1, Doubts, PrefixWhole, ServerSaveStops
<1>3. CASE s_pc # "saving"
  BY <1>1, <1>3, ServerDrops
<1> QED
  BY <1>2, <1>3

-----------------------------------------------------------------------------
(* The steps of the tools.                                                 *)

LEMMA ToolLoadsStep ==
    ASSUME IInv, NEW kind \in Kinds, ToolLoads(kind)
    PROVE  IInv'
<1>1. PICK seen \in Visible(s_pc, s_labels, s_features) : Tool!ReadSucceeds(seen)
  BY DEF ToolLoads
<1>2. /\ t_pc = "down" /\ t_pc' = "idle"
      /\ job' = [kind |-> kind, changed |-> {}]
      /\ UNCHANGED <<disk, server, lost, promised>>
      /\ stale' = IF s_pc = "saving" THEN stale \union {"tool"} ELSE stale
  BY <1>1 DEF ToolLoads, Tool!ReadSucceeds
<1>3. P!Loadable(seen)
  BY <1>1, ToolFiles DEF Tool!ReadSucceeds
<1>4. s_pc = "saving" => Whole(s_labels, s_features)
  BY DEF IInv, ProcessesOK, MemoryOK, Holds
<1>5. /\ seen \in P!File /\ P!Agree(seen.labels, seen.feats)
      /\ s_pc # "saving" => seen = disk
  BY <1>3, <1>4, SeenWhole DEF IInv, DiskOK
<1>6. /\ t_labels' = seen.labels
      /\ t_features' = SubSeq(seen.feats, 1, seen.count)
      /\ t_counter' = Tool!CounterAfter(seen.labels)
  BY <1>1 DEF Tool!ReadSucceeds
<1>7. t_features' = seen.feats /\ t_counter' = P!CounterAfter(seen.labels)
  BY <1>3, <1>5, <1>6, LoadedWhole, ToolFiles
<1>8. Holds(t_labels', t_features', t_counter')
  BY <1>3, <1>5, <1>6, <1>7, LoadedWhole
<1>9. "tool" \notin stale' => Owes(disk.labels, disk.feats, {}) /\ seen = disk
  BY <1>2, <1>3, <1>5 DEF IInv, PromisesOK
<1>10. job' \in Jobs /\ job'.changed = {}
  BY <1>2 DEF Jobs
<1>11. ProcessesOK' /\ MemoryOK' /\ DiskOK' /\ StaleOK'
  BY <1>2, <1>8, <1>10
  DEF IInv, ProcessesOK, MemoryOK, DiskOK, StaleOK, server, s_memory, Phases
<1>12. PromisesOK'
  BY <1>2, <1>6, <1>7, <1>9, <1>10 DEF IInv, PromisesOK, Owes, server, s_memory
<1> QED
  BY <1>11, <1>12 DEF IInv

LEMMA ToolCreatesStep ==
    ASSUME IInv, NEW kind \in Kinds, ToolCreates(kind)
    PROVE  IInv'
<1>1. /\ t_pc = "down" /\ t_pc' = "idle" /\ disk = NoFile
      /\ job' = [kind |-> kind, changed |-> {}]
      /\ UNCHANGED <<disk, server, t_memory, history>>
  BY DEF ToolCreates
<1>2. s_pc # "saving"
  BY <1>1, EmptiedFile DEF IInv, DiskOK
<1>3. t_labels' = P!NoLabels /\ t_features' = <<>> /\ t_counter' = 0
  BY <1>1 DEF IInv, ProcessesOK, t_memory
<1>4. Holds(t_labels', t_features', t_counter')
  BY <1>3, EmptyWhole
<1>5. job' \in Jobs /\ job'.changed = {}
  BY <1>1 DEF Jobs
<1>6. ProcessesOK' /\ MemoryOK' /\ DiskOK' /\ StaleOK'
  BY <1>1, <1>2, <1>4, <1>5
  DEF IInv, ProcessesOK, MemoryOK, DiskOK, StaleOK, server, s_memory, history, Phases
<1>7. Owes(t_labels, t_features, job.changed)'
  BY <1>1, <1>3, EmptyWhole DEF IInv, PromisesOK, Owes, history
<1>8. PromisesOK'
  BY <1>1, <1>7 DEF IInv, PromisesOK, Owes, server, s_memory, history
<1> QED
  BY <1>6, <1>8 DEF IInv

\* A change of memory by a tool, of one label more.
LEMMA ToolChanges ==
    ASSUME IInv, t_pc = "idle", UNCHANGED <<server, history, disk, t_pc>>,
           NEW l \in Labels, job' = [job EXCEPT !.changed = job.changed \union {l}],
           Holds(t_labels', t_features', t_counter'),
           SameBut(l, P!ImagesOf(t_labels', t_features'), P!ImagesOf(t_labels, t_features))
    PROVE  IInv'
<1>1. job' \in Jobs /\ job'.changed = job.changed \union {l}
  BY DEF IInv, ProcessesOK, Jobs
<1>2. ProcessesOK' /\ MemoryOK' /\ DiskOK' /\ StaleOK'
  BY <1>1 DEF IInv, ProcessesOK, MemoryOK, DiskOK, StaleOK, server, s_memory, history
<1>3. "tool" \notin stale => Owes(t_labels, t_features, job.changed)'
  BY <1>1 DEF IInv, PromisesOK, Owes, SameBut, history
<1>4. PromisesOK'
  BY <1>3 DEF IInv, PromisesOK, Owes, server, s_memory, history
<1> QED
  BY <1>2, <1>4 DEF IInv

LEMMA ToolAddsStep ==
    ASSUME IInv, NEW l \in Labels, NEW fs \in FeatureSets, ToolAdds(l, fs)
    PROVE  IInv'
<1>1. /\ t_pc = "idle" /\ job' = [job EXCEPT !.changed = job.changed \union {l}]
      /\ UNCHANGED <<server, history, disk, t_pc>>
  BY DEF ToolAdds, Tool!AddImageFeatures
<1>2. /\ t_counter \in P!Ids /\ \A j \in P!Ids : t_labels[j] # l
      /\ t_counter' = t_counter + 1
      /\ t_labels' = [t_labels EXCEPT ![t_counter] = l]
      /\ t_features' = Append(t_features, [id |-> t_counter, features |-> fs])
  BY ToolSets DEF ToolAdds, Tool!AddImageFeatures, Tool!label_exists
<1>3. Holds(t_labels, t_features, t_counter)
  BY <1>1 DEF IInv, MemoryOK
<1>4. /\ Holds(t_labels', t_features', t_counter')
      /\ SameBut(l, P!ImagesOf(t_labels', t_features'), P!ImagesOf(t_labels, t_features))
  BY <1>2, <1>3, AddedWhole
<1> QED
  BY <1>1, <1>4, ToolChanges

LEMMA ToolRemovesStep ==
    ASSUME IInv, NEW l \in Labels, ToolRemoves(l)
    PROVE  IInv'
<1>1. /\ t_pc = "idle" /\ job' = [job EXCEPT !.changed = job.changed \union {l}]
      /\ t_counter' = t_counter /\ UNCHANGED <<server, history, disk, t_pc>>
  BY DEF ToolRemoves, Tool!RemoveImage
<1>2. PICK id \in P!Ids :
         /\ t_labels[id] = l
         /\ t_labels' = [t_labels EXCEPT ![id] = NoLabel]
         /\ \/ \E k \in 1..Len(t_features) :
                 /\ t_features[k].id = id
                 /\ t_features' = P!WithoutAt(t_features, k)
            \/ ~P!HasId(t_features, id)
  BY ToolSets
  DEF ToolRemoves, Tool!RemoveImage, Tool!IsFirstIdFor, Tool!IsFirstInfo,
      Tool!HasId, P!HasId, Tool!WithoutAt, P!WithoutAt
<1>3. Holds(t_labels, t_features, t_counter)
  BY <1>1 DEF IInv, MemoryOK
<1>4. P!HasId(t_features, id)
  BY <1>2, <1>3, LabelledInfo
<1>5. PICK k \in 1..Len(t_features) :
        t_features[k].id = id /\ t_features' = P!WithoutAt(t_features, k)
  BY <1>2, <1>4
<1>6. /\ Holds(t_labels', t_features', t_counter')
      /\ SameBut(l, P!ImagesOf(t_labels', t_features'), P!ImagesOf(t_labels, t_features))
  BY <1>1, <1>2, <1>3, <1>5, RemovedWhole
<1> QED
  BY <1>1, <1>6, ToolChanges

LEMMA ToolSaveBeginsStep == ASSUME IInv, ToolSaveBegins PROVE IInv'
<1>1. /\ t_pc = "idle" /\ t_pc' = "saving" /\ s_pc # "saving"
      /\ disk' = P!TruncatedFile /\ UNCHANGED <<t_labels, t_features, t_counter, server, job>>
      /\ CountSave("tool")
      /\ stale' = IF s_pc = "idle" THEN stale \union {"server"} ELSE stale
  BY ToolSets DEF ToolSaveBegins, Tool!OpenForWriting, Tool!memory
<1>2. /\ "tool" \in stale => lost' /\ \A l \in Labels : promised'[l] = InDoubt
      /\ "tool" \notin stale => lost' = lost /\ promised' = promised
      /\ lost' \in BOOLEAN
  <2>1. lost \in BOOLEAN
    BY DEF IInv, ProcessesOK
  <2>2. CASE "tool" \in stale
    BY <1>1, <2>2 DEF CountSave, NothingPromised
  <2>3. CASE "tool" \notin stale
    BY <1>1, <2>1, <2>3 DEF CountSave
  <2> QED
    BY <2>2, <2>3
<1>3. ProcessesOK' /\ MemoryOK' /\ DiskOK'
  BY <1>1, <1>2, EmptiedFile
  DEF IInv, ProcessesOK, MemoryOK, DiskOK, server, s_memory, Phases
<1>4. StaleOK'
  BY <1>1, <1>2 DEF IInv, StaleOK, ProcessesOK, Phases, server
<1>5. PromisesOK'
  BY <1>1, <1>2, EmptiedFile
  DEF IInv, PromisesOK, Owes, server, s_memory
<1> QED
  BY <1>3, <1>4, <1>5 DEF IInv

\* A tool that ends leaves nothing in memory.
LEMMA ToolLeavesNothing ==
    ASSUME IInv, ToolEnds, UNCHANGED <<server, lost>>
    PROVE  /\ ProcessesOK' /\ MemoryOK' /\ t_pc' = "down"
           /\ stale' = stale \ {"tool"}
<1>1. /\ t_pc' = "down" /\ t_labels' = P!NoLabels /\ t_features' = <<>> /\ t_counter' = 0
      /\ stale' = stale \ {"tool"} /\ job' = [kind |-> "none", changed |-> {}]
  BY ToolSets DEF ToolEnds, NoJob
<1>2. job' \in Jobs
  BY <1>1 DEF Jobs
<1> QED
  BY <1>1, <1>2 DEF IInv, ProcessesOK, MemoryOK, server, s_memory, Phases

\* It ends without having begun to save.
LEMMA ToolQuits ==
    ASSUME IInv, ToolEnds, t_pc # "saving", UNCHANGED <<disk, server, lost, promised>>
    PROVE  IInv'
<1>1. /\ ProcessesOK' /\ MemoryOK' /\ t_pc' = "down"
      /\ stale' = stale \ {"tool"}
  BY ToolLeavesNothing
<1>2. DiskOK' /\ StaleOK'
  BY <1>1 DEF IInv, DiskOK, StaleOK, server
<1>3. PromisesOK'
  BY <1>1 DEF IInv, PromisesOK, Owes, server, s_memory
<1> QED
  BY <1>1, <1>2, <1>3 DEF IInv

\* It ends in a save, well or not.
LEMMA ToolSaveStops ==
    ASSUME IInv, ToolEnds, t_pc = "saving", UNCHANGED <<server, lost>>,
           disk' \in P!File,
           P!Loadable(disk') => disk'.labels = t_labels /\ disk'.feats = t_features,
           NEW images, Promise(job.changed, images),
           \A l \in Labels : images[l] \in {P!ImagesOf(t_labels, t_features)[l], InDoubt}
    PROVE  IInv'
<1>1. /\ ProcessesOK' /\ MemoryOK' /\ t_pc' = "down"
      /\ stale' = stale \ {"tool"}
  BY ToolLeavesNothing
<1>2. /\ Holds(t_labels, t_features, t_counter) /\ s_pc # "saving"
      /\ s_filename => "server" \in stale
      /\ "tool" \in stale => lost
  BY DEF IInv, ProcessesOK, MemoryOK, StaleOK
<1>3. \A l \in Labels :
        promised'[l] = IF l \in job.changed /\ ~lost THEN images[l] ELSE promised[l]
  BY DEF Promise
<1>4. \A l \in Labels : promised'[l] \in {P!ImagesOf(t_labels, t_features)[l], InDoubt}
  <2>1. CASE lost
    BY <1>3, <2>1 DEF IInv, PromisesOK
  <2>2. CASE ~lost
    BY <1>2, <1>3, <2>2 DEF IInv, PromisesOK, Owes
  <2> QED
    BY <2>1, <2>2
<1>5. lost => \A l \in Labels : promised'[l] = InDoubt
  BY <1>3 DEF IInv, PromisesOK
<1>6. DiskOK' /\ StaleOK'
  BY <1>1, <1>2 DEF DiskOK, StaleOK, Holds, Whole, server
<1>7. PromisesOK'
  <2>1. P!Loadable(disk') => Owes(disk.labels, disk.feats, {})'
    BY <1>4 DEF Owes
  <2>2. disk' # NoFile
    BY EmptiedFile
  <2>3. s_filename' => "server" \in stale'
    BY <1>1, <1>2 DEF server, s_memory
  <2> QED
    BY <1>1, <1>5, <2>1, <2>2, <2>3 DEF PromisesOK
<1> QED
  BY <1>1, <1>6, <1>7 DEF IInv

LEMMA ToolSaveFinishesStep == ASSUME IInv, ToolSaveFinishes PROVE IInv'
<1>1. /\ t_pc = "saving" /\ ToolEnds /\ UNCHANGED <<server, lost>>
      /\ disk' = P!FileOf(t_labels, t_features)
      /\ Promise(job.changed, View(t_labels, t_features))
  BY ToolFiles DEF ToolSaveFinishes
<1>2. Whole(t_labels, t_features)
  BY <1>1 DEF IInv, MemoryOK, Holds
<1>3. View(t_labels, t_features) = P!ImagesOf(t_labels, t_features)
  BY ServerFiles DEF View
<1> QED
  BY <1>1, <1>2, <1>3, SavedWhole, ToolSaveStops

LEMMA ToolSaveTorn ==
    ASSUME IInv, t_pc = "saving", disk' \in Tool!Prefixes(t_labels, t_features),
           Promise(job.changed, NothingPromised), ToolEnds, UNCHANGED <<server, lost>>
    PROVE  IInv'
<1>1. Whole(t_labels, t_features)
  BY DEF IInv, MemoryOK, Holds
<1>2. disk' \in P!Prefixes(t_labels, t_features)
  BY ToolFiles
<1> QED
  BY <1>1, <1>2, Doubts, PrefixWhole, ToolSaveStops

LEMMA ToolSaveFailsStep == ASSUME IInv, ToolSaveFails PROVE IInv'
BY ToolSaveTorn DEF ToolSaveFails

LEMMA ToolCrashesStep == ASSUME IInv, ToolCrashes PROVE IInv'
<1>1. CASE t_pc = "saving"
  BY <1>1, ToolSaveTorn DEF ToolCrashes
<1>2. CASE t_pc # "saving"
  BY <1>2, ToolQuits DEF ToolCrashes
<1> QED
  BY <1>1, <1>2

LEMMA ToolRefusesStep ==
    ASSUME IInv, NEW kind \in Kinds, ToolRefuses(kind)
    PROVE  IInv'
BY ToolQuits DEF ToolRefuses

LEMMA ToolGivesUpStep == ASSUME IInv, ToolGivesUp PROVE IInv'
BY ToolQuits DEF ToolGivesUp

LEMMA ToolEndsUnsavedStep == ASSUME IInv, ToolEndsUnsaved PROVE IInv'
BY ToolQuits DEF ToolEndsUnsaved

-----------------------------------------------------------------------------
(* The invariant holds, and what follows from it.                          *)

\* A file made by db-add, or none, and two processes that are down.
LEMMA IInvInit == Init => IInv
<1> SUFFICES ASSUME Init PROVE IInv
  OBVIOUS
<1>1. \A l, fs : Server!DbAddFile(l, fs) = P!DbAddFile(l, fs)
  BY ServerSets, ServerFiles DEF Server!DbAddFile, P!DbAddFile
<1>2. P!Init
  BY <1>1, ServerSets DEF Init, Server!Init, P!Init, Server!Constructed, P!Constructed
<1>3. P!TypeOK /\ P!LoadableFileIsWhole
  BY <1>2, Assumptions, P!IInvInit DEF P!IInv
<1>4. /\ s_pc = "down" /\ s_filename = FALSE /\ t_pc = "down"
      /\ t_labels = P!NoLabels /\ t_features = <<>> /\ t_counter = 0
      /\ job = [kind |-> "none", changed |-> {}] /\ lost = FALSE
  BY ToolSets DEF Init, Server!Init, Server!Constructed, Tool!Constructed, NoJob
<1>5. job \in Jobs
  BY <1>4 DEF Jobs
<1>6. ProcessesOK /\ MemoryOK /\ StaleOK
  BY <1>4, <1>5 DEF ProcessesOK, MemoryOK, StaleOK, Phases
<1>7. DiskOK
  BY <1>3, <1>4 DEF DiskOK, P!TypeOK, P!LoadableFileIsWhole
<1>8. Saved = P!ImagesOf(disk.labels, disk.feats)
  BY ServerFiles DEF Saved
<1>9. \A l \in Labels : promised[l] =
        IF disk = NoFile THEN NoImage ELSE P!ImagesOf(disk.labels, disk.feats)[l]
  BY <1>8 DEF Init, AsPromised
<1>10. PromisesOK
  BY <1>4, <1>9, EmptiedFile DEF PromisesOK, Owes
<1> QED
  BY <1>6, <1>7, <1>10 DEF IInv

LEMMA IInvStep == IInv /\ [Next]_vars => IInv'
<1> SUFFICES ASSUME IInv, [Next]_vars PROVE IInv'
  OBVIOUS
<1>1. CASE ServerLoads
  BY <1>1, ServerLoadsStep
<1>2. CASE \E l \in Labels, fs \in FeatureSets : ServerAdds(l, fs)
  BY <1>2, ServerAddsStep
<1>3. CASE \E l \in Labels : ServerRemoves(l)
  BY <1>3, ServerRemovesStep
<1>4. CASE ServerSaveBegins
  BY <1>4, ServerSaveBeginsStep
<1>5. CASE ServerSaveFinishes
  BY <1>5, ServerSaveFinishesStep
<1>6. CASE ServerSaveFails
  BY <1>6, ServerSaveFailsStep
<1>7. CASE ServerCannotSave
  BY <1>7, ServerCannotSaveStep
<1>8. CASE ServerCrashes
  BY <1>8, ServerCrashesStep
<1>9. CASE \E kind \in Kinds : ToolLoads(kind) \/ ToolRefuses(kind) \/ ToolCreates(kind)
  BY <1>9, ToolLoadsStep, ToolRefusesStep, ToolCreatesStep
<1>10. CASE \E l \in Labels, fs \in FeatureSets : ToolAdds(l, fs)
  BY <1>10, ToolAddsStep
<1>11. CASE ToolGivesUp
  BY <1>11, ToolGivesUpStep
<1>12. CASE \E l \in Labels : ToolRemoves(l)
  BY <1>12, ToolRemovesStep
<1>13. CASE ToolSaveBegins
  BY <1>13, ToolSaveBeginsStep
<1>14. CASE ToolSaveFinishes
  BY <1>14, ToolSaveFinishesStep
<1>15. CASE ToolSaveFails
  BY <1>15, ToolSaveFailsStep
<1>16. CASE ToolEndsUnsaved
  BY <1>16, ToolEndsUnsavedStep
<1>17. CASE ToolCrashes
  BY <1>17, ToolCrashesStep
<1>18. CASE UNCHANGED vars
  <2>1. UNCHANGED <<disk, server, tool, history>>
    BY <1>18 DEF vars
  <2>2. ProcessesOK' /\ MemoryOK' /\ DiskOK' /\ StaleOK'
    BY <2>1 DEF IInv, ProcessesOK, MemoryOK, DiskOK, StaleOK, server, s_memory, tool,
                t_memory, history
  <2>3. PromisesOK'
    BY <2>1 DEF IInv, PromisesOK, Owes, server, s_memory, tool, t_memory, history
  <2> QED
    BY <2>2, <2>3 DEF IInv
<1> QED
  BY <1>1, <1>2, <1>3, <1>4, <1>5, <1>6, <1>7, <1>8, <1>9, <1>10, <1>11, <1>12, <1>13,
     <1>14, <1>15, <1>16, <1>17, <1>18 DEF Next, Kinds

\* The invariant holds in every state of a server and the tools beside it.
THEOREM InductiveInvariant == Spec => []IInv
<1>1. Init => IInv
  BY IInvInit
<1>2. IInv /\ [Next]_vars => IInv'
  BY IInvStep
<1> QED
  BY <1>1, <1>2, PTL DEF Spec

\* Whoever loads, even while another process writes, has a whole database or
\* knows that it has none (ImageDB.cpp:366-430; db-add.cpp:105, db-del.cpp:65).
THEOREM WholeLoads == Spec => []LoadsAreWhole
<1>1. IInv => LoadsAreWhole
  BY ServerFiles, ToolFiles DEF IInv, MemoryOK, Holds, Whole, LoadsAreWhole
<1> QED
  BY <1>1, InductiveInvariant, PTL

\* Images are lost by the save of a stale view and by nothing else: until there
\* is one, a file that loads has what the last answer or exit code said of each
\* label (db-add.cpp:105-137, db-del.cpp:65-77, DBServer.cpp:392).
THEOREM PromisesKept == Spec => []FileKeepsPromises
<1>1. IInv => FileKeepsPromises
  <2>1. Saved = P!ImagesOf(disk.labels, disk.feats)
    BY ServerFiles DEF Saved
  <2>2. Server!Loadable(disk) <=> P!Loadable(disk)
    BY ServerFiles
  <2> QED
    BY <2>1, <2>2 DEF IInv, PromisesOK, Owes, FileKeepsPromises
<1> QED
  BY <1>1, InductiveInvariant, PTL
=============================================================================

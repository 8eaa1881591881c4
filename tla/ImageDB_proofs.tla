--------------------------- MODULE ImageDB_proofs ---------------------------
(***************************************************************************)
(* Proofs about ImageDB, for every bound on the ids, every set of labels   *)
(* and every set of feature arrays.  First what the operators of the model *)
(* do to the label map, the vector and the file, then type correctness,    *)
(* then the inductive invariant IInv and the theorems it gives.            *)
(***************************************************************************)
EXTENDS ImageDB, FiniteSetTheorems, SequenceTheorems, WellFoundedInduction, TLAPS

\* A set of ids that is not empty has a least and a greatest element, so
\* TextAfter, Misread and CounterAfter choose something.
LEMMA LeastId ==
    ASSUME NEW S \in SUBSET Ids, S # {}
    PROVE  \E x \in S : \A y \in S : x <= y
<1>1. S \subseteq Nat
  BY MaxIdAssumption DEF Ids
<1>2. PICK x \in S : \A y \in S : ~(<<y, x>> \in OpToRel(<, Nat))
  BY <1>1, NatLessThanWellFounded, WFMin
<1>3. \A y \in S : ~(y < x)
  BY <1>1, <1>2 DEF OpToRel
<1> QED
  BY <1>1, <1>3

LEMMA GreatestId ==
    ASSUME NEW S \in SUBSET Ids, S # {}
    PROVE  \E x \in S : \A y \in S : y <= x
<1> DEFINE T == {MaxId - s : s \in S}
<1>1. T \in SUBSET Ids /\ T # {}
  <2>1. \A s \in S : MaxId - s \in Ids
    BY MaxIdAssumption DEF Ids
  <2> QED
    BY <2>1
<1>2. PICK t \in T : \A u \in T : t <= u
  BY <1>1, LeastId
<1>3. PICK x \in S : t = MaxId - x
  BY <1>2
<1>4. \A y \in S : MaxId - x <= MaxId - y
  BY <1>2, <1>3
<1> QED
  BY <1>3, <1>4, MaxIdAssumption DEF Ids

-----------------------------------------------------------------------------
(* The map of labels.                                                      *)

\* There are finitely many keys, so comparing their number means something.
LEMMA KeysFinite ==
    ASSUME NEW labels
    PROVE  /\ IsFiniteSet(Keys(labels))
           /\ Cardinality(Keys(labels)) \in Nat
<1>1. IsFiniteSet(Ids)
  BY MaxIdAssumption, FS_Interval DEF Ids
<1>2. Keys(labels) \in SUBSET Ids
  BY DEF Keys
<1> QED
  BY <1>1, <1>2, FS_Subset, FS_CardinalityType

\* A database just constructed has no key.
LEMMA NoKeys ==
    /\ NoLabels \in LabelMap
    /\ Keys(NoLabels) = {}
    /\ Cardinality(Keys(NoLabels)) = 0
<1>1. Keys(NoLabels) = {}
  BY DEF Keys, NoLabels
<1> QED
  BY <1>1, FS_EmptySet DEF NoLabels, LabelMap

\* Adding an entry under a new id, and taking one away.
LEMMA KeysAdded ==
    ASSUME NEW labels \in LabelMap, NEW i \in Ids, labels[i] = NoLabel,
           NEW l \in LabelText
    PROVE  LET new == [labels EXCEPT ![i] = l] IN
           /\ new \in LabelMap
           /\ Keys(new) = Keys(labels) \union {i}
           /\ Cardinality(Keys(new)) = Cardinality(Keys(labels)) + 1
<1> DEFINE new == [labels EXCEPT ![i] = l]
<1>1. new \in LabelMap
  BY DEF LabelMap
<1>2. l # NoLabel
  BY LabelsAssumption DEF LabelText
<1>3. Keys(new) = Keys(labels) \union {i}
  BY <1>1, <1>2 DEF Keys, LabelMap
<1>4. i \notin Keys(labels)
  BY DEF Keys
<1> QED
  BY <1>1, <1>3, <1>4, KeysFinite, FS_AddElement

\* Erasing an entry of the map takes exactly that key out.
LEMMA KeysRemoved ==
    ASSUME NEW labels \in LabelMap, NEW i \in Ids, labels[i] # NoLabel
    PROVE  LET new == [labels EXCEPT ![i] = NoLabel] IN
           /\ new \in LabelMap
           /\ Keys(new) = Keys(labels) \ {i}
           /\ Cardinality(Keys(new)) = Cardinality(Keys(labels)) - 1
<1> DEFINE new == [labels EXCEPT ![i] = NoLabel]
<1>1. new \in LabelMap
  BY DEF LabelMap
<1>2. Keys(new) = Keys(labels) \ {i}
  BY <1>1 DEF Keys, LabelMap
<1>3. i \in Keys(labels)
  BY DEF Keys
<1> QED
  BY <1>1, <1>2, <1>3, KeysFinite, FS_RemoveElement

-----------------------------------------------------------------------------
(* The vector of features.                                                 *)

\* vector::erase shifts what is behind the erased element.
LEMMA WithoutAtProperties ==
    ASSUME NEW feats \in Seq(FeatureInfo), NEW k \in 1..Len(feats)
    PROVE  /\ WithoutAt(feats, k) \in Seq(FeatureInfo)
           /\ Len(WithoutAt(feats, k)) = Len(feats) - 1
           /\ \A j \in 1..(Len(feats) - 1) :
                WithoutAt(feats, k)[j] = IF j < k THEN feats[j] ELSE feats[j + 1]
<1> DEFINE n == Len(feats) - 1
           e(j) == IF j < k THEN feats[j] ELSE feats[j + 1]
<1>1. n \in Nat
  OBVIOUS
<1>2. \A j \in 1..n : e(j) \in FeatureInfo
  OBVIOUS
<1>3. [j \in 1..n |-> e(j)] \in Seq(FeatureInfo)
  BY <1>1, <1>2, IsASeq
<1> HIDE DEF n
<1>4. Len([j \in 1..n |-> e(j)]) = n
  BY <1>1, <1>3
<1> USE DEF n
<1> QED
  BY <1>3, <1>4 DEF WithoutAt

-----------------------------------------------------------------------------
(* Agreement of the two.                                                   *)

\* The empty map agrees with the empty vector.
LEMMA AgreeEmpty == Agree(NoLabels, <<>>)
<1>1. SameSize(NoLabels, <<>>)
  BY NoKeys DEF SameSize
<1> QED
  BY <1>1, NoKeys
  DEF Agree, UniqueLabels, UniqueIds, SameIds, HasId

\* The two assignments of add_image_features keep the map and the vector in
\* agreement, given that its id is new.
LEMMA AgreeAdd ==
    ASSUME NEW labels \in LabelMap, NEW feats \in Seq(FeatureInfo),
           Agree(labels, feats),
           NEW i \in Ids, labels[i] = NoLabel,
           NEW l \in ClientLabels, \A j \in Ids : labels[j] # l,
           NEW fs \in FeatureSets
    PROVE  Agree([labels EXCEPT ![i] = l], Append(feats, [id |-> i, features |-> fs]))
<1> DEFINE new == [labels EXCEPT ![i] = l]
           r == [id |-> i, features |-> fs]
           s == Append(feats, r)
<1>1. l \in LabelText
  BY LabelsAssumption DEF ClientLabels, Unreadable, LabelText
<1>2. /\ new \in LabelMap
      /\ Keys(new) = Keys(labels) \union {i}
      /\ Cardinality(Keys(new)) = Cardinality(Keys(labels)) + 1
  BY <1>1, KeysAdded
<1>3. /\ s \in Seq(FeatureInfo)
      /\ Len(s) = Len(feats) + 1
      /\ \A k \in 1..Len(feats) : s[k] = feats[k]
      /\ s[Len(feats) + 1] = r
  BY DEF FeatureInfo
<1>4. \A k \in 1..Len(feats) : feats[k].id # i
  BY DEF Agree, SameIds, HasId, Keys
<1>5. \A j \in Ids : new[j] = IF j = i THEN l ELSE labels[j]
  BY DEF LabelMap
<1> HIDE DEF new, s
<1>6. UniqueLabels(new)
  BY <1>2, <1>5 DEF UniqueLabels, Agree, Keys
<1>7. UniqueIds(s)
  BY <1>3, <1>4 DEF UniqueIds, Agree
<1>8. SameIds(new, s)
  <2>1. ASSUME NEW j \in Ids PROVE HasId(s, j) <=> HasId(feats, j) \/ j = i
    BY <1>3 DEF HasId
  <2> QED
    BY <2>1, <1>2 DEF SameIds, Agree
<1>9. SameSize(new, s)
  BY <1>2, <1>3 DEF SameSize, Agree
<1> QED
  BY <1>6, <1>7, <1>8, <1>9 DEF Agree, new, s

\* So do the two erasures of remove_image.
LEMMA AgreeRemove ==
    ASSUME NEW labels \in LabelMap, NEW feats \in Seq(FeatureInfo),
           Agree(labels, feats),
           NEW k \in 1..Len(feats), labels[feats[k].id] # NoLabel
    PROVE  Agree([labels EXCEPT ![feats[k].id] = NoLabel], WithoutAt(feats, k))
<1> DEFINE i == feats[k].id
           new == [labels EXCEPT ![i] = NoLabel]
           s == WithoutAt(feats, k)
<1>1. i \in Ids
  <2>1. feats[k] \in FeatureInfo
    OBVIOUS
  <2> QED
    BY <2>1 DEF FeatureInfo
<1>2. /\ new \in LabelMap
      /\ Keys(new) = Keys(labels) \ {i}
      /\ Cardinality(Keys(new)) = Cardinality(Keys(labels)) - 1
  BY <1>1, KeysRemoved
<1>3. /\ s \in Seq(FeatureInfo)
      /\ Len(s) = Len(feats) - 1
      /\ \A j \in 1..(Len(feats) - 1) :
           s[j] = IF j < k THEN feats[j] ELSE feats[j + 1]
  BY WithoutAtProperties
<1>4. \A j \in Ids : new[j] = IF j = i THEN NoLabel ELSE labels[j]
  BY <1>1 DEF LabelMap
<1>5. Len(feats) \in Nat
  OBVIOUS
<1> HIDE DEF new, s
<1>6. UniqueLabels(new)
  BY <1>2, <1>4 DEF UniqueLabels, Agree, Keys
<1>7. UniqueIds(s)
  <2> SUFFICES ASSUME NEW a \in 1..Len(s), NEW b \in 1..Len(s), s[a].id = s[b].id
               PROVE  a = b
    BY DEF UniqueIds
  <2> DEFINE at(j) == IF j < k THEN j ELSE j + 1
  <2>1. /\ at(a) \in 1..Len(feats) /\ s[a] = feats[at(a)]
        /\ at(b) \in 1..Len(feats) /\ s[b] = feats[at(b)]
    BY <1>3, <1>5
  <2>2. at(a) = at(b)
    BY <2>1 DEF Agree, UniqueIds
  <2> QED
    BY <2>2, <1>3, <1>5
<1>8. SameIds(new, s)
  <2>1. ASSUME NEW j \in Ids, j # i, HasId(feats, j) PROVE HasId(s, j)
    <3>1. PICK a \in 1..Len(feats) : feats[a].id = j
      BY <2>1 DEF HasId
    <3>2. a # k
      BY <3>1, <2>1
    <3>3. CASE a < k
      BY <3>1, <3>3, <1>3, <1>5 DEF HasId
    <3>4. CASE a > k
      <4>1. a - 1 \in 1..Len(s) /\ s[a - 1] = feats[a]
        BY <3>4, <1>3, <1>5
      <4> QED
        BY <4>1, <3>1 DEF HasId
    <3> QED
      BY <3>2, <3>3, <3>4
  <2>2. ASSUME NEW j \in Ids, HasId(s, j) PROVE j # i /\ HasId(feats, j)
    <3>1. PICK a \in 1..Len(s) : s[a].id = j
      BY <2>2 DEF HasId
    <3> DEFINE b == IF a < k THEN a ELSE a + 1
    <3>2. b \in 1..Len(feats) /\ b # k /\ s[a] = feats[b]
      BY <1>3, <1>5
    <3>3. feats[b].id # feats[k].id
      BY <3>2 DEF Agree, UniqueIds
    <3> QED
      BY <3>1, <3>2, <3>3 DEF HasId
  <2> QED
    BY <2>1, <2>2, <1>2 DEF SameIds, Agree
<1>9. SameSize(new, s)
  BY <1>2, <1>3 DEF SameSize, Agree
<1> QED
  BY <1>6, <1>7, <1>8, <1>9 DEF Agree, new, s

-----------------------------------------------------------------------------
(* The file.                                                               *)

\* What a finished save writes is a file.
LEMMA FileOfType ==
    ASSUME NEW labels \in LabelMap, NEW feats \in Seq(FeatureInfo)
    PROVE  FileOf(labels, feats) \in File
BY KeysFinite DEF FileOf, File

\* So is whatever part of it a save that stopped leaves.
LEMMA PrefixesType ==
    ASSUME NEW labels \in LabelMap, NEW feats \in Seq(FeatureInfo),
           NEW f \in Prefixes(labels, feats)
    PROVE  f \in File
<1>1. Cardinality(Keys(labels)) \in Nat
  BY KeysFinite
<1>2. TruncatedFile \in File
  BY NoKeys DEF TruncatedFile, File
<1>3. ASSUME NEW h \in HeaderCuts(labels) PROVE h \in LabelMap
  <2>1. PICK b \in Ids, whole \in BOOLEAN :
          h = [i \in Ids |-> IF i < b \/ (i = b /\ whole) THEN labels[i]
                             ELSE IF i = b /\ labels[i] \notin {NoLabel, EmptyLabel}
                                  THEN JunkLabel ELSE NoLabel]
    BY DEF HeaderCuts
  <2> QED
    BY <2>1 DEF LabelMap, LabelText
<1>4. ASSUME NEW k \in Exported(feats) PROVE SubSeq(feats, 1, k) \in Seq(FeatureInfo)
  BY DEF Exported
<1> DEFINE count == Cardinality(Keys(labels))
<1>5. ASSUME NEW h \in HeaderCuts(labels)
      PROVE  [count |-> count, labels |-> h, feats |-> <<>>] \in File
  <2>1. h \in LabelMap /\ <<>> \in Seq(FeatureInfo)
    BY <1>3
  <2> QED
    BY <1>1, <2>1 DEF File
<1>6. ASSUME NEW k \in Exported(feats)
      PROVE  [count |-> count, labels |-> labels, feats |-> SubSeq(feats, 1, k)] \in File
  BY <1>1, <1>4 DEF File
<1> QED
  BY <1>2, <1>5, <1>6 DEF Prefixes

\* A prefix with as many blocks as its count says is the whole file.
LEMMA LoadablePrefixIsWhole ==
    ASSUME NEW labels \in LabelMap, NEW feats \in Seq(FeatureInfo),
           Agree(labels, feats),
           NEW f \in Prefixes(labels, feats), Loadable(f)
    PROVE  f.labels = labels /\ f.feats = feats
<1> DEFINE count == Cardinality(Keys(labels))
<1>1. count = Len(feats) /\ count \in Nat
  BY KeysFinite DEF Agree, SameSize
<1>2. f # TruncatedFile
  BY DEF Loadable, TruncatedFile
<1>3. CASE \E h \in HeaderCuts(labels) : f = [count |-> count, labels |-> h, feats |-> <<>>]
  <2>1. PICK h \in HeaderCuts(labels) : f = [count |-> count, labels |-> h, feats |-> <<>>]
    BY <1>3
  <2>2. count = 0 /\ feats = <<>>
    BY <2>1, <1>1 DEF Loadable
  <2>3. Keys(labels) = {}
    BY <2>2, KeysFinite, FS_EmptySet
  <2>4. PICK b \in Ids, whole \in BOOLEAN :
          h = [i \in Ids |-> IF i < b \/ (i = b /\ whole) THEN labels[i]
                             ELSE IF i = b /\ labels[i] \notin {NoLabel, EmptyLabel}
                                  THEN JunkLabel ELSE NoLabel]
    BY DEF HeaderCuts
  <2>5. h = labels
    BY <2>3, <2>4 DEF Keys, LabelMap
  <2>6. feats = <<>>
    BY <2>2, <1>1
  <2> QED
    BY <2>1, <2>5, <2>6
<1>4. CASE \E k \in Exported(feats) :
             f = [count |-> count, labels |-> labels, feats |-> SubSeq(feats, 1, k)]
  <2>1. PICK k \in Exported(feats) :
          f = [count |-> count, labels |-> labels, feats |-> SubSeq(feats, 1, k)]
    BY <1>4
  <2>2. k \in 0..Len(feats) /\ Len(SubSeq(feats, 1, k)) = k
    BY DEF Exported
  <2>3. k = Len(feats)
    BY <2>1, <2>2, <1>1 DEF Loadable
  <2>4. f.feats = feats
    BY <2>1, <2>3, SubSeqFull
  <2> QED
    BY <2>1, <2>4
<1> QED
  BY <1>2, <1>3, <1>4 DEF Prefixes

\* What a load leaves in the label map has the type of one, misread or not.
LEMMA LoadedLabelsType ==
    ASSUME NEW f \in File
    PROVE  LoadedLabels(f) \in LabelMap
<1>1. f.labels \in LabelMap
  BY DEF File
<1>2. ASSUME NEW i \in Ids PROVE TextAfter(f.labels, i) \in LabelText
  <2> DEFINE later == {j \in Keys(f.labels) : j > i}
  <2>1. later \in SUBSET Ids
    BY DEF Keys
  <2>2. CASE later = {}
    BY <2>2 DEF TextAfter, LabelText
  <2>3. CASE later # {}
    <3>1. (CHOOSE j \in later : \A m \in later : j <= m) \in later
      BY <2>1, <2>3, LeastId
    <3> QED
      BY <3>1, <2>1, <2>3 DEF TextAfter, LabelText
  <2> QED
    BY <2>2, <2>3
<1>3. Misread(f) \in LabelMap
  <2> DEFINE e == CHOOSE i \in Ids : /\ f.labels[i] \in Unreadable
                                    /\ \A j \in Ids : j < i => f.labels[j] \notin Unreadable
             inPlace(i) == i < e \/ f.labels[i] = JunkLabel
             key(i) == IF i <= e THEN i ELSE f.labels[i]
             text(i) == IF inPlace(i) THEN f.labels[i] ELSE TextAfter(f.labels, i)
             there(i) == inPlace(i) \/ f.feats # <<>> \/ \E j \in Keys(f.labels) : j > i
             reached(i) == \A j \in Ids : j < i => f.labels[j] # JunkLabel
             readers(k) == {i \in Keys(f.labels) : there(i) /\ reached(i) /\ key(i) = k}
             last(k) == CHOOSE i \in readers(k) : \A j \in readers(k) : j <= i
             value(k) == IF readers(k) = {} THEN NoLabel ELSE text(last(k))
  <2>1. ASSUME NEW i \in Keys(f.labels) PROVE text(i) \in LabelText
    <3>1. i \in Ids /\ f.labels[i] \in LabelText
      BY <1>1 DEF Keys, LabelMap
    <3> QED
      BY <3>1, <1>2
  <2>2. ASSUME NEW k \in Ids, readers(k) # {} PROVE last(k) \in Keys(f.labels)
    <3>1. readers(k) \in SUBSET Ids
      BY DEF Keys
    <3> HIDE DEF readers
    <3>2. last(k) \in readers(k)
      BY <3>1, <2>2, GreatestId
    <3> QED
      BY <3>2 DEF readers
  <2> HIDE DEF readers, text, last
  <2>3. \A k \in Ids : value(k) \in LabelText \union {NoLabel}
    BY <2>1, <2>2
  <2>4. [k \in Ids |-> value(k)] \in LabelMap
    BY <2>3 DEF LabelMap
  <2> QED
    BY <2>4 DEF Misread, readers, text, last
<1> QED
  BY <1>1, <1>3 DEF LoadedLabels

\* max_id + 1 is above every id a load read.
LEMMA CounterAfterIsFresh ==
    ASSUME NEW labels \in LabelMap
    PROVE  /\ CounterAfter(labels) \in 1..(MaxId + 1)
           /\ \A i \in Keys(labels) : i < CounterAfter(labels)
<1> DEFINE P(n) == /\ \A i \in Keys(labels) : i < n
                   /\ n = 1 \/ (n - 1) \in Keys(labels)
<1>1. Keys(labels) \in SUBSET Ids
  BY DEF Keys
<1>2. \E n \in 1..(MaxId + 1) : P(n)
  <2>1. CASE Keys(labels) = {}
    BY <2>1, MaxIdAssumption
  <2>2. CASE Keys(labels) # {}
    <3>1. PICK m \in Keys(labels) : \A i \in Keys(labels) : i <= m
      BY <2>2, <1>1, GreatestId
    <3>2. m \in 0..MaxId /\ \A i \in Keys(labels) : i \in 0..MaxId
      BY <1>1 DEF Ids
    <3>3. m + 1 \in 1..(MaxId + 1) /\ P(m + 1)
      BY <3>1, <3>2, MaxIdAssumption
    <3> QED
      BY <3>3
  <2> QED
    BY <2>1, <2>2
<1>3. CounterAfter(labels) = CHOOSE n \in 1..(MaxId + 1) : P(n)
  BY DEF CounterAfter
<1> HIDE DEF P
<1>4. CounterAfter(labels) \in 1..(MaxId + 1) /\ P(CounterAfter(labels))
  BY <1>2, <1>3
<1> QED
  BY <1>4 DEF P

-----------------------------------------------------------------------------
(* Type correctness.                                                       *)

\* Every method, a crash included, keeps the types.
LEMMA TypeOKStep == TypeOK /\ [Next]_vars => TypeOK'
<1> SUFFICES ASSUME TypeOK, [Next]_vars PROVE TypeOK'
  OBVIOUS
<1> USE DEF TypeOK
<1>1. CASE LoadFails
  <2>1. CASE disk = NoFile \/ disk = TruncatedFile
    BY <1>1, <2>1 DEF LoadFails, ReadFails
  <2>2. CASE ~(disk = NoFile \/ disk = TruncatedFile)
    <3>1. disk \in File
      BY <2>2
    <3>2. disk.feats \in Seq(FeatureInfo) /\ <<>> \in Seq(FeatureInfo)
      BY <3>1 DEF File
    <3>3. LoadedLabels(disk) \in LabelMap
      BY <3>1, LoadedLabelsType
    <3>4. m_labels' \in LabelMap /\ m_uncoalesced_features' \in Seq(FeatureInfo)
      BY <1>1, <2>2, <3>2, <3>3 DEF LoadFails, ReadFails
    <3> QED
      BY <1>1, <3>4 DEF LoadFails, ReadFails
  <2> QED
    BY <2>1, <2>2
<1>2. CASE LoadSucceeds
  <2>1. disk \in File
    BY <1>2 DEF LoadSucceeds, ReadSucceeds, Loadable
  <2>2. disk.labels \in LabelMap /\ disk.feats \in Seq(FeatureInfo)
        /\ disk.count \in Nat /\ disk.count <= Len(disk.feats)
    BY <1>2, <2>1 DEF File, LoadSucceeds, ReadSucceeds, Loadable
  <2>3. SubSeq(disk.feats, 1, disk.count) \in Seq(FeatureInfo)
    BY <2>2
  <2>4. CounterAfter(disk.labels) \in 0..(MaxId + 1)
    BY <2>2, CounterAfterIsFresh, MaxIdAssumption
  <2> QED
    BY <1>2, <2>2, <2>3, <2>4 DEF LoadSucceeds, ReadSucceeds
<1>3. ASSUME NEW l \in ClientLabels, NEW fs \in FeatureSets, AddImageFeatures(l, fs)
      PROVE  TypeOK'
  <2>1. l \in LabelText /\ m_id_counter \in Ids /\ m_id_counter + 1 \in 0..(MaxId + 1)
    BY <1>3, LabelsAssumption, MaxIdAssumption
    DEF AddImageFeatures, ClientLabels, Unreadable, LabelText, Ids
  <2>2. m_labels' \in LabelMap
    BY <1>3, <2>1 DEF AddImageFeatures, LabelMap
  <2>3. [id |-> m_id_counter, features |-> fs] \in FeatureInfo
    BY <2>1 DEF FeatureInfo
  <2>4. m_uncoalesced_features' \in Seq(FeatureInfo)
    BY <1>3, <2>3 DEF AddImageFeatures
  <2> QED
    BY <1>3, <2>1, <2>2, <2>4 DEF AddImageFeatures
<1>4. ASSUME NEW l \in ClientLabels, RemoveImage(l)
      PROVE  TypeOK'
  <2>1. m_labels' \in LabelMap
    BY <1>4 DEF RemoveImage, LabelMap
  <2>2. m_uncoalesced_features' \in Seq(FeatureInfo) /\ m_need_to_coalesce' \in BOOLEAN
    BY <1>4, WithoutAtProperties DEF RemoveImage
  <2> QED
    BY <1>4, <2>1, <2>2 DEF RemoveImage
<1>5. CurrentTree \subseteq FeatureInfo
  BY DEF CurrentTree, Coalesced
<1>6. CASE Coalesce
  BY <1>5, <1>6 DEF Coalesce
<1>7. ASSUME NEW hits \in SUBSET CurrentTree, Match(hits)
      PROVE  TypeOK'
  <2>1. LabelsAfterLookup(hits) \in LabelMap
    BY DEF LabelsAfterLookup, LabelMap, LabelText
  <2> QED
    BY <1>5, <1>7, <2>1 DEF Match
<1>8. TruncatedFile \in File
  BY NoKeys DEF TruncatedFile, File
<1>9. CASE SaveBegins
  BY <1>8, <1>9 DEF SaveBegins, OpenForWriting, memory
<1>10. CASE SaveFinishes
  BY <1>10, FileOfType DEF SaveFinishes, memory
<1>11. CASE SaveFails
  BY <1>11, PrefixesType DEF SaveFails, memory
<1>12. CASE Crash
  <2>1. NoLabels \in LabelMap /\ <<>> \in Seq(FeatureInfo)
    BY NoKeys
  <2>2. disk' \in File \union {NoFile}
    BY <1>12, PrefixesType DEF Crash
  <2>3. 0 \in 0..(MaxId + 1)
    BY MaxIdAssumption
  <2>4. /\ m_labels' \in LabelMap /\ m_uncoalesced_features' \in Seq(FeatureInfo)
        /\ m_kd_tree' \subseteq FeatureInfo /\ m_id_counter' \in 0..(MaxId + 1)
        /\ m_need_to_coalesce' \in BOOLEAN /\ m_filename' \in BOOLEAN
        /\ pc' \in {"down", "idle", "saving"}
    BY <1>12, <2>1, <2>3 DEF Crash
  <2> QED
    BY <2>2, <2>4
<1>13. CASE UNCHANGED vars
  BY <1>13 DEF vars, memory
<1> QED
  BY <1>1, <1>2, <1>3, <1>4, <1>6, <1>7, <1>9, <1>10, <1>11, <1>12, <1>13 DEF Next

\* The constructor establishes them.
LEMMA TypeOKInit == Init => TypeOK
<1> SUFFICES ASSUME Init PROVE TypeOK
  OBVIOUS
<1>1. NoLabels \in LabelMap /\ <<>> \in Seq(FeatureInfo) /\ 0 \in Ids
  BY NoKeys, MaxIdAssumption DEF Ids
<1>2. ASSUME NEW l \in Labels, NEW fs \in FeatureSets
      PROVE  DbAddFile(l, fs) \in File
  <2>1. [NoLabels EXCEPT ![0] = l] \in LabelMap
    BY <1>1, LabelsAssumption DEF LabelMap, LabelText
  <2>2. <<[id |-> 0, features |-> fs]>> \in Seq(FeatureInfo)
    BY <1>1 DEF FeatureInfo
  <2> QED
    BY <2>1, <2>2, FileOfType DEF DbAddFile
<1>3. disk \in File \union {NoFile}
  BY <1>2 DEF Init
<1>4. 0 \in 0..(MaxId + 1)
  BY MaxIdAssumption
<1>5. /\ m_labels \in LabelMap /\ m_uncoalesced_features \in Seq(FeatureInfo)
      /\ m_kd_tree \subseteq FeatureInfo /\ m_id_counter \in 0..(MaxId + 1)
      /\ m_need_to_coalesce \in BOOLEAN /\ m_filename \in BOOLEAN
      /\ pc \in {"down", "idle", "saving"}
  BY <1>1, <1>4 DEF Init, Constructed
<1> QED
  BY <1>3, <1>5 DEF TypeOK

\* Whatever clients call and whenever a save or the process stops, every member
\* of the ImageDB object and the file keep their types: in particular the ids in
\* the map, the vector and the tree stay below the bound on the counter.
THEOREM TypeCorrect == Spec => []TypeOK
<1> QED
  BY TypeOKInit, TypeOKStep, PTL DEF Spec

-----------------------------------------------------------------------------
(* The inductive invariant.                                                *)

\* What saves leave behind never has an image without features.
HaveFeatures(feats) == \A k \in 1..Len(feats) : NumFeatures[feats[k].features] > 0

IInv ==
    /\ TypeOK
    /\ LabelsAgreeWithFeatures
    /\ NextIdIsFresh
    /\ TreeIsCurrent
    /\ LoadableFileIsWhole
    /\ FileImagesHaveFeatures
    /\ pc = "down" => Constructed
    /\ pc = "saving" => m_filename

\* Export stops at the first image without features.
LEMMA PrefixesHaveFeatures ==
    ASSUME NEW labels, NEW feats \in Seq(FeatureInfo),
           NEW f \in Prefixes(labels, feats)
    PROVE  HaveFeatures(f.feats)
<1>1. CASE f.feats = <<>>
  BY <1>1 DEF HaveFeatures
<1>2. CASE \E k \in Exported(feats) : f.feats = SubSeq(feats, 1, k)
  <2>1. PICK k \in Exported(feats) : f.feats = SubSeq(feats, 1, k)
    BY <1>2
  <2>2. k \in 0..Len(feats) /\ \A j \in 1..k : NumFeatures[feats[j].features] > 0
    BY DEF Exported
  <2>3. Len(f.feats) = k /\ \A j \in 1..k : f.feats[j] = feats[j]
    BY <2>1, <2>2
  <2> QED
    BY <2>2, <2>3 DEF HaveFeatures
<1>3. CASE f = TruncatedFile
  BY <1>1, <1>3 DEF TruncatedFile
<1> QED
  BY <1>1, <1>2, <1>3 DEF Prefixes

\* While the map and the vector agree, the lookups of a match insert nothing.
LEMMA LookupChangesNothing ==
    ASSUME TypeOK, LabelsAgreeWithFeatures, TreeIsCurrent, m_filename,
           NEW hits \in SUBSET CurrentTree
    PROVE  /\ LabelsAfterLookup(hits) = m_labels
           /\ \A r \in hits : r.id \in Keys(m_labels)
<1>1. CurrentTree = Coalesced(m_uncoalesced_features)
  BY DEF CurrentTree, TreeIsCurrent, TypeOK
<1>2. ASSUME NEW r \in hits PROVE r.id \in Keys(m_labels)
  <2>1. PICK k \in 1..Len(m_uncoalesced_features) : r = m_uncoalesced_features[k]
    BY <1>1 DEF Coalesced
  <2>2. m_uncoalesced_features[k] \in FeatureInfo
    BY DEF TypeOK
  <2>3. r.id \in Ids /\ HasId(m_uncoalesced_features, r.id)
    BY <2>1, <2>2 DEF FeatureInfo, HasId
  <2> QED
    BY <2>3 DEF LabelsAgreeWithFeatures, Agree, SameIds
<1>3. \A i \in Ids : ~(m_labels[i] = NoLabel /\ \E r \in hits : r.id = i)
  BY <1>2 DEF Keys
<1>4. LabelsAfterLookup(hits) = [i \in Ids |-> m_labels[i]]
  BY <1>3 DEF LabelsAfterLookup
<1> QED
  BY <1>2, <1>4 DEF TypeOK, LabelMap

\* The initial states satisfy the invariant: nothing in memory, and a file
\* with one image or none.
LEMMA IInvInit == Init => IInv
<1> SUFFICES ASSUME Init PROVE IInv
  OBVIOUS
<1>1. TypeOK
  BY TypeOKInit
<1>2. Constructed /\ pc = "down"
  BY DEF Init
<1>3. ASSUME NEW l \in Labels, NEW fs \in FeatureSets, NumFeatures[fs] > 0,
             disk = DbAddFile(l, fs)
      PROVE  Agree(disk.labels, disk.feats) /\ HaveFeatures(disk.feats)
  <2> DEFINE r == [id |-> 0, features |-> fs]
  <2>1. 0 \in Ids /\ NoLabels[0] = NoLabel
    BY MaxIdAssumption DEF Ids, NoLabels
  <2>2. l \in ClientLabels /\ \A j \in Ids : NoLabels[j] # l
    BY LabelsAssumption DEF ClientLabels, Unreadable, NoLabels
  <2>3. Append(<<>>, r) = <<r>> /\ <<>> \in Seq(FeatureInfo)
    OBVIOUS
  <2>4. Agree([NoLabels EXCEPT ![0] = l], Append(<<>>, r))
    BY <2>1, <2>2, <2>3, NoKeys, AgreeEmpty, AgreeAdd
  <2>5. disk.labels = [NoLabels EXCEPT ![0] = l] /\ disk.feats = <<r>>
    BY <1>3 DEF DbAddFile, FileOf
  <2>6. HaveFeatures(<<r>>)
    BY <1>3 DEF HaveFeatures
  <2> QED
    BY <2>3, <2>4, <2>5, <2>6
<1>4. LoadableFileIsWhole /\ FileImagesHaveFeatures
  BY <1>3 DEF Init, LoadableFileIsWhole, FileImagesHaveFeatures, Loadable, HaveFeatures
<1> QED
  BY <1>1, <1>2, <1>4
  DEF IInv, Constructed, LabelsAgreeWithFeatures, NextIdIsFresh, TreeIsCurrent

\* One lemma per method.  A load that fails leaves the process without a file
\* name, and the conditions on map and vector do not apply to it.
LEMMA LoadFailsStep == IInv /\ LoadFails => IInv'
<1> SUFFICES ASSUME IInv, LoadFails PROVE IInv'
  OBVIOUS
<1>1. TypeOK'
  BY TypeOKStep DEF IInv, Next
<1>2. /\ pc = "down" /\ pc' = "idle" /\ m_filename = FALSE /\ m_need_to_coalesce = TRUE
  BY DEF IInv, LoadFails, ReadFails, Constructed
<1>3. UNCHANGED <<m_kd_tree, m_need_to_coalesce, m_id_counter, m_filename, disk>>
  BY DEF LoadFails, ReadFails
<1> QED
  BY <1>1, <1>2, <1>3
  DEF IInv, LabelsAgreeWithFeatures, NextIdIsFresh, TreeIsCurrent,
      LoadableFileIsWhole, FileImagesHaveFeatures

\* What a load accepts was whole, and its ids are below the new counter.
LEMMA LoadSucceedsStep == IInv /\ LoadSucceeds => IInv'
<1> SUFFICES ASSUME IInv, LoadSucceeds PROVE IInv'
  OBVIOUS
<1>1. TypeOK'
  BY TypeOKStep DEF IInv, Next
<1>2. disk \in File /\ Loadable(disk) /\ Agree(disk.labels, disk.feats)
  BY DEF IInv, TypeOK, LoadSucceeds, ReadSucceeds, Loadable, LoadableFileIsWhole
<1>3. disk.labels \in LabelMap /\ disk.feats \in Seq(FeatureInfo)
  BY <1>2 DEF File
<1>4. disk.count = Len(disk.feats)
  BY <1>2 DEF Loadable, Agree, SameSize
<1>5. SubSeq(disk.feats, 1, disk.count) = disk.feats
  BY <1>3, <1>4, SubSeqFull
<1>6. m_labels' = disk.labels /\ m_uncoalesced_features' = disk.feats
  BY <1>5 DEF LoadSucceeds, ReadSucceeds
<1>7. LabelsAgreeWithFeatures'
  BY <1>2, <1>6 DEF LabelsAgreeWithFeatures
<1>8. NextIdIsFresh'
  BY <1>3, <1>6, CounterAfterIsFresh DEF NextIdIsFresh, LoadSucceeds, ReadSucceeds
<1> QED
  BY <1>1, <1>7, <1>8
  DEF IInv, LoadSucceeds, ReadSucceeds, TreeIsCurrent, LoadableFileIsWhole, FileImagesHaveFeatures

\* The fresh id keeps the labels and ids unique.
LEMMA AddStep ==
    ASSUME NEW l \in ClientLabels, NEW fs \in FeatureSets,
           IInv, AddImageFeatures(l, fs)
    PROVE  IInv'
<1>1. TypeOK'
  BY TypeOKStep DEF IInv, Next
<1>2. m_id_counter \in Ids /\ m_id_counter' = m_id_counter + 1
  BY DEF AddImageFeatures
<1>3. m_labels \in LabelMap /\ m_uncoalesced_features \in Seq(FeatureInfo)
  BY DEF IInv, TypeOK
<1>4. ASSUME m_filename PROVE m_labels[m_id_counter] = NoLabel
  <2>1. m_id_counter \notin Keys(m_labels)
    BY <1>2, <1>4, MaxIdAssumption DEF IInv, NextIdIsFresh, Ids
  <2> QED
    BY <1>2, <2>1 DEF Keys
<1>5. l \in LabelText
  BY LabelsAssumption DEF ClientLabels, Unreadable, LabelText
<1>6. LabelsAgreeWithFeatures'
  <2> SUFFICES ASSUME m_filename' PROVE Agree(m_labels', m_uncoalesced_features')
    BY DEF LabelsAgreeWithFeatures
  <2>1. m_filename
    BY DEF AddImageFeatures
  <2>2. \A j \in Ids : m_labels[j] # l
    BY DEF AddImageFeatures, label_exists
  <2>3. Agree(m_labels, m_uncoalesced_features)
    BY <2>1 DEF IInv, LabelsAgreeWithFeatures
  <2> QED
    BY <1>2, <1>3, <1>4, <2>1, <2>2, <2>3, AgreeAdd DEF AddImageFeatures
<1>7. NextIdIsFresh'
  <2> SUFFICES ASSUME m_filename', NEW i \in Keys(m_labels') PROVE i < m_id_counter'
    BY DEF NextIdIsFresh
  <2>1. m_filename
    BY DEF AddImageFeatures
  <2>2. Keys(m_labels') = Keys(m_labels) \union {m_id_counter}
    BY <1>2, <1>3, <1>4, <1>5, <2>1, KeysAdded DEF AddImageFeatures
  <2>3. i \in Nat /\ m_id_counter \in Nat
    BY <1>2, MaxIdAssumption DEF Keys, Ids
  <2> QED
    BY <1>2, <2>1, <2>2, <2>3 DEF IInv, NextIdIsFresh
<1> QED
  BY <1>1, <1>6, <1>7
  DEF IInv, AddImageFeatures, TreeIsCurrent, LoadableFileIsWhole, FileImagesHaveFeatures

\* Agreement says the vector has the image whose label is erased.
LEMMA RemoveStep ==
    ASSUME NEW l \in ClientLabels, IInv, RemoveImage(l)
    PROVE  IInv'
<1>1. TypeOK'
  BY TypeOKStep DEF IInv, Next
<1>2. m_labels \in LabelMap /\ m_uncoalesced_features \in Seq(FeatureInfo)
  BY DEF IInv, TypeOK
<1>3. PICK id \in Ids :
         /\ m_labels[id] = l
         /\ m_labels' = [m_labels EXCEPT ![id] = NoLabel]
         /\ \/ \E k \in 1..Len(m_uncoalesced_features) :
                 /\ m_uncoalesced_features[k].id = id
                 /\ m_uncoalesced_features' = WithoutAt(m_uncoalesced_features, k)
                 /\ m_need_to_coalesce' = TRUE
            \/ /\ ~HasId(m_uncoalesced_features, id)
               /\ UNCHANGED <<m_uncoalesced_features, m_need_to_coalesce>>
  BY DEF RemoveImage, IsFirstIdFor, IsFirstInfo
<1>4. m_labels[id] # NoLabel /\ id \in Keys(m_labels)
  BY <1>3, LabelsAssumption DEF Keys, ClientLabels, Unreadable, Ids
<1>5. UNCHANGED <<m_kd_tree, m_id_counter, m_filename, disk, pc>>
  BY DEF RemoveImage
<1>6. LabelsAgreeWithFeatures'
  <2> SUFFICES ASSUME m_filename PROVE Agree(m_labels', m_uncoalesced_features')
    BY <1>5 DEF LabelsAgreeWithFeatures
  <2>1. Agree(m_labels, m_uncoalesced_features)
    BY DEF IInv, LabelsAgreeWithFeatures
  <2>2. HasId(m_uncoalesced_features, id)
    BY <1>4, <2>1 DEF Agree, SameIds
  <2> QED
    BY <1>2, <1>3, <1>4, <2>1, <2>2, AgreeRemove
<1>7. NextIdIsFresh'
  <2>1. Keys(m_labels') = Keys(m_labels) \ {id}
    BY <1>2, <1>3, <1>4, KeysRemoved
  <2> QED
    BY <1>5, <2>1 DEF IInv, NextIdIsFresh
<1>8. TreeIsCurrent'
  BY <1>3, <1>5 DEF IInv, TreeIsCurrent
<1> QED
  BY <1>1, <1>5, <1>6, <1>7, <1>8
  DEF IInv, RemoveImage, LoadableFileIsWhole, FileImagesHaveFeatures

\* The tree is built from the vector or was already.
LEMMA CoalesceStep == IInv /\ Coalesce => IInv'
<1> SUFFICES ASSUME IInv, Coalesce PROVE IInv'
  OBVIOUS
<1>1. TypeOK'
  BY TypeOKStep DEF IInv, Next
<1>2. CurrentTree = Coalesced(m_uncoalesced_features)
  BY DEF CurrentTree, IInv, TreeIsCurrent
<1> QED
  BY <1>1, <1>2
  DEF IInv, Coalesce, LabelsAgreeWithFeatures, NextIdIsFresh, TreeIsCurrent,
      LoadableFileIsWhole, FileImagesHaveFeatures

\* A match builds the tree and, while map and vector agree, looks up only.
LEMMA MatchStep ==
    ASSUME NEW hits \in SUBSET CurrentTree, IInv, Match(hits)
    PROVE  IInv'
<1>1. TypeOK'
  BY TypeOKStep DEF IInv, Next
<1>2. CurrentTree = Coalesced(m_uncoalesced_features)
  BY DEF CurrentTree, IInv, TreeIsCurrent
<1>3. m_filename => m_labels' = m_labels
  BY LookupChangesNothing DEF IInv, Match
<1> QED
  BY <1>1, <1>2, <1>3
  DEF IInv, Match, LabelsAgreeWithFeatures, NextIdIsFresh, TreeIsCurrent,
      LoadableFileIsWhole, FileImagesHaveFeatures

\* The truncated file is not loadable.
LEMMA SaveBeginsStep == IInv /\ SaveBegins => IInv'
<1> SUFFICES ASSUME IInv, SaveBegins PROVE IInv'
  OBVIOUS
<1>1. TypeOK'
  BY TypeOKStep DEF IInv, Next
<1>2. ~Loadable(disk') /\ Len(disk'.feats) = 0
  BY DEF SaveBegins, OpenForWriting, TruncatedFile, Loadable
<1> QED
  BY <1>1, <1>2
  DEF IInv, SaveBegins, OpenForWriting, memory, LabelsAgreeWithFeatures, NextIdIsFresh,
      TreeIsCurrent, LoadableFileIsWhole, FileImagesHaveFeatures

\* What is written is what is in memory.
LEMMA SaveFinishesStep == IInv /\ SaveFinishes => IInv'
<1> SUFFICES ASSUME IInv, SaveFinishes PROVE IInv'
  OBVIOUS
<1>1. TypeOK'
  BY TypeOKStep DEF IInv, Next
<1>2. Agree(m_labels, m_uncoalesced_features)
  BY DEF IInv, SaveFinishes, LabelsAgreeWithFeatures
<1>3. LoadableFileIsWhole' /\ FileImagesHaveFeatures'
  BY <1>2 DEF SaveFinishes, FileOf, Exported, LoadableFileIsWhole, FileImagesHaveFeatures
<1> QED
  BY <1>1, <1>3
  DEF IInv, SaveFinishes, memory, LabelsAgreeWithFeatures, NextIdIsFresh, TreeIsCurrent

\* A save that stops, by an error or with the process.
LEMMA TornFile ==
    ASSUME IInv, pc = "saving",
           disk' \in Prefixes(m_labels, m_uncoalesced_features)
    PROVE  LoadableFileIsWhole' /\ FileImagesHaveFeatures'
<1>1. Agree(m_labels, m_uncoalesced_features)
  BY DEF IInv, LabelsAgreeWithFeatures
<1>2. m_labels \in LabelMap /\ m_uncoalesced_features \in Seq(FeatureInfo)
  BY DEF IInv, TypeOK
<1>3. Loadable(disk') => Agree(disk'.labels, disk'.feats)
  BY <1>1, <1>2, LoadablePrefixIsWhole
<1>4. HaveFeatures(disk'.feats)
  BY <1>2, PrefixesHaveFeatures
<1> QED
  BY <1>3, <1>4 DEF LoadableFileIsWhole, FileImagesHaveFeatures, HaveFeatures

\* An error leaves a prefix of it.
LEMMA SaveFailsStep == IInv /\ SaveFails => IInv'
<1> SUFFICES ASSUME IInv, SaveFails PROVE IInv'
  OBVIOUS
<1>1. TypeOK'
  BY TypeOKStep DEF IInv, Next
<1>2. LoadableFileIsWhole' /\ FileImagesHaveFeatures'
  BY TornFile DEF SaveFails
<1> QED
  BY <1>1, <1>2
  DEF IInv, SaveFails, memory, LabelsAgreeWithFeatures, NextIdIsFresh, TreeIsCurrent

\* So does a crash, and the next process starts from the constructor.
LEMMA CrashStep == IInv /\ Crash => IInv'
<1> SUFFICES ASSUME IInv, Crash PROVE IInv'
  OBVIOUS
<1>1. TypeOK'
  BY TypeOKStep DEF IInv, Next
<1>2. LoadableFileIsWhole' /\ FileImagesHaveFeatures'
  <2>1. CASE pc = "saving"
    BY <2>1, TornFile DEF Crash
  <2>2. CASE pc # "saving"
    BY <2>2 DEF IInv, Crash, LoadableFileIsWhole, FileImagesHaveFeatures
  <2> QED
    BY <2>1, <2>2
<1>3. Constructed' /\ pc' = "down"
  BY DEF Crash, Constructed
<1> QED
  BY <1>1, <1>2, <1>3
  DEF IInv, Constructed, LabelsAgreeWithFeatures, NextIdIsFresh, TreeIsCurrent

\* So every step preserves the invariant ...
LEMMA IInvStep == IInv /\ [Next]_vars => IInv'
<1> SUFFICES ASSUME IInv, [Next]_vars PROVE IInv'
  OBVIOUS
<1>1. CASE UNCHANGED vars
  BY <1>1
  DEF IInv, vars, memory, TypeOK, LabelsAgreeWithFeatures, NextIdIsFresh, TreeIsCurrent,
      LoadableFileIsWhole, FileImagesHaveFeatures, Constructed
<1> QED
  BY <1>1, LoadFailsStep, LoadSucceedsStep, AddStep, RemoveStep, CoalesceStep, MatchStep,
     SaveBeginsStep, SaveFinishesStep, SaveFailsStep, CrashStep DEF Next

\* ... and it always holds.
LEMMA Invariance == Spec => []IInv
<1> QED
  BY IInvInit, IInvStep, PTL DEF Spec

\* In a process that loaded its file the map and the vector always describe the
\* same images, whatever adds, removes, matches and saves it was asked for:
\* remove_image's two erasures and match's m_labels[id] rest on it.
THEOREM MapAgreesWithVector == Spec => []LabelsAgreeWithFeatures
<1> QED
  BY Invariance, PTL DEF IInv

\* No id is given twice while an image has it, across restarts too: load sets
\* the counter above every id in the file.
THEOREM IdsAreFresh == Spec => []NextIdIsFresh
<1> QED
  BY Invariance, PTL DEF IInv

\* A tree that match does not rebuild indexes exactly the vector's images.
THEOREM MatchUsesCurrentTree == Spec => []TreeIsCurrent
<1> QED
  BY Invariance, PTL DEF IInv

\* However many saves stopped and however often the process died, a file that
\* a load accepts is a complete database.
THEOREM TornFilesAreNoticed == Spec => []LoadableFileIsWhole
<1> QED
  BY Invariance, PTL DEF IInv

\* No file ever holds an image without features.
THEOREM NoFileHasBlankImages == Spec => []FileImagesHaveFeatures
<1> QED
  BY Invariance, PTL DEF IInv

\* What a match answers is the label of an image that is in the database.
THEOREM MatchesAreLive == Spec => []MatchNamesLiveImages
<1>1. IInv => MatchNamesLiveImages
  <2> SUFFICES ASSUME IInv, m_filename, NEW hits \in SUBSET CurrentTree, NEW r \in hits
               PROVE  LabelsAfterLookup(hits)[r.id] \in {m_labels[i] : i \in Keys(m_labels)}
    BY DEF MatchNamesLiveImages, MatchedLabels
  <2> QED
    BY LookupChangesNothing DEF IInv
<1> QED
  BY <1>1, Invariance, PTL

-----------------------------------------------------------------------------
(***************************************************************************)
(* Every behaviour of ImageDB is one of ImageStore: the id counter, the    *)
(* vector, the tree and the bytes of the file are an implementation of a   *)
(* map from labels to images, saved whole or not at all.                   *)
(***************************************************************************)

\* What the abstract store sees of a database: the image of a label is the one
\* whose id the label has, and a label without an id has none.
LEMMA ImagesType ==
    ASSUME NEW labels \in LabelMap, NEW feats \in Seq(FeatureInfo)
    PROVE  ImagesOf(labels, feats) \in [ClientLabels -> FeatureSets \union {NoImage}]
<1> DEFINE at(l) == CHOOSE k \in 1..Len(feats) : labels[feats[k].id] = l
<1>1. ASSUME NEW l \in ClientLabels,
             \E id \in Ids, k \in 1..Len(feats) : labels[id] = l /\ feats[k].id = id
      PROVE  feats[at(l)].features \in FeatureSets
  <2>1. at(l) \in 1..Len(feats)
    BY <1>1
  <2>2. feats[at(l)] \in FeatureInfo
    BY <2>1
  <2> QED
    BY <2>2 DEF FeatureInfo
<1> QED
  BY <1>1 DEF ImagesOf

\* With unique labels and ids, the image of a label is the one its id leads to.
LEMMA ImageOfLabel ==
    ASSUME NEW labels \in LabelMap, NEW feats \in Seq(FeatureInfo),
           Agree(labels, feats),
           NEW k \in 1..Len(feats), NEW l \in ClientLabels, labels[feats[k].id] = l
    PROVE  ImagesOf(labels, feats)[l] = feats[k].features
<1>1. \A j \in 1..Len(feats) : feats[j].id \in Ids
  <2>1. \A j \in 1..Len(feats) : feats[j] \in FeatureInfo
    OBVIOUS
  <2> QED
    BY <2>1 DEF FeatureInfo
<1>2. l # NoLabel
  BY LabelsAssumption DEF ClientLabels, Unreadable
<1>3. ASSUME NEW j \in 1..Len(feats), labels[feats[j].id] = l PROVE j = k
  BY <1>1, <1>2, <1>3 DEF Agree, UniqueLabels, UniqueIds, Keys
<1>4. (CHOOSE j \in 1..Len(feats) : labels[feats[j].id] = l) = k
  BY <1>3
<1> QED
  BY <1>1, <1>4 DEF ImagesOf

\* A label nobody has leads to none.
LEMMA NoImageOfLabel ==
    ASSUME NEW labels, NEW feats, NEW l \in ClientLabels,
           \A i \in Ids : labels[i] # l
    PROVE  ImagesOf(labels, feats)[l] = NoImage
BY DEF ImagesOf

\* A label has an image exactly when it has an id.
LEMMA LabelHasImage ==
    ASSUME NEW labels \in LabelMap, NEW feats \in Seq(FeatureInfo),
           Agree(labels, feats), NEW l \in ClientLabels
    PROVE  ImagesOf(labels, feats)[l] # NoImage <=> \E i \in Ids : labels[i] = l
<1>1. ASSUME NEW i \in Ids, labels[i] = l PROVE ImagesOf(labels, feats)[l] # NoImage
  <2>1. i \in Keys(labels)
    BY <1>1, LabelsAssumption DEF Keys, ClientLabels, Unreadable
  <2>2. PICK k \in 1..Len(feats) : feats[k].id = i
    BY <2>1 DEF Agree, SameIds, HasId
  <2>3. feats[k] \in FeatureInfo
    OBVIOUS
  <2>4. ImagesOf(labels, feats)[l] = feats[k].features /\ feats[k].features \in FeatureSets
    BY <1>1, <2>2, <2>3, ImageOfLabel DEF FeatureInfo
  <2> QED
    BY <2>4, FeaturesAssumption
<1> QED
  BY <1>1, NoImageOfLabel

\* add_image_features gives its label an image and changes no other label's.
LEMMA ImagesAdded ==
    ASSUME NEW labels \in LabelMap, NEW feats \in Seq(FeatureInfo),
           Agree(labels, feats),
           NEW i \in Ids, labels[i] = NoLabel,
           NEW l \in ClientLabels, \A j \in Ids : labels[j] # l,
           NEW fs \in FeatureSets
    PROVE  ImagesOf([labels EXCEPT ![i] = l], Append(feats, [id |-> i, features |-> fs]))
             = [ImagesOf(labels, feats) EXCEPT ![l] = fs]
<1> DEFINE new == [labels EXCEPT ![i] = l]
           r == [id |-> i, features |-> fs]
           s == Append(feats, r)
<1>1. Agree(new, s)
  BY AgreeAdd
<1>2. new \in LabelMap
  BY LabelsAssumption DEF LabelMap, LabelText, ClientLabels, Unreadable
<1>3. /\ s \in Seq(FeatureInfo)
      /\ Len(s) = Len(feats) + 1 /\ Len(feats) \in Nat
      /\ \A k \in 1..Len(feats) : s[k] = feats[k]
      /\ s[Len(feats) + 1] = r
  BY DEF FeatureInfo
<1>4. \A j \in Ids : new[j] = IF j = i THEN l ELSE labels[j]
  BY DEF LabelMap
<1> HIDE DEF new, s
<1>5. ASSUME NEW n \in ClientLabels
      PROVE  ImagesOf(new, s)[n] = IF n = l THEN fs ELSE ImagesOf(labels, feats)[n]
  <2>1. CASE n = l
    <3>1. Len(feats) + 1 \in 1..Len(s) /\ new[s[Len(feats) + 1].id] = l
      BY <1>3, <1>4
    <3> QED
      BY <2>1, <3>1, <1>1, <1>2, <1>3, ImageOfLabel
  <2>2. CASE n # l /\ \E j \in Ids : labels[j] = n
    <3>1. PICK j \in Ids : labels[j] = n
      BY <2>2
    <3>2. j # i /\ j \in Keys(labels)
      BY <3>1, LabelsAssumption DEF ClientLabels, Unreadable, Keys
    <3>3. PICK k \in 1..Len(feats) : feats[k].id = j
      BY <3>2 DEF Agree, SameIds, HasId
    <3>4. k \in 1..Len(s) /\ s[k] = feats[k] /\ new[s[k].id] = n
      BY <1>3, <1>4, <3>1, <3>2, <3>3
    <3>5. ImagesOf(new, s)[n] = s[k].features
      BY <3>4, <1>1, <1>2, <1>3, ImageOfLabel
    <3>6. ImagesOf(labels, feats)[n] = feats[k].features
      BY <3>1, <3>3, ImageOfLabel
    <3> QED
      BY <2>2, <3>4, <3>5, <3>6
  <2>3. CASE n # l /\ \A j \in Ids : labels[j] # n
    <3>1. \A j \in Ids : new[j] # n
      BY <2>3, <1>4
    <3> QED
      BY <2>3, <3>1, NoImageOfLabel
  <2> QED
    BY <2>1, <2>2, <2>3
<1> DEFINE before == ImagesOf(labels, feats)
           after == ImagesOf(new, s)
           Map == [ClientLabels -> FeatureSets \union {NoImage}]
<1>6. before \in Map /\ after \in Map
  BY <1>2, <1>3, ImagesType
<1>7. \A n \in ClientLabels : after[n] = IF n = l THEN fs ELSE before[n]
  BY <1>5
<1> HIDE DEF before, after
<1>8. after = [before EXCEPT ![l] = fs]
  BY <1>6, <1>7
<1> QED
  BY <1>8 DEF before, after, new, s


\* remove_image takes the image of its label and of no other.
LEMMA ImagesRemoved ==
    ASSUME NEW labels \in LabelMap, NEW feats \in Seq(FeatureInfo),
           Agree(labels, feats),
           NEW k \in 1..Len(feats), NEW l \in ClientLabels, labels[feats[k].id] = l
    PROVE  ImagesOf([labels EXCEPT ![feats[k].id] = NoLabel], WithoutAt(feats, k))
             = [ImagesOf(labels, feats) EXCEPT ![l] = NoImage]
<1> DEFINE i == feats[k].id
           new == [labels EXCEPT ![i] = NoLabel]
           s == WithoutAt(feats, k)
<1>1. i \in Ids /\ l # NoLabel
  <2>1. feats[k] \in FeatureInfo
    OBVIOUS
  <2> QED
    BY <2>1, LabelsAssumption DEF FeatureInfo, ClientLabels, Unreadable
<1>2. Agree(new, s)
  BY <1>1, AgreeRemove
<1>3. /\ s \in Seq(FeatureInfo)
      /\ Len(s) = Len(feats) - 1
      /\ \A j \in 1..(Len(feats) - 1) :
           s[j] = IF j < k THEN feats[j] ELSE feats[j + 1]
  BY WithoutAtProperties
<1>4. new \in LabelMap /\ \A j \in Ids : new[j] = IF j = i THEN NoLabel ELSE labels[j]
  BY <1>1 DEF LabelMap
<1>5. Len(feats) \in Nat
  OBVIOUS
<1> HIDE DEF new, s
<1>6. ASSUME NEW n \in ClientLabels
      PROVE  ImagesOf(new, s)[n] = IF n = l THEN NoImage ELSE ImagesOf(labels, feats)[n]
  <2>1. CASE n = l
    <3>1. \A j \in Ids : new[j] # l
      BY <1>1, <1>4 DEF Agree, UniqueLabels, Keys
    <3> QED
      BY <2>1, <3>1, NoImageOfLabel
  <2>2. CASE n # l /\ \E j \in Ids : labels[j] = n
    <3>1. PICK j \in Ids : labels[j] = n
      BY <2>2
    <3>2. j # i /\ j \in Keys(labels)
      BY <2>2, <3>1, LabelsAssumption DEF ClientLabels, Unreadable, Keys
    <3>3. PICK m \in 1..Len(feats) : feats[m].id = j
      BY <3>2 DEF Agree, SameIds, HasId
    <3> DEFINE p == IF m < k THEN m ELSE m - 1
    <3>4. p \in 1..Len(s) /\ s[p] = feats[m]
      BY <1>3, <1>5, <3>2, <3>3
    <3>5. new[s[p].id] = n
      BY <1>4, <3>1, <3>2, <3>3, <3>4
    <3>6. ImagesOf(new, s)[n] = s[p].features
      BY <3>4, <3>5, <1>2, <1>3, <1>4, ImageOfLabel
    <3>7. ImagesOf(labels, feats)[n] = feats[m].features
      BY <3>1, <3>3, ImageOfLabel
    <3> QED
      BY <2>2, <3>4, <3>6, <3>7
  <2>3. CASE n # l /\ \A j \in Ids : labels[j] # n
    <3>1. \A j \in Ids : new[j] # n
      BY <2>3, <1>4, LabelsAssumption DEF ClientLabels, Unreadable
    <3> QED
      BY <2>3, <3>1, NoImageOfLabel
  <2> QED
    BY <2>1, <2>2, <2>3
<1> DEFINE before == ImagesOf(labels, feats)
           after == ImagesOf(new, s)
           Map == [ClientLabels -> FeatureSets \union {NoImage}]
<1>7. before \in Map /\ after \in Map
  BY <1>3, <1>4, ImagesType
<1>8. \A n \in ClientLabels : after[n] = IF n = l THEN NoImage ELSE before[n]
  BY <1>6
<1> HIDE DEF before, after
<1>9. after = [before EXCEPT ![l] = NoImage]
  BY <1>7, <1>8
<1> QED
  BY <1>9 DEF before, after, new, s

-----------------------------------------------------------------------------
(* The refinement.                                                         *)

\* Between fopen and the end of a save the file has nothing a load accepts.
SavingEmptiedFile == pc = "saving" => disk = TruncatedFile

\* What the abstract store sees of the memory of a process that is serving.
LEMMA MemoryType ==
    ASSUME IInv, m_filename
    PROVE  /\ m_labels \in LabelMap
           /\ m_uncoalesced_features \in Seq(FeatureInfo)
           /\ Agree(m_labels, m_uncoalesced_features)
           /\ pc # "down"
BY DEF IInv, TypeOK, LabelsAgreeWithFeatures, Constructed

\* Only a save that begins starts saving, and it truncates the file.
LEMMA SavingEmptiedFileStep ==
    SavingEmptiedFile /\ [Next]_vars => SavingEmptiedFile'
<1> SUFFICES ASSUME SavingEmptiedFile, [Next]_vars PROVE SavingEmptiedFile'
  OBVIOUS
<1>1. CASE LoadFails \/ LoadSucceeds
  BY <1>1 DEF LoadFails, ReadFails, LoadSucceeds, ReadSucceeds, SavingEmptiedFile
<1>2. CASE \E l \in ClientLabels, fs \in FeatureSets : AddImageFeatures(l, fs)
  BY <1>2 DEF AddImageFeatures, SavingEmptiedFile
<1>3. CASE \E l \in ClientLabels : RemoveImage(l)
  BY <1>3 DEF RemoveImage, SavingEmptiedFile
<1>4. CASE Coalesce \/ \E hits \in SUBSET CurrentTree : Match(hits)
  BY <1>4 DEF Coalesce, Match, SavingEmptiedFile
<1>5. CASE SaveBegins
  BY <1>5 DEF SaveBegins, OpenForWriting, SavingEmptiedFile
<1>6. CASE SaveFinishes \/ SaveFails \/ Crash
  BY <1>6 DEF SaveFinishes, SaveFails, Crash, SavingEmptiedFile
<1>7. CASE UNCHANGED vars
  BY <1>7 DEF vars, SavingEmptiedFile
<1> QED
  BY <1>1, <1>2, <1>3, <1>4, <1>5, <1>6, <1>7 DEF Next

\* The constructor and the file db-add made are an initial store.
LEMMA StoreInit == Init => Store!Init
<1> SUFFICES ASSUME Init PROVE Store!Init
  OBVIOUS
<1>1. TypeOK /\ pc = "down" /\ m_filename = FALSE
  BY TypeOKInit DEF Init, Constructed
<1>2. Loadable(disk) \in BOOLEAN
  BY DEF Loadable
<1>3. Loadable(disk) => disk.labels \in LabelMap /\ disk.feats \in Seq(FeatureInfo)
  BY <1>1 DEF TypeOK, Loadable, File
<1>4. Loadable(disk) => ImagesOf(disk.labels, disk.feats)
                          \in [ClientLabels -> FeatureSets \union {NoImage}]
  BY <1>3, ImagesType
<1> QED
  BY <1>1, <1>2, <1>4 DEF Store!Init, Store!Empty

\* A load, successful or not, restarts the store.
LEMMA StoreRestart ==
    ASSUME IInv, LoadFails \/ LoadSucceeds PROVE Store!Restart
<1>1. /\ pc = "down" /\ pc' = "idle" /\ m_filename = FALSE /\ disk' = disk
      /\ m_filename' = Loadable(disk)
  BY DEF IInv, Constructed, LoadFails, ReadFails, LoadSucceeds, ReadSucceeds, Loadable
<1>2. CASE LoadFails
  BY <1>1, <1>2 DEF Store!Restart, LoadFails, ReadFails
<1>3. CASE LoadSucceeds
  <2>1. disk \in File /\ Agree(disk.labels, disk.feats)
    BY <1>3 DEF IInv, TypeOK, LoadableFileIsWhole, LoadSucceeds, ReadSucceeds, Loadable
  <2>2. disk.feats \in Seq(FeatureInfo) /\ disk.count = Len(disk.feats)
    BY <1>3, <2>1 DEF File, Agree, SameSize, LoadSucceeds, ReadSucceeds, Loadable
  <2>3. m_labels' = disk.labels /\ m_uncoalesced_features' = disk.feats
    BY <1>3, <2>2, SubSeqFull DEF LoadSucceeds, ReadSucceeds
  <2>4. ImagesOf(m_labels, m_uncoalesced_features)' = ImagesOf(disk.labels, disk.feats)
    BY <2>3 DEF ImagesOf
  <2> QED
    BY <1>1, <1>3, <2>4 DEF Store!Restart, LoadSucceeds, ReadSucceeds
<1> QED
  BY <1>2, <1>3

\* add_image_features adds to the store, or does nothing to one that is broken.
LEMMA StoreAdd ==
    ASSUME IInv, NEW l \in ClientLabels, NEW fs \in FeatureSets,
           AddImageFeatures(l, fs)
    PROVE  /\ m_filename => Store!Add(l, fs)
           /\ ~m_filename => UNCHANGED Store!vars
<1>1. UNCHANGED <<pc, disk, m_filename>> /\ pc = "idle"
  BY DEF AddImageFeatures
<1>2. CASE ~m_filename
  BY <1>1, <1>2 DEF Store!vars
<1>3. CASE m_filename
  <2>1. m_id_counter \in Ids /\ m_labels[m_id_counter] = NoLabel
    BY <1>3, MaxIdAssumption DEF AddImageFeatures, IInv, NextIdIsFresh, Keys, Ids
  <2>2. \A j \in Ids : m_labels[j] # l
    BY DEF AddImageFeatures, label_exists
  <2> DEFINE labels == [m_labels EXCEPT ![m_id_counter] = l]
             feats == Append(m_uncoalesced_features, [id |-> m_id_counter, features |-> fs])
  <2>3. ImagesOf(labels, feats)
          = [ImagesOf(m_labels, m_uncoalesced_features) EXCEPT ![l] = fs]
    BY <1>3, <2>1, <2>2, MemoryType, ImagesAdded
  <2>4. m_labels' = labels /\ m_uncoalesced_features' = feats
    BY DEF AddImageFeatures
  <2>5. ImagesOf(m_labels', m_uncoalesced_features')
          = [ImagesOf(m_labels, m_uncoalesced_features) EXCEPT ![l] = fs]
    BY <2>3, <2>4
  <2>6. ImagesOf(m_labels, m_uncoalesced_features)' =
          ImagesOf(m_labels', m_uncoalesced_features')
    BY DEF ImagesOf
  <2>7. ImagesOf(m_labels, m_uncoalesced_features)[l] = NoImage
    BY <2>2, NoImageOfLabel
  <2> QED
    BY <1>1, <1>3, <2>5, <2>6, <2>7 DEF Store!Add
<1> QED
  BY <1>2, <1>3 DEF IInv, TypeOK

\* So does remove_image.
LEMMA StoreRemove ==
    ASSUME IInv, NEW l \in ClientLabels, RemoveImage(l)
    PROVE  /\ m_filename => Store!Remove(l)
           /\ ~m_filename => UNCHANGED Store!vars
<1>1. UNCHANGED <<pc, disk, m_filename>> /\ pc = "idle"
  BY DEF RemoveImage
<1>2. CASE ~m_filename
  BY <1>1, <1>2 DEF Store!vars
<1>3. CASE m_filename
  <2>1. PICK id \in Ids :
          /\ m_labels[id] = l
          /\ m_labels' = [m_labels EXCEPT ![id] = NoLabel]
          /\ \/ \E k \in 1..Len(m_uncoalesced_features) :
                  /\ m_uncoalesced_features[k].id = id
                  /\ m_uncoalesced_features' = WithoutAt(m_uncoalesced_features, k)
             \/ ~HasId(m_uncoalesced_features, id)
    BY DEF RemoveImage, IsFirstIdFor, IsFirstInfo
  <2>2. id \in Keys(m_labels)
    BY <2>1, LabelsAssumption DEF Keys, ClientLabels, Unreadable
  <2>3. HasId(m_uncoalesced_features, id)
    BY <1>3, <2>2, MemoryType DEF Agree, SameIds
  <2>4. PICK k \in 1..Len(m_uncoalesced_features) :
          /\ m_uncoalesced_features[k].id = id
          /\ m_uncoalesced_features' = WithoutAt(m_uncoalesced_features, k)
    BY <2>1, <2>3
  <2>5. ImagesOf([m_labels EXCEPT ![m_uncoalesced_features[k].id] = NoLabel],
                 WithoutAt(m_uncoalesced_features, k))
          = [ImagesOf(m_labels, m_uncoalesced_features) EXCEPT ![l] = NoImage]
    <3>1. m_labels \in LabelMap /\ m_uncoalesced_features \in Seq(FeatureInfo)
          /\ Agree(m_labels, m_uncoalesced_features)
      BY <1>3, MemoryType
    <3>2. m_labels[m_uncoalesced_features[k].id] = l
      BY <2>1, <2>4
    <3> QED
      BY <3>1, <3>2, ImagesRemoved
  <2>6. ImagesOf(m_labels', m_uncoalesced_features')
          = [ImagesOf(m_labels, m_uncoalesced_features) EXCEPT ![l] = NoImage]
    BY <2>1, <2>4, <2>5
  <2>7. ImagesOf(m_labels, m_uncoalesced_features)' =
          ImagesOf(m_labels', m_uncoalesced_features')
    BY DEF ImagesOf
  <2>8. ImagesOf(m_labels, m_uncoalesced_features)[l] # NoImage
    BY <1>3, <2>1, MemoryType, LabelHasImage
  <2> QED
    BY <1>1, <1>3, <2>6, <2>7, <2>8 DEF Store!Remove
<1> QED
  BY <1>2, <1>3 DEF IInv, TypeOK

\* Building the tree and matching are invisible.
LEMMA StoreStutters ==
    ASSUME IInv, Coalesce \/ \E hits \in SUBSET CurrentTree : Match(hits)
    PROVE  UNCHANGED Store!vars
<1>1. UNCHANGED <<m_uncoalesced_features, m_filename, disk, pc>>
  BY DEF Coalesce, Match
<1>2. m_filename => m_labels' = m_labels
  BY LookupChangesNothing DEF IInv, Coalesce, Match
<1>3. m_filename => ImagesOf(m_labels, m_uncoalesced_features)' =
                    ImagesOf(m_labels, m_uncoalesced_features)
  BY <1>1, <1>2 DEF ImagesOf
<1> QED
  BY <1>1, <1>3 DEF Store!vars

\* fopen(path, "w") begins a save of the store.
LEMMA StoreBeginSave == ASSUME IInv, SaveBegins PROVE Store!BeginSave
<1>1. UNCHANGED <<m_labels, m_uncoalesced_features, m_filename>> /\ m_filename
      /\ pc = "idle" /\ pc' = "saving" /\ disk' = TruncatedFile
  BY DEF SaveBegins, OpenForWriting, memory
<1>2. ~Loadable(disk')
  BY <1>1 DEF Loadable, TruncatedFile
<1>3. ImagesOf(m_labels, m_uncoalesced_features)' =
      ImagesOf(m_labels, m_uncoalesced_features)
  BY <1>1 DEF ImagesOf
<1> QED
  BY <1>1, <1>2, <1>3 DEF Store!BeginSave, Store!Empty

\* A file with everything that is in memory is what WriteOut leaves.
LEMMA StoreWriteOut ==
    ASSUME IInv, pc = "saving", NEW f \in File, disk' = f,
           f.labels = m_labels, f.feats = m_uncoalesced_features,
           f.count = Cardinality(Keys(m_labels))
    PROVE  Store!WriteOut
<1>1. m_filename
  BY DEF IInv
<1>2. /\ m_labels \in LabelMap /\ m_uncoalesced_features \in Seq(FeatureInfo)
      /\ Agree(m_labels, m_uncoalesced_features)
  BY <1>1, MemoryType
<1>3. Loadable(f) <=> ~HasUnreadable(m_labels)
  <2>1. f # NoFile
    BY NoFileAssumption
  <2>2. f.count # -1 /\ f.count = Len(f.feats) /\ Cardinality(Keys(f.labels)) = f.count
    BY <1>2, KeysFinite DEF Agree, SameSize
  <2> QED
    BY <2>1, <2>2 DEF Loadable
<1>4. Unreadable \subseteq ClientLabels
  BY DEF ClientLabels
<1>5. HasUnreadable(m_labels) <=>
        \E l \in Unreadable : ImagesOf(m_labels, m_uncoalesced_features)[l] # NoImage
  BY <1>2, <1>4, LabelHasImage DEF HasUnreadable
<1>6. ImagesOf(disk'.labels, disk'.feats) = ImagesOf(m_labels, m_uncoalesced_features)
  OBVIOUS
<1>7. Unreadable \intersect {n \in ClientLabels :
                             ImagesOf(m_labels, m_uncoalesced_features)[n] # NoImage} = {}
        <=> Loadable(disk')
  BY <1>3, <1>4, <1>5
<1>8. Store!Stored = {n \in ClientLabels :
                        ImagesOf(m_labels, m_uncoalesced_features)[n] # NoImage}
  BY <1>1 DEF Store!Stored
<1>9. Loadable(disk)' = (Unreadable \intersect Store!Stored = {})
  BY <1>7, <1>8 DEF Loadable
<1> QED
  BY <1>1, <1>6, <1>9 DEF Store!WriteOut, Store!Empty

\* A save that stopped, by an error or with the process, wrote nothing a load
\* accepts or all of it.
LEMMA StoreTornSave ==
    ASSUME IInv, SavingEmptiedFile, pc = "saving",
           disk' \in Prefixes(m_labels, m_uncoalesced_features)
    PROVE  \/ Store!WriteOut
           \/ ~Loadable(disk) /\ ~Loadable(disk')
<1>1. ~Loadable(disk)
  BY DEF SavingEmptiedFile, Loadable, TruncatedFile
<1>2. CASE Loadable(disk')
  <2>1. /\ m_labels \in LabelMap /\ m_uncoalesced_features \in Seq(FeatureInfo)
        /\ Agree(m_labels, m_uncoalesced_features)
    BY MemoryType DEF IInv
  <2>2. disk' \in File /\ disk'.labels = m_labels
        /\ disk'.feats = m_uncoalesced_features
    BY <1>2, <2>1, PrefixesType, LoadablePrefixIsWhole
  <2>3. disk'.count = Cardinality(Keys(m_labels))
    BY <1>2, <2>2 DEF Loadable
  <2> QED
    BY <2>2, <2>3, StoreWriteOut
<1> QED
  BY <1>1, <1>2

\* A save that ends well writes out everything.
LEMMA StoreSaveFinishes == ASSUME IInv, SaveFinishes PROVE Store!WriteOut
<1>1. disk' = FileOf(m_labels, m_uncoalesced_features) /\ disk' \in File
  BY FileOfType DEF SaveFinishes, IInv, TypeOK
<1> QED
  BY <1>1, StoreWriteOut DEF FileOf, SaveFinishes

\* A save that ends, well or not, ends the store's save or leaves it torn.
LEMMA StoreSave ==
    ASSUME IInv, SavingEmptiedFile, SaveFinishes \/ SaveFails
    PROVE  Store!EndSave \/ UNCHANGED Store!vars
<1>1. UNCHANGED <<m_labels, m_uncoalesced_features, m_filename>>
      /\ pc = "saving" /\ pc' = "idle"
  BY DEF SaveFinishes, SaveFails, memory
<1>2. UNCHANGED <<m_filename, ImagesOf(m_labels, m_uncoalesced_features)>>
  BY <1>1 DEF ImagesOf
<1>3. CASE Store!WriteOut
  BY <1>1, <1>2, <1>3 DEF Store!EndSave
<1>4. CASE ~Loadable(disk) /\ ~Loadable(disk')
  BY <1>1, <1>2, <1>4 DEF Store!vars, Loadable
<1>5. CASE SaveFinishes
  BY <1>3, <1>5, StoreSaveFinishes
<1>6. CASE SaveFails
  BY <1>1, <1>3, <1>4, <1>6, StoreTornSave DEF SaveFails
<1> QED
  BY <1>5, <1>6

\* The process dies, in a save or out of it.
LEMMA StoreCrash == ASSUME IInv, SavingEmptiedFile, Crash PROVE Store!Crash
<1>1. pc' = "down" /\ m_filename' = FALSE /\ pc # "down"
  BY DEF Crash
<1>2. pc = "saving" => ~Loadable(disk)
  BY DEF SavingEmptiedFile, Loadable, TruncatedFile
<1>3. CASE pc = "saving" /\ Store!WriteOut
  BY <1>1, <1>2, <1>3 DEF Store!Crash, Store!Empty
<1>4. CASE pc = "saving" /\ ~Loadable(disk')
  BY <1>1, <1>2, <1>4 DEF Store!Crash, Store!Empty, Loadable
<1>5. CASE pc # "saving"
  BY <1>1, <1>5 DEF Store!Crash, Store!Empty, Loadable, Crash
<1> QED
  BY <1>3, <1>4, <1>5, StoreTornSave DEF Crash

\* Every step of the database is a step of the store, or none.
LEMMA StoreStep ==
    IInv /\ SavingEmptiedFile /\ [Next]_vars => [Store!Next]_(Store!vars)
<1> SUFFICES ASSUME IInv, SavingEmptiedFile, [Next]_vars
             PROVE  Store!Next \/ UNCHANGED Store!vars
  OBVIOUS
<1>1. CASE LoadFails \/ LoadSucceeds
  BY <1>1, StoreRestart DEF Store!Next
<1>2. CASE \E l \in ClientLabels, fs \in FeatureSets : AddImageFeatures(l, fs)
  BY <1>2, StoreAdd DEF Store!Next
<1>3. CASE \E l \in ClientLabels : RemoveImage(l)
  BY <1>3, StoreRemove DEF Store!Next
<1>4. CASE Coalesce \/ \E hits \in SUBSET CurrentTree : Match(hits)
  BY <1>4, StoreStutters
<1>5. CASE SaveBegins
  BY <1>5, StoreBeginSave DEF Store!Next
<1>6. CASE SaveFinishes \/ SaveFails
  BY <1>6, StoreSave DEF Store!Next
<1>7. CASE Crash
  BY <1>7, StoreCrash DEF Store!Next
<1>8. CASE UNCHANGED vars
  BY <1>8 DEF vars, memory, Store!vars, ImagesOf, Loadable
<1> QED
  BY <1>1, <1>2, <1>3, <1>4, <1>5, <1>6, <1>7, <1>8 DEF Next

\* The image database implements the store: whatever saves stopped and whenever
\* the process died, a restart serves exactly the images of a whole save or
\* none, an add or a remove changes one label, and matches change nothing.
THEOREM Refinement == Spec => ImplementsStore
<1>1. Init => SavingEmptiedFile
  BY DEF Init, SavingEmptiedFile
<1>2. Spec => []SavingEmptiedFile
  BY <1>1, SavingEmptiedFileStep, PTL DEF Spec
<1> QED
  BY <1>2, Invariance, StoreInit, StoreStep, PTL DEF Spec, ImplementsStore, Store!Spec
=============================================================================

--------------------------- MODULE NoteViews_proofs ---------------------------
(***************************************************************************)
(* Proofs about NoteViews, for every finite set of threads and every set   *)
(* of notes, labels and users: the tables keep their types, and two notes  *)
(* have at most as many relation rows as there are threads.                *)
(***************************************************************************)
EXTENDS NoteViews, FiniteSetTheorems, WellFoundedInduction, TLAPS

\* The threads that have looked for the row of a pair, found none, and are about
\* to create it.
Creates(v, p) == v.pc = "create" /\ Pair(v.note, v.sim) = p
Creating(p) == {t \in Threads : Creates(view[t], p)}

\* Each row of a pair was created by one of the threads that found none, and
\* while there is a row no thread joins them.
RowsAndCreators ==
    \A p \in Pairs :
        relations[p] + Cardinality(Creating(p)) <= Cardinality(Threads)

\* What a step needs of the steps before it.
HasNote(v) == v.pc # "idle" => v.note \in Notes
HasUser(v) == v.pc \in {"save", "forget", "append"} => v.user \in Users
HasSim(v) == v.pc = "create" => v.sim \in Notes
ViewsAreReady ==
    \A t \in Threads : HasNote(view[t]) /\ HasUser(view[t]) /\ HasSim(view[t])

IInv == TypeOK /\ ViewsAreReady /\ RowsAndCreators

-----------------------------------------------------------------------------
(* The type invariant.                                                     *)

LEMMA PairsArePairs == \A m, n \in Notes : Pair(m, n) \in Pairs
BY DEF Pairs

LEMMA RestingIsReady ==
    Resting \in View /\ HasNote(Resting) /\ HasUser(Resting) /\ HasSim(Resting)
BY DEF Resting, View, Steps, HasNote, HasUser, HasSim

LEMMA InitType == Init => TypeOK /\ ViewsAreReady
<1> SUFFICES ASSUME Init PROVE TypeOK /\ ViewsAreReady
  OBVIOUS
<1>1. view \in [Threads -> View] /\ ViewsAreReady
  BY RestingIsReady DEF Init, ViewsAreReady
<1>2. TypeOK
  BY <1>1, MaxViewsAssumption DEF Init, TypeOK
<1> QED
  BY <1>1, <1>2

\* A step of one thread that leaves it with a view of the right kind, and the
\* rest of the tables with their types.
LEMMA OneView ==
    ASSUME TypeOK, ViewsAreReady, NEW t \in Threads, NEW v \in View,
           HasNote(v), HasUser(v), HasSim(v),
           view' = [view EXCEPT ![t] = v],
           nobservers' \in [Notes -> Nat], visitors' \subseteq Visit,
           relations' \in [Pairs -> Nat], serial' \in Nat,
           latest' \in [Notes -> Nat], views' \in 0..MaxViews
    PROVE  TypeOK' /\ ViewsAreReady'
<1>1. view' \in [Threads -> View]
  BY DEF TypeOK
<1>2. ViewsAreReady'
  BY DEF TypeOK, ViewsAreReady
<1>3. Visit' = Visit /\ View' = View /\ Pairs' = Pairs
  BY DEF Visit, View, Pairs, Pair
<1> QED
  BY <1>1, <1>2, <1>3 DEF TypeOK

LEMMA ShowType ==
    ASSUME TypeOK, ViewsAreReady, NEW t \in Threads, NEW n \in Notes,
           NEW user \in Users \union {NoUser}, Show(t, n, user)
    PROVE  TypeOK' /\ ViewsAreReady'
<1> DEFINE v == [Resting EXCEPT
                 !.pc = IF user = NoUser THEN "similar" ELSE "save",
                 !.note = n, !.user = user, !.observers = nobservers[n]]
<1>0. view[t] \in View /\ HasNote(view[t]) /\ HasUser(view[t]) /\ HasSim(view[t])
  BY DEF TypeOK, ViewsAreReady
<1>1. v \in View /\ HasNote(v) /\ HasUser(v) /\ HasSim(v)
  BY <1>0 DEF Show, At, View, Steps, HasNote, HasUser, HasSim, Resting, TypeOK
<1>2. view' = [view EXCEPT ![t] = v]
  BY DEF Show, Goto, TypeOK
<1>3. /\ nobservers' \in [Notes -> Nat] /\ visitors' \subseteq Visit
      /\ relations' \in [Pairs -> Nat] /\ serial' \in Nat
      /\ latest' \in [Notes -> Nat] /\ views' \in 0..MaxViews
  BY <1>0, MaxViewsAssumption DEF Show, At, TypeOK
<1> QED
  BY <1>1, <1>2, <1>3, OneView

LEMMA SaveObserversType ==
    ASSUME TypeOK, ViewsAreReady, NEW t \in Threads, SaveObservers(t)
    PROVE  TypeOK' /\ ViewsAreReady'
<1> DEFINE v == [view[t] EXCEPT !.pc = "forget", !.observers = 0]
<1>0. view[t] \in View /\ HasNote(view[t]) /\ HasUser(view[t]) /\ HasSim(view[t])
  BY DEF TypeOK, ViewsAreReady
<1>1. v \in View /\ HasNote(v) /\ HasUser(v) /\ HasSim(v)
  BY <1>0 DEF SaveObservers, At, View, Steps, HasNote, HasUser, HasSim
<1>2. view' = [view EXCEPT ![t] = v]
  BY DEF SaveObservers, Goto, TypeOK
<1>3. /\ nobservers' \in [Notes -> Nat] /\ visitors' \subseteq Visit
      /\ relations' \in [Pairs -> Nat] /\ serial' \in Nat
      /\ latest' \in [Notes -> Nat] /\ views' \in 0..MaxViews
  BY <1>0 DEF SaveObservers, At, TypeOK, HasNote, View
<1> QED
  BY <1>1, <1>2, <1>3, OneView

LEMMA ForgetVisitsType ==
    ASSUME TypeOK, ViewsAreReady, NEW t \in Threads, ForgetVisits(t)
    PROVE  TypeOK' /\ ViewsAreReady'
<1> DEFINE v == [view[t] EXCEPT !.pc = "append"]
<1>0. view[t] \in View /\ HasNote(view[t]) /\ HasUser(view[t]) /\ HasSim(view[t])
  BY DEF TypeOK, ViewsAreReady
<1>1. v \in View /\ HasNote(v) /\ HasUser(v) /\ HasSim(v)
  BY <1>0 DEF ForgetVisits, At, View, Steps, HasNote, HasUser, HasSim
<1>2. view' = [view EXCEPT ![t] = v]
  BY DEF ForgetVisits, Goto, TypeOK
<1>3. /\ nobservers' \in [Notes -> Nat] /\ visitors' \subseteq Visit
      /\ relations' \in [Pairs -> Nat] /\ serial' \in Nat
      /\ latest' \in [Notes -> Nat] /\ views' \in 0..MaxViews
  BY <1>0 DEF ForgetVisits, At, TypeOK, VisitsOf
<1> QED
  BY <1>1, <1>2, <1>3, OneView

LEMMA AppendVisitType ==
    ASSUME TypeOK, ViewsAreReady, NEW t \in Threads, AppendVisit(t)
    PROVE  TypeOK' /\ ViewsAreReady'
<1> DEFINE v == [view[t] EXCEPT !.pc = "list"]
<1>0. view[t] \in View /\ HasNote(view[t]) /\ HasUser(view[t]) /\ HasSim(view[t])
  BY DEF TypeOK, ViewsAreReady
<1>1. v \in View /\ HasNote(v) /\ HasUser(v) /\ HasSim(v)
  BY <1>0 DEF AppendVisit, At, View, Steps, HasNote, HasUser, HasSim
<1>2. view' = [view EXCEPT ![t] = v]
  BY DEF AppendVisit, Goto, TypeOK
<1>3. /\ nobservers' \in [Notes -> Nat] /\ visitors' \subseteq Visit
      /\ relations' \in [Pairs -> Nat] /\ serial' \in Nat
      /\ latest' \in [Notes -> Nat] /\ views' \in 0..MaxViews
  BY <1>0 DEF AppendVisit, At, TypeOK, HasNote, HasUser, View, Visit
<1> QED
  BY <1>1, <1>2, <1>3, OneView

LEMMA ListVisitsType ==
    ASSUME TypeOK, ViewsAreReady, NEW t \in Threads, ListVisits(t)
    PROVE  TypeOK' /\ ViewsAreReady'
<1> DEFINE v == [view[t] EXCEPT !.pc = "truncate", !.doomed = BeyondLimit(view[t].note)]
<1>0. view[t] \in View /\ HasNote(view[t]) /\ HasUser(view[t]) /\ HasSim(view[t])
  BY DEF TypeOK, ViewsAreReady
<1>1. v \in View /\ HasNote(v) /\ HasUser(v) /\ HasSim(v)
  BY <1>0 DEF ListVisits, At, View, Steps, HasNote, HasUser, HasSim, BeyondLimit, TypeOK
<1>2. view' = [view EXCEPT ![t] = v]
  BY DEF ListVisits, Goto, TypeOK
<1>3. /\ nobservers' \in [Notes -> Nat] /\ visitors' \subseteq Visit
      /\ relations' \in [Pairs -> Nat] /\ serial' \in Nat
      /\ latest' \in [Notes -> Nat] /\ views' \in 0..MaxViews
  BY <1>0 DEF ListVisits, At, TypeOK
<1> QED
  BY <1>1, <1>2, <1>3, OneView

LEMMA DestroyVisitType ==
    ASSUME TypeOK, ViewsAreReady, NEW t \in Threads, DestroyVisit(t)
    PROVE  TypeOK' /\ ViewsAreReady'
<1>0. view[t] \in View /\ HasNote(view[t]) /\ HasUser(view[t]) /\ HasSim(view[t])
  BY DEF TypeOK, ViewsAreReady
<1>1. PICK d \in view[t].doomed : /\ visitors' = visitors \ {d}
                                  /\ view' = [view EXCEPT ![t].doomed = @ \ {d}]
  BY DEF DestroyVisit
<1> DEFINE v == [view[t] EXCEPT !.doomed = @ \ {d}]
<1>2. v \in View /\ HasNote(v) /\ HasUser(v) /\ HasSim(v)
  BY <1>0 DEF View, Steps, HasNote, HasUser, HasSim
<1>3. view' = [view EXCEPT ![t] = v]
  BY <1>1 DEF TypeOK
<1>4. /\ nobservers' \in [Notes -> Nat] /\ visitors' \subseteq Visit
      /\ relations' \in [Pairs -> Nat] /\ serial' \in Nat
      /\ latest' \in [Notes -> Nat] /\ views' \in 0..MaxViews
  BY <1>1 DEF DestroyVisit, TypeOK
<1> QED
  BY <1>2, <1>3, <1>4, OneView

LEMMA RememberedType ==
    ASSUME TypeOK, ViewsAreReady, NEW t \in Threads, Remembered(t)
    PROVE  TypeOK' /\ ViewsAreReady'
<1> DEFINE v == [view[t] EXCEPT !.pc = "similar", !.user = NoUser]
<1>0. view[t] \in View /\ HasNote(view[t]) /\ HasUser(view[t]) /\ HasSim(view[t])
  BY DEF TypeOK, ViewsAreReady
<1>1. v \in View /\ HasNote(v) /\ HasUser(v) /\ HasSim(v)
  BY <1>0 DEF Remembered, At, View, Steps, HasNote, HasUser, HasSim
<1>2. view' = [view EXCEPT ![t] = v]
  BY DEF Remembered, Goto, TypeOK
<1>3. /\ nobservers' \in [Notes -> Nat] /\ visitors' \subseteq Visit
      /\ relations' \in [Pairs -> Nat] /\ serial' \in Nat
      /\ latest' \in [Notes -> Nat] /\ views' \in 0..MaxViews
  BY <1>0 DEF Remembered, At, TypeOK
<1> QED
  BY <1>1, <1>2, <1>3, OneView

LEMMA FindRawType ==
    ASSUME TypeOK, ViewsAreReady, NEW t \in Threads, FindRaw(t)
    PROVE  TypeOK' /\ ViewsAreReady'
<1>0. view[t] \in View /\ HasNote(view[t]) /\ HasUser(view[t]) /\ HasSim(view[t])
  BY DEF TypeOK, ViewsAreReady
<1>1. PICK hits \in SUBSET Labels :
        view' = [view EXCEPT ![t].pc = "memoize",
                             ![t].todo = Results(view[t].note, hits)]
  BY DEF FindRaw
<1> DEFINE v == [view[t] EXCEPT !.pc = "memoize",
                                !.todo = Results(view[t].note, hits)]
<1>2. v \in View /\ HasNote(v) /\ HasUser(v) /\ HasSim(v)
  BY <1>0 DEF FindRaw, At, Results, View, Steps, HasNote, HasUser, HasSim
<1>3. view' = [view EXCEPT ![t] = v]
  BY <1>1 DEF TypeOK
<1>4. /\ nobservers' \in [Notes -> Nat] /\ visitors' \subseteq Visit
      /\ relations' \in [Pairs -> Nat] /\ serial' \in Nat
      /\ latest' \in [Notes -> Nat] /\ views' \in 0..MaxViews
  BY DEF FindRaw, TypeOK
<1> QED
  BY <1>2, <1>3, <1>4, OneView

LEMMA FindRelationType ==
    ASSUME TypeOK, ViewsAreReady, NEW t \in Threads, NEW m \in Notes, FindRelation(t, m)
    PROVE  TypeOK' /\ ViewsAreReady'
<1> DEFINE v == IF IsRelated(view[t].note, m)
              THEN [view[t] EXCEPT !.todo = @ \ {m}]
              ELSE [view[t] EXCEPT !.pc = "create", !.sim = m]
<1>0. view[t] \in View /\ HasNote(view[t]) /\ HasUser(view[t]) /\ HasSim(view[t])
  BY DEF TypeOK, ViewsAreReady
<1>1. v \in View /\ HasNote(v) /\ HasUser(v) /\ HasSim(v)
  BY <1>0 DEF FindRelation, At, View, Steps, HasNote, HasUser, HasSim
<1>2. view' = [view EXCEPT ![t] = v]
  BY DEF FindRelation, Goto, TypeOK
<1>3. /\ nobservers' \in [Notes -> Nat] /\ visitors' \subseteq Visit
      /\ relations' \in [Pairs -> Nat] /\ serial' \in Nat
      /\ latest' \in [Notes -> Nat] /\ views' \in 0..MaxViews
  BY <1>0 DEF FindRelation, At, TypeOK
<1> QED
  BY <1>1, <1>2, <1>3, OneView

LEMMA CreateRelationType ==
    ASSUME TypeOK, ViewsAreReady, NEW t \in Threads, CreateRelation(t)
    PROVE  TypeOK' /\ ViewsAreReady'
<1> DEFINE v == [view[t] EXCEPT !.pc = "memoize", !.sim = 0,
                                !.todo = @ \ {view[t].sim}]
<1>0. view[t] \in View /\ HasNote(view[t]) /\ HasUser(view[t]) /\ HasSim(view[t])
  BY DEF TypeOK, ViewsAreReady
<1>p. Pair(view[t].note, view[t].sim) \in Pairs
  BY <1>0, PairsArePairs DEF CreateRelation, At, HasNote, HasSim
<1>1. v \in View /\ HasNote(v) /\ HasUser(v) /\ HasSim(v)
  BY <1>0 DEF CreateRelation, At, View, Steps, HasNote, HasUser, HasSim
<1>2. view' = [view EXCEPT ![t] = v]
  BY DEF CreateRelation, Goto, TypeOK
<1>3. /\ nobservers' \in [Notes -> Nat] /\ visitors' \subseteq Visit
      /\ relations' \in [Pairs -> Nat] /\ serial' \in Nat
      /\ latest' \in [Notes -> Nat] /\ views' \in 0..MaxViews
  BY <1>0, <1>p DEF CreateRelation, At, TypeOK
<1> QED
  BY <1>1, <1>2, <1>3, OneView

LEMMA ShownType ==
    ASSUME TypeOK, ViewsAreReady, NEW t \in Threads, Shown(t)
    PROVE  TypeOK' /\ ViewsAreReady'
<1> DEFINE v == Resting
<1>0. view[t] \in View /\ HasNote(view[t]) /\ HasUser(view[t]) /\ HasSim(view[t])
  BY DEF TypeOK, ViewsAreReady
<1>1. v \in View /\ HasNote(v) /\ HasUser(v) /\ HasSim(v)
  BY <1>0, RestingIsReady DEF Shown, At, View, Steps, HasNote, HasUser, HasSim
<1>2. view' = [view EXCEPT ![t] = v]
  BY DEF Shown, Goto, TypeOK
<1>3. /\ nobservers' \in [Notes -> Nat] /\ visitors' \subseteq Visit
      /\ relations' \in [Pairs -> Nat] /\ serial' \in Nat
      /\ latest' \in [Notes -> Nat] /\ views' \in 0..MaxViews
  BY <1>0 DEF Shown, At, TypeOK
<1> QED
  BY <1>1, <1>2, <1>3, OneView

LEMMA TypeStep ==
    ASSUME TypeOK, ViewsAreReady, [Next]_vars
    PROVE  TypeOK' /\ ViewsAreReady'
<1>0. CASE UNCHANGED vars
  BY <1>0 DEF vars, TypeOK, ViewsAreReady
<1>1. CASE Next
  BY <1>1, ShowType, SaveObserversType, ForgetVisitsType, AppendVisitType,
     ListVisitsType, DestroyVisitType, RememberedType,
     FindRawType, FindRelationType, CreateRelationType, ShownType
     DEF Next
<1> QED
  BY <1>0, <1>1

\* The tables and the threads of the site keep their types: no step uses a note,
\* a user or a similar note it has not read before (note.rb:251-289, 788-875).
THEOREM TypeCorrect == Spec => []TypeOK
<1>1. Init => TypeOK /\ ViewsAreReady
  BY InitType
<1>2. (TypeOK /\ ViewsAreReady) /\ [Next]_vars => (TypeOK /\ ViewsAreReady)'
  BY TypeStep
<1> QED
  BY <1>1, <1>2, PTL DEF Spec

-----------------------------------------------------------------------------
(* The rows of a pair.                                                     *)

LEMMA CreatingIsFinite ==
    \A p : /\ IsFiniteSet(Creating(p))
           /\ Cardinality(Creating(p)) \in Nat
           /\ Cardinality(Creating(p)) <= Cardinality(Threads)
BY ThreadsAssumption, FS_Subset, FS_CardinalityType DEF Creating

\* A step that adds no row and brings no thread to the point of creating one.
LEMMA NobodyJoins ==
    ASSUME TypeOK, RowsAndCreators, relations' = relations,
           \A p \in Pairs, u \in Threads : Creates(view'[u], p) => Creates(view[u], p)
    PROVE  RowsAndCreators'
<1> SUFFICES ASSUME NEW p \in Pairs
             PROVE  relations[p] + Cardinality(Creating(p)') <= Cardinality(Threads)
  BY DEF RowsAndCreators
<1>1. Creating(p)' \subseteq Creating(p)
  BY DEF Creating, Creates
<1>2. /\ Cardinality(Creating(p)') \in Nat
      /\ Cardinality(Creating(p)') <= Cardinality(Creating(p))
  BY <1>1, CreatingIsFinite, FS_Subset, FS_CardinalityType
<1>3. Cardinality(Threads) \in Nat /\ Cardinality(Creating(p)) \in Nat /\ relations[p] \in Nat
  BY ThreadsAssumption, FS_CardinalityType, CreatingIsFinite DEF TypeOK
<1> QED
  BY <1>2, <1>3 DEF RowsAndCreators

\* The same, when the step is one thread's and takes it elsewhere.
LEMMA OneMovesOn ==
    ASSUME TypeOK, RowsAndCreators, relations' = relations, NEW t \in Threads,
           view'[t].pc # "create",
           \A u \in Threads \ {t} : view'[u] = view[u]
    PROVE  RowsAndCreators'
<1>1. \A p \in Pairs, u \in Threads : Creates(view'[u], p) => Creates(view[u], p)
  BY DEF Creates
<1> QED
  BY <1>1, NobodyJoins

LEMMA Finds ==
    ASSUME TypeOK, ViewsAreReady, RowsAndCreators, NEW t \in Threads, NEW m \in Notes,
           FindRelation(t, m)
    PROVE  RowsAndCreators'
<1>1. \A u \in Threads \ {t} : view'[u] = view[u]
  BY DEF FindRelation, TypeOK
<1>2. relations' = relations
  BY DEF FindRelation
<1>3. CASE IsRelated(view[t].note, m)
  <2>1. view'[t].pc # "create"
    BY <1>3 DEF FindRelation, At, TypeOK, View
  <2> QED
    BY <1>1, <1>2, <2>1, OneMovesOn
<1>4. CASE ~IsRelated(view[t].note, m)
  <2> DEFINE q == Pair(view[t].note, m)
  <2>1. view'[t].note = view[t].note /\ view'[t].sim = m
    BY <1>4 DEF FindRelation, TypeOK, View
  <2>2. q \in Pairs /\ relations[q] = 0
    BY <1>4, PairsArePairs
       DEF IsRelated, TypeOK, FindRelation, At, ViewsAreReady, HasNote
  <2> SUFFICES ASSUME NEW p \in Pairs
               PROVE  relations[p] + Cardinality(Creating(p)') <= Cardinality(Threads)
    BY <1>2 DEF RowsAndCreators
  <2>3. /\ IsFiniteSet(Creating(p)') /\ Cardinality(Creating(p)') \in Nat
        /\ Cardinality(Creating(p)') <= Cardinality(Threads)
    BY ThreadsAssumption, FS_Subset, FS_CardinalityType DEF Creating
  <2>4. CASE p = q
    BY <2>2, <2>3, <2>4
  <2>5. CASE p # q
    <3>1. Creating(p)' \subseteq Creating(p)
      BY <1>1, <2>1, <2>5 DEF Creating, Creates
    <3>2. Cardinality(Creating(p)') <= Cardinality(Creating(p))
      BY <3>1, CreatingIsFinite, FS_Subset
    <3>3. /\ Cardinality(Threads) \in Nat /\ Cardinality(Creating(p)) \in Nat
          /\ relations[p] \in Nat
      BY ThreadsAssumption, FS_CardinalityType, CreatingIsFinite DEF TypeOK
    <3> QED
      BY <2>3, <3>2, <3>3 DEF RowsAndCreators
  <2> QED
    BY <2>4, <2>5
<1> QED
  BY <1>3, <1>4

LEMMA Makes ==
    ASSUME TypeOK, ViewsAreReady, RowsAndCreators, NEW t \in Threads,
           CreateRelation(t)
    PROVE  RowsAndCreators'
<1> DEFINE q == Pair(view[t].note, view[t].sim)
<1>1. \A u \in Threads \ {t} : view'[u] = view[u]
  BY DEF CreateRelation, TypeOK
<1>2. view'[t].pc = "memoize" /\ view[t].pc = "create"
  BY DEF CreateRelation, At, TypeOK, View
<1>3. q \in Pairs
  BY <1>2, PairsArePairs DEF ViewsAreReady, HasNote, HasSim
<1>4. /\ relations'[q] = relations[q] + 1
      /\ \A p \in Pairs \ {q} : relations'[p] = relations[p]
  BY <1>3 DEF CreateRelation, TypeOK
<1> SUFFICES ASSUME NEW p \in Pairs
             PROVE  relations'[p] + Cardinality(Creating(p)') <= Cardinality(Threads)
  BY DEF RowsAndCreators
<1>5. /\ Cardinality(Threads) \in Nat /\ Cardinality(Creating(p)) \in Nat
      /\ relations[p] \in Nat /\ IsFiniteSet(Creating(p))
  BY ThreadsAssumption, FS_CardinalityType, CreatingIsFinite DEF TypeOK
<1>6. relations[p] + Cardinality(Creating(p)) <= Cardinality(Threads)
  BY DEF RowsAndCreators
<1>7. CASE p = q
  <2>1. t \in Creating(p)
    BY <1>2, <1>7 DEF Creating, Creates
  <2>2. Creating(p)' = Creating(p) \ {t}
    BY <1>1, <1>2 DEF Creating, Creates
  <2>3. Cardinality(Creating(p)') = Cardinality(Creating(p)) - 1
    BY <1>5, <2>1, <2>2, FS_RemoveElement
  <2> QED
    BY <1>4, <1>5, <1>6, <1>7, <2>3
<1>8. CASE p # q
  <2>1. Creating(p)' \subseteq Creating(p)
    BY <1>1, <1>2 DEF Creating, Creates
  <2>2. /\ Cardinality(Creating(p)') <= Cardinality(Creating(p))
        /\ Cardinality(Creating(p)') \in Nat
    BY <1>5, <2>1, FS_Subset, FS_CardinalityType
  <2> QED
    BY <1>4, <1>5, <1>6, <1>8, <2>2
<1> QED
  BY <1>7, <1>8

LEMMA RowsStep ==
    ASSUME TypeOK, ViewsAreReady, RowsAndCreators, [Next]_vars
    PROVE  RowsAndCreators'
<1>0. CASE UNCHANGED vars
  BY <1>0, NobodyJoins DEF vars
<1>1. ASSUME NEW t \in Threads,
             \/ \E n \in Notes, user \in Users \union {NoUser} : Show(t, n, user)
             \/ SaveObservers(t) \/ ForgetVisits(t) \/ AppendVisit(t) \/ ListVisits(t)
             \/ DestroyVisit(t) \/ Remembered(t) \/ FindRaw(t)
             \/ Shown(t)
      PROVE  RowsAndCreators'
  <2>1. relations' = relations
    BY <1>1 DEF Show, SaveObservers, ForgetVisits, AppendVisit, ListVisits,
                DestroyVisit, Remembered, FindRaw, Shown
  <2>2. view'[t].pc # "create"
    <3> USE DEF TypeOK, View, At, Goto
    <3>1. ASSUME NEW n \in Notes, NEW user \in Users \union {NoUser}, Show(t, n, user)
          PROVE  view'[t].pc # "create"
      BY <3>1 DEF Show, Resting
    <3>2. CASE SaveObservers(t)
      BY <3>2 DEF SaveObservers
    <3>3. CASE ForgetVisits(t)
      BY <3>3 DEF ForgetVisits
    <3>4. CASE AppendVisit(t)
      BY <3>4 DEF AppendVisit
    <3>5. CASE ListVisits(t)
      BY <3>5 DEF ListVisits
    <3>6. CASE Remembered(t)
      BY <3>6 DEF Remembered
    <3>7. CASE Shown(t)
      BY <3>7 DEF Shown, Resting
    <3>8. CASE DestroyVisit(t)
      <4>1. PICK d : view' = [view EXCEPT ![t].doomed = @ \ {d}]
        BY <3>8 DEF DestroyVisit
      <4> QED
        BY <3>8, <4>1 DEF DestroyVisit
    <3>9. CASE FindRaw(t)
      <4>1. PICK hits : view' = [view EXCEPT
                          ![t].pc = "memoize",
                          ![t].todo = Results(view[t].note, hits)]
        BY <3>9 DEF FindRaw
      <4> QED
        BY <4>1
    <3> QED
      BY <1>1, <3>1, <3>2, <3>3, <3>4, <3>5, <3>6, <3>7, <3>8, <3>9
  <2>3. \A u \in Threads \ {t} : view'[u] = view[u]
    BY <1>1 DEF Show, SaveObservers, ForgetVisits, AppendVisit, ListVisits,
                DestroyVisit, Remembered, FindRaw, Shown, Goto, TypeOK
  <2> QED
    BY <2>1, <2>2, <2>3, OneMovesOn
<1> QED
  BY <1>0, <1>1, Finds, Makes DEF Next

\* However memoize runs beside itself, two notes have no more relation rows than
\* the site has threads, whatever the number of views (note.rb:855-873).
THEOREM RelationsBounded == Spec => []RelationsRepeatInOverlap
<1>1. Init => IInv
  <2> SUFFICES ASSUME Init PROVE RowsAndCreators
    BY InitType DEF IInv
  <2>1. \A p \in Pairs : relations[p] = 0
    BY DEF Init
  <2> QED
    BY <2>1, CreatingIsFinite DEF RowsAndCreators
<1>2. IInv /\ [Next]_vars => IInv'
  BY TypeStep, RowsStep DEF IInv
<1>3. IInv => RelationsRepeatInOverlap
  <2> SUFFICES ASSUME IInv, NEW p \in Pairs
               PROVE  relations[p] <= Cardinality(Threads)
    BY DEF RelationsRepeatInOverlap
  <2>1. relations[p] \in Nat /\ Cardinality(Creating(p)) \in Nat
    BY CreatingIsFinite DEF IInv, TypeOK
  <2>2. Cardinality(Threads) \in Nat
    BY ThreadsAssumption, FS_CardinalityType
  <2> QED
    BY <2>1, <2>2 DEF IInv, RowsAndCreators
<1> QED
  BY <1>1, <1>2, <1>3, PTL DEF Spec

-----------------------------------------------------------------------------
(***************************************************************************)
(* Proofs about activity_remember in NoteViews, for every finite set of    *)
(* threads and every limit above one: however visits of a note overlap,    *)
(* fewer than the limit stay, the last one is among them, and a user has   *)
(* at most one row for each thread.                                        *)
(*                                                                         *)
(* A visit deletes rows by a list that other visits have outdated.  What   *)
(* makes that right is that the last thread to make its list has seen the  *)
(* rows of all others: what no list condemns is short from then on, and    *)
(* only a thread that will make a list after it adds to it.                *)
(***************************************************************************)

Lists(v, n) == v.pc = "list" /\ v.note = n
Appends(v, n) == v.pc = "append" /\ v.note = n
AppendsFor(v, n, u) == Appends(v, n) /\ v.user = u

\* The rows of a note no thread is about to destroy.
Kept(n) == {v \in VisitsTo(n) : \A t \in Threads : v \notin view[t].doomed}
AppendingFor(n, u) == {t \in Threads : AppendsFor(view[t], n, u)}

\* The rows are numbered as they are made.
RowsAreNumbered ==
    /\ IsFiniteSet(visitors)
    /\ \A v \in visitors : v.id <= latest[v.note]
    /\ \A n \in Notes : latest[n] <= serial
    /\ \A v, w \in visitors : v.id = w.id => v = w

\* Only a thread that truncates has a list, and of older rows than the last.
DoomedAreOld ==
    \A t \in Threads :
        /\ view[t].pc # "truncate" => view[t].doomed = {}
        /\ \A v \in view[t].doomed : v.note = view[t].note /\ v.id < latest[v.note]

\* Whoever makes the last list leaves few rows out of all of them.
TailIsShort ==
    \A n \in Notes : (\E t \in Threads : Lists(view[t], n)) \/ Cardinality(Kept(n)) < Limit

\* The last row goes only to a thread that appends another.
LatestIsThere ==
    \A n \in Notes :
        \/ latest[n] = 0
        \/ \E t \in Threads : Appends(view[t], n)
        \/ \E v \in VisitsTo(n) : v.id = latest[n]

\* Each row of a user was appended by a thread that had found none.
RowsAndAppenders ==
    \A n \in Notes, u \in Users :
        Cardinality(VisitsOf(n, u)) + Cardinality(AppendingFor(n, u))
            <= Cardinality(Threads)

VInv ==
    /\ RowsAreNumbered
    /\ DoomedAreOld
    /\ TailIsShort
    /\ LatestIsThere
    /\ RowsAndAppenders

-----------------------------------------------------------------------------
(* Counting.                                                               *)

LEMMA LimitIsNat == Limit \in Nat /\ Limit >= 2
BY LimitAssumption

LEMMA VisitFields == \A v \in Visit : v.id \in Nat /\ v.note \in Notes /\ v.user \in Users
BY DEF Visit

LEMMA OneMore ==
    ASSUME NEW S, IsFiniteSet(S), NEW x
    PROVE  /\ Cardinality(S \union {x}) \in Nat
           /\ Cardinality(S \union {x}) <= Cardinality(S) + 1
<1>1. IsFiniteSet(S \union {x})
  BY FS_AddElement
<1>2. Cardinality(S) \in Nat /\ Cardinality(S \union {x}) \in Nat
  BY <1>1, FS_CardinalityType
<1>3. Cardinality(S \union {x}) = IF x \in S THEN Cardinality(S) ELSE Cardinality(S) + 1
  BY FS_AddElement, Zenon
<1> DEFINE small == Cardinality(S)
           large == Cardinality(S \union {x})
<1>4. large = small \/ large = small + 1
  BY <1>3
<1> HIDE DEF small, large
<1>5. small \in Nat /\ large \in Nat
  BY <1>2 DEF small, large
<1>6. large <= small + 1
  BY <1>4, <1>5
<1> QED
  BY <1>5, <1>6 DEF small, large

\* A set of rows that is not empty has one with the least id.
LEMMA OldestRow ==
    ASSUME NEW K, K \subseteq Visit, K # {}
    PROVE  \E v \in K : \A w \in K : v.id <= w.id
<1> DEFINE I == {v.id : v \in K}
<1>1. I \subseteq Nat /\ I # {}
  BY VisitFields
<1> DEFINE R == OpToRel(<, Nat)
<1>2. PICK m \in I : \A j \in I : <<j, m>> \notin R
  <2>1. IsWellFoundedOn(R, Nat)
    BY NatLessThanWellFounded
  <2> HIDE DEF I, R
  <2> QED
    BY <1>1, <2>1, WFMin
<1>3. \A j \in I : m <= j
  <2> SUFFICES ASSUME NEW j \in I, j < m PROVE FALSE
    BY <1>1
  <2>1. <<j, m>> \in R
    BY <1>1 DEF OpToRel
  <2> QED
    BY <1>2, <2>1
<1> QED
  BY <1>3

\* Fewer rows than the limit have fewer than Limit - 1 newer ones.
LEMMA TailBound ==
    ASSUME TypeOK, RowsAreNumbered, NEW n \in Notes, NEW K,
           K \subseteq VisitsTo(n) \ BeyondLimit(n)
    PROVE  IsFiniteSet(K) /\ Cardinality(K) \in Nat /\ Cardinality(K) < Limit
<1>1. K \subseteq visitors /\ K \subseteq Visit
  BY DEF VisitsTo, TypeOK
<1>2. IsFiniteSet(K) /\ Cardinality(K) \in Nat
  BY <1>1, FS_Subset, FS_CardinalityType DEF RowsAreNumbered
<1>3. CASE K = {}
  BY <1>2, <1>3, FS_EmptySet, LimitIsNat
<1>4. CASE K # {}
  <2>1. PICK v \in K : \A w \in K : v.id <= w.id
    BY <1>1, <1>4, OldestRow
  <2>2. K \ {v} \subseteq NewerVisits(v)
    <3> SUFFICES ASSUME NEW w \in K \ {v} PROVE w \in NewerVisits(v)
      OBVIOUS
    <3>1. w.id # v.id
      BY <1>1 DEF RowsAreNumbered
    <3>2. w.id \in Nat /\ v.id \in Nat /\ v.id <= w.id
      BY <1>1, <2>1, VisitFields
    <3>3. w.note = v.note /\ w \in visitors
      BY <1>1 DEF VisitsTo
    <3> QED
      BY <3>1, <3>2, <3>3 DEF NewerVisits
  <2>3. IsFiniteSet(NewerVisits(v)) /\ Cardinality(NewerVisits(v)) \in Nat
    BY FS_Subset, FS_CardinalityType DEF NewerVisits, RowsAreNumbered
  <2>4. ~(Cardinality(NewerVisits(v)) >= Limit - 1)
    BY <1>1 DEF BeyondLimit, VisitsTo
  <2>5. Cardinality(K \ {v}) = Cardinality(K) - 1
    BY <1>2, FS_RemoveElement
  <2>6. Cardinality(K \ {v}) <= Cardinality(NewerVisits(v))
    BY <2>2, <2>3, FS_Subset
  <2> QED
    BY <1>2, <2>3, <2>4, <2>5, <2>6, LimitIsNat
<1> QED
  BY <1>2, <1>3, <1>4

\* A row with Limit - 1 newer ones has one.
LEMMA DoomedHasNewer ==
    ASSUME TypeOK, RowsAreNumbered, NEW n \in Notes, NEW v \in BeyondLimit(n)
    PROVE  v.note = n /\ v.id < latest[n]
<1>1. v \in visitors /\ v.note = n /\ Cardinality(NewerVisits(v)) >= Limit - 1
  BY DEF BeyondLimit
<1>2. NewerVisits(v) # {}
  BY <1>1, FS_EmptySet, LimitIsNat
<1>3. PICK w \in visitors : w.note = n /\ w.id > v.id
  BY <1>1, <1>2 DEF NewerVisits
<1>4. w.id <= latest[n] /\ latest[n] \in Nat /\ w.id \in Nat /\ v.id \in Nat
  BY <1>1, <1>3, VisitFields DEF RowsAreNumbered, TypeOK
<1> QED
  BY <1>1, <1>3, <1>4

\* Fewer rows and fewer lists that are still to be made.
LEMMA KeptShrinks ==
    ASSUME TypeOK, RowsAreNumbered, NEW n \in Notes, Cardinality(Kept(n)) < Limit,
           Kept(n)' \subseteq Kept(n)
    PROVE  Cardinality(Kept(n)') < Limit
<1>1. Kept(n) \subseteq visitors
  BY DEF Kept, VisitsTo
<1>2. IsFiniteSet(Kept(n)) /\ Cardinality(Kept(n)) \in Nat
  BY <1>1, FS_Subset, FS_CardinalityType DEF RowsAreNumbered
<1>3. /\ Cardinality(Kept(n)') <= Cardinality(Kept(n))
      /\ Cardinality(Kept(n)') \in Nat
  BY <1>2, FS_Subset, FS_CardinalityType
<1> QED
  BY <1>2, <1>3, LimitIsNat

\* Neither more rows of a user nor more threads about to append one.
LEMMA NoMoreRows ==
    ASSUME TypeOK, RowsAreNumbered, RowsAndAppenders, NEW n \in Notes, NEW u \in Users,
           VisitsOf(n, u)' \subseteq VisitsOf(n, u),
           AppendingFor(n, u)' \subseteq AppendingFor(n, u)
    PROVE  Cardinality(VisitsOf(n, u)') + Cardinality(AppendingFor(n, u)')
              <= Cardinality(Threads)
<1>1. /\ IsFiniteSet(VisitsOf(n, u)) /\ Cardinality(VisitsOf(n, u)) \in Nat
      /\ IsFiniteSet(AppendingFor(n, u)) /\ Cardinality(AppendingFor(n, u)) \in Nat
      /\ Cardinality(Threads) \in Nat
  BY ThreadsAssumption, FS_Subset, FS_CardinalityType
     DEF VisitsOf, AppendingFor, RowsAreNumbered
<1>2. /\ Cardinality(VisitsOf(n, u)') <= Cardinality(VisitsOf(n, u))
      /\ Cardinality(VisitsOf(n, u)') \in Nat
  BY <1>1, FS_Subset, FS_CardinalityType
<1>3. /\ Cardinality(AppendingFor(n, u)') <= Cardinality(AppendingFor(n, u))
      /\ Cardinality(AppendingFor(n, u)') \in Nat
  BY <1>1, FS_Subset, FS_CardinalityType
<1> QED
  BY <1>1, <1>2, <1>3 DEF RowsAndAppenders

-----------------------------------------------------------------------------
(* The steps that touch no visit.                                          *)

LEMMA NoVisit ==
    ASSUME TypeOK, VInv, NEW t \in Threads,
           visitors' = visitors, serial' = serial, latest' = latest,
           \A u \in Threads \ {t} : view'[u] = view[u],
           view[t].pc \notin {"append", "list"}, view'[t].pc # "append",
           view[t].doomed = {}, view'[t].doomed = {}
    PROVE  VInv'
<1> USE DEF VInv
<1>1. RowsAreNumbered'
  BY DEF RowsAreNumbered
<1>2. DoomedAreOld'
  BY DEF DoomedAreOld
<1>3. \A n : Kept(n)' = Kept(n)
  <2> SUFFICES ASSUME NEW n PROVE Kept(n)' = Kept(n)
    OBVIOUS
  <2>1. \A u \in Threads : view'[u].doomed = view[u].doomed
    OBVIOUS
  <2> QED
    BY <2>1 DEF Kept, VisitsTo
<1>4. TailIsShort'
  BY <1>3 DEF TailIsShort, Lists
<1>5. LatestIsThere'
  BY DEF LatestIsThere, Appends, VisitsTo
<1>6. RowsAndAppenders'
  <2> SUFFICES ASSUME NEW n \in Notes, NEW u \in Users
               PROVE  Cardinality(VisitsOf(n, u)') + Cardinality(AppendingFor(n, u)')
                         <= Cardinality(Threads)
    BY DEF RowsAndAppenders
  <2>1. VisitsOf(n, u)' \subseteq VisitsOf(n, u)
    BY DEF VisitsOf
  <2>2. AppendingFor(n, u)' \subseteq AppendingFor(n, u)
    BY DEF AppendingFor, AppendsFor, Appends
  <2> QED
    BY <2>1, <2>2, NoMoreRows
<1> QED
  BY <1>1, <1>2, <1>4, <1>5, <1>6

LEMMA OtherSteps ==
    ASSUME TypeOK, VInv, NEW t \in Threads,
           \/ \E n \in Notes, user \in Users \union {NoUser} : Show(t, n, user)
           \/ SaveObservers(t) \/ Remembered(t) \/ FindRaw(t)
           \/ \E m \in Notes : FindRelation(t, m)
           \/ CreateRelation(t) \/ Shown(t)
    PROVE  VInv'
<1>0. view[t] \in View /\ (view[t].pc # "truncate" => view[t].doomed = {})
  BY DEF TypeOK, VInv, DoomedAreOld
<1>1. visitors' = visitors /\ serial' = serial /\ latest' = latest
  BY DEF Show, SaveObservers, Remembered, FindRaw, FindRelation, CreateRelation, Shown
<1>2. \A u \in Threads \ {t} : view'[u] = view[u]
  BY DEF Show, SaveObservers, Remembered, FindRaw, FindRelation, CreateRelation, Shown,
         TypeOK
<1>3. /\ view[t].pc \notin {"append", "list"} /\ view[t].doomed = {}
      /\ view'[t].pc # "append" /\ view'[t].doomed = {}
  <2> USE <1>0 DEF TypeOK, View, At
  <2>1. ASSUME NEW n \in Notes, NEW user \in Users \union {NoUser}, Show(t, n, user)
        PROVE  /\ view[t].pc \notin {"append", "list"} /\ view[t].doomed = {}
               /\ view'[t].pc # "append" /\ view'[t].doomed = {}
    BY <2>1 DEF Show, Resting
  <2>2. CASE SaveObservers(t)
    BY <2>2 DEF SaveObservers
  <2>3. CASE Remembered(t)
    BY <2>3 DEF Remembered
  <2>4. CASE FindRaw(t)
    <3>1. PICK hits : view' = [view EXCEPT ![t].pc = "memoize",
                                 ![t].todo = Results(view[t].note, hits)]
      BY <2>4 DEF FindRaw
    <3> QED
      BY <2>4, <3>1 DEF FindRaw
  <2>5. ASSUME NEW m \in Notes, FindRelation(t, m) PROVE /\ view[t].pc \notin {"append", "list"} /\ view[t].doomed = {}
               /\ view'[t].pc # "append" /\ view'[t].doomed = {}
    BY <2>5 DEF FindRelation
  <2>6. CASE CreateRelation(t)
    BY <2>6 DEF CreateRelation
  <2>7. CASE Shown(t)
    BY <2>7 DEF Shown, Resting
  <2> QED
    BY <2>1, <2>2, <2>3, <2>4, <2>5, <2>6, <2>7
<1> QED
  BY <1>1, <1>2, <1>3, NoVisit

-----------------------------------------------------------------------------
(* The steps of activity_remember.                                         *)

\* A row that goes takes nothing from what the parts say about the others.
LEMMA RowsGo ==
    ASSUME TypeOK, RowsAreNumbered, visitors' \subseteq visitors,
           serial' = serial, latest' = latest
    PROVE  RowsAreNumbered'
<1>1. IsFiniteSet(visitors')
  BY FS_Subset DEF RowsAreNumbered
<1> QED
  BY <1>1 DEF RowsAreNumbered

LEMMA Forgets ==
    ASSUME TypeOK, ViewsAreReady, VInv, NEW t \in Threads, ForgetVisits(t)
    PROVE  VInv'
<1> USE DEF VInv
<1> DEFINE m == view[t].note
           w == view[t].user
<1>1. /\ \A u \in Threads \ {t} : view'[u] = view[u]
      /\ view[t].pc = "forget"
      /\ view'[t] = [view[t] EXCEPT !.pc = "append"]
  BY DEF ForgetVisits, Goto, At, TypeOK
<1>2. /\ view'[t].pc = "append" /\ view'[t].note = m /\ view'[t].user = w
      /\ view'[t].doomed = view[t].doomed
  BY <1>1 DEF TypeOK, View
<1>3. m \in Notes /\ w \in Users
  BY <1>1 DEF ViewsAreReady, HasNote, HasUser
<1>4. /\ visitors' = visitors \ VisitsOf(m, w)
      /\ serial' = serial /\ latest' = latest
  BY DEF ForgetVisits
<1>5. RowsAreNumbered'
  BY <1>4, RowsGo
<1>6. DoomedAreOld'
  <2>1. \A u \in Threads : /\ view'[u].doomed = view[u].doomed
                           /\ view'[u].note = view[u].note
                           /\ view'[u].pc = "truncate" <=> view[u].pc = "truncate"
    BY <1>1, <1>2
  <2> QED
    BY <1>4, <2>1 DEF DoomedAreOld
<1>7. TailIsShort'
  <2> SUFFICES ASSUME NEW n \in Notes, ~(\E u \in Threads : Lists(view'[u], n))
               PROVE  Cardinality(Kept(n)') < Limit
    BY DEF TailIsShort, Lists
  <2>1. ~(\E u \in Threads : Lists(view[u], n))
    BY <1>1 DEF Lists
  <2>2. Kept(n)' \subseteq Kept(n)
    BY <1>1, <1>2, <1>4 DEF Kept, VisitsTo
  <2> QED
    BY <2>1, <2>2, KeptShrinks DEF TailIsShort
<1>8. LatestIsThere'
  <2> SUFFICES ASSUME NEW n \in Notes, latest[n] # 0,
                      ~(\E u \in Threads : Appends(view'[u], n))
               PROVE  \E v \in VisitsTo(n)' : v.id = latest[n]
    BY <1>4 DEF LatestIsThere, Appends
  <2>1. n # m
    BY <1>2 DEF Appends
  <2>2. ~(\E u \in Threads : Appends(view[u], n))
    BY <1>1 DEF Appends
  <2>3. PICK v \in VisitsTo(n) : v.id = latest[n]
    BY <2>2 DEF LatestIsThere
  <2>4. v \in VisitsTo(n)'
    BY <1>4, <2>1 DEF VisitsTo, VisitsOf
  <2> QED
    BY <2>3, <2>4
<1>9. RowsAndAppenders'
  <2> SUFFICES ASSUME NEW n \in Notes, NEW u \in Users
               PROVE  Cardinality(VisitsOf(n, u)') + Cardinality(AppendingFor(n, u)')
                         <= Cardinality(Threads)
    BY DEF RowsAndAppenders
  <2>1. CASE n = m /\ u = w
    <3>1. VisitsOf(n, u)' = {}
      BY <1>4, <2>1 DEF VisitsOf
    <3>2. /\ Cardinality(AppendingFor(n, u)') <= Cardinality(Threads)
          /\ Cardinality(AppendingFor(n, u)') \in Nat
      BY ThreadsAssumption, FS_Subset, FS_CardinalityType DEF AppendingFor
    <3> QED
      BY <3>1, <3>2, FS_EmptySet
  <2>2. CASE ~(n = m /\ u = w)
    <3>1. VisitsOf(n, u)' \subseteq VisitsOf(n, u)
      BY <1>4 DEF VisitsOf
    <3>2. AppendingFor(n, u)' \subseteq AppendingFor(n, u)
      BY <1>1, <1>2, <2>2 DEF AppendingFor, AppendsFor, Appends
    <3> QED
      BY <3>1, <3>2, NoMoreRows
  <2> QED
    BY <2>1, <2>2
<1> QED
  BY <1>5, <1>6, <1>7, <1>8, <1>9

LEMMA AppendsOne ==
    ASSUME TypeOK, ViewsAreReady, VInv, NEW t \in Threads, AppendVisit(t)
    PROVE  VInv'
<1> USE DEF VInv
<1> DEFINE m == view[t].note
           w == view[t].user
           row == [id |-> serial + 1, note |-> m, user |-> w]
<1>1. /\ \A u \in Threads \ {t} : view'[u] = view[u]
      /\ view[t].pc = "append"
      /\ view'[t] = [view[t] EXCEPT !.pc = "list"]
  BY DEF AppendVisit, Goto, At, TypeOK
<1>2. /\ view'[t].pc = "list" /\ view'[t].note = m /\ view'[t].user = w
      /\ view'[t].doomed = view[t].doomed
  BY <1>1 DEF TypeOK, View
<1>3. m \in Notes /\ w \in Users
  BY <1>1 DEF ViewsAreReady, HasNote, HasUser
<1>4. visitors' = visitors \union {row} /\ serial' = serial + 1
  BY DEF AppendVisit
<1>5. /\ latest'[m] = serial + 1
      /\ \A n \in Notes \ {m} : latest'[n] = latest[n]
  BY <1>3 DEF AppendVisit, TypeOK
<1>6. serial \in Nat /\ \A n \in Notes : latest[n] \in Nat /\ latest[n] <= serial
  BY DEF TypeOK, RowsAreNumbered
<1>7. \A v \in visitors : v.id \in Nat /\ v.id <= serial /\ v.note \in Notes
  BY <1>6, VisitFields DEF TypeOK, RowsAreNumbered
<1>8. RowsAreNumbered'
  <2>1. IsFiniteSet(visitors')
    BY <1>4, FS_AddElement DEF RowsAreNumbered
  <2>2. \A v \in visitors' : v.id <= latest'[v.note]
    <3> SUFFICES ASSUME NEW v \in visitors' PROVE v.id <= latest'[v.note]
      OBVIOUS
    <3>1. CASE v = row
      BY <1>5, <1>6, <3>1
    <3>2. CASE v \in visitors /\ v.note = m
      BY <1>5, <1>6, <1>7, <3>2
    <3>3. CASE v \in visitors /\ v.note # m
      BY <1>5, <1>7, <3>3 DEF RowsAreNumbered
    <3> QED
      BY <1>4, <3>1, <3>2, <3>3
  <2>3. \A n \in Notes : latest'[n] <= serial'
    BY <1>4, <1>5, <1>6
  <2>4. \A v, x \in visitors' : v.id = x.id => v = x
    <3>1. \A v \in visitors : v.id # row.id
      BY <1>6, <1>7
    <3> QED
      BY <1>4, <3>1 DEF RowsAreNumbered
  <2> QED
    BY <2>1, <2>2, <2>3, <2>4 DEF RowsAreNumbered
<1>9. DoomedAreOld'
  <2> SUFFICES ASSUME NEW u \in Threads
               PROVE  /\ view'[u].pc # "truncate" => view'[u].doomed = {}
                      /\ \A v \in view'[u].doomed :
                            v.note = view'[u].note /\ v.id < latest'[v.note]
    BY DEF DoomedAreOld
  <2>1. CASE u = t
    BY <1>1, <1>2, <2>1 DEF DoomedAreOld
  <2>2. CASE u # t
    <3>1. view'[u] = view[u] /\ view[u].doomed \subseteq Visit
      BY <1>1, <2>2 DEF TypeOK, View
    <3>2. \A v \in view[u].doomed : v.id \in Nat /\ v.note \in Notes
      BY <3>1, VisitFields
    <3>3. \A v \in view[u].doomed : v.note = view[u].note /\ v.id < latest[v.note]
      BY DEF DoomedAreOld
    <3>4. \A v \in view[u].doomed : v.id < latest'[v.note]
      <4> SUFFICES ASSUME NEW v \in view[u].doomed PROVE v.id < latest'[v.note]
        OBVIOUS
      <4>1. v.id \in Nat /\ v.note \in Notes /\ v.id < latest[v.note]
        BY <3>2, <3>3
      <4>2. CASE v.note = m
        BY <1>5, <1>6, <4>1, <4>2
      <4>3. CASE v.note # m
        BY <1>5, <4>1, <4>3
      <4> QED
        BY <4>2, <4>3
    <3> QED
      BY <3>1, <3>3, <3>4 DEF DoomedAreOld
  <2> QED
    BY <2>1, <2>2
<1>10. TailIsShort'
  <2> SUFFICES ASSUME NEW n \in Notes, ~(\E u \in Threads : Lists(view'[u], n))
               PROVE  Cardinality(Kept(n)') < Limit
    BY DEF TailIsShort, Lists
  <2>1. n # m
    BY <1>2 DEF Lists
  <2>2. ~(\E u \in Threads : Lists(view[u], n))
    BY <1>1 DEF Lists
  <2>3. Kept(n)' \subseteq Kept(n)
    <3>1. VisitsTo(n)' = VisitsTo(n)
      BY <1>4, <2>1 DEF VisitsTo
    <3>2. \A u \in Threads : view'[u].doomed = view[u].doomed
      BY <1>1, <1>2
    <3> QED
      BY <3>1, <3>2 DEF Kept
  <2> QED
    BY <2>2, <2>3, KeptShrinks DEF TailIsShort
<1>11. LatestIsThere'
  <2> SUFFICES ASSUME NEW n \in Notes, latest'[n] # 0,
                      ~(\E u \in Threads : Appends(view'[u], n))
               PROVE  \E v \in VisitsTo(n)' : v.id = latest'[n]
    BY DEF LatestIsThere, Appends
  <2>1. CASE n = m
    <3>1. row \in visitors' /\ row.note = n /\ row.id = latest'[n]
      BY <1>4, <1>5, <2>1
    <3> QED
      BY <3>1 DEF VisitsTo
  <2>2. CASE n # m
    <3>1. ~(\E u \in Threads : Appends(view[u], n))
      BY <1>1, <2>2 DEF Appends
    <3>2. PICK v \in VisitsTo(n) : v.id = latest[n]
      BY <1>5, <2>2, <3>1 DEF LatestIsThere
    <3>3. v \in VisitsTo(n)' /\ latest'[n] = latest[n]
      BY <1>4, <1>5, <2>2 DEF VisitsTo
    <3> QED
      BY <3>2, <3>3
  <2> QED
    BY <2>1, <2>2
<1>12. RowsAndAppenders'
  <2> SUFFICES ASSUME NEW n \in Notes, NEW u \in Users
               PROVE  Cardinality(VisitsOf(n, u)') + Cardinality(AppendingFor(n, u)')
                         <= Cardinality(Threads)
    BY DEF RowsAndAppenders
  <2>1. CASE n = m /\ u = w
    <3>1. VisitsOf(n, u)' = VisitsOf(n, u) \union {row}
      BY <1>4, <2>1 DEF VisitsOf
    <3>2. AppendingFor(n, u)' = AppendingFor(n, u) \ {t} /\ t \in AppendingFor(n, u)
      BY <1>1, <1>2, <2>1 DEF AppendingFor, AppendsFor, Appends
    <3>3. /\ IsFiniteSet(VisitsOf(n, u)) /\ Cardinality(VisitsOf(n, u)) \in Nat
          /\ IsFiniteSet(AppendingFor(n, u)) /\ Cardinality(AppendingFor(n, u)) \in Nat
          /\ Cardinality(Threads) \in Nat
      BY ThreadsAssumption, FS_Subset, FS_CardinalityType
         DEF VisitsOf, AppendingFor, RowsAreNumbered
    <3>4. /\ Cardinality(VisitsOf(n, u)') <= Cardinality(VisitsOf(n, u)) + 1
          /\ Cardinality(VisitsOf(n, u)') \in Nat
      <4> HIDE DEF row
      <4> QED
        BY <3>1, <3>3, OneMore
    <3>5. Cardinality(AppendingFor(n, u)') = Cardinality(AppendingFor(n, u)) - 1
      BY <3>2, <3>3, FS_RemoveElement
    <3> QED
      BY <3>3, <3>4, <3>5 DEF RowsAndAppenders
  <2>2. CASE ~(n = m /\ u = w)
    <3>1. VisitsOf(n, u)' \subseteq VisitsOf(n, u)
      BY <1>4, <2>2 DEF VisitsOf
    <3>2. AppendingFor(n, u)' \subseteq AppendingFor(n, u)
      BY <1>1, <1>2 DEF AppendingFor, AppendsFor, Appends
    <3> QED
      BY <3>1, <3>2, NoMoreRows
  <2> QED
    BY <2>1, <2>2
<1> QED
  BY <1>8, <1>9, <1>10, <1>11, <1>12

LEMMA ListsRows ==
    ASSUME TypeOK, ViewsAreReady, VInv, NEW t \in Threads, ListVisits(t)
    PROVE  VInv'
<1> USE DEF VInv
<1> DEFINE m == view[t].note
<1>1. /\ \A u \in Threads \ {t} : view'[u] = view[u]
      /\ view[t].pc = "list"
      /\ view'[t] = [view[t] EXCEPT !.pc = "truncate", !.doomed = BeyondLimit(m)]
  BY DEF ListVisits, At, TypeOK
<1>2. /\ view'[t].pc = "truncate" /\ view'[t].note = m
      /\ view'[t].doomed = BeyondLimit(m) /\ view[t].doomed = {}
  BY <1>1 DEF TypeOK, View, DoomedAreOld
<1>3. m \in Notes
  BY <1>1 DEF ViewsAreReady, HasNote
<1>4. visitors' = visitors /\ serial' = serial /\ latest' = latest
  BY DEF ListVisits
<1>5. RowsAreNumbered'
  BY <1>4, RowsGo
<1>6. DoomedAreOld'
  <2>1. \A v \in BeyondLimit(m) : v.note = m /\ v.id < latest[m]
    BY <1>3, DoomedHasNewer
  <2> SUFFICES ASSUME NEW u \in Threads
               PROVE  /\ view'[u].pc # "truncate" => view'[u].doomed = {}
                      /\ \A v \in view'[u].doomed :
                            v.note = view'[u].note /\ v.id < latest[v.note]
    BY <1>4 DEF DoomedAreOld
  <2>2. CASE u = t
    BY <1>2, <2>1, <2>2
  <2>3. CASE u # t
    BY <1>1, <2>3 DEF DoomedAreOld
  <2> QED
    BY <2>2, <2>3
<1>7. TailIsShort'
  <2> SUFFICES ASSUME NEW n \in Notes, ~(\E u \in Threads : Lists(view'[u], n))
               PROVE  Cardinality(Kept(n)') < Limit
    BY DEF TailIsShort, Lists
  <2>1. CASE n = m
    <3>1. Kept(n)' \subseteq VisitsTo(n) \ BeyondLimit(n)
      BY <1>2, <1>4, <2>1 DEF Kept, VisitsTo
    <3> QED
      BY <3>1, TailBound
  <2>2. CASE n # m
    <3>1. ~(\E u \in Threads : Lists(view[u], n))
      BY <1>1, <2>2 DEF Lists
    <3>2. \A u \in Threads : view[u].doomed \subseteq view'[u].doomed
      BY <1>1, <1>2
    <3>3. Kept(n)' \subseteq Kept(n)
      BY <1>4, <3>2 DEF Kept, VisitsTo
    <3> QED
      BY <3>1, <3>3, KeptShrinks DEF TailIsShort
  <2> QED
    BY <2>1, <2>2
<1>8. LatestIsThere'
  BY <1>1, <1>2, <1>4 DEF LatestIsThere, Appends, VisitsTo
<1>9. RowsAndAppenders'
  <2> SUFFICES ASSUME NEW n \in Notes, NEW u \in Users
               PROVE  Cardinality(VisitsOf(n, u)') + Cardinality(AppendingFor(n, u)')
                         <= Cardinality(Threads)
    BY DEF RowsAndAppenders
  <2>1. VisitsOf(n, u)' \subseteq VisitsOf(n, u)
    BY <1>4 DEF VisitsOf
  <2>2. AppendingFor(n, u)' \subseteq AppendingFor(n, u)
    BY <1>1, <1>2 DEF AppendingFor, AppendsFor, Appends
  <2> QED
    BY <2>1, <2>2, NoMoreRows
<1> QED
  BY <1>5, <1>6, <1>7, <1>8, <1>9

LEMMA Destroys ==
    ASSUME TypeOK, ViewsAreReady, VInv, NEW t \in Threads, DestroyVisit(t)
    PROVE  VInv'
<1> USE DEF VInv
<1> DEFINE m == view[t].note
<1>0. PICK d \in view[t].doomed : /\ visitors' = visitors \ {d}
                                  /\ view' = [view EXCEPT ![t].doomed = @ \ {d}]
  BY DEF DestroyVisit
<1>1. /\ \A u \in Threads \ {t} : view'[u] = view[u]
      /\ view[t].pc = "truncate"
      /\ view'[t] = [view[t] EXCEPT !.doomed = @ \ {d}]
  BY <1>0 DEF DestroyVisit, At, TypeOK
<1>2. /\ view'[t].pc = "truncate" /\ view'[t].note = m
      /\ view'[t].user = view[t].user
      /\ view'[t].doomed = view[t].doomed \ {d}
  BY <1>1 DEF TypeOK, View
<1>3. m \in Notes /\ d.note = m /\ d.id < latest[m] /\ d.id \in Nat /\ latest[m] \in Nat
  <2>1. m \in Notes
    BY <1>1 DEF ViewsAreReady, HasNote
  <2>2. d \in Visit
    BY DEF TypeOK, View
  <2> QED
    BY <2>1, <2>2, VisitFields DEF DoomedAreOld, TypeOK
<1>4. serial' = serial /\ latest' = latest
  BY DEF DestroyVisit
<1>5. RowsAreNumbered'
  BY <1>0, <1>4, RowsGo
<1>6. DoomedAreOld'
  <2> SUFFICES ASSUME NEW u \in Threads
               PROVE  /\ view'[u].pc # "truncate" => view'[u].doomed = {}
                      /\ \A v \in view'[u].doomed :
                            v.note = view'[u].note /\ v.id < latest[v.note]
    BY <1>4 DEF DoomedAreOld
  <2>1. CASE u = t
    BY <1>2, <2>1 DEF DoomedAreOld
  <2>2. CASE u # t
    BY <1>1, <2>2 DEF DoomedAreOld
  <2> QED
    BY <2>1, <2>2
<1>7. TailIsShort'
  <2> SUFFICES ASSUME NEW n \in Notes, ~(\E u \in Threads : Lists(view'[u], n))
               PROVE  Cardinality(Kept(n)') < Limit
    BY DEF TailIsShort, Lists
  <2>1. ~(\E u \in Threads : Lists(view[u], n))
    BY <1>1 DEF Lists
  <2>2. \A v \in visitors', u \in Threads : v \in view[u].doomed => v \in view'[u].doomed
    BY <1>0, <1>1, <1>2
  <2>3. Kept(n)' \subseteq Kept(n)
    BY <1>0, <2>2 DEF Kept, VisitsTo
  <2> QED
    BY <2>1, <2>3, KeptShrinks DEF TailIsShort
<1>8. LatestIsThere'
  <2> SUFFICES ASSUME NEW n \in Notes, latest[n] # 0,
                      ~(\E u \in Threads : Appends(view'[u], n))
               PROVE  \E v \in VisitsTo(n)' : v.id = latest[n]
    BY <1>4 DEF LatestIsThere, Appends
  <2>1. ~(\E u \in Threads : Appends(view[u], n))
    BY <1>1 DEF Appends
  <2>2. PICK v \in VisitsTo(n) : v.id = latest[n]
    BY <2>1 DEF LatestIsThere
  <2>3. v # d
    BY <1>3, <2>2 DEF VisitsTo
  <2>4. v \in VisitsTo(n)'
    BY <1>0, <2>3 DEF VisitsTo
  <2> QED
    BY <2>2, <2>4
<1>9. RowsAndAppenders'
  <2> SUFFICES ASSUME NEW n \in Notes, NEW u \in Users
               PROVE  Cardinality(VisitsOf(n, u)') + Cardinality(AppendingFor(n, u)')
                         <= Cardinality(Threads)
    BY DEF RowsAndAppenders
  <2>1. VisitsOf(n, u)' \subseteq VisitsOf(n, u)
    BY <1>0 DEF VisitsOf
  <2>2. AppendingFor(n, u)' \subseteq AppendingFor(n, u)
    BY <1>1, <1>2 DEF AppendingFor, AppendsFor, Appends
  <2> QED
    BY <2>1, <2>2, NoMoreRows
<1> QED
  BY <1>5, <1>6, <1>7, <1>8, <1>9

-----------------------------------------------------------------------------
(* The theorems.                                                           *)

VisitsInv == TypeOK /\ ViewsAreReady /\ VInv

LEMMA VisitsInit == Init => VisitsInv
<1> SUFFICES ASSUME Init PROVE VInv
  BY InitType DEF VisitsInv
<1>1. visitors = {} /\ serial = 0 /\ \A n \in Notes : latest[n] = 0
  BY DEF Init
<1>2. \A t \in Threads : view[t].pc = "idle" /\ view[t].doomed = {}
  BY DEF Init, Resting
<1>3. RowsAreNumbered
  BY <1>1, FS_EmptySet DEF RowsAreNumbered
<1>4. DoomedAreOld
  BY <1>2 DEF DoomedAreOld
<1>5. TailIsShort
  <2>1. \A n : Kept(n) = {}
    BY <1>1 DEF Kept, VisitsTo
  <2> QED
    BY <2>1, FS_EmptySet, LimitIsNat DEF TailIsShort
<1>6. LatestIsThere
  BY <1>1 DEF LatestIsThere
<1>7. RowsAndAppenders
  <2>1. \A n, u : VisitsOf(n, u) = {} /\ AppendingFor(n, u) = {}
    BY <1>1, <1>2 DEF VisitsOf, AppendingFor, AppendsFor, Appends
  <2> QED
    BY <2>1, FS_EmptySet, FS_CardinalityType, ThreadsAssumption DEF RowsAndAppenders
<1> QED
  BY <1>3, <1>4, <1>5, <1>6, <1>7 DEF VInv

LEMMA VisitsStep ==
    ASSUME VisitsInv, [Next]_vars
    PROVE  VisitsInv'
<1> USE DEF VisitsInv
<1>1. CASE UNCHANGED vars
  <2>1. VInv'
    BY <1>1 DEF vars, VInv, RowsAreNumbered, DoomedAreOld, TailIsShort, LatestIsThere,
                RowsAndAppenders, Kept, VisitsTo, VisitsOf, AppendingFor
  <2> QED
    BY <2>1, TypeStep
<1>2. CASE Next
  <2>1. PICK t \in Threads :
          \/ \E n \in Notes, user \in Users \union {NoUser} : Show(t, n, user)
          \/ SaveObservers(t) \/ ForgetVisits(t) \/ AppendVisit(t) \/ ListVisits(t)
          \/ DestroyVisit(t) \/ Remembered(t) \/ FindRaw(t)
          \/ \E m \in Notes : FindRelation(t, m)
          \/ CreateRelation(t) \/ Shown(t)
    BY <1>2 DEF Next
  <2>2. VInv'
    BY <2>1, OtherSteps, Forgets, AppendsOne, ListsRows, Destroys
  <2> QED
    BY <2>2, TypeStep
<1> QED
  BY <1>1, <1>2

LEMMA VisitsInvariant == Spec => []VisitsInv
BY VisitsInit, VisitsStep, PTL DEF Spec

\* When no visit of a note is being remembered its rows are fewer than the limit,
\* whatever lists were made of them, by however many threads (note.rb:268-287).
THEOREM VisitorsBounded == Spec => []VisitorsAreBounded
<1>1. VisitsInv => VisitorsAreBounded
  <2> SUFFICES ASSUME VisitsInv, NEW n \in Notes, Quiet(n)
               PROVE  Cardinality(VisitsTo(n)) < Limit
    BY DEF VisitorsAreBounded
  <2>1. ~(\E t \in Threads : Lists(view[t], n))
    BY DEF Quiet, Remembering, Lists
  <2>2. \A t \in Threads : view[t].doomed # {} => view[t].note # n
    BY DEF Quiet, Remembering, VisitsInv, VInv, DoomedAreOld
  <2>3. \A t \in Threads, v \in VisitsTo(n) : v \notin view[t].doomed
    BY <2>2 DEF VisitsTo, VisitsInv, VInv, DoomedAreOld
  <2>4. Kept(n) = VisitsTo(n)
    BY <2>3 DEF Kept
  <2> QED
    BY <2>1, <2>4 DEF VisitsInv, VInv, TailIsShort
<1> QED
  BY <1>1, VisitsInvariant, PTL

\* The row of the last visit is not on any list, and only a newer visit of the
\* same user removes it (note.rb:268-287).
THEOREM LastVisitKept == Spec => []LastVisitIsKept
<1>1. VisitsInv => LastVisitIsKept
  <2> SUFFICES ASSUME VisitsInv, NEW n \in Notes, Quiet(n), latest[n] > 0
               PROVE  \E v \in VisitsTo(n) : v.id = latest[n]
    BY DEF LastVisitIsKept
  <2>1. ~(\E t \in Threads : Appends(view[t], n))
    BY DEF Quiet, Remembering, Appends
  <2>2. latest[n] # 0
    OBVIOUS
  <2> QED
    BY <2>1, <2>2 DEF VisitsInv, VInv, LatestIsThere
<1> QED
  BY <1>1, VisitsInvariant, PTL

\* A user has at most as many rows for a note as the site has threads, whatever
\* the number of visits (note.rb:268-273).
THEOREM VisitsRepeated == Spec => []VisitsRepeatInOverlap
<1>1. VisitsInv => VisitsRepeatInOverlap
  <2> SUFFICES ASSUME VisitsInv, NEW n \in Notes, NEW u \in Users
               PROVE  Cardinality({v \in VisitsTo(n) : v.user = u}) <= Cardinality(Threads)
    BY DEF VisitsRepeatInOverlap
  <2>1. {v \in VisitsTo(n) : v.user = u} = VisitsOf(n, u)
    BY DEF VisitsTo, VisitsOf
  <2>2. /\ Cardinality(VisitsOf(n, u)) \in Nat /\ Cardinality(AppendingFor(n, u)) \in Nat
        /\ Cardinality(Threads) \in Nat
    BY ThreadsAssumption, FS_Subset, FS_CardinalityType
       DEF VisitsOf, AppendingFor, VisitsInv, VInv, RowsAreNumbered
  <2>3. Cardinality(VisitsOf(n, u)) + Cardinality(AppendingFor(n, u))
           <= Cardinality(Threads)
    BY DEF VisitsInv, VInv, RowsAndAppenders
  <2>4. Cardinality(VisitsOf(n, u)) <= Cardinality(Threads)
    BY <2>2, <2>3
  <2> QED
    BY <2>1, <2>4
<1> QED
  BY <1>1, VisitsInvariant, PTL
=============================================================================

------------------------------ MODULE NoteViews ------------------------------
(***************************************************************************)
(* What it does to the site's tables to show a note: notes.rb:58-62 and    *)
(* the view notes/show.html.erb, over activity_remember, find_similar and  *)
(* memoize of website/app/models/note.rb.  Every action is one query of    *)
(* one thread; the site handles requests at the same time and takes no     *)
(* transaction around them.                                                *)
(*                                                                         *)
(* Left out: the owner activity_remember may give a note without one, the  *)
(* scores, find_similar_older, which nobody calls, and                     *)
(* find_similar_from_cache, which USE_SIMILARITY_CACHE turns off.          *)
(***************************************************************************)
EXTENDS Integers, FiniteSets

CONSTANTS
    Threads,
    Notes,        \* the ids of the notes
    Labels,       \* those in the image server, some of notes that are gone
    Users, NoUser,
    Limit,        \* count in activity_remember, 64
    MaxViews      \* bound on how often a note is shown

ASSUME ThreadsAssumption == IsFiniteSet(Threads)
ASSUME LimitAssumption == Limit \in Nat \ {0, 1}
ASSUME NotesAssumption == Notes \subseteq Nat /\ Labels \subseteq Nat
ASSUME MaxViewsAssumption == MaxViews \in Nat

VARIABLES
    nobservers,   \* note -> the counter in its row
    visitors,     \* the rows of Note_Visitor
    relations,    \* pair of notes -> how many rows Note_Relation has for it
    view,         \* thread -> where it is in showing which note to whom
    serial,       \* the id of the last row made of Note_Visitor
    latest,       \* history: the same of each note
    views         \* how many views were begun

vars == <<nobservers, visitors, serial, latest, relations, view, views>>

Visit == [id: Nat \ {0}, note: Notes, user: Users]

\* "always store relationships such that the lower id is first (mandatory!)"
Pair(m, n) == IF m > n THEN <<n, m>> ELSE <<m, n>>
Pairs == {Pair(m, n) : m \in Notes, n \in Notes}

Steps == {"idle", "save", "forget", "append", "list", "truncate", "similar",
          "memoize", "create"}

Resting == [pc |-> "idle", note |-> 0, user |-> NoUser, observers |-> 0,
            doomed |-> {}, todo |-> {}, sim |-> 0]

View == [pc: Steps, note: Notes \union {0}, user: Users \union {NoUser},
         observers: Nat, doomed: SUBSET Visit,
         todo: SUBSET Notes, sim: Notes \union {0}]

TypeOK ==
    /\ nobservers \in [Notes -> Nat]
    /\ visitors \subseteq Visit
    /\ relations \in [Pairs -> Nat]
    /\ view \in [Threads -> View]
    /\ serial \in Nat /\ latest \in [Notes -> Nat]
    /\ views \in 0..MaxViews

Init ==
    /\ nobservers = [n \in Notes |-> 0]
    /\ visitors = {} /\ serial = 0 /\ latest = nobservers
    /\ relations = [p \in Pairs |-> 0]
    /\ view = [t \in Threads |-> Resting]
    /\ views = 0

Goto(t, pc) == view' = [view EXCEPT ![t].pc = pc]
At(t, pc) == view[t].pc = pc

\* The note is read before the action begins.
Show(t, n, user) ==
    /\ At(t, "idle")
    /\ views < MaxViews
    /\ views' = views + 1
    /\ view' = [view EXCEPT ![t] = [Resting EXCEPT
                  !.pc = IF user = NoUser THEN "similar" ELSE "save",
                  !.note = n, !.user = user, !.observers = nobservers[n]]]
    /\ UNCHANGED <<nobservers, visitors, serial, latest, relations>>

-----------------------------------------------------------------------------
(* activity_remember.                                                      *)

SaveObservers(t) ==
    /\ At(t, "save")
    /\ nobservers' = [nobservers EXCEPT ![view[t].note] = view[t].observers + 1]
    /\ view' = [view EXCEPT ![t].pc = "forget", ![t].observers = 0]
    /\ UNCHANGED <<visitors, serial, latest, relations, views>>

\* Mutant of the next: looks for the note's id in the wrong column.
VisitsById(n, user) == {v \in visitors : v.id = n /\ v.user = user}

VisitsOf(n, user) == {v \in visitors : v.note = n /\ v.user = user}

ForgetVisits(t) ==
    /\ At(t, "forget")
    /\ visitors' = visitors \ VisitsOf(view[t].note, view[t].user)
    /\ Goto(t, "append")
    /\ UNCHANGED <<nobservers, serial, latest, relations, views>>

AppendVisit(t) ==
    /\ At(t, "append")
    /\ visitors' = visitors \union
         {[id |-> serial + 1, note |-> view[t].note, user |-> view[t].user]}
    /\ serial' = serial + 1
    /\ latest' = [latest EXCEPT ![view[t].note] = serial + 1]
    /\ Goto(t, "list")
    /\ UNCHANGED <<nobservers, relations, views>>

NewerVisits(v) == {w \in visitors : w.note = v.note /\ w.id > v.id}

OlderVisits(v) == {w \in visitors : w.note = v.note /\ w.id < v.id}

\* Mutants of the next: from the tail; one visit later.
BeyondLimitFromTail(n) ==
    {v \in visitors : v.note = n /\ Cardinality(OlderVisits(v)) >= Limit - 1}
BeyondLimitLate(n) ==
    {v \in visitors : v.note = n /\ Cardinality(NewerVisits(v)) >= Limit}

\* count is 0 at the visit with Limit - 1 newer ones, and less from there on.
BeyondLimit(n) ==
    {v \in visitors : v.note = n /\ Cardinality(NewerVisits(v)) >= Limit - 1}

ListVisits(t) ==
    /\ At(t, "list")
    /\ view' = [view EXCEPT ![t].pc = "truncate",
                            ![t].doomed = BeyondLimit(view[t].note)]
    /\ UNCHANGED <<nobservers, visitors, serial, latest, relations, views>>

\* The newest of them first.
DestroyVisit(t) ==
    /\ At(t, "truncate")
    /\ \E v \in view[t].doomed :
         /\ \A w \in view[t].doomed : w.id <= v.id
         /\ visitors' = visitors \ {v}
         /\ view' = [view EXCEPT ![t].doomed = @ \ {v}]
    /\ UNCHANGED <<nobservers, serial, latest, relations, views>>

Remembered(t) ==
    /\ At(t, "truncate") /\ view[t].doomed = {}
    /\ view' = [view EXCEPT ![t].pc = "similar", ![t].user = NoUser]
    /\ UNCHANGED <<nobservers, visitors, serial, latest, relations, views>>

-----------------------------------------------------------------------------
(* find_similar, in the view.                                              *)

\* Mutant of the next: notes that are gone are not filtered out.
AllResults(n, hits) == hits \ {n}

\* Neither the target nor a nil for a note that is gone.
Results(n, hits) == (hits \intersect Notes) \ {n}

\* find_similar_raw: the image server answers with labels, or not at all.
FindRaw(t) ==
    /\ At(t, "similar")
    /\ \E hits \in SUBSET Labels :
         view' = [view EXCEPT ![t].pc = "memoize",
                              ![t].todo = Results(view[t].note, hits)]
    /\ UNCHANGED <<nobservers, visitors, serial, latest, relations, views>>

\* Mutant of the next: looks before the two are put in order.
IsRelatedAsGiven(m, n) == m < n /\ relations[<<m, n>>] > 0

IsRelated(m, n) == relations[Pair(m, n)] > 0

\* Whether there is such a row...
FindRelation(t, m) ==
    /\ At(t, "memoize") /\ m \in view[t].todo
    /\ view' = IF IsRelated(view[t].note, m) THEN [view EXCEPT ![t].todo = @ \ {m}]
               ELSE [view EXCEPT ![t].pc = "create", ![t].sim = m]
    /\ UNCHANGED <<nobservers, visitors, serial, latest, relations, views>>

\* ... and, if not, it.
CreateRelation(t) ==
    /\ At(t, "create")
    /\ relations' = [relations EXCEPT ![Pair(view[t].note, view[t].sim)] = @ + 1]
    /\ view' = [view EXCEPT ![t].pc = "memoize", ![t].sim = 0,
                            ![t].todo = @ \ {view[t].sim}]
    /\ UNCHANGED <<nobservers, visitors, serial, latest, views>>

Shown(t) ==
    /\ At(t, "memoize") /\ view[t].todo = {}
    /\ view' = [view EXCEPT ![t] = Resting]
    /\ UNCHANGED <<nobservers, visitors, serial, latest, relations, views>>

Next ==
    \E t \in Threads :
        \/ \E n \in Notes, user \in Users \union {NoUser} : Show(t, n, user)
        \/ SaveObservers(t) \/ ForgetVisits(t) \/ AppendVisit(t) \/ ListVisits(t)
        \/ DestroyVisit(t) \/ Remembered(t)
        \/ FindRaw(t)
        \/ \E m \in Notes : FindRelation(t, m)
        \/ CreateRelation(t) \/ Shown(t)

Spec == Init /\ [][Next]_vars

-----------------------------------------------------------------------------
(* Properties.                                                             *)

Remembering == {"forget", "append", "list", "truncate"}
Quiet(n) == \A t \in Threads : view[t].note = n => view[t].pc \notin Remembering
VisitsTo(n) == {v \in visitors : v.note = n}

\* However visits overlap, nobody being remembered leaves fewer rows than the
\* count of activity_remember: the last to list the rows sees all of them
\* (note.rb:268-287).
VisitorsAreBounded == \A n \in Notes : Quiet(n) => Cardinality(VisitsTo(n)) < Limit

\* "must truncate from the head" (note.rb:276): the last visitor stays, though
\* others truncate by a list they read before or after (note.rb:268-287).
LastVisitIsKept ==
    \A n \in Notes : Quiet(n) /\ latest[n] > 0 => \E v \in VisitsTo(n) : v.id = latest[n]

\* A user has one row for a note, and more only by visits at the same time: a
\* later visit removes them all (note.rb:268-273).
VisitsRepeatInOverlap ==
    \A n \in Notes, u \in Users :
        Cardinality({v \in VisitsTo(n) : v.user = u}) <= Cardinality(Threads)

\* Two notes have one relation row, and more only if they were created at the
\* same time: whoever looks later, from either of the two, finds it
\* (note.rb:855-864).
RelationsRepeatInOverlap ==
    \A p \in Pairs : relations[p] <= Cardinality(Threads)
=============================================================================

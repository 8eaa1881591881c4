------------------------- MODULE NotePictures_proofs -------------------------
(***************************************************************************)
(* Proofs about NotePictures, for every number of threads, notes and       *)
(* requests: the pictures of a note reach no other note unless two saves   *)
(* overlap, the picture of a search is never added to the image server,    *)
(* and a resync that nothing runs beside leaves there what it should.      *)
(*                                                                         *)
(* None holds by itself.  A picture is right under a label because it was  *)
(* right in the request, that because it was right in the bmp, that        *)
(* because it was right in scratch, and that because nobody else was at    *)
(* work on the files: the invariant follows a picture along its way.  For  *)
(* the resync it follows what is stored from the list to the last add.     *)
(***************************************************************************)
EXTENDS NotePictures, TLAPS

Public == {"searchable", "destroyed"}
Own(id) == own[id] \union {NoPicture}

\* A request works on a note from fetch to post, and adds only what is public.
JobIsSound(j) ==
    /\ j.pc \in Saving \union {"post"} => j.kind \in {"add", "search"} /\ j.id \in Ids
    /\ j.kind = "add" /\ j.id \in Ids => notes[j.id] \in Public
    /\ j.kind = "resync" /\ j.op = "add" => \A id \in j.todo : notes[id] \in Public
    /\ j.pc = "post" => j.op = (IF j.kind = "add" THEN "add" ELSE "match")
    /\ j.pc = "next" => j.kind = "resync"

\* What waits at the image server, whoever still waits for it.
RequestIsSound(r) ==
    /\ r.op \in {"add", "remove"} => r.id \in Ids
    /\ r.op = "add" => notes[r.id] \in Public
    /\ r.op = "add" /\ r.id \notin blurred => r.picture \in Own(r.id)

\* The places of a note's picture.
PlaceIsSound(id) ==
    /\ images[id] # NoPicture => notes[id] \in Public
    /\ id \notin blurred => {jpg[id], bmp[id], images[id]} \subseteq Own(id)

SoundJobs == {j \in Job : JobIsSound(j)}
SoundRequests == {r \in Request : RequestIsSound(r)}

JobsAreSound == \A t \in Requests : job[t] \in SoundJobs
RequestsAreSound == \A k \in 1..Len(inbox) : inbox[k] \in SoundRequests
PlacesAreSound == \A id \in Ids : PlaceIsSound(id)

IsSaving(j) == j.pc \in Saving
SavesAreAlone ==
    \A t, u \in Requests :
        IsSaving(job[t]) /\ job[t].alone /\ IsSaving(job[u]) => t = u

\* Where the picture is that a request is saving.
InHand(t) ==
    CASE job[t].pc \in {"fetch", "write"} -> job[t].content
      [] job[t].pc = "open" -> HandleRead(t)
      [] OTHER -> scratch

HandIsSound(t) ==
    IsSaving(job[t]) /\ job[t].alone =>
        /\ InHand(t) \in own[job[t].id]
        /\ job[t].pc = "write" => scratch = Partial(t)
HandsAreSound == \A t \in Requests : HandIsSound(t)

IInv ==
    /\ TypeOK
    /\ JobsAreSound
    /\ RequestsAreSound
    /\ PlacesAreSound
    /\ SavesAreAlone
    /\ HandsAreSound

\* What a step may do to notes and history.
Grows ==
    /\ \A id \in Ids : notes[id] \in Public => notes'[id] \in Public
    /\ \A id \in Ids : own[id] \subseteq own'[id]
    /\ blurred \subseteq blurred'

-----------------------------------------------------------------------------
(* Lemmas.                                                                 *)

\* The tables beside job.
TablesOK ==
    /\ notes \in [Ids -> {"none", "private", "searchable", "destroyed"}]
    /\ scratch \in Contents \union {NoPicture} \union {Partial(t) : t \in Requests}
    /\ scratch2 \in Contents \union {NoPicture}
    /\ jpg \in [Ids -> Contents \union {NoPicture}]
    /\ bmp \in [Ids -> Contents \union {NoPicture}]
    /\ images \in [Ids -> Contents \union {NoPicture}]
    /\ inbox \in Seq(Request) /\ Len(inbox) <= MaxInbox
    /\ started \in 0..MaxStarts
    /\ own \in [Ids -> SUBSET Sent]
    /\ blurred \subseteq Ids

LEMMA TypeParts == TypeOK => TablesOK /\ job \in [Requests -> Job]
BY DEF TypeOK, TablesOK

LEMMA NextTypeParts ==
    ASSUME TablesOK', job' \in [Requests -> Job]
    PROVE  TypeOK'
BY DEF TypeOK, TablesOK, Job, Steps, Saving, Finished, Ids, Contents

LEMMA SameTables ==
    ASSUME TablesOK, UNCHANGED <<notes, files, images, started, own, blurred>>,
           inbox' \in Seq(Request), Len(inbox') <= MaxInbox
    PROVE  TablesOK'
BY DEF TablesOK, Request, Ids, Contents, files, Partial

LEMMA SentIsPicture == \A p \in Sent : p \in Contents /\ p # NoPicture
BY SentAssumption DEF Contents

LEMMA SoundJob == \A j : j \in SoundJobs <=> j \in Job /\ JobIsSound(j)
BY DEF SoundJobs

LEMMA RestIsSound ==
    ASSUME NEW pc \in Finished
    PROVE  Rest(pc) \in SoundJobs /\ ~IsSaving(Rest(pc))
BY DEF SoundJobs, Rest, Job, JobIsSound, Steps, Saving, Finished, IsSaving

LEMMA SoundStays ==
    ASSUME TypeOK, Grows
    PROVE  SoundJobs \subseteq SoundJobs' /\ SoundRequests \subseteq SoundRequests'
<1>1. Job' = Job /\ Request' = Request /\ Ids' = Ids
  BY DEF Job, Request, Ids, Contents, Steps, Saving, Finished
<1>2. SoundJobs \subseteq SoundJobs'
  <2> SUFFICES ASSUME NEW j \in Job, JobIsSound(j) PROVE JobIsSound(j)'
    BY <1>1 DEF SoundJobs
  <2> QED
    BY <1>1 DEF Grows, JobIsSound, TypeOK, Job
<1>3. SoundRequests \subseteq SoundRequests'
  <2> SUFFICES ASSUME NEW r \in Request, RequestIsSound(r) PROVE RequestIsSound(r)'
    BY <1>1 DEF SoundRequests
  <2> QED
    BY <1>1 DEF Grows, RequestIsSound, Own, TypeOK
<1> QED
  BY <1>2, <1>3

LEMMA SameRequests ==
    ASSUME TypeOK, RequestsAreSound, Grows, inbox' = inbox
    PROVE  RequestsAreSound'
BY SoundStays DEF RequestsAreSound

LEMMA OneRequestMore ==
    ASSUME TypeOK, RequestsAreSound, Grows, NEW r \in SoundRequests',
           inbox' = Append(inbox, r), Len(inbox) < MaxInbox
    PROVE  RequestsAreSound' /\ inbox' \in Seq(Request) /\ Len(inbox') <= MaxInbox
<1>1. inbox \in Seq(Request) /\ MaxInbox \in Nat
  BY BoundsAssumption DEF TypeOK
<1>2. r \in Request
  BY DEF SoundRequests, Request, Ids, Contents
<1>3. inbox' \in Seq(Request) /\ Len(inbox') = Len(inbox) + 1
  BY <1>1, <1>2
<1>4. ASSUME NEW k \in 1..Len(inbox') PROVE inbox'[k] \in SoundRequests'
  <2>1. CASE k = Len(inbox) + 1
    BY <1>1, <1>2, <2>1
  <2>2. CASE k # Len(inbox) + 1
    <3>1. k \in 1..Len(inbox) /\ inbox'[k] = inbox[k]
      BY <1>1, <1>2, <1>3, <2>2
    <3> QED
      BY <3>1, SoundStays DEF RequestsAreSound
  <2> QED
    BY <2>1, <2>2
<1> QED
  BY <1>1, <1>3, <1>4 DEF RequestsAreSound

LEMMA OneRequestLess ==
    ASSUME TypeOK, RequestsAreSound, Grows, inbox # <<>>, inbox' = Tail(inbox)
    PROVE  RequestsAreSound' /\ inbox' \in Seq(Request) /\ Len(inbox') <= MaxInbox
<1>1. inbox \in Seq(Request) /\ Len(inbox) <= MaxInbox /\ MaxInbox \in Nat
  BY BoundsAssumption DEF TypeOK
<1>2. inbox' \in Seq(Request) /\ Len(inbox') = Len(inbox) - 1
  BY <1>1
<1>3. ASSUME NEW k \in 1..Len(inbox') PROVE inbox'[k] \in SoundRequests'
  <2>1. k + 1 \in 1..Len(inbox) /\ inbox'[k] = inbox[k + 1]
    BY <1>1, <1>2
  <2> QED
    BY <2>1, SoundStays DEF RequestsAreSound
<1> QED
  BY <1>1, <1>2, <1>3 DEF RequestsAreSound

LEMMA PlacesStaySound ==
    ASSUME TypeOK, PlacesAreSound, Grows, UNCHANGED <<jpg, bmp, images>>
    PROVE  PlacesAreSound'
BY DEF PlacesAreSound, PlaceIsSound, Grows, Own, TypeOK, Ids

LEMMA SavingHasNote ==
    ASSUME JobsAreSound, NEW t \in Requests, IsSaving(job[t])
    PROVE  job[t].id \in Ids
BY DEF JobsAreSound, SoundJobs, JobIsSound, IsSaving

\* A thread that is not saving afterwards, while the files stay as they are.
LEMMA OneThread ==
    ASSUME IInv, Grows, NEW t \in Requests, NEW j \in SoundJobs', ~IsSaving(j),
           job' = [job EXCEPT ![t] = j], UNCHANGED <<scratch, scratch2>>
    PROVE  /\ job' \in [Requests -> Job] /\ JobsAreSound'
           /\ SavesAreAlone' /\ HandsAreSound'
<1> USE DEF IInv
<1>1. job \in [Requests -> Job]
  BY DEF TypeOK
<1>2. job'[t] = j /\ \A u \in Requests \ {t} : job'[u] = job[u]
  BY <1>1
<1>3. j \in Job
  BY DEF SoundJobs, Job, Steps, Saving, Finished, Ids, Contents
<1>4. JobsAreSound'
  BY <1>2, SoundStays DEF JobsAreSound
<1>5. SavesAreAlone'
  BY <1>2 DEF SavesAreAlone, IsSaving
<1>6. HandsAreSound'
  <2> SUFFICES ASSUME NEW u \in Requests, IsSaving(job'[u])
               PROVE  HandIsSound(u)'
    BY DEF HandsAreSound, HandIsSound, IsSaving
  <2>1. u # t /\ job'[u] = job[u] /\ IsSaving(job[u])
    BY <1>2 DEF IsSaving
  <2>2. own[job[u].id] \subseteq own'[job[u].id]
    BY <2>1, SavingHasNote DEF Grows
  <2> QED
    BY <2>1, <2>2 DEF HandsAreSound, HandIsSound, InHand, HandleRead, IsSaving, Partial
<1> QED
  BY <1>1, <1>3, <1>4, <1>5, <1>6

-----------------------------------------------------------------------------
(* Steps of one thread that leave the files alone.                         *)

LEMMA ThreadOnly ==
    ASSUME IInv, NEW t \in Requests, NEW j \in SoundJobs, ~IsSaving(j),
           job' = [job EXCEPT ![t] = j],
           UNCHANGED <<started, notes, files, server, history>>
    PROVE  IInv'
<1> USE DEF IInv
<1>1. Grows /\ UNCHANGED <<jpg, bmp, images, scratch, scratch2, inbox, own, blurred>>
  BY DEF Grows, files, server, history
<1>2. j \in SoundJobs'
  BY <1>1, SoundStays
<1>3. job' \in [Requests -> Job] /\ JobsAreSound' /\ SavesAreAlone' /\ HandsAreSound'
  BY <1>1, <1>2, OneThread
<1>4. RequestsAreSound' /\ PlacesAreSound'
  BY <1>1, SameRequests, PlacesStaySound
<1>5. TypeOK'
  <2>1. TablesOK'
    BY <1>1, TypeParts, SameTables DEF TablesOK, server, history
  <2> QED
    BY <1>3, <2>1, NextTypeParts
<1> QED
  BY <1>3, <1>4, <1>5

LEMMA Ends ==
    ASSUME IInv, NEW t \in Requests, Raise(t) \/ ReceiveAnswer(t) \/ FinishResync(t)
    PROVE  IInv'
<1>1. PICK pc \in Finished : job' = [job EXCEPT ![t] = Rest(pc)]
  BY DEF Raise, ReceiveAnswer, FinishResync, Fails, Succeeds, Finished
<1>2. UNCHANGED <<started, notes, files, server, history>>
  BY DEF Raise, ReceiveAnswer, FinishResync
<1> QED
  BY <1>1, <1>2, RestIsSound, ThreadOnly

LEMMA NotesAnswer ==
    ASSUME IInv, NEW t \in Requests, NoteAnswer(t)
    PROVE  IInv'
<1> DEFINE i == job[t]
           last == IF i.op = "list" THEN {} ELSE Lowest(i.todo)
           j == [i EXCEPT !.pc = "next", !.answer = "none",
                          !.op = IF @ = "list" THEN "remove" ELSE @,
                          !.todo = @ \ last,
                          !.refused = IF i.op = "add" /\ i.answer = "refused"
                                      THEN @ \union last ELSE @]
<1>1. i \in Job /\ JobIsSound(i)
  BY DEF IInv, JobsAreSound, SoundJobs
<1>2. i.pc = "answered" /\ i.kind = "resync"
  BY DEF NoteAnswer
<1>3. job' = [job EXCEPT ![t] = j]
  BY DEF NoteAnswer, IInv, TypeOK
<1>4. last \subseteq i.todo
  BY DEF Lowest
<1>5. j \in SoundJobs /\ ~IsSaving(j)
  <2> HIDE DEF last
  <2> QED
    BY <1>1, <1>2, <1>4 DEF SoundJobs, Job, JobIsSound, IsSaving, Saving, Steps
<1> QED
  BY <1>3, <1>5, ThreadOnly DEF NoteAnswer

LEMMA ReadsNotes ==
    ASSUME IInv, NEW t \in Requests, ReadNotes(t)
    PROVE  IInv'
<1> DEFINE j == [job[t] EXCEPT !.op = "add", !.todo = NotesToAdd]
<1>1. job[t] \in Job /\ JobIsSound(job[t]) /\ job[t].pc = "next"
  BY DEF IInv, JobsAreSound, SoundJobs, ReadNotes
<1>2. \A id \in NotesToAdd : id \in Ids /\ notes[id] \in Public
  BY DEF NotesToAdd, Searchable, Public
<1>3. j \in SoundJobs /\ ~IsSaving(j)
  BY <1>1, <1>2 DEF SoundJobs, Job, JobIsSound, IsSaving, Saving, Steps
<1>4. job' = [job EXCEPT ![t] = j]
  BY DEF ReadNotes, IInv, TypeOK
<1> QED
  BY <1>3, <1>4, ThreadOnly DEF ReadNotes

-----------------------------------------------------------------------------
(* Requests to the image server.                                           *)

LEMMA Posts ==
    ASSUME IInv, NEW t \in Requests, NEW op \in {"add", "match", "list", "remove"},
           NEW id \in Ids \union {0},
           Post(t, op, id), Goto(t, "wait"),
           op # "list" => id \in Ids,
           op = "add" => notes[id] \in Public,
           UNCHANGED <<started, notes, files, images, history>>
    PROVE  IInv'
<1> USE DEF IInv
<1> DEFINE j == [job[t] EXCEPT !.pc = "wait"]
           r == [from |-> t, op |-> op, id |-> id,
                 picture |-> IF op \in {"add", "match"} THEN bmp[id] ELSE NoPicture]
<1>1. Grows /\ UNCHANGED <<jpg, bmp, images, scratch, scratch2, own, blurred>>
  BY DEF Grows, files, history
<1>2. j \in SoundJobs /\ ~IsSaving(j)
  BY DEF JobsAreSound, SoundJobs, Job, JobIsSound, IsSaving, Saving, Steps
<1>3. j \in SoundJobs'
  BY <1>1, <1>2, SoundStays
<1>4. job' = [job EXCEPT ![t] = j]
  BY DEF Goto, TypeOK
<1>5. job' \in [Requests -> Job] /\ JobsAreSound' /\ SavesAreAlone' /\ HandsAreSound'
  BY <1>1, <1>2, <1>3, <1>4, OneThread
<1>6. r \in SoundRequests
  <2>1. r \in Request
    BY DEF Request, TypeOK
  <2>2. RequestIsSound(r)
    BY DEF RequestIsSound, PlacesAreSound, PlaceIsSound, Own
  <2> QED
    BY <2>1, <2>2 DEF SoundRequests
<1>7. r \in SoundRequests'
  BY <1>1, <1>6, SoundStays
<1>8. inbox' = Append(inbox, r) /\ Len(inbox) < MaxInbox
  BY DEF Post
<1>9. RequestsAreSound' /\ inbox' \in Seq(Request) /\ Len(inbox') <= MaxInbox
  <2> HIDE DEF r
  <2> QED
    BY <1>1, <1>7, <1>8, OneRequestMore
<1>10. PlacesAreSound'
  BY <1>1, PlacesStaySound
<1>11. TypeOK'
  <2>1. TablesOK'
    BY <1>1, <1>9, TypeParts, SameTables DEF history
  <2> QED
    BY <1>5, <2>1, NextTypeParts
<1> QED
  BY <1>5, <1>9, <1>10, <1>11

LEMMA PostsPicture ==
    ASSUME IInv, NEW t \in Requests, PostPicture(t)
    PROVE  IInv'
<1>1. job[t] \in Job /\ JobIsSound(job[t]) /\ job[t].pc = "post"
  BY DEF IInv, JobsAreSound, SoundJobs, PostPicture
<1>2. job[t].id \in Ids /\ (job[t].op = "add" => notes[job[t].id] \in Public)
  BY <1>1 DEF JobIsSound
<1>3. job[t].op \in {"add", "match"}
  BY <1>1 DEF JobIsSound
<1> QED
  BY <1>2, <1>3, Posts DEF PostPicture

LEMMA AsksForList ==
    ASSUME IInv, NEW t \in Requests, AskForList(t)
    PROVE  IInv'
BY Posts DEF AskForList

LEMMA PostsNext ==
    ASSUME IInv, NEW t \in Requests, PostNext(t)
    PROVE  IInv'
<1>1. PICK id \in Lowest(job[t].todo) : Post(t, job[t].op, id)
  BY DEF PostNext
<1>2. job[t] \in Job /\ JobIsSound(job[t]) /\ job[t].pc = "next"
  BY DEF IInv, JobsAreSound, SoundJobs, PostNext
<1>3. id \in Ids /\ id \in job[t].todo
  BY <1>2 DEF Lowest, Job
<1>4. job[t].op = "add" => notes[id] \in Public
  BY <1>2, <1>3 DEF JobIsSound
<1> QED
  BY <1>1, <1>3, <1>4, Posts DEF PostNext

LEMMA GivesUp ==
    ASSUME IInv, NEW t \in Requests, GiveUp(t)
    PROVE  IInv'
<1> USE DEF IInv
<1>1. Grows /\ UNCHANGED <<started, notes, jpg, bmp, images, scratch, scratch2, own, blurred>>
  BY DEF Grows, GiveUp, files, history
<1>2. Rest("failed") \in SoundJobs' /\ ~IsSaving(Rest("failed"))
  BY <1>1, RestIsSound, SoundStays DEF Finished
<1>3. job' \in [Requests -> Job] /\ JobsAreSound' /\ SavesAreAlone' /\ HandsAreSound'
  BY <1>1, <1>2, OneThread DEF GiveUp, Fails
<1>4. inbox \in Seq(Request) /\ Len(inbox) \in Nat
  BY DEF TypeOK
<1>5. ASSUME NEW k \in 1..Len(inbox) PROVE inbox'[k] \in SoundRequests
  <2>1. inbox[k] \in Request /\ RequestIsSound(inbox[k])
    BY DEF RequestsAreSound, SoundRequests
  <2>2. inbox'[k] = IF inbox[k].from = t THEN [inbox[k] EXCEPT !.from = Nobody]
                    ELSE inbox[k]
    BY DEF GiveUp
  <2>3. inbox'[k] \in Request /\ RequestIsSound(inbox'[k])
    BY <2>1, <2>2 DEF Request, RequestIsSound
  <2> QED
    BY <2>3 DEF SoundRequests
<1>6. inbox' \in [1..Len(inbox) -> Request]
  BY <1>5 DEF GiveUp, SoundRequests
<1>7. inbox' \in Seq(Request) /\ Len(inbox') = Len(inbox)
  BY <1>4, <1>6
<1>8. RequestsAreSound'
  BY <1>1, <1>5, <1>7, SoundStays DEF RequestsAreSound
<1>9. TypeOK'
  <2>1. TablesOK'
    BY <1>1, <1>7, TypeParts, SameTables DEF GiveUp, TypeOK
  <2> QED
    BY <1>3, <2>1, NextTypeParts
<1>10. PlacesAreSound'
  BY <1>1, PlacesStaySound
<1> QED
  BY <1>3, <1>8, <1>9, <1>10

-----------------------------------------------------------------------------
(* The image server.                                                       *)

LEMMA SameThreads ==
    ASSUME IInv, Grows, UNCHANGED <<job, scratch, scratch2>>
    PROVE  /\ job' \in [Requests -> Job] /\ JobsAreSound'
           /\ SavesAreAlone' /\ HandsAreSound'
<1> USE DEF IInv
<1>1. job' \in [Requests -> Job]
  BY DEF TypeOK
<1>2. JobsAreSound'
  BY SoundStays DEF JobsAreSound
<1>3. SavesAreAlone'
  BY DEF SavesAreAlone, IsSaving
<1>4. HandsAreSound'
  <2> SUFFICES ASSUME NEW u \in Requests, IsSaving(job'[u])
               PROVE  HandIsSound(u)'
    BY DEF HandsAreSound, HandIsSound, IsSaving
  <2>1. own[job[u].id] \subseteq own'[job[u].id]
    BY SavingHasNote DEF Grows, IsSaving
  <2> QED
    BY <2>1 DEF HandsAreSound, HandIsSound, InHand, HandleRead, IsSaving, Partial
<1> QED
  BY <1>1, <1>2, <1>3, <1>4

LEMMA LosesRequest ==
    ASSUME IInv, LoseRequest
    PROVE  IInv'
<1> USE DEF IInv
<1>1. Grows /\ UNCHANGED <<started, notes, jpg, bmp, images, scratch, scratch2, own, blurred>>
  BY DEF Grows, LoseRequest, files, history
<1>2. job' \in [Requests -> Job] /\ JobsAreSound' /\ SavesAreAlone' /\ HandsAreSound'
  BY <1>1, SameThreads DEF LoseRequest
<1>3. RequestsAreSound' /\ inbox' \in Seq(Request) /\ Len(inbox') <= MaxInbox
  BY <1>1, OneRequestLess DEF LoseRequest
<1>4. TypeOK'
  <2>1. TablesOK'
    BY <1>1, <1>3, TypeParts, SameTables DEF LoseRequest
  <2> QED
    BY <1>2, <2>1, NextTypeParts
<1>5. PlacesAreSound'
  BY <1>1, PlacesStaySound
<1> QED
  BY <1>2, <1>3, <1>4, <1>5

LEMMA OutcomeIsSound ==
    ASSUME IInv, NEW r \in SoundRequests, NEW outcome \in Outcomes(r)
    PROVE  /\ outcome[1] \in {"ok", "refused"}
           /\ r.op = "add" => outcome[2] \in {images[r.id], r.picture}
           /\ r.op = "remove" => outcome[2] = NoPicture
<1>1. r \in Request
  BY DEF SoundRequests
<1>2. r.op \in {"add", "match", "list", "remove"}
  BY <1>1 DEF Request
<1> QED
  BY <1>2 DEF Outcomes

LEMMA Serves ==
    ASSUME IInv, Serve
    PROVE  IInv'
<1> USE DEF IInv
<1> DEFINE r == Head(inbox)
<1>1. Grows /\ UNCHANGED <<started, notes, files, jpg, bmp, scratch, scratch2, own, blurred>>
  BY DEF Grows, Serve, files, history
<1>2. PICK outcome \in Outcomes(r) :
        /\ images' = IF r.op \in {"add", "remove"}
                     THEN [images EXCEPT ![r.id] = outcome[2]] ELSE images
        /\ job' = IF r.from = Nobody THEN job
                  ELSE [job EXCEPT ![r.from].pc = "answered",
                          ![r.from].answer = outcome[1],
                          ![r.from].todo = IF r.op = "list" THEN Stored ELSE @]
  BY DEF Serve
<1>3. r \in SoundRequests
  <2>1. inbox \in Seq(Request) /\ inbox # <<>>
    BY DEF Serve, TypeOK
  <2>2. 1 \in 1..Len(inbox) /\ r = inbox[1]
    BY <2>1
  <2> QED
    BY <2>2 DEF RequestsAreSound
<1>4. r \in Request /\ RequestIsSound(r)
  BY <1>3 DEF SoundRequests
<1>5. RequestsAreSound' /\ inbox' \in Seq(Request) /\ Len(inbox') <= MaxInbox
  BY <1>1, OneRequestLess DEF Serve
<1>6. /\ outcome[1] \in {"ok", "refused"}
      /\ r.op = "add" => outcome[2] \in {images[r.id], r.picture}
      /\ r.op = "remove" => outcome[2] = NoPicture
  <2> HIDE DEF r
  <2> QED
    BY <1>2, <1>3, OutcomeIsSound
<1> HIDE DEF r
<1>7. job' \in [Requests -> Job] /\ JobsAreSound' /\ SavesAreAlone' /\ HandsAreSound'
  <2>1. CASE r.from = Nobody
    BY <1>1, <1>2, <2>1, SameThreads
  <2>2. CASE r.from # Nobody
    <3> DEFINE i == job[r.from]
               todo == IF r.op = "list" THEN Stored ELSE i.todo
               j == [i EXCEPT !.pc = "answered", !.answer = outcome[1],
                              !.todo = todo]
    <3>1. r.from \in Requests
      BY <1>4, <2>2 DEF Request
    <3>2. i \in Job /\ JobIsSound(i)
      BY <3>1 DEF JobsAreSound, SoundJobs
    <3>3. job' = [job EXCEPT ![r.from] = j]
      BY <1>2, <2>2, <3>1 DEF TypeOK
    <3>4. \A id \in Stored : id \in Ids /\ notes[id] \in Public
      BY DEF Stored, PlacesAreSound, PlaceIsSound
    <3>5. j \in SoundJobs /\ ~IsSaving(j)
      <4>1. \A id \in todo : id \in Ids
        BY <3>2, <3>4 DEF Job
      <4>2. i.kind = "resync" /\ i.op = "add" => \A id \in todo : notes[id] \in Public
        BY <3>2, <3>4 DEF JobIsSound
      <4> HIDE DEF todo
      <4>3. j \in Job
        BY <1>6, <3>2, <4>1 DEF Job, Steps
      <4>4. j.pc = "answered" /\ j.kind = i.kind /\ j.op = i.op /\ j.id = i.id
            /\ j.todo = todo
        BY <3>2 DEF Job
      <4>5. JobIsSound(j)
        BY <3>2, <4>2, <4>4 DEF JobIsSound, Saving
      <4> QED
        BY <4>3, <4>4, <4>5 DEF SoundJobs, IsSaving, Saving
    <3>6. j \in SoundJobs'
      BY <1>1, <3>5, SoundStays
    <3> HIDE DEF j
    <3> QED
      BY <1>1, <3>1, <3>3, <3>5, <3>6, OneThread
  <2> QED
    BY <2>1, <2>2
<1>8. images' \in [Ids -> Contents \union {NoPicture}]
  BY <1>2, <1>4, <1>6 DEF TypeOK, Request, RequestIsSound
<1>9. TypeOK'
  <2>1. TablesOK'
    BY <1>1, <1>5, <1>8, TypeParts DEF TablesOK, Request, Ids, Contents, Partial
  <2> QED
    BY <1>7, <2>1, NextTypeParts
<1>10. PlacesAreSound'
  <2> SUFFICES ASSUME NEW id \in Ids PROVE PlaceIsSound(id)'
    BY DEF PlacesAreSound, Ids
  <2>1. PlaceIsSound(id)
    BY DEF PlacesAreSound
  <2>2. CASE images'[id] = images[id]
    BY <1>1, <2>1, <2>2 DEF PlaceIsSound, Own
  <2>3. CASE images'[id] # images[id]
    <3>1. id = r.id /\ r.op \in {"add", "remove"} /\ images'[id] = outcome[2]
      BY <1>2, <2>3 DEF TypeOK
    <3>2. r.op = "add" => images'[id] = r.picture
      BY <1>6, <2>3, <3>1
    <3>3. r.op = "remove" => images'[id] = NoPicture
      BY <1>6, <3>1
    <3> QED
      BY <1>1, <1>4, <2>1, <3>1, <3>2, <3>3 DEF PlaceIsSound, Own, RequestIsSound
  <2> QED
    BY <2>2, <2>3
<1> QED
  BY <1>5, <1>7, <1>9, <1>10

-----------------------------------------------------------------------------
(* Requests that begin, which disturb the others.                          *)

LEMMA DisturbedIsSound ==
    ASSUME NEW j \in SoundJobs
    PROVE  /\ Disturbed(j) \in SoundJobs
           /\ IsSaving(Disturbed(j)) => IsSaving(j) /\ ~Disturbed(j).alone
<1>1. j \in Job /\ JobIsSound(j)
  BY DEF SoundJobs
<1>2. CASE Disturbed(j) = j
  BY <1>1, <1>2 DEF Disturbed, IsSaving, Job
<1>3. CASE Disturbed(j) = [j EXCEPT !.alone = FALSE]
  BY <1>1, <1>3 DEF SoundJobs, Job, JobIsSound, IsSaving
<1> QED
  BY <1>2, <1>3 DEF Disturbed

\* t begins with j, which is not saving, or alone only if nobody else saves.
LEMMA Begins ==
    ASSUME IInv, Grows, NEW t \in Requests, NEW j \in SoundJobs', Begin(t, j),
           IsSaving(j) /\ j.alone => ~FilesAreMixed(t) /\ HandIsSound(t)',
           UNCHANGED <<files, server, blurred>>,
           notes' \in [Ids -> {"none", "private", "searchable", "destroyed"}],
           own' \in [Ids -> SUBSET Sent]
    PROVE  IInv'
<1> USE DEF IInv
<1>1. UNCHANGED <<scratch, scratch2, jpg, bmp, inbox, images>>
  BY DEF files, server
<1>2. job' = [u \in Requests |-> IF u = t THEN j ELSE Disturbed(job[u])]
  BY DEF Begin
<1>3. started' \in 0..MaxStarts
  BY BoundsAssumption DEF Begin, Counted, TypeOK
<1>4. \A u \in Requests : job[u] \in SoundJobs
  BY DEF JobsAreSound
<1>5. \A u \in Requests : Disturbed(job[u]) \in SoundJobs'
  BY <1>4, DisturbedIsSound, SoundStays
<1>6. JobsAreSound'
  BY <1>2, <1>5 DEF JobsAreSound
<1>7. job' \in [Requests -> Job]
  <2>1. \A i \in SoundJobs' : i \in Job
    BY DEF SoundJobs, Job, Steps, Saving, Finished, Ids, Contents
  <2> QED
    BY <1>2, <1>5, <2>1
<1>8. ASSUME NEW u \in Requests, IsSaving(job'[u]), job'[u].alone
      PROVE  u = t /\ IsSaving(j) /\ j.alone /\ ~FilesAreMixed(t)
  <2>1. u = t
    BY <1>2, <1>4, <1>8, DisturbedIsSound
  <2> QED
    BY <1>2, <1>8, <2>1
<1>9. ASSUME NEW u \in Requests \ {t} PROVE ~(IsSaving(job'[u]) /\ ~FilesAreMixed(t))
  BY <1>2, <1>4, DisturbedIsSound DEF FilesAreMixed, IsSaving
<1>10. SavesAreAlone'
  <2> SUFFICES ASSUME NEW u \in Requests, NEW v \in Requests, IsSaving(job'[u]),
                      job'[u].alone, IsSaving(job'[v])
               PROVE  u = v
    BY DEF SavesAreAlone, IsSaving
  <2> QED
    BY <1>8, <1>9
<1>11. HandsAreSound'
  <2> SUFFICES ASSUME NEW u \in Requests, IsSaving(job'[u]), job'[u].alone
               PROVE  HandIsSound(u)'
    BY DEF HandsAreSound, HandIsSound, IsSaving
  <2> QED
    BY <1>8
<1>12. RequestsAreSound' /\ PlacesAreSound'
  BY <1>1, SameRequests, PlacesStaySound
<1>13. TypeOK'
  <2>1. TablesOK'
    BY <1>1, <1>3, TypeParts DEF TablesOK, Request, Ids, Contents, Partial
  <2> QED
    BY <1>7, <2>1, NextTypeParts
<1> QED
  BY <1>6, <1>10, <1>11, <1>12, <1>13

\* A change of a row, beside which no thread begins.
LEMMA Disturbs ==
    ASSUME IInv, Grows, Disturb, UNCHANGED <<files, server, history>>,
           notes' \in [Ids -> {"none", "private", "searchable", "destroyed"}]
    PROVE  IInv'
<1> USE DEF IInv
<1>1. UNCHANGED <<scratch, scratch2, jpg, bmp, inbox, images, own, blurred>>
  BY DEF files, server, history
<1>2. job' = [u \in Requests |-> Disturbed(job[u])]
  BY DEF Disturb
<1>3. started' \in 0..MaxStarts
  BY BoundsAssumption DEF Disturb, Counted, TypeOK
<1>4. \A u \in Requests : job[u] \in SoundJobs
  BY DEF JobsAreSound
<1>5. \A u \in Requests : Disturbed(job[u]) \in SoundJobs'
  BY <1>4, DisturbedIsSound, SoundStays
<1>6. JobsAreSound'
  BY <1>2, <1>5 DEF JobsAreSound
<1>7. job' \in [Requests -> Job]
  <2>1. \A i \in SoundJobs' : i \in Job
    BY DEF SoundJobs, Job, Steps, Saving, Finished, Ids, Contents
  <2> QED
    BY <1>2, <1>5, <2>1
<1>8. \A u \in Requests : ~(IsSaving(job'[u]) /\ job'[u].alone)
  BY <1>2, <1>4, DisturbedIsSound
<1>9. SavesAreAlone' /\ HandsAreSound'
  BY <1>8 DEF SavesAreAlone, HandsAreSound, HandIsSound, IsSaving
<1>10. RequestsAreSound' /\ PlacesAreSound'
  BY <1>1, SameRequests, PlacesStaySound
<1>11. TypeOK'
  <2>1. TablesOK'
    BY <1>1, <1>3, TypeParts DEF TablesOK, Request, Ids, Contents, Partial
  <2> QED
    BY <1>7, <2>1, NextTypeParts
<1> QED
  BY <1>6, <1>9, <1>10, <1>11

LEMMA RowsChange ==
    ASSUME IInv, NEW id \in Ids, AddedWithoutFile(id) \/ Destroy(id)
    PROVE  IInv'
<1>1. /\ notes' \in [Ids -> {"none", "private", "searchable", "destroyed"}]
      /\ Grows
  BY DEF AddedWithoutFile, Destroy, Grows, Public, history, IInv, TypeOK
<1> QED
  BY <1>1, Disturbs DEF AddedWithoutFile, Destroy

LEMMA StartsResync ==
    ASSUME IInv, NEW t \in Requests, StartResync(t)
    PROVE  IInv'
<1> DEFINE j == [Rest("next") EXCEPT !.kind = "resync", !.op = "list",
                   !.alone = inbox = <<>> /\ \A u \in Requests : Ready(u)]
<1>1. j \in SoundJobs /\ ~IsSaving(j)
  BY DEF SoundJobs, Rest, Job, JobIsSound, Steps, Saving, Finished, IsSaving
<1>2. Grows
  BY DEF StartResync, Grows, history
<1>3. j \in SoundJobs'
  BY <1>1, <1>2, SoundStays DEF IInv
<1> HIDE DEF j
<1>4. /\ notes' \in [Ids -> {"none", "private", "searchable", "destroyed"}]
      /\ own' \in [Ids -> SUBSET Sent]
  BY DEF StartResync, history, IInv, TypeOK
<1>5. Begin(t, j)
  BY DEF StartResync, j
<1> QED
  BY <1>1, <1>2, <1>3, <1>4, <1>5, Begins DEF StartResync, history

LEMMA StartsSave ==
    ASSUME IInv, NEW t \in Requests, NEW kind \in {"add", "search"}, NEW id \in Ids,
           NEW picture \in Sent, NEW link \in BOOLEAN,
           StartSave(t, kind, id, picture, link)
    PROVE  IInv'
<1> USE DEF IInv
<1> DEFINE begun == [Rest(IF link THEN "fetch" ELSE "open") EXCEPT
                       !.kind = kind, !.id = id, !.content = picture,
                       !.alone = ~FilesAreMixed(t)]
<1>1. /\ notes' \in [Ids -> {"none", "private", "searchable", "destroyed"}]
      /\ own' \in [Ids -> SUBSET Sent]
      /\ Grows
      /\ picture \in own'[id]
      /\ kind = "add" => notes'[id] \in Public
  BY DEF StartSave, NextId, Grows, Public, TypeOK
<1>2. picture \in Contents /\ picture # NoPicture
  BY SentIsPicture
<1>3. PICK j \in Job : j = begun
  <2>1. (IF link THEN "fetch" ELSE "open") \in Steps
    BY DEF Steps, Saving
  <2>2. begun \in Job
    BY <1>2, <2>1 DEF Rest, Job, FilesAreMixed
  <2> QED
    BY <2>2
<1>4. /\ j.pc \in {"fetch", "open"} /\ j.kind = kind /\ j.id = id /\ j.op = "none"
      /\ j.content = picture /\ j.alone = ~FilesAreMixed(t)
  BY <1>3 DEF Rest
<1>5. Begin(t, j)
  BY <1>3 DEF StartSave
<1> HIDE DEF begun
<1>6. j \in SoundJobs'
  <2>1. JobIsSound(j)'
    BY <1>1, <1>4 DEF JobIsSound, Saving, Ids
  <2> QED
    BY <1>3, <2>1 DEF SoundJobs, Job, Steps, Saving, Finished, Ids, Contents
<1>7. HandIsSound(t)'
  <2>1. job'[t] = j
    BY <1>5 DEF Begin
  <2> QED
    BY <1>1, <1>2, <1>4, <2>1 DEF HandIsSound, InHand, HandleRead
<1> QED
  BY <1>1, <1>4, <1>5, <1>6, <1>7, Begins DEF StartSave

-----------------------------------------------------------------------------
(* Steps of save_image, which change the files.                            *)

\* A thread that stays inside save_image.
LEMMA OneSaver ==
    ASSUME IInv, Grows, NEW t \in Requests, NEW j \in SoundJobs',
           IsSaving(job[t]), IsSaving(j), j.alone = job[t].alone,
           job' = [job EXCEPT ![t] = j], HandIsSound(t)'
    PROVE  /\ job' \in [Requests -> Job] /\ JobsAreSound'
           /\ SavesAreAlone' /\ HandsAreSound'
<1> USE DEF IInv
<1>1. job \in [Requests -> Job]
  BY DEF TypeOK
<1>2. job'[t] = j /\ \A u \in Requests \ {t} : job'[u] = job[u]
  BY <1>1
<1>3. j \in Job
  BY DEF SoundJobs, Job, Steps, Saving, Finished, Ids, Contents
<1>4. JobsAreSound'
  BY <1>2, SoundStays DEF JobsAreSound
<1>5. SavesAreAlone'
  BY <1>2 DEF SavesAreAlone, IsSaving
<1>6. HandsAreSound'
  <2> SUFFICES ASSUME NEW u \in Requests, IsSaving(job'[u]), job'[u].alone
               PROVE  HandIsSound(u)'
    BY DEF HandsAreSound, HandIsSound, IsSaving
  <2>1. u = t
    BY <1>2 DEF SavesAreAlone, IsSaving
  <2> QED
    BY <2>1
<1> QED
  BY <1>1, <1>3, <1>4, <1>5, <1>6

\* The picture changes hands.
LEMMA Moves ==
    ASSUME IInv, NEW t \in Requests, FetchLink(t) \/ OpenScratch(t) \/ CloseScratch(t)
    PROVE  IInv'
<1> USE DEF IInv
<1>1. job[t] \in Job /\ JobIsSound(job[t]) /\ job[t].pc \in {"fetch", "open", "write"}
  BY DEF JobsAreSound, SoundJobs, FetchLink, OpenScratch, CloseScratch
<1>2. /\ UNCHANGED <<started, notes, jpg, bmp, inbox, images, own, blurred>>
      /\ Grows
  BY DEF FetchLink, OpenScratch, CloseScratch, server, history, Grows
<1>3. HandleRead(t) \in Contents \union {NoPicture}
  BY <1>1 DEF HandleRead, TypeOK, Job
<1>4. PICK pc \in {"open", "write", "jpg"}, content \in Contents \union {NoPicture} :
        job' = [job EXCEPT ![t].pc = pc, ![t].content = content]
  BY <1>3 DEF FetchLink, OpenScratch, CloseScratch
<1>5. PICK j \in Job : j = [job[t] EXCEPT !.pc = pc, !.content = content]
  BY <1>1 DEF Job, Steps, Saving
<1>6. /\ j.pc = pc /\ j.content = content /\ j.kind = job[t].kind /\ j.op = job[t].op
      /\ j.id = job[t].id /\ j.todo = job[t].todo /\ j.alone = job[t].alone
  BY <1>1, <1>5 DEF Job
<1>7. job' = [job EXCEPT ![t] = j] /\ job'[t] = j
  BY <1>4, <1>5 DEF TypeOK
<1>8. j \in SoundJobs'
  <2>1. JobIsSound(j)
    BY <1>1, <1>6 DEF JobIsSound, Saving
  <2>2. j \in SoundJobs
    BY <2>1 DEF SoundJobs
  <2> QED
    BY <1>2, <2>2, SoundStays
<1>9. IsSaving(job[t]) /\ IsSaving(j)
  BY <1>1, <1>6 DEF IsSaving, Saving
<1>10. HandIsSound(t)'
  <2> SUFFICES ASSUME job[t].alone
               PROVE  /\ InHand(t)' \in own[job[t].id]
                      /\ pc = "write" => scratch' = Partial(t)
    BY <1>2, <1>6, <1>7 DEF HandIsSound, Partial
  <2>1. /\ InHand(t) \in own[job[t].id]
        /\ job[t].pc = "write" => scratch = Partial(t)
    BY <1>9 DEF HandsAreSound, HandIsSound
  <2>2. job'[t].pc = pc /\ job'[t].content = content
    BY <1>6, <1>7
  <2>3. CASE FetchLink(t)
    <3>1. job[t].pc = "fetch" /\ scratch2' = job[t].content
      BY <2>3 DEF FetchLink
    <3>2. job'[t].pc = "open" /\ job'[t].content = NoPicture
      BY <2>3 DEF FetchLink, TypeOK, Job
    <3> QED
      BY <2>1, <2>2, <3>1, <3>2 DEF InHand, HandleRead
  <2>4. CASE OpenScratch(t)
    <3>1. job[t].pc = "open" /\ scratch' = Partial(t)
      BY <2>4 DEF OpenScratch
    <3>2. job'[t].pc = "write" /\ job'[t].content = HandleRead(t)
      BY <2>4 DEF OpenScratch, TypeOK, Job
    <3> QED
      BY <2>1, <2>2, <3>1, <3>2 DEF InHand
  <2>5. CASE CloseScratch(t)
    <3>1. job[t].pc = "write" /\ scratch' = job[t].content
      BY <2>1, <2>5 DEF CloseScratch
    <3>2. job'[t].pc = "jpg"
      BY <2>5 DEF CloseScratch, TypeOK, Job
    <3> QED
      BY <2>1, <2>2, <3>1, <3>2 DEF InHand
  <2> QED
    BY <2>3, <2>4, <2>5
<1>11. job' \in [Requests -> Job] /\ JobsAreSound' /\ SavesAreAlone' /\ HandsAreSound'
  BY <1>2, <1>6, <1>7, <1>8, <1>9, <1>10, OneSaver
<1>12. /\ scratch' \in Contents \union {NoPicture} \union {Partial(u) : u \in Requests}
       /\ scratch2' \in Contents \union {NoPicture}
  BY <1>1 DEF FetchLink, OpenScratch, CloseScratch, TypeOK, Job, Contents
<1>13. TypeOK'
  <2>1. TablesOK'
    BY <1>2, <1>12, TypeParts DEF TablesOK, Request, Ids, Contents, Partial
  <2> QED
    BY <1>11, <2>1, NextTypeParts
<1>14. RequestsAreSound' /\ PlacesAreSound'
  BY <1>2, SameRequests, PlacesStaySound
<1> QED
  BY <1>11, <1>13, <1>14

-----------------------------------------------------------------------------
(* convert.                                                                *)

\* What convert leaves in a file of the note, where it was right before.
LEMMA ConvertedIsSound ==
    ASSUME IInv, NEW t \in Requests, IsSaving(job[t]), job[t].pc \in {"jpg", "bmp"},
           NEW old \in Contents \union {NoPicture}, NEW picture \in Converted(old)
    PROVE  /\ picture \in Contents \union {NoPicture}
           /\ job[t].alone /\ old \in Own(job[t].id) => picture \in Own(job[t].id)
<1>1. picture \in {scratch, old, Mixed} /\ (picture = scratch => scratch \in Contents \/ picture = old \/ picture = Mixed)
  BY DEF Converted, Contents
<1>2. picture \in Contents \union {NoPicture}
  BY <1>1 DEF Contents
<1>3. CASE job[t].alone
  <2>1. scratch \in own[job[t].id]
    BY <1>3 DEF IInv, HandsAreSound, HandIsSound, InHand
  <2>2. scratch \in Sent
    BY <2>1, SavingHasNote DEF IInv, TypeOK
  <2>3. scratch \in Pictures \/ scratch = NotAPicture
    BY <2>2, SentAssumption
  <2>4. picture \in {scratch, old}
    BY <2>3 DEF Converted
  <2> QED
    BY <1>2, <2>1, <2>4 DEF Own
<1> QED
  BY <1>2, <1>3

\* A note's files change, and blurred with them.
LEMMA FilesConverted ==
    ASSUME IInv, NEW t \in Requests, job[t].pc \in {"jpg", "bmp"}, Blur(t),
           UNCHANGED <<started, notes, scratch, scratch2, inbox, images, own>>,
           NEW p \in Converted(jpg[job[t].id]), NEW q \in Converted(bmp[job[t].id]),
           \/ jpg' = [jpg EXCEPT ![job[t].id] = p] /\ bmp' = bmp
           \/ bmp' = [bmp EXCEPT ![job[t].id] = q] /\ jpg' = jpg
    PROVE  Grows /\ TablesOK' /\ PlacesAreSound' /\ RequestsAreSound'
<1> USE DEF IInv
<1>1. IsSaving(job[t])
  BY DEF IsSaving, Saving
<1>2. job[t].id \in Ids
  BY <1>1, SavingHasNote
<1>3. Grows /\ blurred' \subseteq Ids
  BY <1>2 DEF Grows, Blur, TypeOK
<1>4. jpg[job[t].id] \in Contents \union {NoPicture}
      /\ bmp[job[t].id] \in Contents \union {NoPicture}
  BY <1>2 DEF TypeOK
<1>5. p \in Contents \union {NoPicture} /\ q \in Contents \union {NoPicture}
  BY <1>1, <1>4, ConvertedIsSound
<1>6. TablesOK'
  BY <1>2, <1>3, <1>5, TypeParts DEF TablesOK, Request, Ids, Contents, Partial
<1>7. PlacesAreSound'
  <2> SUFFICES ASSUME NEW id \in Ids PROVE PlaceIsSound(id)'
    BY DEF PlacesAreSound, Ids
  <2>1. PlaceIsSound(id)
    BY DEF PlacesAreSound
  <2>2. CASE id # job[t].id
    BY <1>3, <2>1, <2>2 DEF PlaceIsSound, Own, Grows, TypeOK
  <2>3. CASE id = job[t].id /\ id \in blurred'
    BY <2>1, <2>3 DEF PlaceIsSound
  <2>4. CASE id = job[t].id /\ id \notin blurred'
    <3>1. job[t].alone /\ id \notin blurred
      BY <2>4 DEF Blur
    <3>2. p \in Own(id) /\ q \in Own(id)
      BY <1>1, <1>4, <2>1, <2>4, <3>1, ConvertedIsSound DEF PlaceIsSound
    <3> QED
      BY <2>1, <2>4, <3>1, <3>2 DEF PlaceIsSound, Own, TypeOK
  <2> QED
    BY <2>2, <2>3, <2>4
<1> QED
  BY <1>3, <1>6, <1>7, SameRequests

LEMMA ConvertsToJpg ==
    ASSUME IInv, NEW t \in Requests, ConvertToJpg(t)
    PROVE  IInv'
<1> USE DEF IInv
<1>1. PICK p \in Converted(jpg[job[t].id]) :
        /\ jpg' = [jpg EXCEPT ![job[t].id] = p]
        /\ IF p = NoPicture THEN Fails(t) ELSE Goto(t, "bmp")
  BY DEF ConvertToJpg
<1>2. job[t] \in Job /\ JobIsSound(job[t]) /\ job[t].pc = "jpg"
  BY DEF JobsAreSound, SoundJobs, ConvertToJpg
<1>3. /\ UNCHANGED <<started, notes, scratch, scratch2, bmp, inbox, images, own>>
      /\ Blur(t)
  BY DEF ConvertToJpg, server
<1>4. \E q : q \in Converted(bmp[job[t].id])
  BY DEF Converted
<1>5. Grows /\ TablesOK' /\ PlacesAreSound' /\ RequestsAreSound'
  BY <1>1, <1>2, <1>3, <1>4, FilesConverted
<1>6. job' \in [Requests -> Job] /\ JobsAreSound' /\ SavesAreAlone' /\ HandsAreSound'
  <2>1. CASE p = NoPicture
    <3>1. Rest("failed") \in SoundJobs' /\ ~IsSaving(Rest("failed"))
      BY <1>5, RestIsSound, SoundStays DEF Finished
    <3> QED
      BY <1>1, <1>3, <1>5, <2>1, <3>1, OneThread DEF Fails
  <2>2. CASE p # NoPicture
    <3>1. PICK j \in Job : j = [job[t] EXCEPT !.pc = "bmp"]
      BY <1>2 DEF Job, Steps, Saving
    <3>2. /\ j.pc = "bmp" /\ j.kind = job[t].kind /\ j.op = job[t].op
          /\ j.id = job[t].id /\ j.todo = job[t].todo /\ j.alone = job[t].alone
      BY <1>2, <3>1 DEF Job
    <3>3. job' = [job EXCEPT ![t] = j] /\ job'[t] = j
      BY <1>1, <2>2, <3>1 DEF Goto, TypeOK
    <3>4. j \in SoundJobs
      BY <1>2, <3>2 DEF JobIsSound, SoundJobs, Saving
    <3>5. j \in SoundJobs'
      BY <1>5, <3>4, SoundStays
    <3>6. IsSaving(job[t]) /\ IsSaving(j)
      BY <1>2, <3>2 DEF IsSaving, Saving
    <3>7. HandIsSound(t)'
      BY <1>2, <1>3, <3>2, <3>3, <3>6 DEF HandsAreSound, HandIsSound, InHand
    <3> QED
      BY <1>5, <3>2, <3>3, <3>5, <3>6, <3>7, OneSaver
  <2> QED
    BY <2>1, <2>2
<1> QED
  BY <1>5, <1>6, NextTypeParts

LEMMA ConvertsToBmp ==
    ASSUME IInv, NEW t \in Requests, ConvertToBmp(t)
    PROVE  IInv'
<1> USE DEF IInv
<1> DEFINE j == [job[t] EXCEPT !.pc = "post", !.alone = TRUE,
                   !.op = IF job[t].kind = "add" THEN "add" ELSE "match"]
<1>1. PICK q \in Converted(bmp[job[t].id]) : bmp' = [bmp EXCEPT ![job[t].id] = q]
  BY DEF ConvertToBmp
<1>2. job[t] \in Job /\ JobIsSound(job[t]) /\ job[t].pc = "bmp"
  BY DEF JobsAreSound, SoundJobs, ConvertToBmp
<1>3. /\ UNCHANGED <<started, notes, scratch, scratch2, jpg, inbox, images, own>>
      /\ Blur(t)
  BY DEF ConvertToBmp, server
<1>4. \E p : p \in Converted(jpg[job[t].id])
  BY DEF Converted
<1>5. Grows /\ TablesOK' /\ PlacesAreSound' /\ RequestsAreSound'
  BY <1>1, <1>2, <1>3, <1>4, FilesConverted
<1>6. j \in SoundJobs /\ ~IsSaving(j)
  <2>1. j \in Job
    BY <1>2 DEF Job, Steps
  <2>2. /\ j.pc = "post" /\ j.kind = job[t].kind /\ j.id = job[t].id
        /\ j.op = (IF j.kind = "add" THEN "add" ELSE "match")
    BY <1>2 DEF Job
  <2>3. job[t].pc \in Saving /\ "post" \notin Saving
    BY <1>2 DEF Saving
  <2>4. job[t].kind \in {"add", "search"} /\ job[t].id \in Ids
        /\ (job[t].kind = "add" => notes[job[t].id] \in Public)
    BY <1>2, <2>3 DEF JobIsSound
  <2> HIDE DEF j
  <2>5. JobIsSound(j)
    BY <2>2, <2>4 DEF JobIsSound
  <2> QED
    BY <2>1, <2>2, <2>3, <2>5 DEF SoundJobs, IsSaving
<1>7. j \in SoundJobs'
  BY <1>5, <1>6, SoundStays
<1>8. job' = [job EXCEPT ![t] = j]
  BY DEF ConvertToBmp, TypeOK
<1>9. job' \in [Requests -> Job] /\ JobsAreSound' /\ SavesAreAlone' /\ HandsAreSound'
  <2> HIDE DEF j
  <2> QED
    BY <1>3, <1>5, <1>6, <1>7, <1>8, OneThread
<1> QED
  BY <1>5, <1>9, NextTypeParts

-----------------------------------------------------------------------------
(* The theorems.                                                           *)

LEMMA InitIsSound == Init => IInv
<1> SUFFICES ASSUME Init PROVE IInv
  OBVIOUS
<1> USE DEF Init
<1>1. Rest("done") \in SoundJobs /\ ~IsSaving(Rest("done"))
  BY RestIsSound DEF Finished
<1>2. job \in [Requests -> Job]
  BY <1>1 DEF SoundJobs
<1>3. JobsAreSound /\ SavesAreAlone /\ HandsAreSound
  BY <1>1 DEF JobsAreSound, SavesAreAlone, HandsAreSound, HandIsSound
<1>4. RequestsAreSound
  BY DEF RequestsAreSound
<1>5. PlacesAreSound
  BY DEF PlacesAreSound, PlaceIsSound, Own
<1>6. TypeOK
  BY <1>2, BoundsAssumption DEF TypeOK
<1> QED
  BY <1>3, <1>4, <1>5, <1>6 DEF IInv

LEMMA NextKeepsSound ==
    ASSUME IInv, [Next]_vars
    PROVE  IInv'
<1>1. CASE UNCHANGED vars
  <2>1. Grows /\ UNCHANGED <<notes, files, scratch, scratch2, jpg, bmp, job, inbox, images,
                             started, own, blurred>>
    BY <1>1 DEF Grows, vars, files, server, history
  <2>2. job' \in [Requests -> Job] /\ JobsAreSound' /\ SavesAreAlone' /\ HandsAreSound'
    BY <2>1, SameThreads
  <2>3. TablesOK'
    BY <2>1, TypeParts, SameTables DEF IInv, TablesOK
  <2> QED
    BY <2>1, <2>2, <2>3, NextTypeParts, SameRequests, PlacesStaySound DEF IInv
<1>2. CASE \E t \in Requests, kind \in {"add", "search"}, id \in Ids,
             picture \in Sent, link \in BOOLEAN :
            StartSave(t, kind, id, picture, link)
  BY <1>2, StartsSave
<1>3. CASE \E id \in Ids : AddedWithoutFile(id) \/ Destroy(id)
  BY <1>3, RowsChange
<1>4. CASE \E t \in Requests : StartResync(t)
  BY <1>4, StartsResync
<1>5. CASE \E t \in Requests : Step(t)
  <2>1. PICK t \in Requests : Step(t)
    BY <1>5
  <2> QED
    BY <2>1, Moves, ConvertsToJpg, ConvertsToBmp, PostsPicture, Ends, GivesUp,
       AsksForList, PostsNext, NotesAnswer, ReadsNotes DEF Step
<1>6. CASE Serve \/ LoseRequest
  BY <1>6, Serves, LosesRequest
<1> QED
  BY <1>1, <1>2, <1>3, <1>4, <1>5, <1>6 DEF Next

\* The inductive invariant.
THEOREM InductiveInvariant == Spec => []IInv
BY InitIsSound, NextKeepsSound, PTL DEF Spec

\* Every value has its type, the database's labels and the requests at the image
\* server included (note.rb:679-742, 942-961).
THEOREM TypeCorrect == Spec => []TypeOK
<1>1. IInv => TypeOK
  BY DEF IInv
<1> QED
  BY <1>1, InductiveInvariant, PTL

\* Unless two saves overlap, what is under a note's names and its label was sent
\* for that note (note.rb:679-742).
THEOREM PicturesApart == Spec => []PicturesStayApart
<1>1. IInv => PicturesStayApart
  BY DEF IInv, PlacesAreSound, PlaceIsSound, PicturesStayApart, Own
<1> QED
  BY <1>1, InductiveInvariant, PTL

\* The image server never holds the picture of a search, whatever is late or lost
\* (notes.rb:122-127, note.rb:954-957).
THEOREM SearchesPrivate == Spec => []SearchesStayPrivate
<1>1. IInv => SearchesStayPrivate
  BY DEF IInv, PlacesAreSound, PlaceIsSound, SearchesStayPrivate, Stored, Public
<1> QED
  BY <1>1, InductiveInvariant, PTL

-----------------------------------------------------------------------------
(* A resync that nothing runs beside.                                      *)

Undisturbed(t) == job[t].kind = "resync" /\ job[t].alone

\* The labels a resync has still to ask for, and the notes it looked at.
Left(j) == IF j.pc = "answered" THEN j.todo \ Lowest(j.todo) ELSE j.todo
Missed(j) ==
    j.refused \union (IF j.pc = "answered" /\ j.answer = "refused"
                      THEN Lowest(j.todo) ELSE {})

\* Nobody else is at work, and at the image server is nothing but what the
\* resync waits for.
IsTheOnly(t) ==
    /\ job[t].pc \in {"next", "wait", "answered"}
    /\ job[t].op \in {"list", "remove", "add"}
    /\ \A u \in Requests \ {t} : Ready(u)
    /\ inbox # <<>> => job[t].pc = "wait"
    /\ Len(inbox) <= 1

RequestIsOf(t, r) ==
    /\ r.from = t /\ r.op = job[t].op
    /\ r.op # "list" => r.id \in Lowest(job[t].todo)
    /\ r.op = "add" => r.picture = bmp[r.id] /\ r.picture # NoPicture

\* While it removes, all that is stored is still to be removed.  While it adds,
\* what is stored are the pictures of searchable notes it has added, all of them
\* but those refused.
StoreIsOnCourse(j) ==
    /\ j.op = "list" /\ j.pc = "answered" => Stored \subseteq j.todo
    /\ j.op = "remove" => Stored \subseteq Left(j)
    /\ j.op = "add" =>
         /\ j.todo \subseteq Searchable
         /\ Stored \subseteq Searchable \ Left(j)
         /\ Searchable \ (Left(j) \union Missed(j)) \subseteq Stored
         /\ \A id \in Stored : images[id] = bmp[id]

OnCourse(t) ==
    Undisturbed(t) =>
        /\ IsTheOnly(t)
        /\ \A k \in 1..Len(inbox) : RequestIsOf(t, inbox[k])
        /\ StoreIsOnCourse(job[t])
ResyncsAreOnCourse == \A t \in Requests : OnCourse(t)

LEMMA LowestIsOne ==
    ASSUME NEW ids \in SUBSET Ids, NEW id \in Lowest(ids)
    PROVE  Lowest(ids) = {id} /\ id \in ids
<1>1. \A i \in ids : i \in Int
  BY DEF Ids
<1> QED
  BY <1>1 DEF Lowest

\* A step of a thread is of one that is at work, and is its own request's only.
LEMMA StepsAlone ==
    ASSUME IInv, NEW t \in Requests, Step(t)
    PROVE  ~Ready(t) /\ \A u \in Requests \ {t} : job'[u] = job[u]
<1>1. job \in [Requests -> Job]
  BY DEF IInv, TypeOK
<1>2. ~Ready(t)
  BY DEF Step, Ready, Finished, FetchLink, OpenScratch, CloseScratch, ConvertToJpg,
         ConvertToBmp, PostPicture, Raise, GiveUp, ReceiveAnswer, AskForList, PostNext,
         NoteAnswer, ReadNotes, FinishResync
<1>3. \A u \in Requests \ {t} : job'[u] = job[u]
  BY <1>1 DEF Step, Goto, Fails, Succeeds, FetchLink, OpenScratch, CloseScratch,
         ConvertToJpg, ConvertToBmp, PostPicture, Raise, GiveUp, ReceiveAnswer,
         AskForList, PostNext, NoteAnswer, ReadNotes, FinishResync
<1> QED
  BY <1>2, <1>3

LEMMA OneOnCourse ==
    ASSUME IInv, ResyncsAreOnCourse, NEW t \in Requests, Step(t), OnCourse(t)'
    PROVE  ResyncsAreOnCourse'
<1> SUFFICES ASSUME NEW u \in Requests \ {t}, Undisturbed(u)' PROVE FALSE
  BY DEF ResyncsAreOnCourse, OnCourse
<1>1. Undisturbed(u) /\ ~Ready(t)
  BY StepsAlone DEF Undisturbed
<1> QED
  BY <1>1 DEF ResyncsAreOnCourse, OnCourse, IsTheOnly

\* Steps of save_image, of its client, and the last of a resync.
LEMMA OthersOnCourse ==
    ASSUME IInv, ResyncsAreOnCourse, NEW t \in Requests,
           \/ FetchLink(t) \/ OpenScratch(t) \/ CloseScratch(t)
           \/ ConvertToJpg(t) \/ ConvertToBmp(t) \/ PostPicture(t)
           \/ Raise(t) \/ GiveUp(t) \/ ReceiveAnswer(t) \/ FinishResync(t)
    PROVE  ResyncsAreOnCourse'
<1>1. Step(t)
  BY DEF Step
<1>2. job \in [Requests -> Job] /\ JobIsSound(job[t])
  BY DEF IInv, TypeOK, JobsAreSound, SoundJobs
<1>3. CASE Raise(t) \/ GiveUp(t) \/ ReceiveAnswer(t) \/ FinishResync(t)
  <2>1. job'[t].kind = "none"
    BY <1>2, <1>3 DEF Raise, GiveUp, ReceiveAnswer, FinishResync, Fails, Succeeds, Rest
  <2> QED
    BY <1>1, <2>1, OneOnCourse DEF OnCourse, Undisturbed
<1>4. CASE \/ FetchLink(t) \/ OpenScratch(t) \/ CloseScratch(t)
           \/ ConvertToJpg(t) \/ ConvertToBmp(t) \/ PostPicture(t)
  <2>1. job[t].kind # "resync"
    BY <1>2, <1>4 DEF JobIsSound, Saving, FetchLink, OpenScratch, CloseScratch,
       ConvertToJpg, ConvertToBmp, PostPicture
  <2>2. job'[t].kind \in {job[t].kind, "none"}
    BY <1>2, <1>4 DEF Job, Goto, Fails, Rest, FetchLink, OpenScratch, CloseScratch,
       ConvertToJpg, ConvertToBmp, PostPicture
  <2> QED
    BY <1>1, <2>1, <2>2, OneOnCourse DEF OnCourse, Undisturbed
<1> QED
  BY <1>3, <1>4

LEMMA AskOnCourse ==
    ASSUME IInv, ResyncsAreOnCourse, NEW t \in Requests, AskForList(t)
    PROVE  ResyncsAreOnCourse'
<1>1. Step(t)
  BY DEF Step
<1>2. job \in [Requests -> Job] /\ inbox \in Seq(Request)
  BY DEF IInv, TypeOK
<1>3. job'[t] = [job[t] EXCEPT !.pc = "wait"]
  BY <1>2 DEF AskForList, Goto
<1>4. SUFFICES ASSUME Undisturbed(t)' PROVE OnCourse(t)'
  BY <1>1, OneOnCourse DEF OnCourse
<1>5. OnCourse(t) /\ Undisturbed(t)
  BY <1>2, <1>3, <1>4 DEF ResyncsAreOnCourse, Undisturbed, Job
<1>6. inbox = <<>> /\ \A u \in Requests \ {t} : Ready(u)
  BY <1>5 DEF OnCourse, IsTheOnly, AskForList
<1>7. PICK r : r.from = t /\ r.op = "list" /\ inbox' = <<r>>
  BY <1>2, <1>6 DEF AskForList, Post
<1>8. job'[t].op = "list" /\ job'[t].pc = "wait"
  BY <1>2, <1>3 DEF AskForList, Job
<1>9. IsTheOnly(t)'
  BY <1>1, <1>6, <1>7, <1>8, StepsAlone DEF IsTheOnly, Ready
<1>10. \A k \in 1..Len(inbox') : RequestIsOf(t, inbox[k])'
  BY <1>7, <1>8 DEF RequestIsOf
<1>11. StoreIsOnCourse(job[t])'
  BY <1>8 DEF StoreIsOnCourse
<1> QED
  BY <1>9, <1>10, <1>11 DEF OnCourse

LEMMA PostOnCourse ==
    ASSUME IInv, ResyncsAreOnCourse, NEW t \in Requests, PostNext(t)
    PROVE  ResyncsAreOnCourse'
<1>1. Step(t)
  BY DEF Step
<1>2. job \in [Requests -> Job] /\ inbox \in Seq(Request)
  BY DEF IInv, TypeOK
<1>3. job'[t] = [job[t] EXCEPT !.pc = "wait"]
  BY <1>2 DEF PostNext, Goto
<1>4. SUFFICES ASSUME Undisturbed(t)' PROVE OnCourse(t)'
  BY <1>1, OneOnCourse DEF OnCourse
<1>5. OnCourse(t) /\ Undisturbed(t)
  BY <1>2, <1>3, <1>4 DEF ResyncsAreOnCourse, Undisturbed, Job
<1>6. inbox = <<>> /\ \A u \in Requests \ {t} : Ready(u)
  BY <1>5 DEF OnCourse, IsTheOnly, PostNext
<1>7. /\ job'[t].pc = "wait" /\ job[t].pc = "next" /\ job'[t].op = job[t].op
      /\ job'[t].op \in {"remove", "add"} /\ job'[t].todo = job[t].todo
      /\ job'[t].refused = job[t].refused
  BY <1>2, <1>3 DEF PostNext, Job
<1>8. PICK id \in Lowest(job[t].todo) :
        /\ job[t].op = "add" => bmp[id] # NoPicture
        /\ Post(t, job[t].op, id)
  BY DEF PostNext
<1>9. PICK r : /\ r.from = t /\ r.op = job[t].op /\ r.id = id /\ inbox' = <<r>>
               /\ r.op = "add" => r.picture = bmp[id]
  BY <1>2, <1>6, <1>8 DEF Post
<1>10. UNCHANGED <<notes, images, bmp>>
  BY DEF PostNext, files
<1>11. IsTheOnly(t)'
  BY <1>1, <1>6, <1>7, <1>9, StepsAlone DEF IsTheOnly, Ready
<1>12. \A k \in 1..Len(inbox') : RequestIsOf(t, inbox[k])'
  BY <1>7, <1>8, <1>9, <1>10 DEF RequestIsOf, Lowest
<1>13. StoreIsOnCourse(job[t])'
  <2>1. StoreIsOnCourse(job[t])
    BY <1>5 DEF OnCourse
  <2> QED
    BY <1>7, <1>10, <2>1 DEF StoreIsOnCourse, Left, Missed, Stored, Searchable, Ids
<1> QED
  BY <1>11, <1>12, <1>13 DEF OnCourse

LEMMA AnswerOnCourse ==
    ASSUME IInv, ResyncsAreOnCourse, NEW t \in Requests, NoteAnswer(t)
    PROVE  ResyncsAreOnCourse'
<1>1. Step(t)
  BY DEF Step
<1>2. job \in [Requests -> Job]
  BY DEF IInv, TypeOK
<1> DEFINE i == job[t]
           last == IF i.op = "list" THEN {} ELSE Lowest(i.todo)
<1>3. job'[t] = [i EXCEPT !.pc = "next", !.answer = "none",
                          !.op = IF @ = "list" THEN "remove" ELSE @,
                          !.todo = @ \ last,
                          !.refused = IF i.op = "add" /\ i.answer = "refused"
                                      THEN @ \union last ELSE @]
  BY <1>2 DEF NoteAnswer
<1>4. /\ job'[t].kind = i.kind /\ job'[t].alone = i.alone /\ job'[t].pc = "next"
      /\ job'[t].op = (IF i.op = "list" THEN "remove" ELSE i.op)
      /\ job'[t].todo = i.todo \ last /\ job'[t].answer = "none"
      /\ job'[t].refused = IF i.op = "add" /\ i.answer = "refused"
                           THEN i.refused \union last ELSE i.refused
  <2> HIDE DEF last
  <2> QED
    BY <1>2, <1>3 DEF Job
<1>5. SUFFICES ASSUME Undisturbed(t)' PROVE OnCourse(t)'
  BY <1>1, OneOnCourse DEF OnCourse
<1>6. OnCourse(t) /\ Undisturbed(t)
  BY <1>4, <1>5 DEF ResyncsAreOnCourse, Undisturbed
<1>7. /\ inbox = <<>> /\ i.op \in {"list", "remove", "add"}
      /\ \A u \in Requests \ {t} : Ready(u)
      /\ i.pc = "answered"
  BY <1>6 DEF OnCourse, IsTheOnly, NoteAnswer
<1>8. UNCHANGED <<notes, inbox, images, bmp>>
  BY DEF NoteAnswer, files, server
<1>9. IsTheOnly(t)'
  BY <1>1, <1>4, <1>7, <1>8, StepsAlone DEF IsTheOnly, Ready
<1>10. \A k \in 1..Len(inbox') : RequestIsOf(t, inbox[k])'
  BY <1>7, <1>8
<1>11. StoreIsOnCourse(job[t])'
  <2>1. StoreIsOnCourse(i)
    BY <1>6 DEF OnCourse
  <2>2. Stored' = Stored /\ Searchable' = Searchable
    BY <1>8 DEF Stored, Searchable, Ids
  <2>3. Left(job[t])' = i.todo \ last /\ Missed(job[t])' = job'[t].refused
    BY <1>4 DEF Left, Missed
  <2>4. CASE i.op = "list"
    BY <1>4, <1>7, <2>1, <2>2, <2>3, <2>4 DEF StoreIsOnCourse
  <2>5. CASE i.op = "remove"
    BY <1>4, <1>7, <2>1, <2>2, <2>3, <2>5 DEF StoreIsOnCourse, Left
  <2>6. CASE i.op = "add"
    <3>1. Left(i) = Left(job[t])' /\ Missed(i) = Missed(job[t])'
      BY <1>4, <1>7, <2>3, <2>6 DEF Left, Missed
    <3> QED
      BY <1>4, <1>8, <2>1, <2>2, <2>6, <3>1 DEF StoreIsOnCourse
  <2> QED
    BY <1>7, <2>4, <2>5, <2>6
<1> QED
  BY <1>9, <1>10, <1>11 DEF OnCourse

\* Nothing is stored when the notes are read.
LEMMA ReadOnCourse ==
    ASSUME IInv, ResyncsAreOnCourse, NEW t \in Requests, ReadNotes(t)
    PROVE  ResyncsAreOnCourse'
<1>1. Step(t)
  BY DEF Step
<1>2. job \in [Requests -> Job]
  BY DEF IInv, TypeOK
<1>3. /\ job'[t].kind = job[t].kind /\ job'[t].alone = job[t].alone
      /\ job'[t].pc = "next" /\ job'[t].op = "add"
      /\ job'[t].todo = Searchable /\ job'[t].refused = job[t].refused
  BY <1>2 DEF ReadNotes, Job, NotesToAdd
<1>4. SUFFICES ASSUME Undisturbed(t)' PROVE OnCourse(t)'
  BY <1>1, OneOnCourse DEF OnCourse
<1>5. OnCourse(t) /\ Undisturbed(t)
  BY <1>3, <1>4 DEF ResyncsAreOnCourse, Undisturbed
<1>6. inbox = <<>> /\ \A u \in Requests \ {t} : Ready(u)
  BY <1>5 DEF OnCourse, IsTheOnly, ReadNotes
<1>7. UNCHANGED <<notes, inbox, images, bmp>>
  BY DEF ReadNotes, files, server
<1>8. IsTheOnly(t)'
  BY <1>1, <1>3, <1>6, <1>7, StepsAlone DEF IsTheOnly, Ready
<1>9. \A k \in 1..Len(inbox') : RequestIsOf(t, inbox[k])'
  BY <1>6, <1>7
<1>10. StoreIsOnCourse(job[t])'
  <2>1. Stored' = {} /\ Searchable' = Searchable
    BY <1>5, <1>7 DEF OnCourse, StoreIsOnCourse, Left, ReadNotes, Stored, Searchable, Ids
  <2> QED
    BY <1>3, <2>1 DEF StoreIsOnCourse, Left
<1> QED
  BY <1>8, <1>9, <1>10 DEF OnCourse

\* The request of a resync that is alone leaves the image server.
LEMMA Answered ==
    ASSUME IInv, ResyncsAreOnCourse, inbox # <<>>, inbox' = Tail(inbox),
           NEW t \in Requests, Undisturbed(t)
    PROVE  /\ inbox' = <<>> /\ RequestIsOf(t, Head(inbox))
           /\ job[t].pc = "wait" /\ IsTheOnly(t) /\ StoreIsOnCourse(job[t])
<1>1. inbox \in Seq(Request)
  BY DEF IInv, TypeOK
<1>2. OnCourse(t)
  BY DEF ResyncsAreOnCourse
<1>3. job[t].pc = "wait" /\ IsTheOnly(t) /\ StoreIsOnCourse(job[t]) /\ Len(inbox) <= 1
  BY <1>2 DEF OnCourse, IsTheOnly
<1>4. Len(inbox) = 1 /\ Head(inbox) = inbox[1] /\ inbox' = <<>>
  BY <1>1, <1>3
<1>5. RequestIsOf(t, inbox[1])
  BY <1>2, <1>4 DEF OnCourse
<1> QED
  BY <1>3, <1>4, <1>5

LEMMA LoseOnCourse ==
    ASSUME IInv, ResyncsAreOnCourse, LoseRequest
    PROVE  ResyncsAreOnCourse'
<1> SUFFICES ASSUME NEW t \in Requests, Undisturbed(t)' PROVE OnCourse(t)'
  BY DEF ResyncsAreOnCourse, OnCourse
<1>1. UNCHANGED <<notes, job, images, bmp>> /\ inbox # <<>> /\ inbox' = Tail(inbox)
  BY DEF LoseRequest, files
<1>2. Undisturbed(t)
  BY <1>1 DEF Undisturbed
<1>3. /\ inbox' = <<>> /\ job[t].pc = "wait"
      /\ IsTheOnly(t) /\ StoreIsOnCourse(job[t])
  BY <1>1, <1>2, Answered
<1>4. IsTheOnly(t)'
  BY <1>1, <1>3 DEF IsTheOnly, Ready
<1>5. StoreIsOnCourse(job[t])'
  BY <1>1, <1>3 DEF StoreIsOnCourse, Left, Missed, Stored, Searchable, Ids
<1> QED
  BY <1>3, <1>4, <1>5 DEF OnCourse

LEMMA ServeOnCourse ==
    ASSUME IInv, ResyncsAreOnCourse, Serve
    PROVE  ResyncsAreOnCourse'
<1> DEFINE r == Head(inbox)
<1>1. UNCHANGED <<notes, bmp>> /\ inbox # <<>> /\ inbox' = Tail(inbox)
  BY DEF Serve, files
<1>2. job \in [Requests -> Job] /\ images \in [Ids -> Contents \union {NoPicture}]
  BY DEF IInv, TypeOK
<1>3. PICK outcome \in Outcomes(r) :
        /\ images' = IF r.op \in {"add", "remove"}
                     THEN [images EXCEPT ![r.id] = outcome[2]] ELSE images
        /\ job' = IF r.from = Nobody THEN job
                  ELSE [job EXCEPT ![r.from].pc = "answered",
                          ![r.from].answer = outcome[1],
                          ![r.from].todo = IF r.op = "list" THEN Stored ELSE @]
  BY DEF Serve
<1> SUFFICES ASSUME NEW t \in Requests, Undisturbed(t)' PROVE OnCourse(t)'
  BY DEF ResyncsAreOnCourse, OnCourse
<1> HIDE DEF r
<1>4. Undisturbed(t)
  <2>1. job'[t].kind = job[t].kind /\ job'[t].alone = job[t].alone
    BY <1>2, <1>3 DEF Job
  <2> QED
    BY <2>1 DEF Undisturbed
<1>5. /\ inbox' = <<>> /\ RequestIsOf(t, r) /\ job[t].pc = "wait"
      /\ IsTheOnly(t) /\ StoreIsOnCourse(job[t])
  BY <1>1, <1>4, Answered DEF r
<1>6. r.from = t /\ r.op = job[t].op /\ r.op \in {"list", "remove", "add"}
  BY <1>5 DEF RequestIsOf, IsTheOnly
<1>7. /\ job'[t].pc = "answered" /\ job'[t].answer = outcome[1]
      /\ job'[t].op = job[t].op /\ job'[t].refused = job[t].refused
      /\ job'[t].todo = IF r.op = "list" THEN Stored ELSE job[t].todo
      /\ \A u \in Requests \ {t} : job'[u] = job[u]
  BY <1>2, <1>3, <1>6, NobodyAssumption DEF Job
<1>8. IsTheOnly(t)'
  BY <1>5, <1>6, <1>7 DEF IsTheOnly, Ready
<1>9. Searchable' = Searchable
  BY <1>1 DEF Searchable, Ids
<1>10. StoreIsOnCourse(job[t])'
  <2>1. CASE r.op = "list"
    <3>1. images' = images /\ job'[t].todo = Stored /\ job'[t].op = "list"
      BY <1>3, <1>6, <1>7, <2>1
    <3>2. Stored' = Stored
      BY <3>1 DEF Stored, Ids
    <3> QED
      BY <3>1, <3>2 DEF StoreIsOnCourse
  <2>2. CASE r.op \in {"remove", "add"}
    <3>1. /\ job'[t].todo = job[t].todo /\ job[t].todo \subseteq Ids
          /\ Left(job[t]) = job[t].todo /\ Missed(job[t]) = job[t].refused
      BY <1>2, <1>5, <1>7, <2>2 DEF Left, Missed, Job
    <3>2. /\ Lowest(job[t].todo) = {r.id} /\ r.id \in job[t].todo /\ r.id \in Ids
      BY <1>5, <2>2, <3>1, LowestIsOne DEF RequestIsOf
    <3>3. /\ Left(job[t])' = job[t].todo \ {r.id}
          /\ Missed(job[t])' = job[t].refused \union
               (IF outcome[1] = "refused" THEN {r.id} ELSE {})
      BY <1>7, <3>1, <3>2 DEF Left, Missed
    <3>4. /\ images'[r.id] = outcome[2]
          /\ \A id \in Ids \ {r.id} : images'[id] = images[id]
      BY <1>2, <1>3, <2>2, <3>2
    <3>5. CASE r.op = "remove"
      <4>1. outcome[2] = NoPicture
        BY <3>5 DEF Outcomes
      <4>2. Stored' = Stored \ {r.id}
        BY <3>4, <4>1 DEF Stored, Ids
      <4> QED
        BY <1>5, <1>6, <1>7, <3>1, <3>3, <3>5, <4>2 DEF StoreIsOnCourse
    <3>6. CASE r.op = "add"
      <4>1. /\ job[t].todo \subseteq Searchable /\ Stored \subseteq Searchable \ job[t].todo
            /\ Searchable \ (job[t].todo \union job[t].refused) \subseteq Stored
            /\ \A id \in Stored : images[id] = bmp[id]
        BY <1>5, <1>6, <3>1, <3>6 DEF StoreIsOnCourse
      <4>2. r.id \notin Stored /\ images[r.id] = NoPicture
        BY <3>2, <4>1 DEF Stored
      <4>3. r.picture = bmp[r.id] /\ r.picture # NoPicture
        BY <1>5, <3>6 DEF RequestIsOf
      <4>4. outcome \in {<<"refused", NoPicture>>, <<"ok", r.picture>>,
                         <<"refused", r.picture>>}
        BY <3>6, <4>2 DEF Outcomes
      <4>5. Stored' = IF outcome[2] = NoPicture THEN Stored ELSE Stored \union {r.id}
        BY <3>2, <3>4, <4>2 DEF Stored, Ids
      <4>6. outcome[1] = "refused" \/ r.id \in Stored'
        BY <4>3, <4>4, <4>5
      <4>7. Stored' \subseteq Searchable' \ Left(job[t])'
        BY <1>9, <3>2, <3>3, <4>1, <4>5
      <4>8. Searchable' \ (Left(job[t])' \union Missed(job[t])') \subseteq Stored'
        BY <1>9, <3>3, <4>1, <4>5, <4>6
      <4>9. \A id \in Stored' : images'[id] = bmp'[id]
        BY <1>1, <3>4, <4>1, <4>3, <4>4, <4>5 DEF Stored
      <4> QED
        BY <1>6, <1>7, <1>9, <3>6, <3>1, <4>1, <4>7, <4>8, <4>9 DEF StoreIsOnCourse
    <3> QED
      BY <2>2, <3>5, <3>6
  <2> QED
    BY <1>6, <2>1, <2>2
<1> QED
  BY <1>5, <1>8, <1>10 DEF OnCourse

\* Whatever begins disturbs the resyncs there are.
LEMMA BeginOnCourse ==
    ASSUME IInv, ResyncsAreOnCourse,
           \/ \E t \in Requests, kind \in {"add", "search"}, id \in Ids,
                 picture \in Sent, link \in BOOLEAN :
                StartSave(t, kind, id, picture, link)
           \/ \E id \in Ids : AddedWithoutFile(id) \/ Destroy(id)
    PROVE  ResyncsAreOnCourse'
<1> SUFFICES ASSUME NEW u \in Requests PROVE ~Undisturbed(u)'
  BY DEF ResyncsAreOnCourse, OnCourse
<1>1. job[u] \in Job
  BY DEF IInv, TypeOK
<1>2. ~(Disturbed(job[u]).kind = "resync" /\ Disturbed(job[u]).alone)
  BY <1>1 DEF Disturbed, Job
<1>3. CASE \E id \in Ids : AddedWithoutFile(id) \/ Destroy(id)
  BY <1>2, <1>3 DEF AddedWithoutFile, Destroy, Disturb, Undisturbed
<1>4. CASE \E t \in Requests, kind \in {"add", "search"}, id \in Ids,
              picture \in Sent, link \in BOOLEAN :
             StartSave(t, kind, id, picture, link)
  <2>1. PICK t \in Requests, kind \in {"add", "search"}, id \in Ids,
             picture \in Sent, link \in BOOLEAN :
               StartSave(t, kind, id, picture, link)
    BY <1>4
  <2> DEFINE j == [Rest(IF link THEN "fetch" ELSE "open") EXCEPT
                     !.kind = kind, !.id = id, !.content = picture,
                     !.alone = ~FilesAreMixed(t)]
  <2>2. j.kind = kind
    BY DEF Rest
  <2>3. Begin(t, j)
    BY <2>1 DEF StartSave
  <2> HIDE DEF j
  <2>4. job'[u] = IF u = t THEN j ELSE Disturbed(job[u])
    BY <2>3 DEF Begin
  <2> QED
    BY <1>2, <2>2, <2>4 DEF Undisturbed
<1> QED
  BY <1>3, <1>4

LEMMA StartOnCourse ==
    ASSUME IInv, ResyncsAreOnCourse, NEW t \in Requests, StartResync(t)
    PROVE  ResyncsAreOnCourse'
<1> DEFINE j == [Rest("next") EXCEPT !.kind = "resync", !.op = "list",
                   !.alone = inbox = <<>> /\ \A u \in Requests : Ready(u)]
<1>1. /\ j.pc = "next" /\ j.op = "list"
      /\ j.alone => inbox = <<>> /\ \A u \in Requests : Ready(u)
  BY DEF Rest
<1>2. job' = [u \in Requests |-> IF u = t THEN j ELSE Disturbed(job[u])]
  BY DEF StartResync, Begin
<1> HIDE DEF j
<1>3. ASSUME NEW u \in Requests
      PROVE  /\ Disturbed(job[u]).pc = job[u].pc
             /\ ~(Disturbed(job[u]).kind = "resync" /\ Disturbed(job[u]).alone)
  <2>1. job[u] \in Job
    BY DEF IInv, TypeOK
  <2> QED
    BY <2>1 DEF Disturbed, Job
<1> SUFFICES ASSUME NEW u \in Requests, Undisturbed(u)' PROVE OnCourse(u)'
  BY DEF ResyncsAreOnCourse, OnCourse
<1>4. u = t /\ j.alone
  BY <1>2, <1>3 DEF Undisturbed
<1>5. inbox' = <<>> /\ \A v \in Requests : Ready(v)
  BY <1>1, <1>4 DEF StartResync, server
<1>6. job'[t] = j /\ \A v \in Requests \ {t} : Ready(v)'
  BY <1>2, <1>3, <1>5 DEF Ready
<1>7. IsTheOnly(t)'
  BY <1>1, <1>5, <1>6 DEF IsTheOnly
<1>8. StoreIsOnCourse(job[t])'
  BY <1>1, <1>6 DEF StoreIsOnCourse
<1> QED
  BY <1>4, <1>5, <1>7, <1>8 DEF OnCourse

LEMMA NextOnCourse ==
    ASSUME IInv, ResyncsAreOnCourse, [Next]_vars
    PROVE  ResyncsAreOnCourse'
<1>1. CASE UNCHANGED vars
  <2>1. UNCHANGED <<notes, bmp, job, inbox, images>>
    BY <1>1 DEF vars, files, server
  <2>2. ASSUME NEW t \in Requests, Undisturbed(t)' PROVE OnCourse(t)'
    <3>1. OnCourse(t) /\ Undisturbed(t)
      BY <2>1, <2>2 DEF ResyncsAreOnCourse, Undisturbed
    <3>2. IsTheOnly(t)' /\ \A k \in 1..Len(inbox') : RequestIsOf(t, inbox[k])'
      BY <2>1, <3>1 DEF OnCourse, IsTheOnly, RequestIsOf, Ready
    <3>3. StoreIsOnCourse(job[t])'
      BY <2>1, <3>1 DEF OnCourse, StoreIsOnCourse, Left, Missed, Stored, Searchable, Ids
    <3> QED
      BY <3>2, <3>3 DEF OnCourse
  <2> QED
    BY <2>2 DEF ResyncsAreOnCourse, OnCourse
<1>2. CASE \/ \E t \in Requests, kind \in {"add", "search"}, id \in Ids,
                 picture \in Sent, link \in BOOLEAN :
                StartSave(t, kind, id, picture, link)
           \/ \E id \in Ids : AddedWithoutFile(id) \/ Destroy(id)
  BY <1>2, BeginOnCourse
<1>3. CASE \E t \in Requests : StartResync(t)
  BY <1>3, StartOnCourse
<1>4. CASE \E t \in Requests : Step(t)
  BY <1>4, OthersOnCourse, AskOnCourse, PostOnCourse, AnswerOnCourse, ReadOnCourse
     DEF Step
<1>5. CASE Serve \/ LoseRequest
  BY <1>5, ServeOnCourse, LoseOnCourse
<1> QED
  BY <1>1, <1>2, <1>3, <1>4, <1>5 DEF Next

\* A resync that is alone returns only where it has no note left to add.
LEMMA OnlyFinishes ==
    ASSUME IInv, ResyncsAreOnCourse, [Next]_vars, NEW t \in Requests,
           Undisturbed(t), job'[t].pc = "done"
    PROVE  FinishResync(t)
<1>1. job[t] \in Job /\ job \in [Requests -> Job] /\ ~Ready(t) /\ job[t].pc # "done"
  BY DEF IInv, TypeOK, ResyncsAreOnCourse, OnCourse, IsTheOnly, Ready, Finished
<1>2. Disturbed(job[t]).pc = job[t].pc
  BY <1>1 DEF Disturbed, Job
<1>3. CASE UNCHANGED vars \/ LoseRequest
  BY <1>1, <1>3 DEF vars, LoseRequest
<1>4. CASE \E id \in Ids : AddedWithoutFile(id) \/ Destroy(id)
  BY <1>1, <1>2, <1>4 DEF AddedWithoutFile, Destroy, Disturb
<1>5. CASE \E u \in Requests, kind \in {"add", "search"}, id \in Ids,
              picture \in Sent, link \in BOOLEAN :
             StartSave(u, kind, id, picture, link)
  <2>1. PICK u \in Requests : Ready(u) /\ \E j : Begin(u, j)
    BY <1>5 DEF StartSave
  <2> QED
    BY <1>1, <1>2, <2>1 DEF Begin
<1>6. CASE \E u \in Requests : StartResync(u)
  <2>1. PICK u \in Requests : Ready(u) /\ \E j : Begin(u, j)
    BY <1>6 DEF StartResync
  <2> QED
    BY <1>1, <1>2, <2>1 DEF Begin
<1>7. CASE Serve
  <2> DEFINE r == Head(inbox)
  <2>1. PICK outcome \in Outcomes(r) :
          job' = IF r.from = Nobody THEN job
                 ELSE [job EXCEPT ![r.from].pc = "answered",
                         ![r.from].answer = outcome[1],
                         ![r.from].todo = IF r.op = "list" THEN Stored ELSE @]
    BY <1>7 DEF Serve
  <2> HIDE DEF r
  <2>2. job'[t].pc \in {job[t].pc, "answered"}
    BY <1>1, <2>1 DEF Job
  <2> QED
    BY <1>1, <2>2
<1>8. CASE \E u \in Requests : Step(u)
  <2>1. PICK u \in Requests : Step(u)
    BY <1>8
  <2>2. u = t
    BY <1>1, <2>1, StepsAlone
  <2>3. job[t].pc \in {"next", "wait", "answered"} /\ job[t].kind = "resync"
    BY DEF ResyncsAreOnCourse, OnCourse, IsTheOnly, Undisturbed
  <2>4. ~(\/ FetchLink(t) \/ OpenScratch(t) \/ CloseScratch(t) \/ ConvertToJpg(t)
          \/ ConvertToBmp(t) \/ PostPicture(t) \/ ReceiveAnswer(t))
    BY <2>3 DEF FetchLink, OpenScratch, CloseScratch, ConvertToJpg, ConvertToBmp,
       PostPicture, ReceiveAnswer
  <2>5. ~(Raise(t) \/ GiveUp(t))
    BY <1>1 DEF Raise, GiveUp, Fails, Rest
  <2>6. ~(AskForList(t) \/ PostNext(t) \/ NoteAnswer(t) \/ ReadNotes(t))
    BY <1>1 DEF AskForList, PostNext, NoteAnswer, ReadNotes, Goto, Job
  <2> QED
    BY <2>1, <2>2, <2>4, <2>5, <2>6 DEF Step
<1> QED
  BY <1>3, <1>4, <1>5, <1>6, <1>7, <1>8 DEF Next

\* A resync that nothing ran beside leaves at the image server the pictures of
\* the searchable notes, those it was refused excepted, and nothing else,
\* whatever was stored, late or lost before it (note.rb:942-961).
THEOREM ResyncsSynchronize == Spec => ResyncSynchronizes
<1>1. Init => ResyncsAreOnCourse
  BY DEF Init, ResyncsAreOnCourse, OnCourse, Undisturbed, Rest
<1>2. ASSUME IInv, ResyncsAreOnCourse, [Next]_vars
      PROVE  [\A t \in Requests :
                job[t].kind = "resync" /\ job'[t].pc = "done" /\ job[t].alone =>
                  /\ Stored' \subseteq Searchable'
                  /\ Searchable' \ job[t].refused \subseteq Stored'
                  /\ \A id \in Stored' : images'[id] = bmp'[id]]_vars
  <2> SUFFICES ASSUME NEW t \in Requests, Undisturbed(t), job'[t].pc = "done"
               PROVE  /\ Stored' \subseteq Searchable'
                      /\ Searchable' \ job[t].refused \subseteq Stored'
                      /\ \A id \in Stored' : images'[id] = bmp'[id]
    BY DEF Undisturbed
  <2>1. FinishResync(t)
    BY <1>2, OnlyFinishes
  <2>2. job[t].pc = "next" /\ job[t].op = "add" /\ job[t].todo = {}
    BY <2>1 DEF FinishResync
  <2>3. /\ Stored \subseteq Searchable
        /\ Searchable \ job[t].refused \subseteq Stored
        /\ \A id \in Stored : images[id] = bmp[id]
    BY <1>2, <2>2 DEF ResyncsAreOnCourse, OnCourse, StoreIsOnCourse, Left, Missed
  <2>4. UNCHANGED <<notes, images, bmp>>
    BY <2>1 DEF FinishResync, files, server
  <2> QED
    BY <2>3, <2>4 DEF Stored, Searchable, Ids
<1> QED
  BY <1>1, <1>2, InductiveInvariant, NextOnCourse, PTL DEF Spec, ResyncSynchronizes

=============================================================================

---------------------------- MODULE NotePictures ----------------------------
(***************************************************************************)
(* How the web site brings the picture of a note to its places: the        *)
(* actions added, search and destroy of website/app/controllers/notes.rb,  *)
(* save_image and resync_image_db of website/app/models/note.rb, and the   *)
(* client of the image server, website/lib/http_image_db.rb.               *)
(*                                                                         *)
(* The site handles requests at the same time (config/init.rb:20), the     *)
(* image server one after the other.  The server is here what DBServer     *)
(* makes of it: an add is refused with or without an image in memory, a    *)
(* remove leaves nothing under its label whatever it answers.              *)
(*                                                                         *)
(* A request is a record in job.  It works with the pictures in the files  *)
(* scratch and scratch2, which all of them share, and of each note.        *)
(***************************************************************************)
EXTENDS Integers, Sequences, FiniteSets

CONSTANTS
    Requests,     \* the threads of the site
    Pictures,     \* what convert can read
    NotAPicture,  \* and what it cannot
    Sent,         \* what clients send
    Mixed,        \* parts of several files, or of one
    NoPicture,    \* no file, or no image under a label
    Nobody,       \* the client of a request it no longer waits for
    MaxNotes,     \* bound on the notes ever made
    MaxStarts,    \* bound on the requests ever made
    MaxInbox      \* bound on the requests at the image server

ASSUME SentAssumption ==
    Sent \subseteq Pictures \union {NotAPicture} /\ NoPicture \notin Sent
ASSUME NobodyAssumption == Nobody \notin Requests
ASSUME BoundsAssumption == {MaxNotes, MaxStarts, MaxInbox} \subseteq Nat

VARIABLES
    notes,        \* id -> is there a row, and is promoted 1 in it
    scratch,      \* the file all pictures are converted from
    scratch2,     \* the file all links are fetched to
    jpg, bmp,     \* id -> the picture in public/imagedb/
    job,          \* thread -> the request it handles
    inbox,        \* what the image server has not read or not answered
    images,       \* the image server's database: label -> picture
    started,      \* how many requests were made
    \* history
    own,          \* id -> the pictures sent for it
    blurred       \* the notes whose picture was saved beside another

files == <<scratch, scratch2, jpg, bmp>>
server == <<inbox, images>>
history == <<own, blurred>>
vars == <<notes, files, job, server, started, history>>

Ids == 1..MaxNotes
Contents == Pictures \union {NotAPicture, Mixed}
Partial(t) == <<"partly written by", t>>

Saving == {"fetch", "open", "write", "jpg", "bmp"}
Finished == {"done", "failed"}
Steps == Saving \union Finished \union {"post", "wait", "answered", "next"}

Rest(pc) == [pc |-> pc, kind |-> "none", id |-> 0, content |-> NoPicture,
             op |-> "none", todo |-> {}, refused |-> {}, answer |-> "none",
             alone |-> TRUE]

Job == [pc: Steps, kind: {"none", "add", "search", "resync"}, id: Ids \union {0},
        content: Contents \union {NoPicture},
        op: {"none", "add", "match", "list", "remove"},
        todo: SUBSET Ids, refused: SUBSET Ids,
        answer: {"none", "ok", "refused"}, alone: BOOLEAN]

Request == [from: Requests \union {Nobody}, op: {"add", "match", "list", "remove"},
            id: Ids \union {0}, picture: Contents \union {NoPicture}]

TypeOK ==
    /\ notes \in [Ids -> {"none", "private", "searchable", "destroyed"}]
    /\ scratch \in Contents \union {NoPicture} \union {Partial(t) : t \in Requests}
    /\ scratch2 \in Contents \union {NoPicture}
    /\ {jpg, bmp, images} \subseteq [Ids -> Contents \union {NoPicture}]
    /\ job \in [Requests -> Job]
    /\ inbox \in Seq(Request) /\ Len(inbox) <= MaxInbox
    /\ started \in 0..MaxStarts
    /\ own \in [Ids -> SUBSET Sent]
    /\ blurred \subseteq Ids

Init ==
    /\ notes = [id \in Ids |-> "none"]
    /\ scratch = NoPicture /\ scratch2 = NoPicture
    /\ jpg = [id \in Ids |-> NoPicture] /\ bmp = jpg
    /\ job = [t \in Requests |-> Rest("done")]
    /\ inbox = <<>>
    /\ images = [id \in Ids |-> NoPicture]
    /\ started = 0
    /\ own = [id \in Ids |-> {}] /\ blurred = {}

Ready(t) == job[t].pc \in Finished
NextId(id) == notes[id] = "none" /\ \A i \in Ids : i < id => notes[i] # "none"
Exists(id) == notes[id] \in {"private", "searchable"}
Searchable == {id \in Ids : notes[id] = "searchable"}
Lowest(ids) == {i \in ids : \A j \in ids : i <= j}
FilesAreMixed(t) == \E u \in Requests \ {t} : job[u].pc \in Saving

\* A request that begins is noticed by those that hoped to be alone.
Disturbed(j) ==
    IF j.pc \in Saving \/ j.kind = "resync" THEN [j EXCEPT !.alone = FALSE] ELSE j
Counted == started < MaxStarts /\ started' = started + 1
Begin(t, j) == Counted /\ job' = [u \in Requests |-> IF u = t THEN j ELSE Disturbed(job[u])]
Disturb == Counted /\ job' = [u \in Requests |-> Disturbed(job[u])]

Goto(t, pc) == job' = [job EXCEPT ![t].pc = pc]
Fails(t) == job' = [job EXCEPT ![t] = Rest("failed")]
Succeeds(t) == job' = [job EXCEPT ![t] = Rest("done")]

-----------------------------------------------------------------------------
(* The note's row.                                                         *)

\* added with a file, for a new note or one it names, and search, always for a
\* new one.  Note.set and save_finalized make the row before the picture.
StartSave(t, kind, id, picture, link) ==
    /\ Ready(t)
    /\ NextId(id) \/ (kind = "add" /\ Exists(id))
    /\ notes' = [notes EXCEPT ![id] = IF kind = "add" THEN "searchable" ELSE "private"]
    /\ own' = [own EXCEPT ![id] = @ \union {picture}]
    /\ Begin(t, [Rest(IF link THEN "fetch" ELSE "open") EXCEPT
                   !.kind = kind, !.id = id, !.content = picture,
                   !.alone = ~FilesAreMixed(t)])
    /\ UNCHANGED <<files, server, blurred>>

\* added without a file: a change of the text, or a link alone.  The row is
\* saved as promoted and save_image is not called.
AddedWithoutFile(id) ==
    /\ NextId(id) \/ Exists(id)
    /\ notes' = [notes EXCEPT ![id] = "searchable"]
    /\ Disturb
    /\ UNCHANGED <<files, server, history>>

Destroy(id) ==
    /\ Exists(id)
    /\ notes' = [notes EXCEPT ![id] = "destroyed"]
    /\ Disturb
    /\ UNCHANGED <<files, server, history>>

-----------------------------------------------------------------------------
(* save_image.                                                             *)

FetchLink(t) ==
    /\ job[t].pc = "fetch"
    /\ scratch2' = job[t].content
    /\ job' = [job EXCEPT ![t].pc = "open", ![t].content = NoPicture]
    /\ UNCHANGED <<started, notes, scratch, jpg, bmp, server, history>>

\* Mutant of the next: the wrong one of the two files.
HandleOfScratch(t) == IF job[t].content = NoPicture THEN scratch ELSE job[t].content

\* What handle.read gives: the upload's own file, or scratch2.
HandleRead(t) == IF job[t].content = NoPicture THEN scratch2 ELSE job[t].content

\* File.new("scratch") does not truncate; convert ignores what is left of a
\* longer picture behind this one.
OpenScratch(t) ==
    /\ job[t].pc = "open"
    /\ scratch' = Partial(t)
    /\ job' = [job EXCEPT ![t].pc = "write", ![t].content = HandleRead(t)]
    /\ UNCHANGED <<started, notes, scratch2, jpg, bmp, server, history>>

\* Mutant of the next: the file is not closed, so nothing of it is flushed.
LeaveScratchOpen(t) ==
    /\ job[t].pc = "write"
    /\ job' = [job EXCEPT ![t].pc = "jpg", ![t].content = NoPicture]
    /\ scratch' \in {bmp[id] : id \in Ids}
    /\ UNCHANGED <<started, notes, scratch2, jpg, bmp, server, history>>

CloseScratch(t) ==
    /\ job[t].pc = "write"
    /\ job' = [job EXCEPT ![t].pc = "jpg", ![t].content = NoPicture]
    /\ scratch' \in {job[t].content} \union (IF scratch = Partial(t) THEN {} ELSE {Mixed})
    /\ UNCHANGED <<started, notes, scratch2, jpg, bmp, server, history>>

\* convert turns a whole picture into a picture; of another file it writes
\* nothing, and what was there stays, or something.
Converted(old) ==
    CASE scratch \in Pictures -> {scratch}
      [] scratch = NotAPicture -> {old}
      [] OTHER -> {Mixed, old}

Blur(t) == blurred' = IF job[t].alone THEN blurred ELSE blurred \union {job[t].id}

ConvertToJpg(t) ==
    /\ job[t].pc = "jpg"
    /\ \E picture \in Converted(jpg[job[t].id]) :
         /\ jpg' = [jpg EXCEPT ![job[t].id] = picture]
         /\ IF picture = NoPicture THEN Fails(t) ELSE Goto(t, "bmp")
    /\ Blur(t)
    /\ UNCHANGED <<started, notes, scratch, scratch2, bmp, server, own>>

\* Whether there is a bmp is not looked at: the check is for the jpg.
ConvertToBmp(t) ==
    /\ job[t].pc = "bmp"
    /\ \E picture \in Converted(bmp[job[t].id]) :
         bmp' = [bmp EXCEPT ![job[t].id] = picture]
    /\ job' = [job EXCEPT ![t].pc = "post", ![t].alone = TRUE,
                 ![t].op = IF job[t].kind = "add" THEN "add" ELSE "match"]
    /\ Blur(t)
    /\ UNCHANGED <<started, notes, scratch, scratch2, jpg, server, own>>

-----------------------------------------------------------------------------
(* The client of the image server.                                         *)

Post(t, op, id) ==
    /\ Len(inbox) < MaxInbox
    /\ inbox' = Append(inbox, [from |-> t, op |-> op, id |-> id,
                               picture |-> IF op \in {"add", "match"} THEN bmp[id]
                                           ELSE NoPicture])

\* add_image or match_image with the note's bmp.
PostPicture(t) ==
    /\ job[t].pc = "post"
    /\ bmp[job[t].id] # NoPicture
    /\ Post(t, job[t].op, job[t].id)
    /\ Goto(t, "wait")
    /\ UNCHANGED <<started, notes, files, images, history>>

\* An exception: the link cannot be fetched, File.open found no bmp, or nobody
\* accepts connections.
Raise(t) ==
    /\ job[t].pc \in {"fetch", "post", "next"}
    /\ Fails(t)
    /\ UNCHANGED <<started, notes, files, server, history>>

\* Mutant of the next: the exception is rescued where the answer is looked at,
\* so resync goes on.
GoOn(t) ==
    /\ job[t].pc = "wait"
    /\ job' = [job EXCEPT ![t].pc = "answered", ![t].answer = "refused"]
    /\ inbox' = SelectSeq(inbox, LAMBDA r : r.from # t)
    /\ UNCHANGED <<started, notes, files, images, history>>

\* The timeout, or the end of the connection: post is rescued, its result is nil
\* and nil has no body.  The server does not notice.
GiveUp(t) ==
    /\ job[t].pc = "wait"
    /\ Fails(t)
    /\ inbox' = [k \in 1..Len(inbox) |-> IF inbox[k].from = t
                                         THEN [inbox[k] EXCEPT !.from = Nobody]
                                         ELSE inbox[k]]
    /\ UNCHANGED <<started, notes, files, images, history>>

\* save_image does not look at what add_image returned, and a match that failed
\* has no results.
ReceiveAnswer(t) ==
    /\ job[t].pc = "answered" /\ job[t].kind # "resync"
    /\ Succeeds(t)
    /\ UNCHANGED <<started, notes, files, server, history>>

-----------------------------------------------------------------------------
(* resync_image_db.                                                        *)

StartResync(t) ==
    /\ Ready(t)
    /\ Begin(t, [Rest("next") EXCEPT !.kind = "resync", !.op = "list",
                   !.alone = inbox = <<>> /\ \A u \in Requests : Ready(u)])
    /\ UNCHANGED <<notes, files, server, history>>

AskForList(t) ==
    /\ job[t].pc = "next" /\ job[t].op = "list"
    /\ Post(t, "list", 0)
    /\ Goto(t, "wait")
    /\ UNCHANGED <<started, notes, files, images, history>>

PostNext(t) ==
    /\ job[t].pc = "next" /\ job[t].op \in {"remove", "add"}
    /\ \E id \in Lowest(job[t].todo) :
         /\ job[t].op = "add" => bmp[id] # NoPicture
         /\ Post(t, job[t].op, id)
    /\ Goto(t, "wait")
    /\ UNCHANGED <<started, notes, files, images, history>>

\* Whether the image server did what it was asked to is not looked at.
NoteAnswer(t) ==
    /\ job[t].pc = "answered" /\ job[t].kind = "resync"
    /\ LET last == IF job[t].op = "list" THEN {} ELSE Lowest(job[t].todo) IN
       job' = [job EXCEPT ![t].pc = "next", ![t].answer = "none",
                 ![t].op = IF @ = "list" THEN "remove" ELSE @,
                 ![t].todo = @ \ last,
                 ![t].refused = IF job[t].op = "add" /\ job[t].answer = "refused"
                                THEN @ \union last ELSE @]
    /\ UNCHANGED <<started, notes, files, server, history>>

\* Mutant of the next: the pictures of searches, too.
AllNotes == {id \in Ids : Exists(id)}

\* Note.all, of which those are added that are searchable.
NotesToAdd == Searchable

ReadNotes(t) ==
    /\ job[t].pc = "next" /\ job[t].op = "remove" /\ job[t].todo = {}
    /\ job' = [job EXCEPT ![t].op = "add", ![t].todo = NotesToAdd]
    /\ UNCHANGED <<started, notes, files, server, history>>

FinishResync(t) ==
    /\ job[t].pc = "next" /\ job[t].op = "add" /\ job[t].todo = {}
    /\ Succeeds(t)
    /\ UNCHANGED <<started, notes, files, server, history>>

-----------------------------------------------------------------------------
(* The image server.                                                       *)

Stored == {id \in Ids : images[id] # NoPicture}

\* What an add or a remove may leave under its label, with its answer.
Outcomes(r) ==
    CASE r.op = "add" ->
           {<<"refused", images[r.id]>>} \union
             (IF r.id \in Stored THEN {}
              ELSE {<<"ok", r.picture>>, <<"refused", r.picture>>})
      [] r.op = "remove" ->
           {<<"refused", NoPicture>>}
             \union (IF r.id \in Stored THEN {<<"ok", NoPicture>>} ELSE {})
      [] r.op = "match" -> {<<"ok", NoPicture>>, <<"refused", NoPicture>>}
      [] OTHER -> {<<"ok", NoPicture>>}

Serve ==
    /\ inbox # <<>>
    /\ inbox' = Tail(inbox)
    /\ LET r == Head(inbox) IN \E outcome \in Outcomes(r) :
         /\ images' = IF r.op \in {"add", "remove"}
                      THEN [images EXCEPT ![r.id] = outcome[2]] ELSE images
         /\ job' = IF r.from = Nobody THEN job
                   ELSE [job EXCEPT ![r.from].pc = "answered",
                           ![r.from].answer = outcome[1],
                           ![r.from].todo = IF r.op = "list" THEN Stored ELSE @]
    /\ UNCHANGED <<started, notes, files, history>>

\* The connection ends before the request is understood.
LoseRequest ==
    /\ inbox # <<>>
    /\ inbox' = Tail(inbox)
    /\ UNCHANGED <<started, notes, files, job, images, history>>

Step(t) ==
    \/ FetchLink(t) \/ OpenScratch(t) \/ CloseScratch(t)
    \/ ConvertToJpg(t) \/ ConvertToBmp(t)
    \/ PostPicture(t) \/ Raise(t) \/ GiveUp(t) \/ ReceiveAnswer(t)
    \/ AskForList(t) \/ PostNext(t) \/ NoteAnswer(t) \/ ReadNotes(t)
    \/ FinishResync(t)

Next ==
    \/ \E t \in Requests, kind \in {"add", "search"}, id \in Ids,
          picture \in Sent, link \in BOOLEAN :
         StartSave(t, kind, id, picture, link)
    \/ \E id \in Ids : AddedWithoutFile(id) \/ Destroy(id)
    \/ \E t \in Requests : StartResync(t) \/ Step(t)
    \/ Serve
    \/ LoseRequest

Spec == Init /\ [][Next]_vars

-----------------------------------------------------------------------------
(* Properties.                                                             *)

\* The files of a note, and the image server under its label, hold nothing but
\* pictures sent for that note, also after timeouts, late adds and resyncs,
\* unless two requests were inside save_image at the same time: the shared files
\* scratch and scratch2 are the only way pictures get to other notes
\* (note.rb:679-742).
PicturesStayApart ==
    \A id \in Ids \ blurred :
        {jpg[id], bmp[id], images[id]} \subseteq own[id] \union {NoPicture}

\* resync_image_db that returned, and that nothing ran beside, leaves under the
\* labels of the searchable notes their pictures and nothing else, but for notes
\* the server refused: images of destroyed notes, late adds and missed ones are
\* repaired (note.rb:942-961).
ResyncSynchronizes ==
    [][\A t \in Requests :
         job[t].kind = "resync" /\ job'[t].pc = "done" /\ job[t].alone =>
           /\ Stored' \subseteq Searchable'
           /\ Searchable' \ job[t].refused \subseteq Stored'
           /\ \A id \in Stored' : images'[id] = bmp'[id]]_vars

\* The picture of a search is matched and never added, by its request or by a
\* resync (notes.rb:122-127, note.rb:954-957).
SearchesStayPrivate == \A id \in Stored : notes[id] # "private"
=============================================================================

------------------------------ MODULE DBServer ------------------------------
(***************************************************************************)
(* The image server: engine/src/DBServer.cpp over an ImageDB, as           *)
(* engine/src/db-server.cpp starts it.  Abyss runs one connection at a     *)
(* time (HTTPServer::run), so a request is handled from its first part to  *)
(* its answer before the next one; what a handler interleaves with is the  *)
(* client's chunks, the disk and the death of the process.                 *)
(*                                                                         *)
(* The multipart parser appears as what it does to a part: delivers it in  *)
(* one or two chunks, misses a delimiter that lies across two reads of the *)
(* connection and swallows every later part, calls back with a negative    *)
(* length when the first read of a part is shorter than a delimiter, or    *)
(* stops because the connection ended (MultipartParser.cpp:190-267).       *)
(*                                                                         *)
(* GET /list, GET of the three forms and unknown paths change no state of  *)
(* the program and have no action here.                                    *)
(***************************************************************************)
EXTENDS Integers, Sequences, FiniteSets

CONSTANTS
    MaxId, Labels, EmptyLabel, JunkLabel, NoLabel,
    FeatureSets, NumFeatures, NoFile, NoImage,
    Pieces,       \* label -> the labels whose text is a part of its text
    LongLabels,   \* the labels longer than the form's delimiter
    Exts,         \* the extensions of /var/tmp/image.<ext>
    NoExt,        \* the one of a part with no file name or no dot in it
    TornImage,    \* a file that holds part of an image, or garbage
    InDoubt       \* in properties: a failed or unanswered request about a label

VARIABLES
    \* the ImageDB object and its file
    m_labels, m_uncoalesced_features, m_kd_tree, m_need_to_coalesce,
    m_id_counter, m_filename, disk, pc,
    \* the handler that has m_mutex
    phase,              \* where it is: see Phases
    handler,            \* "add", "del", "match", or "none"
    parts,              \* the parts of the request not received yet
    begun,              \* a chunk of the first of them was delivered
    \* the globals the part callbacks work on, and the upload files
    xx_image_label, xx_image_file, xx_image_filename, image_files,
    response,           \* the answer to the last request, until the next one
    \* history, for the properties
    sent,               \* what the request carries, and did it all arrive
    promised            \* label -> image by the last add or del of it, InDoubt
                        \* if it changed memory and was not answered 200

DB == INSTANCE ImageDB

dbvars == <<m_labels, m_uncoalesced_features, m_kd_tree, m_need_to_coalesce,
            m_id_counter, m_filename, disk, pc>>
uploads == <<xx_image_label, xx_image_file, xx_image_filename, image_files>>
request == <<handler, parts, begun, sent>>
vars == <<dbvars, phase, request, uploads, response, promised>>

ASSUME PiecesAssumption == Pieces \in [Labels -> SUBSET Labels]
ASSUME LongLabelsAssumption == LongLabels \subseteq Labels
ASSUME UploadsAssumption ==
    NoExt \in Exts /\ TornImage \notin FeatureSets \union {NoImage}
ASSUME DatabaseAssumption ==
    /\ MaxId \in Nat
    /\ Labels \subseteq DB!Ids
    /\ {EmptyLabel, JunkLabel, NoLabel} \intersect DB!Ids = {}
    /\ EmptyLabel # JunkLabel /\ EmptyLabel # NoLabel /\ JunkLabel # NoLabel
    /\ NumFeatures \in [FeatureSets -> Nat] /\ NoImage \notin FeatureSets
    /\ NoFile \notin DB!File

ClientLabels == DB!ClientLabels
Phases == {"down", "starting", "accept", "receiving", "processing", "changed",
           "saving"}

ImagePart(ext, image) == [name |-> "image", ext |-> ext, image |-> image]
LabelPart(label) == [name |-> "label", ext |-> NoExt, label |-> label]

\* HTTPImageDB posts an image and a label, or one of them; a form or another
\* client may leave parts out.
ImageForms == {<<ImagePart(x, i)>> : x \in Exts, i \in FeatureSets}
LabelForms == {<<LabelPart(l)>> : l \in Labels}
TwoPartForms == {i \o l : i \in ImageForms, l \in LabelForms}
                  \union {l \o i : i \in ImageForms, l \in LabelForms}
Bodies(h) ==
    CASE h = "add" -> {<<>>} \union ImageForms \union LabelForms \union TwoPartForms
      [] h = "del" -> {<<>>} \union LabelForms
      [] h = "match" -> {<<>>} \union ImageForms

SentBy(body) ==
    [label |-> IF \E k \in 1..Len(body) : body[k].name = "label"
               THEN (CHOOSE p \in {body[k] : k \in 1..Len(body)} : p.name = "label").label
               ELSE EmptyLabel,
     image |-> IF \E k \in 1..Len(body) : body[k].name = "image"
               THEN (CHOOSE p \in {body[k] : k \in 1..Len(body)} : p.name = "image").image
               ELSE NoImage,
     intact |-> TRUE]

NoResponse == [handler |-> "none", status |-> 0]

Live == DB!ImagesOf(m_labels, m_uncoalesced_features)
Saved == DB!ImagesOf(disk.labels, disk.feats)

-----------------------------------------------------------------------------

Init ==
    /\ DB!Init
    /\ phase = "down"
    /\ handler = "none" /\ parts = <<>> /\ begun = FALSE
    /\ sent = SentBy(<<>>)
    /\ xx_image_label = EmptyLabel
    /\ xx_image_file = FALSE
    /\ xx_image_filename = NoExt
    /\ image_files = [x \in Exts |-> NoImage]
    /\ response = NoResponse
    /\ promised = IF disk = NoFile THEN [l \in ClientLabels |-> NoImage] ELSE Saved

\* main: db.load(db_path), whatever it returns...
StartLoads ==
    /\ phase = "down"
    /\ DB!Load
    /\ phase' = "starting"
    /\ UNCHANGED <<request, uploads, response, promised>>

\* ... then db.coalesce() and the server thread.
StartCoalesces ==
    /\ phase = "starting"
    /\ DB!Coalesce
    /\ phase' = "accept"
    /\ UNCHANGED <<request, uploads, response, promised>>

\* The parser and the parts are locals of the handler.
HandlerReturns ==
    /\ handler' = "none" /\ parts' = <<>> /\ begun' = FALSE
    /\ sent' = SentBy(<<>>)

Answer(h, status) ==
    /\ response' = [handler |-> h, status |-> status]
    /\ phase' = "accept"
    /\ HandlerReturns

\* parse_init or the first begin_next_part failed.
RefuseRequest(h) ==
    /\ phase = "accept"
    /\ Answer(h, 400)
    /\ UNCHANGED <<dbvars, uploads, promised>>

\* Mutant of the next: takes the last upload's file for this one's.
PrepareWithOpenFile(h, body) ==
    /\ xx_image_label' = EmptyLabel
    /\ xx_image_filename' = IF h = "del" THEN xx_image_filename
                            ELSE IF body = <<>> THEN NoExt ELSE Head(body).ext
    /\ UNCHANGED xx_image_file

\* Mutant of the next: the label of the last request is still there.
PrepareWithOldLabel(h, body) ==
    /\ UNCHANGED xx_image_label
    /\ IF h = "del"
       THEN UNCHANGED <<xx_image_file, xx_image_filename>>
       ELSE /\ xx_image_file' = FALSE
            /\ xx_image_filename' = IF body = <<>> THEN NoExt ELSE Head(body).ext

\* prepare_to_receive_image or prepare_to_receive_label.
PrepareToReceive(h, body) ==
    /\ xx_image_label' = EmptyLabel
    /\ IF h = "del"
       THEN UNCHANGED <<xx_image_file, xx_image_filename>>
       ELSE /\ xx_image_file' = FALSE
            /\ xx_image_filename' = IF body = <<>> THEN NoExt ELSE Head(body).ext

AcceptRequest(h, body) ==
    /\ phase = "accept"
    /\ h = "add" => m_id_counter \in DB!Ids      \* the bound MaxId
    /\ phase' = "receiving"
    /\ handler' = h
    /\ parts' = body
    /\ begun' = FALSE
    /\ sent' = SentBy(body)
    /\ PrepareToReceive(h, body)
    /\ response' = NoResponse
    /\ UNCHANGED <<dbvars, image_files, promised>>

\* image_part_callback appends to the open file; its first call opens the file
\* of this request, which truncates it.
StoreChunk(content) ==
    IF xx_image_file /\ ~begun          \* appended to the picture that is there
    THEN UNCHANGED <<xx_image_file, image_files>>
    ELSE /\ xx_image_file' = TRUE
         /\ image_files' = [image_files EXCEPT ![xx_image_filename] = content]

\* A part of the form arrives, or all of an image part but its last chunk.
ReceiveImage(last) ==
    /\ phase = "receiving"
    /\ parts # <<>> /\ Head(parts).name = "image"
    /\ last \/ ~begun                       \* two chunks stand for many
    /\ StoreChunk(IF last THEN Head(parts).image ELSE TornImage)
    /\ begun' = ~last
    /\ parts' = IF last THEN Tail(parts) ELSE parts
    /\ UNCHANGED <<dbvars, phase, handler, sent, xx_image_label,
                   xx_image_filename, response, promised>>

\* Each chunk of a label replaces the one before.  The first chunk leaves a
\* delimiter's length of bytes behind, so only a longer label has a second.
LastChunkOf(label) ==
    {label} \union (IF label \in LongLabels THEN Pieces[label] ELSE {})

ReceiveLabel ==
    /\ phase = "receiving"
    /\ parts # <<>> /\ Head(parts).name = "label"
    /\ xx_image_label' \in LastChunkOf(Head(parts).label)
    /\ parts' = Tail(parts)
    /\ UNCHANGED <<dbvars, phase, handler, begun, sent, xx_image_file,
                   xx_image_filename, image_files, response, promised>>

\* The rest of the request is gone: the delimiter after a part lay across two
\* reads and what is behind it became the end of an image, or a label; or the
\* connection ended, or the next part's headers were not understood.  What is
\* left of a label is the line break behind it, or a piece.  The loop stops with
\* success = false, which nobody looks at.
LoseRest ==
    /\ phase = "receiving"
    /\ parts # <<>>
    /\ \/ /\ Head(parts).name = "image"
          /\ StoreChunk(TornImage)
          /\ UNCHANGED xx_image_label
       \/ /\ Head(parts).name = "label"
          /\ xx_image_label' \in {JunkLabel} \union Pieces[Head(parts).label]
          /\ UNCHANGED <<xx_image_file, image_files>>
       \/ UNCHANGED <<xx_image_label, xx_image_file, image_files>>
    /\ phase' = "processing"
    /\ parts' = <<>>
    /\ sent' = [sent EXCEPT !.intact = FALSE]
    /\ UNCHANGED <<dbvars, handler, begun, xx_image_filename, response, promised>>

\* Mutant of the next: waits for an image that was never sent.
FinishReceivingImage ==
    /\ phase = "receiving"
    /\ parts = <<>> /\ xx_image_file
    /\ phase' = "processing"
    /\ UNCHANGED <<dbvars, request, uploads, response, promised>>

\* finish_receiving_image closes the file but keeps the pointer to it.
FinishReceiving ==
    /\ phase = "receiving"
    /\ parts = <<>>
    /\ phase' = "processing"
    /\ UNCHANGED <<dbvars, request, uploads, response, promised>>

\* cvLoadImage and sift_features: no file gives nothing, a torn one nothing or
\* the features of some other picture.
CannotDecode == image_files[xx_image_filename] \in {NoImage, TornImage}

\* Mutant of the next: does not look whether cvLoadImage gave an image.
DecodedUnchecked ==
    IF image_files[xx_image_filename] = TornImage THEN FeatureSets
    ELSE {image_files[xx_image_filename]}

Decoded ==
    IF image_files[xx_image_filename] = TornImage THEN FeatureSets
    ELSE {image_files[xx_image_filename]} \ {NoImage}

Failure(h) == IF h = "add" THEN 400 ELSE 500

AddImage ==
    /\ phase = "processing" /\ handler = "add"
    /\ \E fs \in Decoded : DB!AddImageFeatures(xx_image_label, fs)
    /\ phase' = "changed"
    /\ UNCHANGED <<request, uploads, response, promised>>

DelImage ==
    /\ phase = "processing" /\ handler = "del"
    /\ DB!RemoveImage(xx_image_label)
    /\ phase' = "changed"
    /\ UNCHANGED <<request, uploads, response, promised>>

\* add_image_file or remove_image returned false, or do_match did.
RefuseImage ==
    /\ phase = "processing"
    /\ \/ handler = "add" /\ (CannotDecode \/ DB!label_exists(xx_image_label))
       \/ handler = "del" /\ ~DB!label_exists(xx_image_label)
       \/ handler = "match" /\ CannotDecode
    /\ Answer(handler, Failure(handler))
    /\ UNCHANGED <<dbvars, uploads, promised>>

MatchImage ==
    /\ phase = "processing" /\ handler = "match"
    /\ Decoded # {}
    /\ \E hits \in SUBSET DB!CurrentTree : DB!Match(hits)
    /\ Answer("match", 200)
    /\ UNCHANGED <<uploads, promised>>

SaveBegins ==
    /\ phase = "changed"
    /\ DB!SaveBegins
    /\ phase' = "saving"
    /\ UNCHANGED <<request, uploads, response, promised>>

\* The image is in memory, or gone from it, and the answer is a failure.
AnswerUnsaved ==
    /\ Answer(handler, Failure(handler))
    /\ promised' = [promised EXCEPT ![xx_image_label] = InDoubt]
    /\ UNCHANGED uploads

\* No file name, or fopen failed.
CannotSave == phase = "changed" /\ AnswerUnsaved /\ UNCHANGED dbvars

\* Mutant of the next: the result of save() is not looked at.
SaveFailsUnnoticed ==
    /\ phase = "saving"
    /\ DB!SaveFails
    /\ Answer(handler, 200)
    /\ UNCHANGED <<uploads, promised>>

SaveFails == phase = "saving" /\ DB!SaveFails /\ AnswerUnsaved

SaveFinishes ==
    /\ phase = "saving"
    /\ DB!SaveFinishes
    /\ Answer(handler, 200)
    /\ promised' = [promised EXCEPT ![xx_image_label] = Live[xx_image_label]]
    /\ UNCHANGED uploads

\* The process dies: killed, out of memory, or by the negative length process_part
\* computes for the first chunk of a label.
Crash ==
    /\ phase # "down"
    /\ DB!Crash
    /\ phase' = "down"
    /\ response' = NoResponse
    /\ promised' = IF phase \in {"changed", "saving"}
                   THEN [promised EXCEPT ![xx_image_label] = InDoubt] ELSE promised
    /\ HandlerReturns
    /\ xx_image_label' = EmptyLabel
    /\ xx_image_file' = FALSE
    /\ xx_image_filename' = NoExt
    /\ image_files' = IF phase = "receiving" /\ xx_image_file
                      THEN [image_files EXCEPT ![xx_image_filename] = TornImage]
                      ELSE image_files

ServerStep ==
    \/ StartLoads
    \/ StartCoalesces
    \/ \E last \in BOOLEAN : ReceiveImage(last)
    \/ ReceiveLabel
    \/ LoseRest
    \/ FinishReceiving
    \/ AddImage
    \/ DelImage
    \/ RefuseImage
    \/ MatchImage
    \/ SaveBegins
    \/ CannotSave
    \/ SaveFails
    \/ SaveFinishes

Next ==
    \/ \E h \in {"add", "del", "match"} :
         RefuseRequest(h) \/ \E body \in Bodies(h) : AcceptRequest(h, body)
    \/ ServerStep
    \/ Crash

\* The one server thread runs on, and a client that stops sending does not
\* stop it: Abyss times a read out, which is a case of LoseRest.  Nothing
\* starts a dead process again.
Fairness == WF_vars(phase # "down" /\ ServerStep)

Spec == Init /\ [][Next]_vars /\ Fairness

-----------------------------------------------------------------------------
(* Properties.                                                             *)

TypeOK ==
    /\ DB!TypeOK
    /\ phase \in Phases
    /\ handler \in {"none", "add", "del", "match"}
    /\ \E body \in Bodies("add"), k \in 1..3 : parts = SubSeq(body, k, Len(body))
    /\ begun \in BOOLEAN /\ xx_image_file \in BOOLEAN
    /\ xx_image_label \in ClientLabels
    /\ xx_image_filename \in Exts
    /\ image_files \in [Exts -> FeatureSets \union {NoImage, TornImage}]
    /\ sent \in [label: ClientLabels, image: FeatureSets \union {NoImage},
                 intact: BOOLEAN]
    /\ response \in [handler: {"none", "add", "del", "match"},
                     status: {0, 200, 400, 500}]
    /\ promised \in [ClientLabels -> FeatureSets \union {NoImage, InDoubt}]

\* An answer of 200 to an add or a del means the file now holds what memory
\* holds (handle_add_post and handle_del_post save before they answer,
\* DBServer.cpp:393-394, 482-483).  The one way out: an image was added under
\* an empty or a torn label, which load cannot read back.
OkMeansSaved ==
    phase = "accept" /\ response.status = 200 /\ response.handler # "match" =>
        \/ \E l \in DB!Unreadable : DB!label_exists(l)
        \/ DB!Loadable(disk) /\ Saved = Live

\* Whenever the file can be loaded, now or after any number of crashes, it has
\* for every label exactly what the last answered request about it left, but
\* for labels whose last request failed or was cut short: a failed save or a
\* crash puts its own label in doubt and no other (or makes the file
\* unreadable, all of it).
ReadableFileKeepsPromises ==
    DB!Loadable(disk) =>
        \A l \in ClientLabels : promised[l] \in {Saved[l], InDoubt}

\* A save fails while any image in memory has no features, whichever request
\* brought that image in (export_lowe_features_binary_f, imgfeatures.c:833):
\* no add or del is answered 200 until it has been removed.
OkMeansAllImagesHaveFeatures ==
    phase = "accept" /\ response.status = 200 /\ response.handler # "match" =>
        \A k \in 1..Len(m_uncoalesced_features) :
            NumFeatures[m_uncoalesced_features[k].features] > 0

\* An add that arrived whole saves, and is answered 200 for, the image and the
\* label of this request, though the upload file and the globals the callbacks
\* write to are shared by all requests (DBServer.cpp:53-55, 379, 574-611).  Of a
\* label longer than a delimiter it may store the last piece alone.
AddStoresWhatWasSent ==
    phase = "saving" /\ handler = "add" /\ sent.intact /\ sent.image # NoImage
    => /\ Live[xx_image_label] = sent.image
       /\ xx_image_label # sent.label =>
            sent.label \in LongLabels /\ xx_image_label \in Pieces[sent.label]

\* A process that could not load its file answers no add or del with 200, and
\* never touches the file again (save() has no file name, ImageDB.cpp:322).
UnloadedServerOnlyMatches ==
    [][phase # "down" /\ phase' # "down" /\ ~m_filename' =>
         /\ disk' = disk
         /\ response' # response => response'.status # 200 \/ response'.handler = "match"
      ]_vars

\* A request that was accepted is answered, unless the process dies: the
\* handlers return on every path and nothing they wait for is held by another.
RequestsAreAnswered ==
    phase = "receiving" ~> phase \in {"accept", "down"}
=============================================================================

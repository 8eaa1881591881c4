# ImageWiki: models, checks and proofs

ImageWiki finds the page about a thing from a photo of it. A C and C++ engine
(`src/engine/src`) extracts SIFT features from images, keeps them in one file,
and serves adding, deleting and matching over HTTP; a Merb web site
(`src/website`) stores notes and pictures and calls the engine. A Rails
application (`src/webapp`) and an iPhone client sit beside them. This directory
has TLA+ models of the engine and of what the site does with it, TLC runs over
them, and TLAPS proofs. `PROJECT.json` maps every definition to the lines it
models and lists the runs, mutants, hazards, findings and theorems.

## Inventory

| Part | State | Operations | What makes it hard, what makes it correct |
| --- | --- | --- | --- |
| Image database, `ImageDB.cpp` | label map, feature vector, tree and its dirty flag, id counter, file name; the file | add, remove, coalesce, match, save, load | the file is truncated in place and rewritten; a save can stop anywhere; load fills memory before it fails. Map, vector, tree and file must agree; a torn file must never be taken for a whole one |
| Feature files, `imgfeatures.c` | none | export, import | an image without features is refused in the middle of a save |
| Image server, `DBServer.cpp`, `db-server.cpp` | the `xx_image_*` globals, `/var/tmp/image.<ext>`, one mutex | POST /add, /del, /match; GET forms and /list | globals and upload file are shared by all requests; parts arrive in chunks, or not at all; memory changes before the save. 200 must mean saved, and what was sent must be what is stored |
| Multipart parser, `MultipartParser.cpp` | bytes read, position in the connection's buffer, kept bytes | preamble, headers, part, line | a read may end inside a delimiter or a line break. The form must be parsed as sent, in order, and the parser must stop |
| HTTP layer, `HTTPServer.cpp` | the connection's buffer | refill, get data, run | one connection at a time, with a read timeout |
| Command line tools, `db-*.cpp` | a database of their own, the same file | load, change, save | no lock against the server or one another: what is loaded must be whole, and only a stale view that is saved may lose images |
| Matching, `kdtree.c`, `minpq.c`, `utils.c` | heap, tree, `feature_data` | insert, extract; select by rank, build, best-bin-first search | growth of the array, equal values at a median, feature data borrowed for the search. Heap order; no feature lost, examined twice or left with another's data |
| Detection and transforms, `sift.c`, `xform.c` | none | numerical | floating point |
| Site image client, `http_image_db.rb` | none | add, remove, match, list | a 30 s timeout, after which the server still completes |
| Site notes: pictures, `notes.rb`, `note.rb` | rows, `scratch`, `scratch2`, jpg and bmp files | added, search, destroy, resync | scratch files for all requests, answers ignored. A picture belongs to its note; a resync repairs the rest |
| Site notes: views, `note.rb` | visits, relations, observers | show: `activity_remember`, `find_similar`, `memoize` | look, then create or destroy, in separate queries. The last visit stays, few rows repeat |
| Accounts and pages, `webapp`, iPhone | sessions, tables | pages | single queries |
| `src/sift` | | | an older copy of the engine |
| `*.js` | | | prototype, script.aculo.us, jQuery, OpenLayers and others, as published |

Interaction: the site posts forms to the server (`http_image_db.rb`); Abyss
hands the request to a handler; the handler drives the parser, which calls back
with chunks of each part; the callbacks write the upload file and the label;
the handler calls the database, which saves, or builds the tree and searches it;
the answer follows. `db-server` loads the file at its start; the tools load and
save it at any time.

## Modules

| Module | What it is | Uses |
| --- | --- | --- |
| `ImageStore` | abstract: a map from labels to images, its saved copy, and a restart that brings back the copy or serves nothing | |
| `ImageDB` | the class `ImageDB` and its file; implements `ImageStore` | |
| `DBServer` | the server: one request from accept to answer | `DB == INSTANCE ImageDB` |
| `DBTools` | a server and the command line tools over one file | two instances of `ImageDB`, `Server` and `Tool` |
| `MultipartParser` | the parser over the reads of the connection | |
| `PriorityQueue` | abstract: a set of entries, extract takes one with a least key | |
| `MinPQ` | the heap of `minpq.c`; implements `PriorityQueue` | |
| `RankSelect` | `rank_select`, its medians, its partition and its recursion | |
| `KDSearch` | building the tree and searching it | extends `RankSelect`, `PQ == INSTANCE PriorityQueue` |
| `NotePictures` | pictures of notes: the site's requests, the client and the image server as what `DBServer` makes of it | |
| `NoteViews` | what showing a note does to visits and relations | |
| `*_proofs` | theorems about the module named; `KDSearch_proofs` also about `RankSelect` | |
| `MC*` | instances for TLC | |

### ImageDB

Variables have the members' names. `m_labels` is a function from ids to labels,
`m_uncoalesced_features` a sequence, `m_kd_tree` the set of images the tree
indexes: the tree is built from `m_coalesced_features`, a copy, so a remove
leaves it as it was. `pc` says whether the process is down, idle or inside
`save`; `disk` is the file. A file is its count, its header map and its feature
records.

* `save` is three steps: `SaveBegins` (fopen truncates), then `SaveFinishes`,
  `SaveFails` or `Crash`. A stopped save leaves any of `Prefixes`: nothing, part
  of the header (the last label perhaps torn: `JunkLabel`), or all of the header
  and some images. stdio decides which, so the model does not.
* `Loadable` is what `load` returns: as many entries and as many feature blocks
  as counted. `LoadFails` keeps what had been read, with no file name and
  `m_id_counter` still 0: the server runs on like that.
* An empty label, or one with a line break, is written as any other and cannot
  be read back: `Misread` has what load makes of the entries behind it.
* `Exported`: a save stops at an image without features. In
  `imgfeatures.c:833-837` the warning for that case prints a number through `%s`,
  so the process may also die there: `SaveFails` and `Crash` are both possible.
* Only what `fclose` and the exports return is known to `save`; a write that
  fails earlier and whose error `fclose` does not report is not modelled.
* `load(path)` is `ReadFails` and `ReadSucceeds` of a file; `LoadFails` and
  `LoadSucceeds` are those of `disk`. `DBTools` gives them what another process
  has written so far.

### DBServer

`phase` is where the handler is; `parts` what the client has not sent yet. The
ImageDB actions are used unchanged. A part arrives in one chunk or two.
`LoseRest` is everything that makes the loop over the parts stop with `success =
false`, which no handler looks at: the handler goes on with what has arrived. A
label becomes what its last chunk was, since `image_part_callback` assigns it:
of a label longer than a delimiter (`LongLabels`) the last piece (`Pieces`), of
one that lost its delimiter also text with a line break (`JunkLabel`). `sent`
and `promised` are history: what the request carried, and what the answers so
far promise of each label.

Abstractions: labels are decimal texts as the site posts them
(`http_image_db.rb`); browsers end a form with a line break more, so a torn label
of theirs may also be `--`, which is counted as junk. All junk is one value, so a
second add under junk is refused. A torn picture decodes to nothing or to any
feature set.

### DBTools

`s_*` are the server's members, `t_*` those of the tool that is running: one tool
at a time, started as db-add with one image, db-add -l with a list, db-del,
db-list or db-match (`job.kind`: add, addlist, del, and read for the last two). A load that happens while the other process is
inside `save` reads one of the prefixes of what is being written. `stale` holds
the processes whose view of the file has been replaced by another's save, `lost`
says that one of them saved it, and from then on nothing is promised. Two saves
at the same time are left out: their bytes would mix.

### MultipartParser

One action is one read and everything up to the next: `ReadLine` a turn of
`read_line`'s loop, with `LineRead` what its caller does with a line;
`ProcessPart` a turn of `process_part`'s loop. `ReadEnds` lets a read end
anywhere up to `BufferSize` bytes on. Bodies end with or without a line break
(browsers do, `lib/multipart.rb` does not). Header text is one symbol. The
parser's failures are ends: `"assert line"`, `"assert rewind"`,
`"negative length"`.

### MinPQ, RankSelect, KDSearch

`MinPQ` has one step per turn of `decrease_pq_node_key`'s loop and per call of
`restore_minpq_order`; `pq_array` is the allocated cells, with `nallocd` doubled
by `Grown` or, if `realloc` fails, the array given up ("failed").

`RankSelect` is a machine of its own: `calls` is the stack of activations of
`rank_select`, and a turn of the loop of `insertion_sort` or of `partition_array`
is a step. The recursion for the median of the medians pushes an activation; the
two calls in return statements take the place of their caller.

In `KDSearch` a node of the tree is the part of the feature array it was made
for, and `unexpanded` the calls of `expand_kd_node_subtree` still to come.
`AssignPartKey` starts a selection, `SelectMedian` is a step of it,
`FeatureTurn` and `Divide` are `partition_features`. `SearchBegins`, `Extract`,
`Examine`, `LeafIsDone`, `SearchEnds` and `SearchFails` are `kdtree_bbf_knn`,
`Descend` and `ReachLeaf` `explore_to_leaf`. Keys of the queue are computed as the
macro `ABS` computes them. Distances are squared integers; where two dimensions
have equal variance either is divided. An index that `partition_array` or
`partition_features` reads without having set it would be 0 here (`p`), which is
no element: that it never is, is `PivotIsFound`, and part of the proof for the
features.

### NotePictures

`job` has a record for each thread of the site: where it is in `save_image`
(fetch, open, write, jpg, bmp), in a post to the image server (post, wait,
answered) or in `resync_image_db` (next). The image server answers the requests
in `inbox` one after the other; `GiveUp` is the timeout of `http_image_db.rb:18`,
after which the request stays in the inbox with nobody waiting; `LoseRequest` is
a connection that ends. `images` is the server's database. A death of the image
server is in `DBServer`; here a lost request and a refused one stand for what
the site sees of it.

### NoteViews

Every action is one query. `view` has a record for each thread: the note as it
was read, then the steps of `activity_remember` (save, forget, append, list,
truncate), `find_similar` and `memoize` (look for a relation, create it).
`latest` is history: the last visit of each note.

## Runs

| Run | Instance | What it shows |
| --- | --- | --- |
| `imagedb` | ids 0..2, labels 1 and 2 (texts that are ids too, so that misread headers matter), one image with features and one without; 283k states | the seven invariants of `ImageDB` and `ImplementsStore` |
| `server_saves` | ids 0..1, labels 0 and 1, the second longer than a delimiter, one image; 4.0M states | `OkMeansSaved`, `ReadableFileKeepsPromises`, `AddStoresWhatWasSent`, `UnloadedServerOnlyMatches` |
| `server_uploads` | one label, images with and without features; 1.3M states | `TypeOK`, `AddStoresWhatWasSent`, `OkMeansAllImagesHaveFeatures`, `RequestsAreAnswered` |
| `dbtools` | ids 0..1, two labels, images with and without features, lists of up to 2; 248k states | `LoadsAreWhole`, `FileKeepsPromises` |
| `multipart` | boundary of 2 bytes, delimiter of 4, 8 forms of one or two parts, reads of 1 to 16 bytes; 44k states | `DeliveredInOrder`, `CleanReadsParse`, `ParserStops` |
| `multipart_comment`, `multipart_assert` | the same | two findings |
| `minpq` | five elements, three keys, an array of 2 cells that doubles twice; 703k states | `HeapOrder`, `ImplementsPriorityQueue` |
| `kdsearch` | all arrays of 1 to 3 features over 0..2 and of 4 and 5 over 0..1 in two dimensions, and 7 and 13 features in many orders; four queries, 1 to 3 neighbours, cut off after 1, 2 and 4 leaves; 957k states | `SelectionIsSound`, `MediansDivide`, `TreeDividesFeatures`, `SearchCoversTree`, `NeighborsAreNearest`, `FeatureDataComesBack` |
| `kdsearch_keys` | the same | the third finding |
| `site` | two threads, two notes, two pictures, three requests, two in the inbox; 3.0M states | `PicturesStayApart`, `SearchesStayPrivate`, `ResyncSynchronizes` |
| `views` | two threads, two notes, three labels, two users, a limit of 3, five views; 1.2M states | `VisitorsAreBounded`, `LastVisitIsKept`, `VisitsRepeatInOverlap`, `RelationsRepeatInOverlap` |

Why the bounds are enough. Database: a hazard needs two images, a remove between
them and a restart, which three ids allow. Server: one request is handled at a
time and works on one label, so a second label stands for all others; a file
that was loaded holds an image, so two ids are the fewest with which one can be
added to it. Parser: its decisions compare a read with a delimiter, and parts
shorter than, as long as and longer than one, and of its first bytes, occur.
Heap: with five elements a cell has two children and a grandparent, and the
array grows twice. Tree: equal values occur at every depth, and 7 and 13 values
need a median of two and of three groups of five, with a rest and without. Site: a mix-up needs two
requests, and what a third may do afterwards is the third. Views: a limit of 3
and five views fill a note's list and overlap while it is full. Most of these
bounds are lifted by the theorems below.

Deadlock is checked where something can always go on. Not in `multipart` and
`kdsearch`, which end, nor in `site` and `views`, where the numbers of requests
and of views are bounded.

Fairness: `DBServer` assumes weak fairness of the server's own steps while the
process is up: there is one thread (`HTTPServer::run` calls `ServerRunOnce2` in
the foreground), no other holds the mutex, and a client that stops sending is
cut off by the read timeout (`refill_buffer_from_connection`), which is a case of
`LoseRest`. Neither clients nor restarts are fair. `MultipartParser` assumes weak
fairness of its next step for the same reason. Nothing else has a liveness
property: the site waits for nothing it does not time out, and the rest are
calls that return.

Every property has a mutant: a definition changed as a plausible mistake in the
code would change it (`WithoutLast`, `StaleTree`, `SaveFailsUnnoticed`, ...,
each just before what it is a mutant of), under which TLC finds it violated.

## What the runs found

* `multipart_comment`: `my_memmem` searches the data of one read only, so a
  delimiter across two reads is delivered as content, with the parts behind
  it. The kept bytes are there for it (comment at `MultipartParser.cpp:232`) and
  are not searched.
* `multipart_assert`: a read that ends in CR is appended to the line twice; the
  assertion at `MultipartParser.cpp:261` stops the server.
* `kdsearch_keys`: `ABS` (`utils.h:20`) does not put its argument in
  parentheses, so `kdtree.c:558` gives a subtree on the lower side of the query
  a negative key, the farther the smaller: the search does not take the best bin
  first, against the comment at `kdtree.c:516`. What it returns is still right
  when it is not cut off (`NeighborsAreNearest`).

Seen while modelling, described by the models, with no run of their own:

* a line break across two reads makes `read_line` rewind twice, and the
  assertion at `MultipartParser.cpp:487` stops the server ("assert rewind");
  `CleanReadsParse` says that these, and reads shorter than a delimiter at the
  start of a part, are all the reads the parser gets wrong;
* an image without features that is added (answered 400) stays in memory and
  makes every later save fail, of any image, until it is removed, and the file
  is torn meanwhile (`OkMeansAllImagesHaveFeatures`);
* an add without a label is answered 200 and makes the whole file unloadable
  (the exception in `OkMeansSaved`); an add or a del cut off inside its label may
  act under a piece of it;
* `save_image` ignores what `add_image` returned (`note.rb:737`), against the
  comment four lines below it: a note is published though the server refused its
  picture (the exception in `ResyncSynchronizes`);
* a link is only looked at if a file is uploaded too (`notes.rb:89`), while the
  form says "Or add an image from the internet via the URL" (`add.html.erb:9`);
* the search counts leaves against `max_nn_chks` (`kdtree.c:145`), while its
  comment speaks of entries (`kdtree.c:88`); and a leaf holds several features
  when their values are equal (`kdtree.c:502`), not one (`kdtree.c:266`);
* two visits at a time may count one observer (`note.rb:262-264`).

## What is proved

With TLAPS, for every value of the constants, from the ASSUMEs of each module
(ids are numbers, special values are distinct from ordinary ones, feature counts
are naturals, limits are positive). TLC evaluates them on every run. Two say
more than that. `FormAssumption` of `MultipartParser`: the content of a part has
no delimiter in it, which is the sender's duty, and a boundary has no CR, which is
so because it comes from a header line. `KDAssumption`: arrays of features are not
empty, which `kdtree_build` checks (`kdtree.c:64`), and have descriptors of one
length.

* `ImageDB_proofs`: the seven invariants of run `imagedb`. They do not hold each
  by itself: what a load puts into memory is right because the file was whole,
  the file was whole because memory was right when it was saved, and only a
  process that loaded its file may save. `IInv` is all of them at once, with two
  more facts: a process that is down has nothing in memory, and one that saves
  has a file name. A cut header has fewer entries than counted, or all of them
  with the last torn, so `Loadable` refuses it.
  The refinement, `Spec => ImplementsStore`, is at its end. It adds that the file is empty
  while a save is under way (`SavingEmptiedFile`) and maps each action to an
  action of `ImageStore` or a stutter.
* `DBServer_proofs`: all of the server's properties but liveness. Each call of the
  database is, by the refinement, a step of the abstract store, so the argument is
  about two maps from labels to images: `Live`, in memory, and `Saved`, in a file
  that loads. Memory owes every label what was promised of it, but for the one
  the request at hand is changing (`MemoryKeepsPromises`); a file that loads owes
  the same (`FileKeepsPromises`); a save that stops makes the file unreadable or
  whole, and puts only its own label in doubt. For the upload: parts come once
  each, the first chunk of an image truncates its file, so what has come is in its
  place (`UploadIsSound`), and what is added is that (`AddedIsSent`).
* `DBTools_proofs`: both properties of the server and the tools. It brings in the
  lemmas about map, vector and file once and uses them for both processes. What is
  in memory and not stale owes every label what was promised of it, but for the
  labels being changed (`Owes`); whoever is inside `save` has made the other's view
  stale before, or is stale itself and then nothing is promised any more
  (`StaleOK`); a part of a file that loads is the whole file (`PrefixWhole`).
* `MinPQ_proofs`: no cell outside the array is read or written, `HeapOrder`, and
  `Spec => ImplementsPriorityQueue`. While an element moves up only its own cell
  may be smaller than its parent (`OrderedButAt`); while one moves down only its
  children may (`OrderedButBelow`); the least key at the root follows by
  well-founded induction over the cells.
* `NoteViews_proofs`: types, and `RelationsRepeatInOverlap`. The rows of a pair and
  the threads about to create one are together no more than the threads
  (`RowsAndCreators`): where there is a row, none joins them.
  And for visits `VisitorsAreBounded`, `LastVisitIsKept`, `VisitsRepeatInOverlap`. The last thread to list the rows sees all of them, so
  what no list condemns is short from then on and only a thread that has yet to
  list adds to it; whatever is on a list is older than the latest visit.
* `KDSearch_proofs`: first `RankSelection`, for every array and rank: of an
  activation, what was asked for is an element of its array, a caller waits for
  one of its own elements, from an activation with fewer of them, and the element
  asked for keeps its rank when a side is taken (`SelectInv`). The medians are elements of their array,
  so the pivot is met and `p` is set; the greatest and least of what is compared
  are on the right side of it. Then the properties of run `kdsearch`. `IInv` is
  `TreeInv /\ SearchInv`. `TreeInv`: the nodes expanded and those to come are
  disjoint or inside one another, a turn of the partition exchanges features
  inside one node only, so what the nodes above say of their sides, a fact about
  sets of features, stays true. `SearchInv`: what is in the queue, in the node
  explored and examined is the whole array without overlap; whoever has a bbf_data
  is in `nbrs`, with its own distance and `Own` below it; `nbrs` is in order, and a
  feature not in it that was examined is not nearer. The keys play no part in this,
  so it holds with the wrong ones of `ABS`.
* `MultipartParser_proofs`: types, `DeliveredInOrder`, `CleanReadsParse`. `IInv`
  has three parts. `Shape` is what the variables are. `Delivery` says of each
  part that it is a piece of the body from where it began, and of the one being
  read that raw_buffer holds the delimiter's length of bytes behind that piece.
  `OnCourse`: while no read has ended in an awkward place, the parser is at one of
  eight places of the form (`At`), with all parts before it as they were sent.
  `LaidOut` says which byte of the body is where; it comes from the recursive
  function `SentUpTo` by induction on the number of parts. A delimiter is found
  where the part ends and not before (`NoneBefore`): it is not in the content, and
  cannot begin inside the one behind it, as only its first byte is a CR.
* `NotePictures_proofs`: types, `PicturesStayApart`, `SearchesStayPrivate`. The
  invariant follows a picture along its way: right under a label because right in
  the request, that because right in the bmp, that because right in `scratch`, and
  that because no other request was inside `save_image`.
  And `ResyncSynchronizes`, an action property. A resync that is alone is the only
  request at work, and what waits at the image server is its own or nothing, for a
  request that gave up and left one behind would have made `alone` false at the
  start (`IsTheOnly`, `RequestIsOf`). What is stored is among what it has still to
  remove; then it is what it has added, without gaps but where it was refused
  (`StoreIsOnCourse`).

Each proof has one lemma per action and a step per conjunct it can disturb.

Only model-checked: liveness (`RequestsAreAnswered`, `ParserStops`), which is out
of the prover's reach; every other property of a passing run is a theorem. That `rank_select` comes to an end
is neither: it would be liveness. What it rests on is proved, that activations
have ever fewer elements (`CallsShrink`).

## Not modelled

* Feature detection and transforms: floating point without state between calls.
* `kdtree_bbf_spatial_knn` (never called), `kdtree_release`, `db-convert`,
  `exhaustive_match` (never called with true), the Oxford feature format.
* Text: what multipart headers say, answers and pages; labels longer than
  `load`'s 4096 bytes. Misaligned feature data is taken to make load fail.
* GET handlers and /list, which change nothing; the mutex and thread wrappers,
  which one thread uses.
* Two processes inside `save` at the same time: the bytes mix.
* Of the site: accounts, comments, tags, front pages, permissions (single
  queries); the owner `activity_remember` may give a note; the similarity cache,
  which `note.rb:13` turns off.
* `src/webapp`: generated controllers over one table each. `relation_add`, whose
  check and insert are two queries as in `memoize`, has no caller.
* The iPhone client: one run loop over the platform's camera and views.
* All JavaScript in the repository: the libraries named in the inventory, as
  published by their authors. The project's own two `application.js` hold a
  comment each.
* `src/sift`: an older copy of the engine.

## Plan

The order in which this was built, the most important first: the database and its
file, then the server over it, the parser, the proofs about the database; the
tools; the queue and the search; the site; the proofs about the rest.

What could follow: a server in `NotePictures` that is an instance of `DBServer`
over `ImageStore`, so that what it answers there is not read off a second time.

------------------------------- MODULE DBTools -------------------------------
(***************************************************************************)
(* The command line tools engine/src/db-add.cpp, db-del.cpp, db-list.cpp   *)
(* and db-match.cpp beside a running db-server: two processes, each with   *)
(* an ImageDB of its own, and one file without a lock.  Each loads the     *)
(* file, changes what it loaded and saves all of it.                       *)
(*                                                                         *)
(* The server is what DBServer makes of it, without how a request arrives: *)
(* a change of memory, a save, an answer.  While a process saves, another  *)
(* that reads finds some prefix of what is being written.  Two saves never *)
(* overlap here: their bytes would mix and nothing could be said.  Empty   *)
(* labels, behind which no load finds its way, are left to ImageDB.        *)
(***************************************************************************)
EXTENDS Integers, Sequences, FiniteSets

CONSTANTS
    MaxId, Labels, EmptyLabel, JunkLabel, NoLabel,
    FeatureSets, NumFeatures, NoFile, NoImage,
    InDoubt,      \* in properties: a failed or unanswered change of a label
    MaxBatch      \* bound on the lines of db-add -l

VARIABLES
    disk,
    \* the server's ImageDB
    s_labels, s_features, s_tree, s_coalesce, s_counter, s_filename, s_pc,
    \* the tool's
    t_labels, t_features, t_tree, t_coalesce, t_counter, t_filename, t_pc,
    pending,      \* the label the server's request changed and has not saved
    job,          \* what the tool was started for, and what it changed so far
    \* history
    stale,        \* the processes whose view of the file another has replaced
    lost,         \* one of them saved it all the same
    promised      \* label -> image by the last answer or exit code about it

s_memory == <<s_labels, s_features, s_tree, s_coalesce, s_counter, s_filename>>
t_memory == <<t_labels, t_features, t_tree, t_coalesce, t_counter, t_filename>>
server == <<s_memory, s_pc, pending>>
tool == <<t_memory, t_pc, job>>
history == <<stale, lost, promised>>
vars == <<disk, server, tool, history>>

Server == INSTANCE ImageDB WITH
    m_labels <- s_labels, m_uncoalesced_features <- s_features,
    m_kd_tree <- s_tree, m_need_to_coalesce <- s_coalesce,
    m_id_counter <- s_counter, m_filename <- s_filename, pc <- s_pc

Tool == INSTANCE ImageDB WITH
    m_labels <- t_labels, m_uncoalesced_features <- t_features,
    m_kd_tree <- t_tree, m_need_to_coalesce <- t_coalesce,
    m_id_counter <- t_counter, m_filename <- t_filename, pc <- t_pc

ASSUME DatabaseAssumption ==
    /\ MaxId \in Nat
    /\ Labels \subseteq Server!Ids
    /\ {EmptyLabel, JunkLabel, NoLabel} \intersect Server!Ids = {}
    /\ EmptyLabel # JunkLabel /\ EmptyLabel # NoLabel /\ JunkLabel # NoLabel
    /\ NumFeatures \in [FeatureSets -> Nat] /\ NoImage \notin FeatureSets
    /\ NoFile \notin Server!File

NoJob == [kind |-> "none", changed |-> {}]
Saved == Server!ImagesOf(disk.labels, disk.feats)
View(labels, feats) == Server!ImagesOf(labels, feats)

\* What a load finds while the other process may be inside a save.
Visible(other_pc, labels, feats) ==
    IF other_pc = "saving" THEN Server!Prefixes(labels, feats) ELSE {disk}

AsPromised == [l \in Labels |->
                 IF disk = NoFile THEN NoImage ELSE Saved[l]]

Init ==
    /\ Server!Init
    /\ Tool!Constructed /\ t_pc = "down"
    /\ pending = NoLabel
    /\ job = NoJob
    /\ stale = {} /\ lost = FALSE
    /\ promised = AsPromised

\* Once a view another process replaced has been saved nothing is promised.
NothingPromised == [l \in Labels |-> InDoubt]

CountSave(process) ==
    IF process \in stale
    THEN lost' = TRUE /\ promised' = NothingPromised
    ELSE UNCHANGED <<lost, promised>>

Promise(labels, images) ==
    promised' = [l \in Labels |-> IF l \in labels /\ ~lost THEN images[l] ELSE promised[l]]

-----------------------------------------------------------------------------
(* The server.                                                             *)

ServerLoads ==
    /\ \E seen \in Visible(t_pc, t_labels, t_features) :
         Server!ReadFails(seen) \/ Server!ReadSucceeds(seen)
    /\ stale' = IF t_pc = "saving" THEN stale \union {"server"} ELSE stale \ {"server"}
    /\ UNCHANGED <<disk, pending, tool, lost, promised>>

ServerAdds(l, fs) ==
    /\ pending = NoLabel
    /\ Server!AddImageFeatures(l, fs)
    /\ pending' = l
    /\ UNCHANGED <<tool, history>>

ServerRemoves(l) ==
    /\ pending = NoLabel
    /\ Server!RemoveImage(l)
    /\ pending' = l
    /\ UNCHANGED <<tool, history>>

ServerSaveBegins ==
    /\ pending # NoLabel /\ t_pc # "saving"
    /\ Server!SaveBegins
    /\ CountSave("server")
    /\ stale' = IF t_pc = "idle" THEN stale \union {"tool"} ELSE stale
    /\ UNCHANGED <<pending, tool>>

ServerAnswers(images) ==
    /\ Promise({pending}, images)
    /\ pending' = NoLabel
    /\ UNCHANGED <<tool, stale, lost>>

ServerSaveFinishes ==
    /\ Server!SaveFinishes
    /\ ServerAnswers(View(s_labels, s_features))

ServerSaveFails == Server!SaveFails /\ ServerAnswers(NothingPromised)

\* No file name, or fopen failed.
ServerCannotSave ==
    /\ pending # NoLabel /\ s_pc = "idle"
    /\ ServerAnswers(NothingPromised)
    /\ UNCHANGED <<s_memory, s_pc, disk>>

ServerCrashes ==
    /\ Server!Crash
    /\ Promise({pending}, NothingPromised)
    /\ pending' = NoLabel
    /\ stale' = stale \ {"server"}
    /\ UNCHANGED <<tool, lost>>

-----------------------------------------------------------------------------
(* The tools.  A process that ends leaves nothing in memory.               *)

ToolEnds ==
    /\ job' = NoJob
    /\ t_pc' = "down"
    /\ t_labels' = Tool!NoLabels /\ t_features' = <<>> /\ t_tree' = {}
    /\ t_coalesce' = TRUE /\ t_counter' = 0 /\ t_filename' = FALSE
    /\ stale' = stale \ {"tool"}

\* Mutant of the next: goes on with whatever load left in memory.
ToolLoadsAnyway(kind) ==
    /\ \E seen \in Visible(s_pc, s_labels, s_features) :
         Tool!ReadFails(seen) \/ Tool!ReadSucceeds(seen)
    /\ job' = [kind |-> kind, changed |-> {}]
    /\ stale' = IF s_pc = "saving" THEN stale \union {"tool"} ELSE stale
    /\ UNCHANGED <<disk, server, lost, promised>>

ToolLoads(kind) ==
    /\ \E seen \in Visible(s_pc, s_labels, s_features) : Tool!ReadSucceeds(seen)
    /\ job' = [kind |-> kind, changed |-> {}]
    /\ stale' = IF s_pc = "saving" THEN stale \union {"tool"} ELSE stale
    /\ UNCHANGED <<disk, server, lost, promised>>

\* load returned false: the tool ends before it changes or saves anything.
ToolRefuses(kind) ==
    /\ t_pc = "down"
    /\ \E seen \in Visible(s_pc, s_labels, s_features) : ~Tool!Loadable(seen)
    /\ kind \in {"add", "addlist"} => disk # NoFile
    /\ ToolEnds
    /\ UNCHANGED <<disk, server, lost, promised>>

\* db-add: stat found no file, so the database is new.
ToolCreates(kind) ==
    /\ kind \in {"add", "addlist"}
    /\ t_pc = "down" /\ disk = NoFile
    /\ t_pc' = "idle"
    /\ job' = [kind |-> kind, changed |-> {}]
    /\ UNCHANGED <<disk, server, t_memory, history>>

\* db-add still has a picture to add.
BatchRoom ==
    \/ job.kind = "add" /\ job.changed = {}
    \/ job.kind = "addlist" /\ Cardinality(job.changed) < MaxBatch

ReadyToSave ==
    \/ job.kind \in {"addlist", "del"}
    \/ job.kind = "add" /\ job.changed # {}

ToolAdds(l, fs) ==
    /\ BatchRoom
    /\ Tool!AddImageFeatures(l, fs)
    /\ job' = [job EXCEPT !.changed = @ \union {l}]
    /\ UNCHANGED <<server, history>>

\* Mutant of the next: a bad line is not the end of the list.
ToolSkipsBadLine ==
    /\ t_pc = "idle" /\ BatchRoom
    /\ job' = [kind |-> "addlist", changed |-> {}]
    /\ UNCHANGED <<disk, server, t_memory, t_pc, history>>

\* The picture cannot be read, or its label is there: what was added before it
\* is not saved.
ToolGivesUp ==
    /\ t_pc = "idle" /\ BatchRoom
    /\ ToolEnds
    /\ UNCHANGED <<disk, server, lost, promised>>

\* db-del, of a label that is there.  If it is not, the file is saved as it was.
ToolRemoves(l) ==
    /\ job.kind = "del" /\ job.changed = {}
    /\ Tool!RemoveImage(l)
    /\ job' = [job EXCEPT !.changed = {l}]
    /\ UNCHANGED <<server, history>>

\* save(path), with or without a load before it.
ToolSaveBegins ==
    /\ ReadyToSave
    /\ s_pc # "saving"
    /\ Tool!OpenForWriting
    /\ CountSave("tool")
    /\ stale' = IF s_pc = "idle" THEN stale \union {"server"} ELSE stale
    /\ UNCHANGED <<server, job>>

\* The file is whole and the tool returns 0.
ToolSaveFinishes ==
    /\ t_pc = "saving"
    /\ Len(t_features) \in Tool!Exported(t_features)
    /\ disk' = Tool!FileOf(t_labels, t_features)
    /\ Promise(job.changed, View(t_labels, t_features))
    /\ ToolEnds
    /\ UNCHANGED <<server, lost>>

ToolSaveFails ==
    /\ t_pc = "saving"
    /\ disk' \in Tool!Prefixes(t_labels, t_features)
    /\ Promise(job.changed, NothingPromised)
    /\ ToolEnds
    /\ UNCHANGED <<server, lost>>

\* fopen failed, or db-list and db-match have printed what they found.
ToolEndsUnsaved ==
    /\ t_pc = "idle"
    /\ job.kind = "read" \/ ReadyToSave
    /\ ToolEnds
    /\ UNCHANGED <<disk, server, lost, promised>>

\* The process dies.
ToolCrashes ==
    /\ t_pc # "down"
    /\ IF t_pc = "saving"
       THEN disk' \in Tool!Prefixes(t_labels, t_features) /\ Promise(job.changed, NothingPromised)
       ELSE UNCHANGED <<disk, promised>>
    /\ ToolEnds
    /\ UNCHANGED <<server, lost>>

Next ==
    \/ ServerLoads
    \/ \E l \in Labels, fs \in FeatureSets : ServerAdds(l, fs)
    \/ \E l \in Labels : ServerRemoves(l)
    \/ ServerSaveBegins
    \/ ServerSaveFinishes
    \/ ServerSaveFails
    \/ ServerCannotSave
    \/ ServerCrashes
    \/ \E kind \in {"add", "addlist", "del", "read"} :
         ToolLoads(kind) \/ ToolRefuses(kind) \/ ToolCreates(kind)
    \/ \E l \in Labels, fs \in FeatureSets : ToolAdds(l, fs)
    \/ ToolGivesUp
    \/ \E l \in Labels : ToolRemoves(l)
    \/ ToolSaveBegins
    \/ ToolSaveFinishes
    \/ ToolSaveFails
    \/ ToolEndsUnsaved
    \/ ToolCrashes

Spec == Init /\ [][Next]_vars

-----------------------------------------------------------------------------
(* Properties.                                                             *)

\* Whoever loads the file, even while another process is writing it, has a whole
\* database in memory or knows that it has none: db-add, db-del and db-match
\* look at what load returned (db-add.cpp:105, db-del.cpp:65, db-match.cpp:105).
LoadsAreWhole ==
    /\ t_pc # "down" => Tool!Agree(t_labels, t_features)
    /\ s_filename => Server!Agree(s_labels, s_features)

\* As long as no process saved a view of the file that another had replaced
\* since it was loaded, a file that can be loaded has for every label what the
\* last answer of the server or the last exit code of a tool says: images are
\* lost by stale saves and by nothing else, and a db-add -l that fails adds none
\* of its list (db-add.cpp:105-137, db-del.cpp:65-77).
FileKeepsPromises ==
    Server!Loadable(disk) =>
        \A l \in Labels : promised[l] \in {Saved[l], InDoubt}
=============================================================================

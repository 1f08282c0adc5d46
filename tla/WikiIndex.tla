----------------------------- MODULE WikiIndex -----------------------------
(***************************************************************************)
(* llm-wiki's search index beside the git repository it is derived from:   *)
(* index_manager.rs (full rebuild, incremental update, rebuild of single   *)
(* types, state.toml), the callers in engine.rs (mount, watcher), and the  *)
(* admissions of ops/ingest.rs and ops/content.rs that commit and then     *)
(* update the index.                                                       *)
(*                                                                         *)
(* Several engines, each a process with the wiki mounted (a server, the    *)
(* command line, the git hooks), share one working tree, one repository    *)
(* and one index directory.  A page is its type and its text; a document   *)
(* also remembers the version of the type's schema it was indexed under.   *)
(***************************************************************************)
EXTENDS Naturals, FiniteSets, Sequences

CONSTANTS
  Engines,      \* processes with the wiki mounted
  Pages,        \* slugs
  Contents,     \* what a page may hold: [type, text]
  Types,        \* types with a schema
  DefaultType,  \* "page", the type of a page that names none
  None,
  AutoRebuild,  \* index.auto_rebuild
  MaxCommits, MaxEdits   \* bounds: commits; edits of pages and schemas

Versions == [Types -> Nat]
DocSets == [Pages -> SUBSET [type : {c.type : c \in Contents}, text : {c.text : c \in Contents}, under : Nat]]

ASSUME ContentsAreTyped == \A c \in Contents : DOMAIN c = {"type", "text"}
ASSUME NoneIsNone == None \notin Contents /\ None \notin Engines /\ None \notin Types
ASSUME NoneIsNoValue ==
  None \notin Versions /\ None \notin DocSets /\ None \notin [commit : Nat, types : Versions]
ASSUME AutoRebuildIsBoolean == AutoRebuild \in BOOLEAN
ASSUME BoundsAreNaturals == MaxCommits \in Nat \ {0} /\ MaxEdits \in Nat

VARIABLES
  worktree,  \* the files under content/
  commits,   \* the trees committed so far; HEAD is the last
  schema,    \* version of each type's schema on disk
  docs,      \* committed documents of the index directory, by slug
  lock,      \* the engine holding the directory's writer
  state,     \* state.toml
  registry,  \* the type registry each engine compiled when it mounted
  reader,    \* what each engine's IndexReader serves
  at,        \* what each engine is doing
  task,      \* and for whom
  wrote,     \* history: the engine that last changed docs
  sound,     \* history: nothing the index does not survive has happened
  edits      \* bound: edits so far

repo == <<worktree, commits, schema, edits>>
index == <<docs, lock, state, wrote>>
engine == <<registry, reader, at, task>>
indexVars == <<repo, index, engine, sound>>

Files == [Pages -> Contents \cup {None}]
CurrentHead == Len(commits)
Tree == commits[CurrentHead]
Built == state # None

(* head is HEAD as read for state.toml, commit the one an admission made,  *)
(* raced (history) whether that came between an engine's two.              *)
NoTask == [for |-> "none", pages |-> {}, gone |-> {}, types |-> {}, head |-> 0,
           commit |-> 0, raced |-> FALSE, validated |-> FALSE, warned |-> FALSE]

InitIndex ==
  /\ worktree \in Files
  /\ commits = <<worktree>>
  /\ schema = [t \in Types |-> 0]
  /\ docs = [p \in Pages |-> {}]
  /\ lock = None /\ state = None /\ wrote = None
  /\ registry = [e \in Engines |-> None]
  /\ reader = [e \in Engines |-> None]
  /\ at = [e \in Engines |-> "down"]
  /\ task = [e \in Engines |-> NoTask]
  /\ sound = TRUE /\ edits = 0

-----------------------------------------------------------------------------
(* What the index should hold.                                             *)

Kind(c) == IF c.type = None THEN DefaultType ELSE c.type

(* index_page: fields are resolved through the aliases of the page's type. *)
Document(c, versions) ==
  [type |-> c.type, text |-> c.text,
   under |-> IF Kind(c) \in Types THEN versions[Kind(c)] ELSE 0]

Documents(p, versions) ==
  IF worktree[p] = None THEN {} ELSE {Document(worktree[p], versions)}

OnlyUncommitted == {p \in Pages : worktree[p] # Tree[p]}     \* Mutant

(* collect_changed_files: the working tree against HEAD, and the commit    *)
(* the index was last recorded at against HEAD.                            *)
Changed ==
  {p \in Pages : \/ worktree[p] # Tree[p]
                 \/ Built /\ commits[state.commit][p] # Tree[p]}

StaleTypes == {t \in Types : state.types[t] # schema[t]}

(* staleness_kind                                                          *)
Staleness ==
  IF ~Built THEN "never"
  ELSE IF StaleTypes # {} THEN "types"
  ELSE IF state.commit # CurrentHead THEN "commit"
  ELSE "current"

(* Pages whose documents are out of date and that no update would visit.   *)
Forgotten == {p \in Pages \ Changed : docs[p] # Documents(p, schema)}

-----------------------------------------------------------------------------
(* The world around the engines.                                           *)

(* A page taken back to HEAD, after its edit may have been indexed.        *)
Undoes(p, c) == c = Tree[p]

(* A page is written, or deleted: content_write, an editor, git checkout.  *)
EditPage(p, c) ==
  /\ edits < MaxEdits
  /\ worktree[p] # c
  /\ edits' = edits + 1
  /\ worktree' = [worktree EXCEPT ![p] = c]
  /\ sound' = (sound /\ ~Undoes(p, c))
  /\ UNCHANGED <<commits, schema, index, engine>>

(* schema_evolve, or an editor, changes a type's schema file.              *)
EditSchema(t) ==
  /\ edits < MaxEdits
  /\ edits' = edits + 1
  /\ schema' = [schema EXCEPT ![t] = @ + 1]
  /\ UNCHANGED <<worktree, commits, index, engine, sound>>

Staged(S) == [p \in Pages |-> IF p \in S THEN worktree[p] ELSE Tree[p]]

(* Engines between reading HEAD and writing it to state.toml.              *)
Recorders == {e \in Engines : at[e] \in {"advancing", "recording"}}

(* A commit that lands while an indexer has read the tree and has not      *)
(* recorded HEAD yet.                                                      *)
Interferes ==
  Recorders # {} \/ \E e \in Engines : at[e] \in {"diffed", "indexed", "filled", "retyped"}

(* A commit that takes a page back to the recorded one.                    *)
Reverts(tree) == Built /\ \E p \in Pages : tree[p] # Tree[p] /\ tree[p] = commits[state.commit][p]

Commit(S) ==
  /\ Staged(S) # Tree
  /\ CurrentHead < MaxCommits
  /\ commits' = Append(commits, Staged(S))
  /\ sound' = (sound /\ ~Interferes /\ ~Reverts(Staged(S)))

(* git commit, outside the engine and with its hooks disabled; with the    *)
(* hooks, a Mount and an Ingest of another engine follow.                  *)
ExternalCommit(S) ==
  /\ Commit(S)
  /\ UNCHANGED <<worktree, schema, edits, index, engine>>

-----------------------------------------------------------------------------
(* An engine starts or ends a piece of work.                               *)

Start(e, where, what) ==
  /\ at' = [at EXCEPT ![e] = where]
  /\ task' = [task EXCEPT ![e] = what]

Job(for) == [NoTask EXCEPT !.for = for]

(* Back to the caller; a mount goes on to open the index.                  *)
Leave(e, warned) ==
  Start(e, IF task[e].for = "mount" THEN "opening" ELSE "idle",
        [Job(IF task[e].for = "mount" THEN "mount" ELSE "none") EXCEPT
           !.commit = task[e].commit, !.raced = task[e].raced, !.warned = warned])

Remedy == [current |-> "opening", commit |-> "diffing", types |-> "retyping", never |-> "clearing"]

(* mount_context compiles the registry and looks at state.toml: what was   *)
(* never built is, whatever else is stale only with auto_rebuild.          *)
Mount(e) ==
  /\ at[e] = "down"
  /\ registry' = [registry EXCEPT ![e] = schema]
  /\ Start(e, IF ~Built \/ AutoRebuild THEN Remedy[Staleness] ELSE "opening",
           [Job("mount") EXCEPT !.types = IF Built THEN StaleTypes ELSE {}])
  /\ UNCHANGED <<repo, index, reader, sound>>

Open(e) ==
  /\ at[e] = "opening"
  /\ reader' = [reader EXCEPT ![e] = docs]
  /\ at' = [at EXCEPT ![e] = "idle"]
  /\ task' = [task EXCEPT ![e] = NoTask]
  /\ UNCHANGED <<repo, index, registry, sound>>

(* The watcher saw a page change.                                          *)
WatchPages(e) ==
  /\ at[e] = "idle"
  /\ Start(e, "diffing", Job("watch"))
  /\ UNCHANGED <<repo, index, registry, reader, sound>>

(* The watcher saw a schema change: schema_rebuild.                        *)
WatchSchema(e) ==
  /\ at[e] = "idle"
  /\ Staleness # "current"
  /\ Start(e, Remedy[Staleness], [Job("watch") EXCEPT !.types = IF Built THEN StaleTypes ELSE {}])
  /\ UNCHANGED <<repo, index, registry, reader, sound>>

RebuildIndex(e) ==
  /\ at[e] = "idle"
  /\ Start(e, "clearing", Job("rebuild"))
  /\ UNCHANGED <<repo, index, registry, reader, sound>>

(* ingest validates what changed under a path, commits the path, and only  *)
(* then looks at the index.                                                *)
Ingest(e, S) ==
  LET made == Staged(S) # Tree
      validated == \E p \in S : worktree[p] # None /\ (p \in Changed \/ Changed = {})
  IN
  /\ at[e] = "idle"
  /\ IF made THEN Commit(S) ELSE UNCHANGED <<commits, sound>>
  /\ Start(e, "diffing", [Job("ingest") EXCEPT !.validated = validated,
                            !.commit = IF made THEN CurrentHead + 1 ELSE 0,
                            !.raced = made /\ Recorders # {}])
  /\ UNCHANGED <<worktree, schema, edits, index, registry, reader>>

(* content_commit: nothing to commit, nothing to do.                       *)
ContentCommit(e, S) ==
  /\ at[e] = "idle"
  /\ Commit(S)
  /\ Start(e, "diffing", [Job("commit") EXCEPT !.commit = CurrentHead + 1, !.raced = Recorders # {}])
  /\ UNCHANGED <<worktree, schema, edits, index, registry, reader>>

Rewriting == {e \in Engines : at[e] \in {"cleared", "filled", "retyped", "recording"}}

(* The process dies; its writer's lock goes with it.                       *)
Die(e) ==
  /\ at[e] # "down"
  /\ Start(e, "down", NoTask)
  /\ reader' = [reader EXCEPT ![e] = None]
  /\ registry' = [registry EXCEPT ![e] = None]
  /\ lock' = IF lock = e THEN None ELSE lock
  /\ sound' = (sound /\ e \notin Rewriting)
  /\ UNCHANGED <<repo, docs, state, wrote>>

-----------------------------------------------------------------------------
(* update                                                                  *)

(* What goes on as a full rebuild.                                         *)
Rebuilding(e) == [Job(task[e].for) EXCEPT !.commit = task[e].commit, !.raced = task[e].raced]

(* A commit admitted pages and the diff found none: ingest rebuilds.       *)
Unindexed(job, pages) == job.for = "ingest" /\ pages = {} /\ job.validated /\ job.commit # 0

Diff(e) ==
  /\ at[e] = "diffing"
  /\ IF Changed # {}
     THEN Start(e, "diffed", [task[e] EXCEPT !.pages = Changed,
                                !.gone = {p \in Changed : worktree[p] = None}])
     ELSE IF Unindexed(task[e], {})
     THEN Start(e, "clearing", Rebuilding(e))
     ELSE Leave(e, FALSE)
  /\ UNCHANGED <<repo, index, registry, reader, sound>>

NoReload(e, new) == reader                  \* Mutant

(* reload_reader, when a reader is open                                    *)
Reloaded(e, new) ==
  IF reader[e] = None THEN reader ELSE [reader EXCEPT ![e] = new]

(* The documents an update leaves alone are of another registry than its   *)
(* own, the one it is going to record.                                     *)
Outgrown(e) == Built /\ state.types # registry[e]

(* Every changed slug is deleted from the index and, if its file is there, *)
(* added again; the directory has one writer.                              *)
IndexChanged(e) ==
  LET job == task[e]
      added == {p \in job.pages \ job.gone : worktree[p] # None}
      new == [p \in Pages |-> IF p \in added THEN Documents(p, registry[e])
                              ELSE IF p \in job.pages THEN {} ELSE docs[p]]
  IN
  /\ at[e] = "diffed"
  /\ lock = None
  /\ lock' = e /\ wrote' = e
  /\ docs' = new
  /\ reader' = Reloaded(e, new)
  /\ Start(e, "indexed", [job EXCEPT !.pages = {}, !.gone = {},
                            !.validated = Unindexed(job, added \cup job.gone)])
  /\ sound' = (sound /\ ~Outgrown(e))
  /\ UNCHANGED <<repo, state, registry>>

(* The writer of another engine is open: an admission by ingest rebuilds,  *)
(* one by content_commit only warns, the rest drop the update.             *)
WriterBusy(e) ==
  /\ at[e] = "diffed"
  /\ lock # None
  /\ IF task[e].for = "ingest" THEN Start(e, "clearing", Rebuilding(e)) ELSE Leave(e, TRUE)
  /\ UNCHANGED <<repo, index, registry, reader, sound>>

-----------------------------------------------------------------------------
(* rebuild                                                                 *)

(* The directory is removed, under whoever writes to it, and a new one     *)
(* created with an empty index.  state.toml stays.                         *)
Clear(e) ==
  /\ at[e] = "clearing"
  /\ docs' = [p \in Pages |-> {}]
  /\ lock' = e /\ wrote' = e
  /\ Start(e, "cleared", task[e])
  /\ sound' = (sound /\ lock = None)
  /\ UNCHANGED <<repo, state, registry, reader>>

(* The tree is walked, and the new index replaces the one held.            *)
Fill(e) ==
  LET new == [p \in Pages |-> Documents(p, registry[e])] IN
  /\ at[e] = "cleared"
  /\ lock = e
  /\ docs' = new
  /\ wrote' = e
  /\ reader' = [reader EXCEPT ![e] = new]
  /\ Start(e, "filled", task[e])
  /\ UNCHANGED <<repo, lock, state, registry, sound>>

(* Another rebuild has replaced the directory since.                       *)
FillFails(e) ==
  /\ at[e] = "cleared"
  /\ lock # e
  /\ Leave(e, TRUE)
  /\ UNCHANGED <<repo, index, registry, reader, sound>>

-----------------------------------------------------------------------------
(* rebuild_types                                                           *)

(* Documents are deleted by the type they were indexed with, pages added   *)
(* by the type their file has now; the rest of the tree is not looked at.  *)
(* It leaves out what else has changed, or has become stale since it was   *)
(* decided on, and pages that name no type get a second document.          *)
Retype(e) ==
  LET types == task[e].types
      Of(p) == worktree[p] # None /\ Kind(worktree[p]) \in types
      new == [p \in Pages |-> {d \in docs[p] : d.type \notin types}
                                \cup IF Of(p) THEN Documents(p, registry[e]) ELSE {}]
      partial == \/ Changed # {} \/ types # StaleTypes
                 \/ \E p \in Pages : Of(p) /\ worktree[p].type = None
  IN
  /\ at[e] = "retyping"
  /\ lock = None
  /\ lock' = e /\ wrote' = e
  /\ docs' = new
  /\ reader' = Reloaded(e, new)
  /\ Start(e, "retyped", task[e])
  /\ sound' = (sound /\ ~partial)
  /\ UNCHANGED <<repo, state, registry>>

(* The writer is busy, or tantivy refuses the schema: a full rebuild.      *)
RetypeFails(e) ==
  /\ at[e] = "retyping"
  /\ Start(e, "clearing", Rebuilding(e))
  /\ UNCHANGED <<repo, index, registry, reader, sound>>

-----------------------------------------------------------------------------
HeadUnread(e) == [commit |-> 0, types |-> registry[e]]             \* Mutant
FirstBuild(e) ==                                                   \* Mutant
  [commit |-> IF Built THEN state.commit ELSE CurrentHead, types |-> registry[e]]

(* All three end by reading HEAD and then writing it to state.toml, with   *)
(* the engine's registry; nothing keeps a commit, or the record of an      *)
(* engine whose directory this one has replaced, from coming in between.   *)
Recorded(e) == [commit |-> task[e].head, types |-> registry[e]]

ReadHead(e) ==
  /\ at[e] \in {"indexed", "filled", "retyped"}
  /\ Start(e, IF at[e] = "indexed" THEN "advancing" ELSE "recording", [task[e] EXCEPT !.head = CurrentHead])
  /\ UNCHANGED <<repo, index, registry, reader, sound>>

Record(e) ==
  /\ e \in Recorders
  /\ state' = Recorded(e)
  /\ lock' = IF lock = e THEN None ELSE lock
  /\ IF at[e] = "advancing" /\ task[e].validated
     THEN Start(e, "clearing", Rebuilding(e))
     ELSE Leave(e, FALSE)
  /\ UNCHANGED <<repo, docs, wrote, registry, reader, sound>>

(* update counts its documents first, in a directory a rebuild may have    *)
(* removed.                                                                *)
RecordFails(e) ==
  /\ at[e] = "indexed"
  /\ lock # e
  /\ IF task[e].for = "ingest" THEN Start(e, "clearing", Rebuilding(e)) ELSE Leave(e, TRUE)
  /\ UNCHANGED <<repo, index, registry, reader, sound>>

-----------------------------------------------------------------------------
(* The paths an admission may name: everything, or one page that exists.   *)
Paths == {Pages} \cup {{p} : p \in {q \in Pages : worktree[q] # None}}

World ==
  \/ \E p \in Pages, c \in Contents \cup {None} : EditPage(p, c)
  \/ \E t \in Types : EditSchema(t)
  \/ \E S \in Paths : ExternalCommit(S)

Request(e) ==
  \/ Mount(e) \/ Die(e)
  \/ WatchPages(e) \/ WatchSchema(e) \/ RebuildIndex(e)
  \/ \E S \in Paths : Ingest(e, S) \/ ContentCommit(e, S)

Work(e) ==
  \/ Open(e)
  \/ Diff(e) \/ IndexChanged(e) \/ WriterBusy(e)
  \/ Clear(e) \/ Fill(e) \/ FillFails(e)
  \/ Retype(e) \/ RetypeFails(e)
  \/ ReadHead(e) \/ Record(e) \/ RecordFails(e)

NextIndex == World \/ \E e \in Engines : Request(e) \/ Work(e)

SpecIndex == InitIndex /\ [][NextIndex]_indexVars

-----------------------------------------------------------------------------
(* Properties.                                                             *)

(* The state is well formed; the recorded commit exists.                   *)
TypeOK ==
  /\ worktree \in Files
  /\ CurrentHead \in 1..MaxCommits /\ \A n \in 1..CurrentHead : commits[n] \in Files
  /\ \A t \in Types : schema[t] \in 0..MaxEdits
  /\ docs \in DocSets
  /\ lock \in Engines \cup {None} /\ wrote \in Engines \cup {None}
  /\ Built => state.commit \in 1..CurrentHead /\ state.types \in Versions
  /\ \A e \in Engines : registry[e] \in Versions \cup {None} /\ (reader[e] = None \/ reader[e] \in DocSets)
  /\ lock # None => at[lock] \in {"indexed", "cleared", "filled", "retyped"} \/ lock \in Recorders

(* The promise of state.toml: once it names the schema on disk, a page     *)
(* whose document is out of date is one the next update will visit.  It    *)
(* holds while an update is under way and after a crash of one, until one  *)
(* of the events that end sound, which the README lists.                *)
NothingForgotten ==
  sound /\ Rewriting = {} /\ Built =>
    (StaleTypes = {} => Forgotten = {})

(* The index keeps up with the tree.                                       *)
IndexKeepsUp == TypeOK /\ NothingForgotten

(* An engine that was the last to change the index serves what it wrote:   *)
(* every path that commits documents also reloads or replaces the reader.  *)
OwnWorkIsServed ==
  \A e \in Engines : at[e] = "idle" /\ wrote = e => reader[e] = docs

(* An admission that reports no warning is behind the recorded commit, or  *)
(* was taken back before it was indexed; also when other engines index at  *)
(* the same time.  The one exception is an admission that commits while    *)
(* another engine has read HEAD and not yet written it: that engine may    *)
(* write its older HEAD over the newer one the admission recorded.         *)
AdmissionIsRecorded ==
  \A e \in Engines :
    Built /\ at[e] = "idle" /\ task[e].commit # 0 /\ ~task[e].warned /\ ~task[e].raced =>
      \/ state.commit >= task[e].commit
      \/ \E n \in task[e].commit..CurrentHead : commits[n] = commits[state.commit]

(* Whoever wrote last is served what it wrote, and told no less than what   *)
(* the index has of it.                                                    *)
WorkIsAccountedFor == OwnWorkIsServed /\ AdmissionIsRecorded

=============================================================================

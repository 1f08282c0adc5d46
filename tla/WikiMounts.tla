----------------------------- MODULE WikiMounts -----------------------------
(***************************************************************************)
(* llm-wiki's serving engine: the table of mounted wikis behind one        *)
(* reader-writer lock (engine.rs), the tool handlers that run on it in     *)
(* parallel (mcp/handlers.rs), the registry of wikis in the global config  *)
(* file (registry.rs, ops/admin.rs), the schema door (ops/schema.rs) and   *)
(* the file watcher (watch.rs).                                            *)
(*                                                                         *)
(* A mounted context is immutable: what it compiled from schemas/ when it  *)
(* was mounted is what it validates with, until somebody mounts again.     *)
(* Each wiki has one custom type here, which two schema files may declare: *)
(* the one the door writes (<type>.json), and one of another name that was *)
(* put there by hand and sorts after it, so that it wins.                  *)
(*                                                                         *)
(* The lock prefers writers, as std::sync::RwLock does where this is       *)
(* deployed: while somebody waits in write(), read() waits too, also for a *)
(* thread that already holds a guard.                                      *)
(***************************************************************************)
EXTENDS Naturals, FiniteSets

CONSTANTS
  Wikis,     \* names
  Known,     \* the wikis registered before the server first starts
  Default,   \* and the default one
  Audible,   \* the wikis whose pages lie under a directory named wiki
  Threads,   \* the runtime's workers, each running one handler at a time
  Contents,  \* schemas of the custom type: [owner, ver]
  NoOwner,   \* the owner of a schema without x-owner
  None,
  MaxCalls, MaxHands, MaxStarts,   \* bounds: tool calls, changes by hand, restarts
  MaxSpent                         \* and all of them together, a change by hand twice

ASSUME DefaultIsKnown == Default \in Known /\ Known \subseteq Wikis
ASSUME AudibleAreWikis == Audible \subseteq Wikis
ASSUME NoneIsNone == None \notin Contents /\ None \notin Wikis
ASSUME ContentsHaveOwners == \A c \in Contents : DOMAIN c = {"owner", "ver"}

VARIABLES
  disk,      \* the global config file: [wikis, default]
  config,    \* the engine's copy of it, taken when it was built
  mounted,   \* by wiki: NotMounted, NoType or the compiled [path, content]
  files,     \* by wiki: its two schema files
  broken,    \* wikis whose schemas/ does not compile
  req,       \* what each thread is doing
  watched,   \* wikis mounted when the watcher started
  window,    \* what the watcher's channel and debounce have collected: [pages, schemas]
  behind,    \* wikis with a changed page the index has not seen
  lost,      \* history: those whose change the watcher does not know of
  faulted,   \* history: of the last page edited or window spent, the wikis whose
             \* event was dropped or whose update failed
  overlapped,\* history: wikis named by two changes in flight at once
  halfDone,  \* history: wikis a call failed on after its first effect
  byHand,    \* history: schemas changed by hand since they were compiled
  spent      \* bound: [calls, hands, starts]

history == <<lost, faulted, overlapped, halfDone, byHand, spent>>
mountVars == <<disk, config, mounted, files, broken, req, watched, window, behind, history>>

NotMounted == [path |-> "none", content |-> None]
NoType     == [path |-> "embedded", content |-> None]
Paths      == {"own", "added"}

\* the files that declare the type; the last in their order stands
Parsed(w) == {p \in Paths : files[w][p] # None}

Compiled(w) ==
  IF Parsed(w) = {} THEN NoType
  ELSE LET p == IF "added" \in Parsed(w) THEN "added" ELSE "own"
       IN  [path |-> p, content |-> files[w][p]]

Mounts(w) == mounted[w] # NotMounted

SchemaKinds   == {"register", "evolve", "drop"}
RegistryKinds == {"create", "createDefault", "remove", "default"}  \* and "adopt", see AfterSave
Kinds         == SchemaKinds \cup RegistryKinds \cup {"ingest"}

Resting == [kind |-> "rest", wiki |-> Default, content |-> None, pc |-> "rest",
            saw |-> [wikis |-> {}, default |-> None]]

Busy    == {th \in Threads : req[th].pc # "rest"}
Readers == {th \in Threads : req[th].pc \in {"write", "release", "admit", "nested"}}
Waiting == {th \in Threads : req[th].pc \in {"mount", "unmount", "setdefault"}}

\* RwLock::read and RwLock::write
MayRead  == Waiting = {}
MayWrite == Readers = {}

Answer(th)   == req' = [req EXCEPT ![th] = Resting]
Goto(th, pc) == req' = [req EXCEPT ![th].pc = pc]

\* Events are sent without waiting: where the channel is full, or the system
\* has dropped them, the watcher hears of nothing.  And of pages it takes only
\* those with /wiki/ in their path.
Note(w)  == \E heard \in SUBSET ({w} \cap watched) : window' = [window EXCEPT !.schemas = @ \cup heard]
Hears(w) == {w} \cap watched \cap Audible

Build(registered) ==
  [w \in Wikis |-> IF w \in registered \ broken THEN Compiled(w) ELSE NotMounted]

InitMounts ==
  /\ disk = [wikis |-> Known, default |-> Default]
  /\ config = disk
  /\ files = [w \in Wikis |-> [p \in Paths |-> None]]
  /\ broken = {}
  /\ mounted = Build(Known)
  /\ req = [th \in Threads |-> Resting]
  /\ watched = Known
  /\ window = [pages |-> {}, schemas |-> {}]
  /\ behind = {} /\ lost = {} /\ faulted = {} /\ overlapped = {} /\ halfDone = {} /\ byHand = {}
  /\ spent = [calls |-> 0, hands |-> 0, starts |-> 0]

-----------------------------------------------------------------------------
(* A call begins.  The guard each handler takes first, to read the config  *)
(* path or the entry, changes nothing and is dropped at once.              *)

Conflicts(k, w) ==
  {th \in Busy : /\ req[th].kind # "ingest" /\ k # "ingest"
                 /\ \/ req[th].wiki = w
                    \/ k \in RegistryKinds /\ req[th].kind \in RegistryKinds \cup {"adopt"}}

\* admin_remove unmounts before it touches the registry, the others save first
MaySpend(n) == spent.calls + 2 * spent.hands + spent.starts + n <= MaxSpent

FirstStep(k) == CASE k \in SchemaKinds \cup {"ingest"} -> "guard"
                  [] k = "remove" -> "unmount"
                  [] OTHER -> "load"

Call(th, k, w, c) ==
  /\ th \notin Busy /\ MayRead
  /\ spent.calls < MaxCalls /\ MaySpend(1)
  /\ (c = None) <=> (k \notin {"register", "evolve"})
  /\ req' = [req EXCEPT ![th] = [Resting EXCEPT !.kind = k, !.wiki = w, !.content = c, !.pc = FirstStep(k)]]
  /\ overlapped' = IF Conflicts(k, w) = {} THEN overlapped
                   ELSE overlapped \cup {w} \cup {req[o].wiki : o \in Conflicts(k, w)}
  /\ spent' = [spent EXCEPT !.calls = @ + 1]
  /\ UNCHANGED <<disk, config, mounted, files, broken, watched, window, behind, lost, faulted, halfDone, byHand>>

-----------------------------------------------------------------------------
(* The schema door *)

\* the registered schema, read from the file the mounted registry names
Shown(w) == IF mounted[w].path \in Paths THEN files[w][mounted[w].path] ELSE None

RegisterAdmits(r) == mounted[r.wiki] = NoType

\* mutant: evolve takes any owner's schema
EvolveAdmitsAny(r) == Shown(r.wiki) \notin {None, r.content}

EvolveAdmits(r) == /\ Shown(r.wiki) \notin {None, r.content}
                   /\ Shown(r.wiki).owner # NoOwner
                   /\ Shown(r.wiki).owner = r.content.owner

DropAdmits(r) == Shown(r.wiki) # None

Admits(r) == /\ r.kind = "register" => RegisterAdmits(r)
             /\ r.kind = "evolve"   => EvolveAdmits(r)
             /\ r.kind = "drop"     => DropAdmits(r)

Guard(th) ==
  /\ req[th].pc = "guard"
  /\ IF Mounts(req[th].wiki) /\ Admits(req[th])
     THEN Goto(th, IF req[th].kind = "ingest" THEN "admit" ELSE "write")
     ELSE Answer(th)
  /\ UNCHANGED <<disk, config, mounted, files, broken, watched, window, behind, history>>

\* the file is written or removed, then the index rebuilt, all under the guard
Write(th) ==
  LET w == req[th].wiki IN
  /\ req[th].pc = "write"
  /\ files' = IF req[th].kind = "drop" THEN [files EXCEPT ![w][mounted[w].path] = None]
              ELSE [files EXCEPT ![w]["own"] = req[th].content]
  /\ Goto(th, "release")
  /\ Note(w)
  /\ UNCHANGED <<disk, config, mounted, broken, watched, behind, history>>

\* mutant: the change is answered without a remount
ReleaseOnly(th) ==
  /\ req[th].pc = "release" /\ Answer(th)
  /\ UNCHANGED <<disk, config, mounted, files, broken, watched, window, behind, history>>

\* the guard is dropped; the entry to mount again comes from the engine's config
Release(th) ==
  /\ req[th].pc = "release"
  /\ IF req[th].wiki \in config.wikis THEN Goto(th, "mount") ELSE Answer(th)
  /\ UNCHANGED <<disk, config, mounted, files, broken, watched, window, behind, history>>

Mount(th) ==
  LET w == req[th].wiki IN
  /\ req[th].pc = "mount"
  /\ Answer(th)
  /\ IF w \in broken
     THEN halfDone' = halfDone \cup {w} /\ UNCHANGED <<mounted, byHand>>
     ELSE mounted' = [mounted EXCEPT ![w] = Compiled(w)]
          /\ byHand' = byHand \ {w} /\ UNCHANGED halfDone
  /\ UNCHANGED <<disk, config, files, broken, watched, window, behind, lost, faulted, overlapped, spent>>

-----------------------------------------------------------------------------
(* The registry of wikis: every change loads the config file and saves it  *)
(* whole, under no lock.                                                   *)

Refused(r) ==
  CASE r.kind \in {"create", "createDefault"} -> r.wiki \in disk.wikis
    [] r.kind \in {"default", "adopt"}        -> r.wiki \notin disk.wikis
    [] r.kind = "remove"                      -> disk.default = r.wiki \/ r.wiki \notin disk.wikis

Load(th) ==
  LET r == req[th] IN
  /\ r.pc = "load"
  /\ req' = [req EXCEPT ![th] = IF Refused(r) THEN Resting ELSE [r EXCEPT !.saw = disk, !.pc = "save"]]
  /\ halfDone' = IF Refused(r) /\ r.kind \in {"remove", "adopt"} THEN halfDone \cup {r.wiki} ELSE halfDone
  /\ UNCHANGED <<disk, config, mounted, files, broken, watched, window, behind, lost, faulted, overlapped, byHand, spent>>

\* mutant: the entry saved is not the wiki that was asked for
RegisteredNameless(r) == [r.saw EXCEPT !.wikis = @ \cup {r.content}]

Registered(r)  == [r.saw EXCEPT !.wikis = @ \cup {r.wiki}]
Removed(r)     == [r.saw EXCEPT !.wikis = @ \ {r.wiki}]
DefaultSet(r)  == [r.saw EXCEPT !.default = r.wiki]

\* mutant: a created wiki is not mounted
AfterSaveDone(r) ==
  CASE r.kind = "createDefault" -> [r EXCEPT !.kind = "adopt", !.pc = "load"]
    [] r.kind = "default" -> [r EXCEPT !.pc = "setdefault"]
    [] OTHER -> Resting

\* create with set_default saves twice; only the second save names the default
AfterSave(r) ==
  CASE r.kind = "createDefault" -> [r EXCEPT !.kind = "adopt", !.pc = "load"]
    [] r.kind \in {"create", "adopt"} -> [r EXCEPT !.pc = "mount"]
    [] r.kind = "default" -> [r EXCEPT !.pc = "setdefault"]
    [] OTHER -> Resting

Save(th) ==
  LET r == req[th] IN
  /\ r.pc = "save"
  /\ disk' = CASE r.kind \in {"create", "createDefault"} -> Registered(r)
               [] r.kind = "remove" -> Removed(r)
               [] OTHER -> DefaultSet(r)
  /\ req' = [req EXCEPT ![th] = AfterSave(r)]
  /\ \E delete \in BOOLEAN :
        /\ delete => r.kind = "remove"
        /\ files' = IF delete THEN [files EXCEPT ![r.wiki] = [p \in Paths |-> None]] ELSE files
        /\ broken' = IF delete THEN broken \ {r.wiki} ELSE broken
  /\ UNCHANGED <<config, mounted, watched, window, behind, history>>

Unmount(th) ==
  LET w == req[th].wiki IN
  /\ req[th].pc = "unmount"
  /\ IF config.default = w \/ ~Mounts(w)
     THEN Answer(th) /\ UNCHANGED mounted
     ELSE Goto(th, "load") /\ mounted' = [mounted EXCEPT ![w] = NotMounted]
  /\ UNCHANGED <<disk, config, files, broken, watched, window, behind, history>>

SetDefault(th) ==
  LET w == req[th].wiki IN
  /\ req[th].pc = "setdefault"
  /\ Answer(th)
  /\ IF Mounts(w) THEN config' = [config EXCEPT !.default = w] /\ UNCHANGED halfDone
     ELSE halfDone' = halfDone \cup {w} /\ UNCHANGED config
  /\ UNCHANGED <<disk, mounted, files, broken, watched, window, behind, lost, faulted, overlapped, byHand, spent>>

-----------------------------------------------------------------------------
(* Admission: the handler's guard, the wiki's git_lock, and inside both a  *)
(* second guard for the index.                                             *)

TakeGitLock(th) ==
  /\ req[th].pc = "admit"
  /\ Goto(th, "nested")
  /\ UNCHANGED <<disk, config, mounted, files, broken, watched, window, behind, history>>

\* or fails, and the call is answered with a warning
RefreshIndex(th) ==
  /\ req[th].pc = "nested"
  /\ Answer(th)
  /\ \E done \in SUBSET {req[th].wiki} : behind' = behind \ done /\ lost' = lost \ done
  /\ UNCHANGED <<disk, config, mounted, files, broken, watched, window, faulted, overlapped, halfDone, byHand, spent>>

-----------------------------------------------------------------------------
(* The watcher: one debounce window at a time *)

WatchSchemas ==
  /\ window.schemas # {} /\ MayRead
  /\ \E seen \in SUBSET (window.schemas \cap behind) :
        /\ behind' = behind \ seen
        /\ lost' = (lost \ seen) \cup ((window.pages \cap behind) \ seen)
  /\ window' = [pages |-> {}, schemas |-> {}]
  /\ faulted' = {}
  /\ UNCHANGED <<disk, config, mounted, files, broken, req, watched, overlapped, halfDone, byHand, spent>>

\* mutant: the window is forgotten before the pages in it are ingested
WatchForgets ==
  /\ window.pages # {} /\ window.schemas = {} /\ MayRead
  /\ window' = [pages |-> {}, schemas |-> {}]
  /\ UNCHANGED <<disk, config, mounted, files, broken, req, watched, behind, lost, faulted, overlapped, halfDone, byHand, spent>>

\* an update that fails is logged, and the window is spent all the same
WatchPages ==
  LET served == {w \in window.pages : Mounts(w)} IN
  /\ window.pages # {} /\ window.schemas = {} /\ MayRead
  /\ \E done \in SUBSET served :
        /\ behind' = behind \ done
        /\ lost' = (lost \ done) \cup ((window.pages \ done) \cap behind)
        /\ faulted' = served \ done
  /\ window' = [pages |-> {}, schemas |-> {}]
  /\ UNCHANGED <<disk, config, mounted, files, broken, req, watched, overlapped, halfDone, byHand, spent>>

-----------------------------------------------------------------------------
(* The world: page files change, schemas are added by hand or by another   *)
(* process's `admin schema add`, and the server is started again.          *)

Hand == /\ spent.hands < MaxHands /\ MaySpend(2)
        /\ spent' = [spent EXCEPT !.hands = @ + 1]

EditPage(w) ==
  /\ Hand
  /\ behind' = behind \cup {w}
  /\ \E heard \in SUBSET Hears(w) :
        /\ window' = [window EXCEPT !.pages = @ \cup heard]
        /\ faulted' = Hears(w) \ heard
  /\ lost' = (lost \cup {w}) \ window'.pages
  /\ UNCHANGED <<disk, config, mounted, files, broken, req, watched, overlapped, halfDone, byHand>>

AddSchema(w, p, c) ==
  /\ Hand
  /\ files' = [files EXCEPT ![w][p] = c]
  /\ byHand' = byHand \cup {w}
  /\ Note(w)
  /\ UNCHANGED <<disk, config, mounted, broken, req, watched, behind, lost, faulted, overlapped, halfDone>>

BreakSchemas(w) ==
  /\ Hand
  /\ broken' = broken \cup {w}
  /\ byHand' = byHand \cup {w}
  /\ Note(w)
  /\ UNCHANGED <<disk, config, mounted, files, req, watched, behind, lost, faulted, overlapped, halfDone>>

Restart ==
  /\ spent.starts < MaxStarts /\ MaySpend(1)
  /\ spent' = [spent EXCEPT !.starts = @ + 1]
  /\ config' = disk
  /\ mounted' = Build(disk.wikis)
  /\ req' = [th \in Threads |-> Resting]
  /\ watched' = disk.wikis \ broken
  /\ window' = [pages |-> {}, schemas |-> {}]
  /\ lost' = behind /\ faulted' = {}
  /\ overlapped' = {} /\ halfDone' = broken /\ byHand' = broken
  /\ UNCHANGED <<disk, files, broken, behind>>

-----------------------------------------------------------------------------
(* A handler's step takes its lock first, and waits for nothing else.      *)

GitLockIsFree(w) == \A th \in Threads : ~(req[th].pc = "nested" /\ req[th].wiki = w)

GetsLock(th) == /\ req[th].pc \in {"guard", "nested"} => MayRead
                /\ req[th].pc \in {"mount", "unmount", "setdefault"} => MayWrite
                /\ req[th].pc = "admit" => GitLockIsFree(req[th].wiki)

Step(th) ==
  /\ GetsLock(th)
  /\ \/ Guard(th) \/ Write(th) \/ Release(th) \/ Mount(th)
     \/ Load(th) \/ Save(th) \/ Unmount(th) \/ SetDefault(th)
     \/ TakeGitLock(th) \/ RefreshIndex(th)

World == \E w \in Wikis : \/ EditPage(w) \/ BreakSchemas(w)
                          \/ \E p \in Paths, c \in Contents : AddSchema(w, p, c)

NextMounts ==
  \/ \E th \in Threads : Step(th)
  \/ \E th \in Threads, k \in Kinds, w \in Wikis, c \in Contents \cup {None} : Call(th, k, w, c)
  \/ WatchSchemas \/ WatchPages \/ World \/ Restart

SpecMounts == InitMounts /\ [][NextMounts]_mountVars

-----------------------------------------------------------------------------
Configs == [wikis : SUBSET Wikis, default : Wikis \cup {None}]

\* Every variable holds a value of its kind (the structures of engine.rs and
\* config.rs).
TypeOK ==
  /\ disk \in Configs /\ config \in Configs
  /\ mounted \in [Wikis -> [path : Paths \cup {"none", "embedded"}, content : Contents \cup {None}]]
  /\ files \in [Wikis -> [Paths -> Contents \cup {None}]]
  /\ req \in [Threads -> [kind : Kinds \cup {"rest", "adopt"}, wiki : Wikis, content : Contents \cup {None},
                          pc : {"rest", "guard", "write", "release", "mount", "load", "save", "unmount",
                                "setdefault", "admit", "nested"}, saw : Configs]]
  /\ window \in [pages : SUBSET Wikis, schemas : SUBSET Wikis]
  /\ \A s \in {broken, watched, behind, lost, faulted, overlapped, halfDone, byHand} : s \subseteq Wikis

Lagging(w)   == Mounts(w) /\ mounted[w] # Compiled(w)
Remounting(w) == \E th \in Threads : req[th].wiki = w /\ req[th].pc \in {"release", "mount"}

\* A served wiki validates with the schemas that are on disk: a change made
\* through the door is live once its call has been answered (handlers.rs:
\* "remount so this live process validates and indexes the new type from here
\* on").  The exceptions are a change by hand, a wiki mounted since the engine
\* was built, which its config does not list, and one whose directory a removal
\* deleted although a remount of it was under way.
LiveTypes ==
  \A w \in Wikis : Lagging(w) =>
     \/ Remounting(w) \/ w \in byHand
     \/ w \notin config.wikis
     \/ w \in overlapped /\ Compiled(w) = NoType

\* With no change in flight, the mounted wikis are the registered ones: until
\* two changes overlap (each saves the whole config file, and a remount can
\* follow a removal) or a call fails halfway (ops/admin.rs unmounts before the
\* registry refuses, and registers before the mount fails).
MountedAreRegistered ==
  \A w \in Wikis \ (overlapped \cup halfDone) :
     (\A th \in Threads : req[th].wiki = w => req[th].kind \in {"rest", "ingest"})
       => (Mounts(w) <=> w \in disk.wikis)

\* Handlers wait for each other forever in one case only: one that holds its
\* guard reaches refresh_index's read() while another waits in write()
\* (engine.rs: "Safe to share across async tasks").
WedgedOnlyByNesting ==
  (Busy # {} /\ \A th \in Busy : ~GetsLock(th))
     => Waiting # {} /\ \E th \in Threads : req[th].pc = "nested"

\* The running engine serves what is registered, with the schemas on disk, and
\* answers everybody, up to the exceptions named above.
EngineAgrees == TypeOK /\ LiveTypes /\ MountedAreRegistered /\ WedgedOnlyByNesting

\* A schema keeps its owner for as long as it is there (schema.rs: "Evolution
\* keeps ownership", "never a silent overwrite"): a file of one owner is not
\* replaced by another's, unless two changes of the wiki overlapped, the engine
\* could not know of it (changed by hand, or a wiki its config does not list),
\* or a second file declares the same type.  And the engine's default wiki
\* stays mounted for as long as the engine runs.
OwnersKeep ==
  [][/\ \A w \in Wikis :
          LET old == files[w]["own"] new == files'[w]["own"] IN
          (old # None /\ new # None => old.owner = new.owner)
             \/ w \in overlapped \cup byHand' \/ w \notin config.wikis \/ files[w]["added"] # None
     /\ Mounts(config.default) => mounted'[config'.default] # NotMounted \/ spent'.starts > spent.starts]_mountVars

\* What the watcher was told of it does not forget: a page the index is behind
\* on is in its window, or in a wiki that was lost for one of these reasons
\* only.  Its change was never heard (a wiki mounted after the watcher started,
\* or not under a wiki/ directory); the event was dropped or the update failed;
\* the wiki was not mounted when the window was spent, or the window went to a
\* schema change ("rebuild takes priority"); or the server has started since.
EditsAreNoticed ==
  [][/\ (behind' \ lost') \subseteq window'.pages
     /\ \A w \in lost' \ lost :
          \/ Hears(w) = {} \/ ~Mounts(w) \/ w \in faulted'
          \/ window.schemas # {} /\ window'.schemas = {}
          \/ spent'.starts > spent.starts]_mountVars
=============================================================================

--------------------------- MODULE WikiGraphCache ---------------------------
(***************************************************************************)
(* The concept graph an llm-wiki process hands out, and the communities    *)
(* computed from it: which of its caches answers, under which key           *)
(* (engine.rs, graph.rs, index_manager.rs, mcp/handlers.rs).                *)
(*                                                                         *)
(* Some processes serve one wiki.  Each holds a reader of the shared index  *)
(* that moves only when the process itself reloads it, and a generation    *)
(* counting its reloads; they share state.toml, whose build key identifies *)
(* the index, and the directory of graph snapshots.  A graph is the        *)
(* version of the index it was built from.                                 *)
(***************************************************************************)
EXTENDS Naturals, FiniteSets, SequencesExt

CONSTANTS Servers,      \* the processes
          Keep,         \* graph.snapshot_keep
          MaxUpdates, MaxRequests, MaxRestarts   \* bounds

VARIABLES snapshot,     \* graph.snapshot, read when the wiki is mounted
          autoRebuild,  \* index.auto_rebuild
          built,        \* the version the index on disk holds
          stateToml,    \* the versions state.toml recorded, one per build key, the last its own
          snapshots,    \* the persisted graphs [key, version], oldest first
          server,       \* what each process holds
          rounds        \* bounds: [updates, requests, restarts]

graphVars == <<snapshot, autoRebuild, built, stateToml, snapshots, server, rounds>>

NoGraph == [key |-> 0, version |-> 0]        \* keys and generations begin at 1
NoRequest == [pc |-> "idle", kind |-> "graph", searcher |-> 0, gen |-> 0, key |-> 0]
NoAnswer == [version |-> 0, shown |-> 0, excused |-> FALSE]

----------------------------------------------------------------------------
(* The caches.  GenerationCache and GraphState are petgraph-live's: the    *)
(* one entry answers while its key is the current one; else GraphState     *)
(* looks for a snapshot of that key before it builds and persists one.     *)

\* WikiIndexManager::build_key when snapshots are on, else the generation
BuildKey == Len(stateToml)
LastRecorded == stateToml[BuildKey]
KeyNow(s) == IF snapshot THEN BuildKey ELSE server[s].gen

OfKey(key) == {k \in DOMAIN snapshots : snapshots[k].key = key}
Persisted(g) ==
  LET same == OfKey(g.key)
      others == IF same = {} THEN snapshots ELSE RemoveAt(snapshots, CHOOSE k \in same : TRUE)
      all == Append(others, g)
  IN IF Len(all) > Keep THEN Tail(all) ELSE all

\* WikiGraphCache::get_fresh, for a searcher taken earlier: the builder of
\* engine.rs takes a searcher of its own.
GetFresh(s, key, searcher) ==
  IF server[s].graph.key = key THEN server[s].graph
  ELSE IF ~snapshot THEN [key |-> key, version |-> searcher]
  ELSE IF OfKey(key) # {} THEN snapshots[CHOOSE k \in OfKey(key) : TRUE]
  ELSE [key |-> key, version |-> server[s].reader]

\* A graph is built, and persisted, under the key of an index this process
\* does not read yet, whoever has written state.toml since the key was read.
Lags(s, key) == /\ snapshot /\ server[s].graph.key # key /\ OfKey(key) = {}
                /\ server[s].reader < stateToml[key]

----------------------------------------------------------------------------
(* The index: update and rebuild hold the index's only writer until they   *)
(* return.                                                                 *)

Writing(s) == server[s].update # "idle"
Busy(s) == server[s].req.pc # "idle"

\* writer.commit()
CommitIndex(s, kind) ==
  /\ rounds.updates < MaxUpdates /\ \A t \in Servers : ~Writing(t)
  /\ built' = built + 1
  /\ server' = [server EXCEPT ![s].update = "committed", ![s].rebuild = kind = "rebuild"]
  /\ rounds' = [rounds EXCEPT !.updates = @ + 1]
  /\ UNCHANGED <<snapshot, autoRebuild, stateToml, snapshots>>

\* Mutant: the reader is reloaded and the generation stays.
ReloadOnly(s) ==
  /\ server[s].update = "committed"
  /\ server' = [server EXCEPT ![s].reader = built, ![s].update = "reloaded",
                              ![s].overlap = Busy(s)]
  /\ UNCHANGED <<snapshot, autoRebuild, built, stateToml, snapshots, rounds>>

\* reload_reader, or the handles rebuild installs; what an earlier overlap
\* left behind ends here.
ReloadReader(s) ==
  /\ server[s].update = "committed"
  /\ server' = [server EXCEPT ![s].reader = built, ![s].gen = @ + 1, ![s].update = "reloaded",
                              ![s].overlap = Busy(s)]
  /\ UNCHANGED <<snapshot, autoRebuild, built, stateToml, snapshots, rounds>>

\* fs::write of state.toml
WriteState(s) ==
  /\ server[s].update = "reloaded"
  /\ stateToml' = Append(stateToml, built)
  /\ server' = [server EXCEPT ![s].update = IF server[s].rebuild THEN "refreshing" ELSE "idle"]
  /\ UNCHANGED <<snapshot, autoRebuild, built, snapshots, rounds>>

\* handle_admin_index_rebuild, when the index is back: WikiGraphCache::rebuild
RebuildGraph(s) ==
  /\ server[s].update = "refreshing"
  /\ LET g == [key |-> KeyNow(s), version |-> server[s].reader]
     IN /\ server' = [t \in Servers |->
                        [server[t] EXCEPT
                           !.update = IF t = s THEN "idle" ELSE @,
                           !.graph = IF t = s THEN g ELSE @,
                           !.overlap = @ \/ (snapshot /\ server[s].reader < LastRecorded)]]
        /\ snapshots' = IF snapshot THEN Persisted(g) ELSE snapshots
  /\ UNCHANGED <<snapshot, autoRebuild, built, stateToml, rounds>>

----------------------------------------------------------------------------
(* Requests: graph_build, lint and suggest ask for the graph, stats and    *)
(* suggest for the communities.                                            *)

TakeSearcher(s, kind) ==
  /\ ~Busy(s) /\ rounds.requests < MaxRequests
  /\ server' = [server EXCEPT ![s].req = [NoRequest EXCEPT !.pc = "searching", !.kind = kind,
                                                           !.searcher = server[s].reader],
                              ![s].overlap = @ \/ (snapshot /\ server[s].update = "reloaded")]
  /\ rounds' = [rounds EXCEPT !.requests = @ + 1]
  /\ UNCHANGED <<snapshot, autoRebuild, built, stateToml, snapshots>>

Answered(s, version, excused) ==
  [server[s] EXCEPT !.req = NoRequest,
                    !.answer = [version |-> version, shown |-> server[s].req.searcher,
                                excused |-> excused]]

\* index_manager.generation(); warm communities answer at once
ReadGeneration(s) ==
  /\ server[s].req.pc = "searching"
  /\ LET cached == server[s].communities
     IN server' = [server EXCEPT ![s] =
          IF server[s].req.kind = "communities" /\ cached.key = server[s].gen
          THEN Answered(s, cached.version, server[s].overlap)
          ELSE [server[s] EXCEPT !.req.pc = "keying", !.req.gen = server[s].gen]]
  /\ UNCHANGED <<snapshot, autoRebuild, built, stateToml, snapshots, rounds>>

\* key_fn, or the generation that was read
ReadKey(s) ==
  /\ server[s].req.pc = "keying"
  /\ server' = [server EXCEPT ![s].req.pc = "building",
                              ![s].req.key = IF snapshot THEN BuildKey ELSE server[s].req.gen]
  /\ UNCHANGED <<snapshot, autoRebuild, built, stateToml, snapshots, rounds>>

Build(s) ==
  /\ server[s].req.pc = "building"
  /\ LET req == server[s].req
         g == GetFresh(s, req.key, req.searcher)
         mine == [Answered(s, g.version, server[s].overlap \/ Lags(s, req.key)) EXCEPT
                    !.graph = g,
                    !.communities = IF req.kind = "communities"
                                    THEN [key |-> req.gen, version |-> g.version] ELSE @]
     IN /\ server' = [t \in Servers |->
                        [(IF t = s THEN mine ELSE server[t]) EXCEPT
                           !.overlap = @ \/ Lags(s, req.key)]]
        /\ snapshots' = IF snapshot /\ server[s].graph.key # req.key /\ OfKey(req.key) = {}
                        THEN Persisted(g) ELSE snapshots
  /\ UNCHANGED <<snapshot, autoRebuild, built, stateToml, rounds>>

----------------------------------------------------------------------------
(* A process dies, in the middle of an update or not, and mounts the wiki  *)
(* again: mount_wiki brings a stale index up to date when it is told to    *)
(* and no other process writes, opens it, and warms the graph up.          *)
AsMounted(version, graph, torn) ==
  [reader |-> version, gen |-> 1, graph |-> graph, communities |-> NoGraph,
   update |-> "idle", rebuild |-> FALSE, req |-> NoRequest, answer |-> NoAnswer, overlap |-> torn]

Restart(s) ==
  /\ rounds.restarts < MaxRestarts
  /\ LET catchesUp == /\ autoRebuild /\ LastRecorded # built
                      /\ \A t \in Servers \ {s} : ~Writing(t)
         after == IF catchesUp THEN Append(stateToml, built) ELSE stateToml
         key == Len(after)
         warm == IF ~snapshot THEN NoGraph
                 ELSE IF OfKey(key) # {} THEN snapshots[CHOOSE k \in OfKey(key) : TRUE]
                 ELSE [key |-> key, version |-> built]
     IN /\ stateToml' = after
        /\ server' = [server EXCEPT ![s] =
             AsMounted(built, warm, server[s].overlap \/ (snapshot /\ after[key] # built))]
        /\ snapshots' = IF snapshot /\ OfKey(key) = {} THEN Persisted(warm) ELSE snapshots
  /\ rounds' = [rounds EXCEPT !.restarts = @ + 1]
  /\ UNCHANGED <<snapshot, autoRebuild, built>>

----------------------------------------------------------------------------
InitGraph ==
  /\ snapshot \in BOOLEAN /\ autoRebuild \in BOOLEAN
  /\ built = 1 /\ stateToml = <<1>>
  /\ snapshots = IF snapshot THEN <<[key |-> 1, version |-> 1]>> ELSE <<>>
  /\ server = [s \in Servers |->
                 AsMounted(1, IF snapshot THEN [key |-> 1, version |-> 1] ELSE NoGraph, FALSE)]
  /\ rounds = [updates |-> 0, requests |-> 0, restarts |-> 0]

NextGraph ==
  \E s \in Servers :
    \/ CommitIndex(s, "update") \/ CommitIndex(s, "rebuild")
    \/ ReloadReader(s) \/ WriteState(s) \/ RebuildGraph(s)
    \/ TakeSearcher(s, "graph") \/ TakeSearcher(s, "communities")
    \/ ReadGeneration(s) \/ ReadKey(s) \/ Build(s)
    \/ Restart(s)

SpecGraph == InitGraph /\ [][NextGraph]_graphVars

----------------------------------------------------------------------------
\* Graph and communities answer for the index the request began with, or a
\* later one: what a process has just indexed is in its graph.  Only three
\* overlaps break it, and each until the process's own next update: a
\* request that meets the process's own reload or comes before state.toml
\* follows, a graph some process built for an index its reader lags behind,
\* and a start on an index whose state.toml was never written (graph.rs
\* get_or_build_graph, engine.rs build_wiki_graph_cache).  Without
\* snapshots the answer is of exactly that index.
GraphsKeepUpUntilOverlap ==
  \A s \in Servers :
    LET a == server[s].answer
    IN a.shown # 0 /\ ~a.excused =>
         /\ a.shown <= a.version /\ a.version <= built
         /\ ~snapshot => a.version = a.shown
=============================================================================

--------------------------- MODULE WikiEngineProofs ---------------------------
(***************************************************************************)
(* Proofs about llm-wiki's engine, for any number of processes, wikis and  *)
(* workers, any places, texts, schemas and settings and no bound on what   *)
(* happens.                                                                *)
(*                                                                         *)
(* First its mounts (WikiMounts): the running engine serves what is        *)
(* registered with the schemas on disk, schemas keep their owners, the     *)
(* watcher's edits are not forgotten, and handlers wait for ever only by   *)
(* nesting.  A handler knows its wiki by the guard it holds (Holds), and   *)
(* its change of the registry by the copy it loaded (Saws).  Both are good *)
(* for as long as no other change of the same wiki, or of the registry, is *)
(* in flight, and that is what Overlaps says of every pair of threads.     *)
(*                                                                         *)
(* Then its admissions (WikiAdmission): what they bring into the history.  *)
(*                                                                         *)
(* Last its configuration on disk (WikiSettings), with any commands in any *)
(* number of processes.  Nothing locks the files, so what a process holds  *)
(* is right only while no other command saves the same file.  Until two    *)
(* such commands meet (Apart), every held copy is the change its command   *)
(* makes of the file as it is now, and every step of a command has kept    *)
(* what the command promised so far (WorksWell); names stay unique and     *)
(* double directories are remembered whatever happens.                     *)
(***************************************************************************)
EXTENDS WikiMounts, WikiAdmission, WikiSettings, TLAPS, SequenceTheorems


Quiet == {"rest", "ingest"}
Registering == RegistryKinds \cup {"adopt"}

(* The steps of a call of each kind.                                       *)
StepsOf(k) ==
  CASE k = "rest" -> {"rest"}
    [] k = "ingest" -> {"guard", "admit", "nested"}
    [] k \in SchemaKinds -> {"guard", "write", "release", "mount"}
    [] k \in {"create", "adopt"} -> {"load", "save", "mount"}
    [] k = "createDefault" -> {"load", "save"}
    [] k = "remove" -> {"unmount", "load", "save"}
    [] k = "default" -> {"load", "save", "setdefault"}

Shapes ==
  \A th \in Threads :
    /\ req[th].pc \in StepsOf(req[th].kind)
    /\ req[th].kind \in {"register", "evolve"} => req[th].content \in Contents

(* Two changes of one wiki, or of the registry, are known to overlap.      *)
Overlaps ==
  \A th, o \in Threads : th # o =>
    /\ req[th].kind \notin Quiet /\ req[o].kind \notin Quiet /\ req[th].wiki = req[o].wiki =>
         req[th].wiki \in overlapped
    /\ req[th].kind \in Registering /\ req[o].kind \in Registering =>
         req[th].wiki \in overlapped

(* What a schema change was admitted on still stands under its guard.      *)
Holds ==
  \A th \in Threads :
    LET w == req[th].wiki IN
    req[th].pc = "write" /\ w \notin overlapped \cup byHand =>
      /\ req[th].kind = "register" => mounted[w] = NoType
      /\ req[th].kind = "evolve" => Shown(w) # None /\ Shown(w).owner = req[th].content.owner

(* A copy of the registry is right about every wiki no overlap named.      *)
Saws ==
  \A th \in Threads : req[th].pc = "save" =>
    \A w \in Wikis \ overlapped : w \in req[th].saw.wikis <=> w \in disk.wikis

(* The change in flight between its effect on the engine and on the file.  *)
Between(r) == \/ r.kind = "create" /\ r.pc = "mount"
              \/ r.kind = "adopt"
              \/ r.kind = "remove" /\ r.pc \in {"load", "save"}

Settled(w) ==
  /\ (\A th \in Threads : req[th].wiki = w => ~Between(req[th])) => (Mounts(w) <=> w \in disk.wikis)
  /\ \A th \in Threads : req[th].wiki = w =>
       /\ (req[th].kind = "create" /\ req[th].pc = "mount") \/ req[th].kind = "adopt" => w \in disk.wikis
       /\ req[th].kind = "remove" /\ req[th].pc \in {"load", "save"} => ~Mounts(w)
       /\ req[th].kind \in SchemaKinds /\ req[th].pc \in {"write", "release", "mount"} => Mounts(w)

AllSettled == \A w \in Wikis \ (overlapped \cup halfDone) : Settled(w)

(* A removal works on a wiki that is not mounted, unless it is overlapped. *)
Removes ==
  \A th \in Threads :
    req[th].kind = "remove" /\ req[th].pc \in {"load", "save"} /\ Mounts(req[th].wiki) =>
      req[th].wiki \in overlapped

BrokenIsByHand == broken \subseteq byHand

Inv == /\ TypeOK /\ Shapes /\ Overlaps
       /\ Holds /\ BrokenIsByHand /\ Removes /\ LiveTypes
       /\ Saws /\ AllSettled

-----------------------------------------------------------------------------
(* What handlers are doing, step by step.                                  *)

Requests == [kind : Kinds \cup {"rest", "adopt"}, wiki : Wikis, content : Contents \cup {None},
             pc : {"rest", "guard", "write", "release", "mount", "load", "save", "unmount",
                   "setdefault", "admit", "nested"}, saw : Configs]

Served == [path : Paths \cup {"none", "embedded"}, content : Contents \cup {None}]

(* The call goes on with the wiki it named, or has been answered.          *)
Follows(r, next) ==
  \/ next = Resting
  \/ /\ next.wiki = r.wiki /\ next.content = r.content
     /\ next.kind = r.kind \/ (r.kind = "createDefault" /\ next.kind = "adopt")
     /\ next.pc \in StepsOf(next.kind)

LEMMA RestingIs ==
  /\ Resting \in Requests /\ Resting.kind = "rest" /\ Resting.pc = "rest" /\ Resting.pc \in StepsOf("rest")
  /\ Resting.wiki \in Wikis
BY DefaultIsKnown DEF Resting, Requests, Configs, StepsOf, SchemaKinds

LEMMA Fields ==
  ASSUME TypeOK, NEW th \in Threads
  PROVE  /\ req[th] \in Requests /\ req[th].wiki \in Wikis /\ req[th].content \in Contents \cup {None}
         /\ req[th].saw \in Configs /\ req[th].saw.wikis \subseteq Wikis
         /\ req[th].saw.default \in Wikis \cup {None}
         /\ req[th].kind \in Kinds \cup {"rest", "adopt"}
         /\ disk \in Configs /\ disk.wikis \subseteq Wikis /\ disk.default \in Wikis \cup {None}
<1>1. req \in [Threads -> Requests] /\ disk \in Configs
  BY DEF TypeOK, Requests
<1>2. req[th] \in Requests
  BY <1>1
<1>3. QED
  BY <1>1, <1>2 DEF Requests, Configs

LEMMA GotoIs ==
  ASSUME NEW r \in Requests, NEW pc \in StepsOf(r.kind), NEW next, next = [r EXCEPT !.pc = pc]
  PROVE  /\ next \in Requests /\ next.kind = r.kind /\ next.wiki = r.wiki
         /\ next.content = r.content /\ next.saw = r.saw /\ next.pc = pc /\ Follows(r, next)
<1>1. r.kind \in Kinds \cup {"rest", "adopt"}
  BY DEF Requests
<1>2. pc \in {"rest", "guard", "write", "release", "mount", "load", "save", "unmount",
              "setdefault", "admit", "nested"}
  BY <1>1 DEF StepsOf, Kinds, SchemaKinds, RegistryKinds
<1>3. QED
  BY <1>2 DEF Requests, Follows

(* Every step of a handler goes on with its call.                          *)
Goes(th) == \E next \in Requests : /\ req' = [req EXCEPT ![th] = next]
                                   /\ Follows(req[th], next)

LEMMA StepGoes ==
  ASSUME TypeOK, Shapes, NEW th \in Threads, Step(th)
  PROVE  Goes(th)
<1>1. PICK r \in Requests : r = req[th]
  BY Fields
<1>2. req \in [Threads -> Requests]
  BY DEF TypeOK, Requests
<1>3. r.pc \in StepsOf(r.kind) /\ r.kind \in Kinds \cup {"rest", "adopt"}
  BY <1>1 DEF Shapes, Requests
<1>4. Answer(th) => Goes(th)
  BY RestingIs DEF Answer, Goes, Follows
<1>5. ASSUME NEW pc \in StepsOf(r.kind), Goto(th, pc) PROVE Goes(th)
  <2>1. req' = [req EXCEPT ![th] = [r EXCEPT !.pc = pc]]
    BY <1>1, <1>2, <1>5 DEF Goto
  <2>2. QED
    BY <1>1, <2>1, GotoIs DEF Goes
<1>6. CASE Guard(th)
  <2>1. r.kind \in SchemaKinds \cup {"ingest"}
    BY <1>1, <1>3, <1>6 DEF Guard, StepsOf, Kinds, SchemaKinds, RegistryKinds
  <2>2. "admit" \in StepsOf("ingest") /\ \A k \in SchemaKinds : "write" \in StepsOf(k)
    BY DEF StepsOf, SchemaKinds
  <2>3. Answer(th) \/ \E pc \in StepsOf(r.kind) : Goto(th, pc)
    BY <1>1, <1>6, <2>1, <2>2 DEF Guard
  <2>4. QED
    BY <1>4, <1>5, <2>3
<1>7. CASE Write(th) \/ Release(th)
  <2>1. r.kind \in SchemaKinds
    BY <1>1, <1>3, <1>7 DEF Write, Release, StepsOf, Kinds, SchemaKinds, RegistryKinds
  <2>2. "release" \in StepsOf(r.kind) /\ "mount" \in StepsOf(r.kind)
    BY <2>1 DEF StepsOf, SchemaKinds
  <2>3. Answer(th) \/ Goto(th, "release") \/ Goto(th, "mount")
    BY <1>7 DEF Write, Release
  <2>4. QED
    BY <1>4, <1>5, <2>2, <2>3
<1>8. CASE Mount(th) \/ SetDefault(th) \/ RefreshIndex(th)
  BY <1>4, <1>8 DEF Mount, SetDefault, RefreshIndex
<1>9. CASE Load(th)
  <2>1. CASE Refused(r)
    BY <1>1, <1>9, <2>1, RestingIs DEF Load, Goes, Follows
  <2>2. CASE ~Refused(r)
    <3>1. "save" \in StepsOf(r.kind) /\ disk \in Configs
      BY <1>1, <1>3, <1>9 DEF Load, StepsOf, Kinds, SchemaKinds, RegistryKinds, TypeOK
    <3>2. PICK next : next = [r EXCEPT !.saw = disk, !.pc = "save"]
      OBVIOUS
    <3>3. next \in Requests /\ Follows(r, next)
      BY <3>1, <3>2 DEF Requests, Follows
    <3>4. req' = [req EXCEPT ![th] = next]
      BY <1>1, <1>9, <2>2, <3>2 DEF Load
    <3>5. QED
      BY <1>1, <3>3, <3>4 DEF Goes
  <2>3. QED
    BY <2>1, <2>2
<1>10. CASE Save(th)
  <2>1. PICK next : next = AfterSave(r)
    OBVIOUS
  <2>2. next \in Requests /\ Follows(r, next)
    <3>1. r.kind \in Registering
      BY <1>1, <1>3, <1>10 DEF Save, StepsOf, Kinds, SchemaKinds, RegistryKinds, Registering
    <3>2. CASE r.kind = "createDefault"
      <4>1. "load" \in StepsOf("adopt")
        BY DEF StepsOf, SchemaKinds
      <4>2. next = [r EXCEPT !.kind = "adopt", !.pc = "load"]
        BY <2>1, <3>2 DEF AfterSave
      <4>3. QED
        BY <3>2, <4>1, <4>2 DEF Requests, Follows
    <3>3. CASE r.kind \in {"create", "adopt"}
      <4>1. "mount" \in StepsOf(r.kind)
        BY <3>3 DEF StepsOf, SchemaKinds
      <4>2. next = [r EXCEPT !.pc = "mount"]
        BY <2>1, <3>3 DEF AfterSave
      <4>3. QED
        BY <4>1, <4>2, GotoIs
    <3>4. CASE r.kind = "default"
      <4>1. "setdefault" \in StepsOf(r.kind)
        BY <3>4 DEF StepsOf, SchemaKinds
      <4>2. next = [r EXCEPT !.pc = "setdefault"]
        BY <2>1, <3>4 DEF AfterSave
      <4>3. QED
        BY <4>1, <4>2, GotoIs
    <3>5. CASE r.kind = "remove"
      BY <2>1, <3>5, RestingIs DEF AfterSave, Follows
    <3>6. QED
      BY <3>1, <3>2, <3>3, <3>4, <3>5 DEF Registering, RegistryKinds
  <2>3. req' = [req EXCEPT ![th] = next]
    BY <1>1, <1>10, <2>1 DEF Save
  <2>4. QED
    BY <1>1, <2>2, <2>3 DEF Goes
<1>11. CASE Unmount(th)
  <2>1. r.kind = "remove"
    BY <1>1, <1>3, <1>11 DEF Unmount, StepsOf, Kinds, SchemaKinds, RegistryKinds
  <2>2. "load" \in StepsOf(r.kind)
    BY <2>1 DEF StepsOf, SchemaKinds
  <2>3. Answer(th) \/ Goto(th, "load")
    BY <1>11 DEF Unmount
  <2>4. QED
    BY <1>4, <1>5, <2>2, <2>3
<1>12. CASE TakeGitLock(th)
  <2>1. r.kind = "ingest"
    BY <1>1, <1>3, <1>12 DEF TakeGitLock, StepsOf, Kinds, SchemaKinds, RegistryKinds
  <2>2. "nested" \in StepsOf(r.kind)
    BY <2>1 DEF StepsOf, SchemaKinds
  <2>3. Goto(th, "nested")
    BY <1>12 DEF TakeGitLock
  <2>4. QED
    BY <1>5, <2>2, <2>3
<1>13. QED
  BY <1>6, <1>7, <1>8, <1>9, <1>10, <1>11, <1>12 DEF Step

(* Everything but the threads: what a step may do to it.                   *)
LEMMA CompiledIs ==
  ASSUME TypeOK, NEW w \in Wikis
  PROVE  Compiled(w) \in Served /\ Compiled(w).path # "none"
<1>1. /\ files[w]["own"] \in Contents \cup {None} /\ files[w]["added"] \in Contents \cup {None}
  BY DEF TypeOK, Paths
<1>2. CASE Parsed(w) = {}
  BY <1>2 DEF Compiled, NoType, Served
<1>3. CASE Parsed(w) # {}
  <2>1. PICK p \in Paths : p = IF "added" \in Parsed(w) THEN "added" ELSE "own"
    BY DEF Paths
  <2>2. Compiled(w) = [path |-> p, content |-> files[w][p]]
    BY <1>3, <2>1 DEF Compiled
  <2>3. QED
    BY <1>1, <2>1, <2>2 DEF Served, Paths
<1>4. QED
  BY <1>2, <1>3

LEMMA BuildIs ==
  ASSUME TypeOK, NEW registered
  PROVE  /\ Build(registered) \in [Wikis -> Served]
         /\ \A w \in Wikis : /\ Build(registered)[w] # NotMounted <=> w \in registered \ broken
                             /\ w \in registered \ broken => Build(registered)[w] = Compiled(w)
<1>1. \A w \in Wikis : Compiled(w) \in Served /\ Compiled(w).path # "none"
  BY CompiledIs
<1>2. NotMounted \in Served /\ NotMounted.path = "none"
  BY DEF NotMounted, Served
<1>3. QED
  BY <1>1, <1>2 DEF Build

Hists == /\ overlapped \subseteq Wikis /\ halfDone \subseteq Wikis /\ byHand \subseteq Wikis
         /\ broken \subseteq Wikis /\ watched \subseteq Wikis /\ behind \subseteq Wikis /\ lost \subseteq Wikis
         /\ faulted \subseteq Wikis

LEMMA Types ==
  TypeOK <=> /\ disk \in Configs /\ config \in Configs
             /\ mounted \in [Wikis -> Served]
             /\ files \in [Wikis -> [Paths -> Contents \cup {None}]]
             /\ req \in [Threads -> Requests]
             /\ window \in [pages : SUBSET Wikis, schemas : SUBSET Wikis]
             /\ Hists
<1>1. (\A s \in {broken, watched, behind, lost, faulted, overlapped, halfDone, byHand} : s \subseteq Wikis) <=> Hists
  BY DEF Hists
<1>2. QED
  BY <1>1 DEF TypeOK, Served, Requests

LEMMA TypesAfter ==
  ASSUME disk' \in Configs, config' \in Configs, mounted' \in [Wikis -> Served],
         files' \in [Wikis -> [Paths -> Contents \cup {None}]], req' \in [Threads -> Requests],
         window' \in [pages : SUBSET Wikis, schemas : SUBSET Wikis], Hists'
  PROVE  TypeOK'
<1>1. (\A s \in {broken, watched, behind, lost, faulted, overlapped, halfDone, byHand} : s \subseteq Wikis)'
  BY DEF Hists
<1>2. QED
  BY <1>1 DEF TypeOK, Served, Requests

(* Types are kept.                                                         *)
LEMMA StepTypes ==
  ASSUME TypeOK, Shapes, NEW th \in Threads, Step(th)
  PROVE  TypeOK'
<1>1. req' \in [Threads -> Requests]
  <2>1. PICK next \in Requests : req' = [req EXCEPT ![th] = next]
    BY StepGoes DEF Goes
  <2>2. QED
    BY <2>1, Types
<1>2. PICK w \in Wikis : w = req[th].wiki
  BY Fields
<1>3. /\ disk \in Configs /\ config \in Configs /\ mounted \in [Wikis -> Served]
      /\ files \in [Wikis -> [Paths -> Contents \cup {None}]]
      /\ window \in [pages : SUBSET Wikis, schemas : SUBSET Wikis] /\ Hists
  BY Types
<1> DEFINE Rest == /\ disk' \in Configs /\ config' \in Configs /\ mounted' \in [Wikis -> Served]
                   /\ files' \in [Wikis -> [Paths -> Contents \cup {None}]]
                   /\ window' \in [pages : SUBSET Wikis, schemas : SUBSET Wikis] /\ Hists'
<1>4. CASE Guard(th) \/ Release(th) \/ TakeGitLock(th)
  <2>1. UNCHANGED <<disk, config, mounted, files, broken, watched, window, behind, history>>
    BY <1>4 DEF Guard, Release, TakeGitLock
  <2>2. Rest
    BY <1>3, <2>1 DEF history, Hists
  <2>3. QED
    BY <1>1, <2>2, TypesAfter
<1>5. CASE Write(th)
  <2>1. req[th].kind = "drop" \/ req[th].content \in Contents
    BY <1>5, Fields DEF Write, Shapes, StepsOf, Kinds, SchemaKinds, RegistryKinds
  <2>2. files' \in [Wikis -> [Paths -> Contents \cup {None}]]
    <3>1. PICK p \in Paths \cup {"none", "embedded"} : p = mounted[w].path
      BY <1>3 DEF Served
    <3>2. files' = IF req[th].kind = "drop" THEN [files EXCEPT ![w][p] = None]
                   ELSE [files EXCEPT ![w]["own"] = req[th].content]
      BY <1>2, <1>5, <3>1 DEF Write
    <3>3. QED
      BY <1>3, <2>1, <3>2 DEF Paths
  <2>3. window' \in [pages : SUBSET Wikis, schemas : SUBSET Wikis]
    BY <1>2, <1>3, <1>5 DEF Write, Note
  <2>4. UNCHANGED <<disk, config, mounted, broken, watched, behind, history>>
    BY <1>5 DEF Write
  <2>5. Rest
    BY <1>3, <2>2, <2>3, <2>4 DEF history, Hists
  <2>6. QED
    BY <1>1, <2>5, TypesAfter
<1>6. CASE Mount(th)
  <2>1. Compiled(w) \in Served
    BY CompiledIs
  <2>2. Rest
    BY <1>2, <1>3, <1>6, <2>1 DEF Mount, Hists
  <2>3. QED
    BY <1>1, <2>2, TypesAfter
<1>7. CASE Load(th)
  <2>1. Rest
    BY <1>2, <1>3, <1>7 DEF Load, Hists
  <2>2. QED
    BY <1>1, <2>1, TypesAfter
<1>8. CASE Save(th)
  <2>1. PICK r \in Requests : r = req[th] /\ r.wiki = w /\ r.saw \in Configs
    BY <1>2, Fields
  <2>2. disk' \in {Registered(r), Removed(r), DefaultSet(r)}
    BY <1>8, <2>1 DEF Save
  <2>3. Registered(r) \in Configs /\ Removed(r) \in Configs /\ DefaultSet(r) \in Configs
    BY <2>1 DEF Registered, Removed, DefaultSet, Configs
  <2>4. files' \in [Wikis -> [Paths -> Contents \cup {None}]] /\ broken' \subseteq Wikis
    BY <1>3, <1>8, <2>1 DEF Save, Hists
  <2>5. Rest
    BY <1>3, <1>8, <2>2, <2>3, <2>4 DEF Save, history, Hists
  <2>6. QED
    BY <1>1, <2>5, TypesAfter
<1>9. CASE Unmount(th)
  <2>1. NotMounted \in Served
    BY DEF NotMounted, Served
  <2>2. Rest
    BY <1>2, <1>3, <1>9, <2>1 DEF Unmount, history, Hists
  <2>3. QED
    BY <1>1, <2>2, TypesAfter
<1>10. CASE SetDefault(th)
  <2>1. [config EXCEPT !.default = w] \in Configs
    BY <1>3 DEF Configs
  <2>2. Rest
    BY <1>2, <1>3, <1>10, <2>1 DEF SetDefault, Hists
  <2>3. QED
    BY <1>1, <2>2, TypesAfter
<1>11. CASE RefreshIndex(th)
  <2>1. Rest
    BY <1>2, <1>3, <1>11 DEF RefreshIndex, Hists
  <2>2. QED
    BY <1>1, <2>1, TypesAfter
<1>12. QED
  BY <1>4, <1>5, <1>6, <1>7, <1>8, <1>9, <1>10, <1>11 DEF Step

(* Two threads, after a step of one.                                       *)
LEMMA StepOverlaps ==
  ASSUME TypeOK, Shapes, Overlaps, NEW th \in Threads, Step(th)
  PROVE  Shapes' /\ Overlaps' /\ overlapped' = overlapped
<1>1. PICK next \in Requests : req' = [req EXCEPT ![th] = next] /\ Follows(req[th], next)
  BY StepGoes DEF Goes
<1>2. req \in [Threads -> Requests]
  BY Types
<1>3. overlapped' = overlapped
  BY DEF Step, Guard, Write, Release, Mount, Load, Save, Unmount, SetDefault, TakeGitLock, RefreshIndex, history
<1>4. \A o \in Threads : req'[o] = IF o = th THEN next ELSE req[o]
  BY <1>1, <1>2
<1>5. Resting.kind = "rest" /\ Resting.pc \in StepsOf("rest")
  BY RestingIs
<1>6. next.pc \in StepsOf(next.kind)
  BY <1>1, <1>5 DEF Follows
<1>7. next.kind \in {"register", "evolve"} => next.content \in Contents
  BY <1>1, <1>5 DEF Follows, Shapes
<1>8. /\ next.kind \notin Quiet => req[th].kind \notin Quiet /\ next.wiki = req[th].wiki
      /\ next.kind \in Registering => req[th].kind \in Registering /\ next.wiki = req[th].wiki
  BY <1>1, <1>5 DEF Follows, Quiet, Registering, RegistryKinds
<1>9. Shapes'
  BY <1>4, <1>6, <1>7 DEF Shapes
<1>10. Overlaps'
  BY <1>3, <1>4, <1>8 DEF Overlaps
<1>11. QED
  BY <1>3, <1>9, <1>10

(* A call begins.                                                          *)
LEMMA CallGoes ==
  ASSUME TypeOK, Shapes, Overlaps, NEW th \in Threads, NEW k \in Kinds, NEW w \in Wikis,
         NEW c \in Contents \cup {None}, Call(th, k, w, c)
  PROVE  /\ TypeOK' /\ Shapes' /\ Overlaps' /\ req[th].pc = "rest" /\ overlapped \subseteq overlapped'
         /\ req'[th].wiki = w /\ req'[th].kind = k /\ req'[th].pc = FirstStep(k)
         /\ \A o \in Threads \ {th} : req'[o] = req[o]
         /\ Conflicts(k, w) # {} => w \in overlapped'
<1>1. PICK next : next = [Resting EXCEPT !.kind = k, !.wiki = w, !.content = c, !.pc = FirstStep(k)]
  OBVIOUS
<1>2. FirstStep(k) \in StepsOf(k) /\ FirstStep(k) \in {"guard", "unmount", "load"}
  BY DEF FirstStep, StepsOf, Kinds, SchemaKinds, RegistryKinds
<1>3. next \in Requests /\ next.wiki = w /\ next.kind = k /\ next.content = c /\ next.pc = FirstStep(k)
  BY <1>1, <1>2, RestingIs DEF Requests
<1>4. req' = [req EXCEPT ![th] = next] /\ req \in [Threads -> Requests]
  BY <1>1, Types DEF Call
<1>5. \A o \in Threads : req'[o] = IF o = th THEN next ELSE req[o]
  BY <1>4
<1>6. c \in Contents \/ k \notin {"register", "evolve"}
  BY DEF Call
<1>7. Shapes'
  BY <1>2, <1>3, <1>5, <1>6 DEF Shapes
<1>8. \A o \in Threads : req[o].kind \notin Quiet => o \in Busy
  BY DEF Shapes, StepsOf, Busy, Quiet, Kinds, SchemaKinds, RegistryKinds, TypeOK
<1>9. /\ overlapped \subseteq overlapped'
      /\ \A o \in Threads \ {th} : o \in Conflicts(k, w) => w \in overlapped' /\ req[o].wiki \in overlapped'
      /\ Conflicts(k, w) # {} => w \in overlapped'
  BY DEF Call
<1>10. ASSUME NEW o \in Threads \ {th}, req[o].kind \notin Quiet, k # "ingest",
              req[o].wiki = w \/ (k \in RegistryKinds /\ req[o].kind \in Registering)
       PROVE  w \in overlapped' /\ req[o].wiki \in overlapped'
  <2>1. o \in Conflicts(k, w)
    BY <1>8, <1>10 DEF Conflicts, Quiet, Registering
  <2>2. QED
    BY <1>9, <2>1
<1>11. Overlaps'
  <2> SUFFICES ASSUME NEW a \in Threads, NEW o \in Threads, a # o
               PROVE /\ req'[a].kind \notin Quiet /\ req'[o].kind \notin Quiet /\ req'[a].wiki = req'[o].wiki =>
                          req'[a].wiki \in overlapped'
                     /\ req'[a].kind \in Registering /\ req'[o].kind \in Registering =>
                          req'[a].wiki \in overlapped'
    BY DEF Overlaps
  <2>1. k \in Registering => k \in RegistryKinds /\ k \notin Quiet
    BY DEF Registering, RegistryKinds, Quiet, Kinds, SchemaKinds
  <2>2. \A b \in Threads : req[b].kind \in Registering => req[b].kind \notin Quiet
    BY DEF Registering, RegistryKinds, Quiet
  <2>3. CASE a # th /\ o # th
    BY <1>5, <1>9, <2>3 DEF Overlaps
  <2>4. CASE a = th
    BY <1>3, <1>5, <1>10, <2>1, <2>2, <2>4 DEF Quiet
  <2>5. CASE o = th
    BY <1>3, <1>5, <1>10, <2>1, <2>2, <2>5 DEF Quiet
  <2>6. QED
    BY <2>3, <2>4, <2>5
<1>12. Hists /\ disk \in Configs /\ config \in Configs /\ mounted \in [Wikis -> Served]
       /\ files \in [Wikis -> [Paths -> Contents \cup {None}]]
       /\ window \in [pages : SUBSET Wikis, schemas : SUBSET Wikis]
  BY Types
<1>13. overlapped' \subseteq Wikis
  <2>1. \A o \in Threads : req[o].wiki \in Wikis
    BY Fields
  <2>2. \A o \in Conflicts(k, w) : req[o].wiki \in Wikis
    BY <2>1 DEF Conflicts, Busy
  <2>3. QED
    BY <1>12, <2>2 DEF Call, Hists
<1>14. Hists' /\ UNCHANGED <<disk, config, mounted, files, window>>
  BY <1>12, <1>13 DEF Call, Hists
<1>15. req' \in [Threads -> Requests]
  BY <1>3, <1>4
<1>16. TypeOK'
  BY <1>12, <1>14, <1>15, TypesAfter
<1>17. req[th].pc = "rest"
  BY DEF Call, Busy
<1>18. QED
  BY <1>3, <1>5, <1>7, <1>9, <1>11, <1>16, <1>17

-----------------------------------------------------------------------------
(* The wikis, one by one.                                                  *)

Live(w) == Lagging(w) => \/ Remounting(w) \/ w \in byHand \/ w \notin config.wikis
                         \/ w \in overlapped /\ Compiled(w) = NoType

LEMMA CompiledStays ==
  ASSUME NEW w, files'[w] = files[w]
  PROVE  Compiled(w)' = Compiled(w)
<1>1. Parsed(w)' = Parsed(w)
  BY DEF Parsed
<1>2. QED
  BY <1>1 DEF Compiled

(* Of the other wikis, a step changes nothing in the engine or in schemas/. *)
LEMMA Elsewhere ==
  ASSUME TypeOK, Shapes, NEW th \in Threads, Step(th), NEW w \in Wikis, w # req[th].wiki
  PROVE  /\ mounted'[w] = mounted[w] /\ files'[w] = files[w] /\ config'.wikis = config.wikis
         /\ w \in byHand' <=> w \in byHand
         /\ w \in broken' <=> w \in broken
         /\ w \in halfDone' <=> w \in halfDone
         /\ \A o \in Threads : req[o].wiki = w => o # th /\ req'[o] = req[o]
         /\ Remounting(w) => Remounting(w)'
<1>1. /\ mounted \in [Wikis -> Served] /\ files \in [Wikis -> [Paths -> Contents \cup {None}]]
      /\ req \in [Threads -> Requests] /\ config \in Configs
  BY Types
<1>2. PICK v \in Wikis : v = req[th].wiki
  BY Fields
<1>3. PICK next \in Requests : req' = [req EXCEPT ![th] = next]
  BY StepGoes DEF Goes
<1>4. \A o \in Threads \ {th} : req'[o] = req[o]
  BY <1>1, <1>3
<1>5. Remounting(w) => Remounting(w)'
  BY <1>4 DEF Remounting
<1>6. CASE Guard(th) \/ Release(th) \/ TakeGitLock(th)
  BY <1>4, <1>5, <1>6 DEF Guard, Release, TakeGitLock, history
<1>7. CASE Write(th)
  <2>1. files'[w] = files[w]
    BY <1>1, <1>7 DEF Write
  <2>2. UNCHANGED <<config, mounted, broken, halfDone, byHand>>
    BY <1>7 DEF Write, history
  <2>3. QED
    BY <1>4, <1>5, <2>1, <2>2
<1>8. CASE Mount(th)
  <2>1. mounted'[w] = mounted[w]
    BY <1>1, <1>8 DEF Mount
  <2>2. /\ w \in byHand' <=> w \in byHand
        /\ w \in halfDone' <=> w \in halfDone
    BY <1>8 DEF Mount
  <2>3. UNCHANGED <<config, files, broken>>
    BY <1>8 DEF Mount
  <2>4. QED
    BY <1>4, <1>5, <2>1, <2>2, <2>3
<1>9. CASE Load(th)
  BY <1>4, <1>5, <1>9 DEF Load
<1>10. CASE Save(th)
  <2>1. files'[w] = files[w] /\ (w \in broken' <=> w \in broken)
    BY <1>1, <1>10 DEF Save
  <2>2. UNCHANGED <<config, mounted, halfDone, byHand>>
    BY <1>10 DEF Save, history
  <2>3. QED
    BY <1>4, <1>5, <2>1, <2>2
<1>11. CASE Unmount(th)
  <2>1. mounted'[w] = mounted[w]
    BY <1>1, <1>11 DEF Unmount
  <2>2. UNCHANGED <<config, files, broken, halfDone, byHand>>
    BY <1>11 DEF Unmount, history
  <2>3. QED
    BY <1>4, <1>5, <2>1, <2>2
<1>12. CASE SetDefault(th)
  <2>1. config'.wikis = config.wikis
    BY <1>1, <1>12 DEF SetDefault, Configs
  <2>2. UNCHANGED <<mounted, files, broken, byHand>> /\ (w \in halfDone' <=> w \in halfDone)
    BY <1>12 DEF SetDefault
  <2>3. QED
    BY <1>4, <1>5, <2>1, <2>2
<1>13. CASE RefreshIndex(th)
  BY <1>4, <1>5, <1>13 DEF RefreshIndex
<1>14. QED
  BY <1>6, <1>7, <1>8, <1>9, <1>10, <1>11, <1>12, <1>13 DEF Step

LEMMA LiveElsewhere ==
  ASSUME NEW w \in Wikis, Live(w), mounted'[w] = mounted[w], files'[w] = files[w],
         config'.wikis = config.wikis, overlapped \subseteq overlapped', w \in byHand => w \in byHand',
         Remounting(w) => Remounting(w)'
  PROVE  Live(w)'
<1>1. Compiled(w)' = Compiled(w)
  BY CompiledStays
<1>2. QED
  BY <1>1 DEF Live, Lagging, Mounts

(* What the schemas of a wiki can do under a step of a handler.            *)
LEMMA LiveStep ==
  ASSUME TypeOK, Shapes, Overlaps, BrokenIsByHand, Removes, LiveTypes, NEW th \in Threads, Step(th)
  PROVE  LiveTypes'
<1>1. \A w \in Wikis : Live(w)
  BY DEF LiveTypes, Live
<1>2. overlapped' = overlapped
  BY StepOverlaps
<1>3. \A w \in Wikis : w # req[th].wiki => Live(w)'
  BY <1>1, <1>2, Elsewhere, LiveElsewhere
<1>4. PICK w \in Wikis : w = req[th].wiki
  BY Fields
<1> SUFFICES Live(w)'
  BY <1>3, <1>4 DEF LiveTypes, Live
<1>5. /\ mounted \in [Wikis -> Served] /\ files \in [Wikis -> [Paths -> Contents \cup {None}]]
      /\ req \in [Threads -> Requests] /\ config \in Configs
  BY Types
<1>6. PICK next \in Requests : req' = [req EXCEPT ![th] = next] /\ Follows(req[th], next)
  BY StepGoes DEF Goes
<1>7. req'[th] = next /\ \A o \in Threads \ {th} : req'[o] = req[o]
  BY <1>5, <1>6
<1>8. req[th].pc \notin {"release", "mount"} => (Remounting(w) => Remounting(w)')
  BY <1>7 DEF Remounting
<1>9. CASE Guard(th) \/ TakeGitLock(th) \/ Load(th) \/ RefreshIndex(th)
  <2>1. UNCHANGED <<mounted, files, config, byHand>> /\ req[th].pc \notin {"release", "mount"}
    BY <1>9 DEF Guard, TakeGitLock, Load, RefreshIndex, history
  <2>2. QED
    BY <1>1, <1>2, <1>8, <2>1, LiveElsewhere
<1>10. CASE Write(th)
  <2>1. req'[th].pc = "release" /\ req'[th].wiki = w
    BY <1>4, <1>5, <1>10 DEF Write, Goto, Requests
  <2>2. QED
    BY <2>1 DEF Live, Remounting
<1>11. CASE Release(th)
  <2>1. CASE w \in config.wikis
    <3>1. req'[th].pc = "mount" /\ req'[th].wiki = w
      BY <1>4, <1>5, <1>11, <2>1 DEF Release, Goto, Requests
    <3>2. QED
      BY <3>1 DEF Live, Remounting
  <2>2. CASE w \notin config.wikis
    BY <1>11, <2>2 DEF Release, Live
  <2>3. QED
    BY <2>1, <2>2
<1>12. CASE Mount(th)
  <2>1. CASE w \in broken
    <3>1. w \in byHand'
      BY <1>4, <1>12, <2>1 DEF Mount, BrokenIsByHand
    <3>2. QED
      BY <3>1 DEF Live
  <2>2. CASE w \notin broken
    <3>1. mounted'[w] = Compiled(w) /\ files' = files
      BY <1>4, <1>5, <1>12, <2>2 DEF Mount
    <3>2. Compiled(w)' = Compiled(w)
      BY <3>1, CompiledStays
    <3>3. QED
      BY <3>1, <3>2 DEF Live, Lagging
  <2>3. QED
    BY <2>1, <2>2
<1>13. CASE Save(th)
  <2>1. UNCHANGED <<mounted, config, byHand>> /\ req[th].pc \notin {"release", "mount"}
    BY <1>13 DEF Save, history
  <2>2. PICK delete \in BOOLEAN :
          /\ delete => req[th].kind = "remove"
          /\ files' = IF delete THEN [files EXCEPT ![w] = [p \in Paths |-> None]] ELSE files
    BY <1>4, <1>13 DEF Save
  <2>3. CASE delete
    <3>1. Compiled(w)' = NoType
      <4>1. \A p \in Paths : files'[w][p] = None
        BY <1>5, <2>2, <2>3
      <4>2. QED
        BY <4>1 DEF Compiled, Parsed
    <3>2. Mounts(w) => w \in overlapped
      BY <1>4, <1>13, <2>2, <2>3 DEF Removes, Save
    <3>3. QED
      BY <1>2, <2>1, <3>1, <3>2 DEF Live, Lagging, Mounts
  <2>4. CASE ~delete
    BY <1>1, <1>2, <1>8, <2>1, <2>2, <2>4, LiveElsewhere
  <2>5. QED
    BY <2>3, <2>4
<1>14. CASE Unmount(th)
  <2>1. UNCHANGED <<files, config, byHand>> /\ req[th].pc \notin {"release", "mount"}
    BY <1>14 DEF Unmount, history
  <2>2. mounted'[w] = NotMounted \/ mounted'[w] = mounted[w]
    BY <1>4, <1>5, <1>14 DEF Unmount
  <2>3. QED
    BY <1>1, <1>2, <1>8, <2>1, <2>2, LiveElsewhere DEF Live, Lagging, Mounts
<1>15. CASE SetDefault(th)
  <2>1. UNCHANGED <<mounted, files, byHand>> /\ req[th].pc \notin {"release", "mount"}
    BY <1>15 DEF SetDefault
  <2>2. config'.wikis = config.wikis
    BY <1>5, <1>15 DEF SetDefault, Configs
  <2>3. QED
    BY <1>1, <1>2, <1>8, <2>1, <2>2, LiveElsewhere
<1>16. QED
  BY <1>9, <1>10, <1>11, <1>12, <1>13, <1>14, <1>15 DEF Step

LEMMA BrokenStep ==
  ASSUME TypeOK, BrokenIsByHand, NEW th \in Threads, Step(th)
  PROVE  BrokenIsByHand'
<1>1. CASE Mount(th)
  BY <1>1 DEF Mount, BrokenIsByHand
<1>2. CASE ~Mount(th)
  <2>1. byHand' = byHand /\ broken' \subseteq broken
    BY <1>2 DEF Step, Guard, Write, Release, Load, Save, Unmount, SetDefault, TakeGitLock, RefreshIndex, history
  <2>2. QED
    BY <2>1 DEF BrokenIsByHand
<1>3. QED
  BY <1>1, <1>2

(* The wiki another call is changing stands still, unless they overlap.    *)
LEMMA Undisturbed ==
  ASSUME TypeOK, Shapes, Overlaps, NEW th \in Threads, Step(th), NEW o \in Threads, o # th,
         req[o].kind \notin Quiet, req[o].wiki \notin overlapped
  PROVE  /\ req'[o] = req[o]
         /\ mounted'[req[o].wiki] = mounted[req[o].wiki] /\ files'[req[o].wiki] = files[req[o].wiki]
         /\ req[o].wiki \in byHand' <=> req[o].wiki \in byHand
<1>1. PICK w \in Wikis : w = req[o].wiki
  BY Fields
<1>2. req'[o] = req[o]
  <2>1. PICK next \in Requests : req' = [req EXCEPT ![th] = next]
    BY StepGoes DEF Goes
  <2>2. QED
    BY <2>1, Types
<1>3. CASE w # req[th].wiki
  BY <1>1, <1>2, <1>3, Elsewhere
<1>4. CASE w = req[th].wiki
  <2>1. req[th].kind \in Quiet
    BY <1>1, <1>4 DEF Overlaps
  <2>2. req[th].pc \in {"rest", "guard", "admit", "nested"}
    BY <2>1 DEF Shapes, StepsOf, Quiet, SchemaKinds
  <2>3. Guard(th) \/ TakeGitLock(th) \/ RefreshIndex(th)
    BY <2>2 DEF Step, Write, Release, Mount, Load, Save, Unmount, SetDefault
  <2>4. UNCHANGED <<mounted, files, byHand>>
    BY <2>3 DEF Guard, TakeGitLock, RefreshIndex, history
  <2>5. QED
    BY <1>1, <1>2, <2>4
<1>5. QED
  BY <1>3, <1>4

(* Where a call is after its handler's step.                               *)
LEMMA StepPc ==
  ASSUME TypeOK, NEW th \in Threads, Step(th)
  PROVE  /\ Guard(th) => req'[th].pc \in {"rest", "admit", "write"}
         /\ Write(th) => req'[th].pc = "release"
         /\ Release(th) => req'[th].pc \in {"rest", "mount"}
         /\ Mount(th) \/ SetDefault(th) \/ RefreshIndex(th) => req'[th] = Resting
         /\ Load(th) => req'[th].pc \in {"rest", "save"}
         /\ Save(th) => req'[th].pc \in {"rest", "load", "mount", "setdefault"}
         /\ Unmount(th) => req'[th].pc \in {"rest", "load"}
         /\ TakeGitLock(th) => req'[th].pc = "nested"
<1>1. req \in [Threads -> Requests] /\ Resting.pc = "rest"
  BY Types, RestingIs
<1>2. Answer(th) => req'[th] = Resting /\ req'[th].pc = "rest"
  BY <1>1 DEF Answer
<1>3. \A pc : Goto(th, pc) => req'[th].pc = pc
  BY <1>1 DEF Goto, Requests
<1>4. Load(th) => req'[th].pc \in {"rest", "save"}
  BY <1>1 DEF Load, Requests
<1>5. Save(th) => req'[th].pc \in {"rest", "load", "mount", "setdefault"}
  <2>1. PICK r \in Requests : r = req[th]
    BY <1>1
  <2>2. AfterSave(r).pc \in {"rest", "load", "mount", "setdefault"}
    BY <1>1, <2>1 DEF AfterSave, Requests
  <2>3. QED
    BY <1>1, <2>1, <2>2 DEF Save
<1>6. Guard(th) => req'[th].pc \in {"rest", "admit", "write"}
  BY <1>2, <1>3 DEF Guard
<1>7. Write(th) => req'[th].pc = "release"
  BY <1>3 DEF Write
<1>8. /\ Release(th) => req'[th].pc \in {"rest", "mount"}
      /\ Unmount(th) => req'[th].pc \in {"rest", "load"}
      /\ TakeGitLock(th) => req'[th].pc = "nested"
      /\ Mount(th) \/ SetDefault(th) \/ RefreshIndex(th) => req'[th] = Resting
  BY <1>2, <1>3 DEF Release, Unmount, TakeGitLock, Mount, SetDefault, RefreshIndex
<1>9. QED
  BY <1>4, <1>5, <1>6, <1>7, <1>8

LEMMA HoldsStep ==
  ASSUME TypeOK, Shapes, Overlaps, Holds, NEW th \in Threads, Step(th)
  PROVE  Holds'
<1> SUFFICES ASSUME NEW o \in Threads, req'[o].pc = "write",
                    NEW w, w = req'[o].wiki, w \notin overlapped' \cup byHand'
             PROVE  /\ req'[o].kind = "register" => mounted'[w] = NoType
                    /\ req'[o].kind = "evolve" => /\ Shown(w)' # None
                                                  /\ Shown(w)'.owner = req'[o].content.owner
  BY DEF Holds
<1>1. overlapped' = overlapped
  BY StepOverlaps
<1>2. req \in [Threads -> Requests]
  BY Types
<1>3. CASE o = th
  <2>1. PICK r \in Requests : r = req[th]
    BY <1>2
  <2>2. Guard(th)
    BY <1>3, StepPc, RestingIs DEF Step
  <2>3. req' = [req EXCEPT ![th].pc = "write"] /\ Admits(r)
    <3>1. ~Answer(th)
      BY <1>2, <1>3, RestingIs DEF Answer
    <3>2. Admits(r) /\ (Goto(th, "admit") \/ Goto(th, "write"))
      BY <2>1, <2>2, <3>1 DEF Guard
    <3>3. ~Goto(th, "admit")
      BY <1>2, <1>3 DEF Goto, Requests
    <3>4. QED
      BY <3>2, <3>3 DEF Goto
  <2>4. /\ req'[th].kind = r.kind /\ req'[th].wiki = r.wiki /\ req'[th].content = r.content
    BY <1>2, <2>1, <2>3 DEF Requests
  <2>5. UNCHANGED <<mounted, files>> /\ w = r.wiki
    BY <1>3, <2>2, <2>4 DEF Guard
  <2>6. Shown(w)' = Shown(w)
    BY <2>5 DEF Shown
  <2>7. /\ r.kind = "register" => mounted[w] = NoType
        /\ r.kind = "evolve" => Shown(w) # None /\ Shown(w).owner = r.content.owner
    BY <2>3, <2>5 DEF Admits, RegisterAdmits, EvolveAdmits
  <2>8. QED
    BY <1>3, <2>4, <2>5, <2>6, <2>7
<1>4. CASE o # th
  <2>1. req'[o] = req[o]
    <3>1. PICK next \in Requests : req' = [req EXCEPT ![th] = next]
      BY StepGoes DEF Goes
    <3>2. QED
      BY <1>2, <1>4, <3>1
  <2>2. req[o].kind \notin Quiet
    BY <2>1 DEF Shapes, StepsOf, Quiet, SchemaKinds
  <2>3. mounted'[w] = mounted[w] /\ files'[w] = files[w] /\ (w \in byHand' <=> w \in byHand)
    BY <1>1, <1>4, <2>1, <2>2, Undisturbed
  <2>4. Shown(w)' = Shown(w)
    BY <2>3 DEF Shown
  <2>5. /\ req[o].kind = "register" => mounted[w] = NoType
        /\ req[o].kind = "evolve" => Shown(w) # None /\ Shown(w).owner = req[o].content.owner
    BY <1>1, <2>1, <2>3 DEF Holds
  <2>6. QED
    BY <2>1, <2>3, <2>4, <2>5
<1>5. QED
  BY <1>3, <1>4

LEMMA RemovesStep ==
  ASSUME TypeOK, Shapes, Overlaps, Removes, NEW th \in Threads, Step(th)
  PROVE  Removes'
<1> SUFFICES ASSUME NEW o \in Threads, req'[o].kind = "remove", req'[o].pc \in {"load", "save"},
                    NEW w, w = req'[o].wiki, mounted'[w] # NotMounted, w \notin overlapped'
             PROVE  FALSE
  BY DEF Removes, Mounts
<1>1. overlapped' = overlapped
  BY StepOverlaps
<1>2. req \in [Threads -> Requests] /\ mounted \in [Wikis -> Served]
  BY Types
<1>3. PICK next \in Requests : req' = [req EXCEPT ![th] = next] /\ Follows(req[th], next)
  BY StepGoes DEF Goes
<1>4. CASE o = th
  <2>1. next.kind = "remove" /\ next.pc \in {"load", "save"} /\ next.wiki = w
    BY <1>2, <1>3, <1>4
  <2>2. req[th].kind = "remove" /\ req[th].wiki = w
    BY <1>3, <2>1, RestingIs DEF Follows
  <2>3. req[th].pc \in {"unmount", "load", "save"}
    BY <2>2 DEF Shapes, StepsOf, SchemaKinds
  <2>4. CASE req[th].pc = "unmount"
    <3>1. Unmount(th)
      BY <2>4 DEF Step, Guard, Write, Release, Mount, Load, Save, SetDefault, TakeGitLock, RefreshIndex
    <3>2. ~Answer(th)
      BY <1>2, <2>1, <1>3, RestingIs DEF Answer
    <3>3. mounted' = [mounted EXCEPT ![w] = NotMounted]
      BY <2>2, <3>1, <3>2 DEF Unmount
    <3>4. w \in Wikis
      BY <2>2, Fields
    <3>5. QED
      BY <1>2, <3>3, <3>4
  <2>5. CASE req[th].pc \in {"load", "save"}
    <3>1. Load(th) \/ Save(th)
      BY <2>5 DEF Step, Guard, Write, Release, Mount, Unmount, SetDefault, TakeGitLock, RefreshIndex
    <3>2. mounted' = mounted
      BY <3>1 DEF Load, Save
    <3>3. QED
      BY <1>1, <2>2, <2>5, <3>2 DEF Removes, Mounts
  <2>6. QED
    BY <2>3, <2>4, <2>5
<1>5. CASE o # th
  <2>1. req'[o] = req[o]
    BY <1>2, <1>3, <1>5
  <2>2. mounted'[w] = mounted[w]
    BY <1>1, <1>5, <2>1, Undisturbed DEF Quiet
  <2>3. QED
    BY <1>1, <2>1, <2>2 DEF Removes, Mounts
<1>6. QED
  BY <1>4, <1>5

(* The registry file, after a step, for the wikis no overlap has named.    *)
LEMMA SaveIs ==
  ASSUME TypeOK, Shapes, Saws, NEW th \in Threads, Save(th), NEW w \in Wikis \ overlapped
  PROVE  w \in disk'.wikis <=>
            \/ w = req[th].wiki /\ req[th].kind \in {"create", "createDefault"}
            \/ w \in disk.wikis /\ ~(w = req[th].wiki /\ req[th].kind = "remove")
<1>1. PICK r \in Requests : r = req[th] /\ r.saw \in Configs
  BY Fields
<1>2. w \in r.saw.wikis <=> w \in disk.wikis
  BY <1>1 DEF Saws, Save
<1>3. /\ Registered(r).wikis = r.saw.wikis \cup {r.wiki}
      /\ Removed(r).wikis = r.saw.wikis \ {r.wiki}
      /\ DefaultSet(r).wikis = r.saw.wikis
  BY <1>1 DEF Registered, Removed, DefaultSet, Configs
<1>4. disk' = CASE r.kind \in {"create", "createDefault"} -> Registered(r)
                [] r.kind = "remove" -> Removed(r)
                [] OTHER -> DefaultSet(r)
  BY <1>1 DEF Save
<1>5. CASE r.kind \in {"create", "createDefault"}
  BY <1>1, <1>2, <1>3, <1>4, <1>5
<1>6. CASE r.kind = "remove"
  BY <1>1, <1>2, <1>3, <1>4, <1>6
<1>7. CASE r.kind \notin {"create", "createDefault", "remove"}
  BY <1>1, <1>2, <1>3, <1>4, <1>7
<1>8. QED
  BY <1>5, <1>6, <1>7

LEMMA DiskStays ==
  ASSUME NEW th \in Threads, Step(th), ~Save(th)
  PROVE  disk' = disk
BY DEF Step, Guard, Write, Release, Mount, Load, Unmount, SetDefault, TakeGitLock, RefreshIndex

LEMMA LoadSees ==
  ASSUME TypeOK, NEW th \in Threads, Step(th), req'[th].pc = "save"
  PROVE  Load(th) /\ req'[th].saw = disk
<1>1. Load(th)
  BY StepPc, RestingIs DEF Step
<1>2. PICK r \in Requests : r = req[th]
  BY Fields
<1>3. req \in [Threads -> Requests]
  BY Types
<1>4. ~Refused(r)
  BY <1>1, <1>2, <1>3, RestingIs DEF Load
<1>5. req' = [req EXCEPT ![th] = [r EXCEPT !.saw = disk, !.pc = "save"]]
  BY <1>1, <1>2, <1>4 DEF Load
<1>6. QED
  BY <1>1, <1>2, <1>3, <1>5 DEF Requests

LEMMA SawsStep ==
  ASSUME TypeOK, Shapes, Overlaps, Saws, NEW th \in Threads, Step(th)
  PROVE  Saws'
<1>1. overlapped' = overlapped
  BY StepOverlaps
<1>2. req \in [Threads -> Requests]
  BY Types
<1> SUFFICES ASSUME NEW o \in Threads, req'[o].pc = "save", NEW w \in Wikis \ overlapped
             PROVE  w \in req'[o].saw.wikis <=> w \in disk'.wikis
  BY <1>1 DEF Saws
<1>3. CASE o = th
  BY <1>3, LoadSees DEF Load
<1>4. CASE o # th
  <2>1. req'[o] = req[o]
    <3>1. PICK next \in Requests : req' = [req EXCEPT ![th] = next]
      BY StepGoes DEF Goes
    <3>2. QED
      BY <1>2, <1>4, <3>1
  <2>2. w \in req[o].saw.wikis <=> w \in disk.wikis
    BY <2>1 DEF Saws
  <2>3. CASE Save(th)
    <3>1. \A a \in Threads : req[a].pc = "save" => req[a].kind \in Registering
      BY <1>2 DEF Shapes, Requests, StepsOf, Kinds, SchemaKinds, RegistryKinds, Registering
    <3>2. req[th].wiki \in overlapped
      BY <1>4, <2>1, <2>3, <3>1 DEF Overlaps, Save
    <3>3. w \in disk'.wikis <=> w \in disk.wikis
      BY <2>3, <3>2, SaveIs
    <3>4. QED
      BY <2>1, <2>2, <3>3
  <2>4. CASE ~Save(th)
    BY <2>1, <2>2, <2>4, DiskStays
  <2>5. QED
    BY <2>3, <2>4
<1>5. QED
  BY <1>3, <1>4

(* Where a wiki with at most one change in flight stands.                  *)
SettledAt(r, w) ==
  /\ ~Between(r) => (Mounts(w) <=> w \in disk.wikis)
  /\ (r.kind = "create" /\ r.pc = "mount") \/ r.kind = "adopt" => w \in disk.wikis
  /\ r.kind = "remove" /\ r.pc \in {"load", "save"} => ~Mounts(w)
  /\ r.kind \in SchemaKinds /\ r.pc \in {"write", "release", "mount"} => Mounts(w)

LEMMA QuietIsSettled ==
  ASSUME NEW r, r.kind \in Quiet
  PROVE  ~Between(r) /\ ~(r.kind = "create") /\ ~(r.kind = "adopt") /\ ~(r.kind = "remove") /\ r.kind \notin SchemaKinds
BY DEF Quiet, Between, SchemaKinds

(* The wikis the step's handler changes nothing about.                     *)
LEMMA SettledElsewhere ==
  ASSUME TypeOK, Shapes, Overlaps, Saws, NEW th \in Threads, Step(th),
         NEW w \in Wikis \ overlapped, w # req[th].wiki \/ req[th].kind \in Quiet, Settled(w)
  PROVE  Settled(w)'
<1>1. PICK next \in Requests : req' = [req EXCEPT ![th] = next] /\ Follows(req[th], next)
  BY StepGoes DEF Goes
<1>2. req'[th] = next /\ \A o \in Threads \ {th} : req'[o] = req[o]
  BY <1>1, Types
<1>3. next.wiki = w => next.kind \in Quiet
  BY <1>1, RestingIs DEF Follows, Quiet
<1>4. mounted'[w] = mounted[w] /\ (w \in disk'.wikis <=> w \in disk.wikis)
  <2>1. CASE w # req[th].wiki
    <3>1. mounted'[w] = mounted[w]
      BY <2>1, Elsewhere
    <3>2. w \in disk'.wikis <=> w \in disk.wikis
      BY <2>1, SaveIs, DiskStays
    <3>3. QED
      BY <3>1, <3>2
  <2>2. CASE req[th].kind \in Quiet
    <3>1. req[th].pc \in {"rest", "guard", "admit", "nested"}
      BY <2>2 DEF Shapes, StepsOf, Quiet, SchemaKinds
    <3>2. Guard(th) \/ TakeGitLock(th) \/ RefreshIndex(th)
      BY <3>1 DEF Step, Write, Release, Mount, Load, Save, Unmount, SetDefault
    <3>3. QED
      BY <3>2 DEF Guard, TakeGitLock, RefreshIndex
  <2>3. QED
    BY <2>1, <2>2
<1>5. req[th].wiki = w => req[th].kind \in Quiet
  OBVIOUS
<1>6. \A o \in Threads : req'[o].wiki = w => req'[o].kind \in Quiet \/ (req'[o] = req[o])
  BY <1>2, <1>3
<1>7. \A o \in Threads : req[o].wiki = w => req[o].kind \in Quiet \/ (req'[o] = req[o])
  BY <1>2, <1>5
<1>8. ASSUME \A o \in Threads : req'[o].wiki = w => ~Between(req'[o])
      PROVE  Mounts(w)' <=> w \in disk'.wikis
  <2>1. \A o \in Threads : req[o].wiki = w => ~Between(req[o])
    BY <1>7, <1>8, QuietIsSettled
  <2>2. QED
    BY <1>4, <2>1 DEF Settled, Mounts
<1>9. ASSUME NEW o \in Threads, req'[o].wiki = w
      PROVE  /\ (req'[o].kind = "create" /\ req'[o].pc = "mount") \/ req'[o].kind = "adopt" => w \in disk'.wikis
             /\ req'[o].kind = "remove" /\ req'[o].pc \in {"load", "save"} => ~Mounts(w)'
             /\ req'[o].kind \in SchemaKinds /\ req'[o].pc \in {"write", "release", "mount"} => Mounts(w)'
  <2>1. CASE req'[o].kind \in Quiet
    BY <2>1, QuietIsSettled
  <2>2. CASE req'[o] = req[o]
    BY <1>4, <1>9, <2>2 DEF Settled, Mounts
  <2>3. QED
    BY <1>6, <1>9, <2>1, <2>2
<1>10. QED
  BY <1>8, <1>9 DEF Settled, Between

(* The wiki that it does change.                                           *)
LEMMA SettledHere ==
  ASSUME TypeOK, Shapes, Saws, NEW th \in Threads, Step(th), NEW w \in Wikis \ overlapped,
         w = req[th].wiki, req[th].kind \notin Quiet, SettledAt(req[th], w), w \notin halfDone',
         NEW next, next = req'[th]
  PROVE  SettledAt(next, w)'
<1>1. PICK r \in Requests : r = req[th]
  BY Fields
<1>2. /\ req \in [Threads -> Requests] /\ mounted \in [Wikis -> Served]
      /\ r.wiki = w /\ r.pc \in StepsOf(r.kind) /\ r.kind \in Kinds \cup {"adopt"} /\ r.kind # "ingest"
  BY <1>1, Types DEF Shapes, Quiet, Requests
<1>3. /\ ~Between(r) => (Mounts(w) <=> w \in disk.wikis)
      /\ (r.kind = "create" /\ r.pc = "mount") \/ r.kind = "adopt" => w \in disk.wikis
      /\ r.kind = "remove" /\ r.pc \in {"load", "save"} => ~Mounts(w)
      /\ r.kind \in SchemaKinds /\ r.pc \in {"write", "release", "mount"} => Mounts(w)
  BY <1>1 DEF SettledAt
<1>4. Resting.kind \in Quiet
  BY RestingIs DEF Quiet
<1>5. Answer(th) => next = Resting
  BY <1>2 DEF Answer
<1>6. \A pc : Goto(th, pc) => next = [r EXCEPT !.pc = pc] /\ next.kind = r.kind /\ next.pc = pc
  BY <1>1, <1>2 DEF Goto, Requests
<1>7. ASSUME UNCHANGED <<disk, mounted>>
      PROVE  /\ Mounts(w)' <=> Mounts(w)
             /\ w \in disk'.wikis <=> w \in disk.wikis
  BY <1>7 DEF Mounts
<1> DEFINE Agree == Mounts(w)' <=> w \in disk'.wikis
<1>8. ASSUME Agree, next.kind \in Quiet PROVE SettledAt(next, w)'
  BY <1>8, QuietIsSettled DEF SettledAt
<1>9. CASE Guard(th) \/ Write(th) \/ Release(th)
  <2>1. r.kind \in SchemaKinds /\ ~Between(r) /\ r.kind \notin {"create", "adopt", "remove"}
    BY <1>1, <1>2, <1>9 DEF Guard, Write, Release, StepsOf, Kinds, SchemaKinds, RegistryKinds, Between
  <2>2. UNCHANGED <<disk, mounted>>
    BY <1>9 DEF Guard, Write, Release
  <2>3. Agree
    BY <1>3, <1>7, <2>1, <2>2
  <2>4. Answer(th) \/ (Mounts(w) /\ \E pc \in {"write", "admit", "release", "mount"} : Goto(th, pc))
    <3>1. CASE Guard(th)
      BY <1>1, <1>2, <3>1 DEF Guard
    <3>2. CASE Write(th)
      BY <1>1, <1>3, <2>1, <3>2 DEF Write
    <3>3. CASE Release(th)
      BY <1>1, <1>3, <2>1, <3>3 DEF Release
    <3>4. QED
      BY <1>9, <3>1, <3>2, <3>3
  <2>5. CASE Answer(th)
    BY <1>4, <1>5, <1>8, <2>3, <2>5
  <2>6. CASE Mounts(w) /\ \E pc \in {"write", "admit", "release", "mount"} : Goto(th, pc)
    <3>1. Mounts(w)' /\ next.kind = r.kind
      BY <1>6, <1>7, <2>2, <2>6
    <3>2. QED
      BY <2>1, <2>3, <3>1 DEF SettledAt, Between
  <2>7. QED
    BY <2>4, <2>5, <2>6
<1>10. CASE Mount(th)
  <2>1. r.kind \in SchemaKinds \cup {"create", "adopt"} /\ r.pc = "mount"
    BY <1>1, <1>2, <1>10 DEF Mount, StepsOf, Kinds, SchemaKinds, RegistryKinds
  <2>2. w \notin broken
    BY <1>1, <1>2, <1>10 DEF Mount
  <2>3. mounted'[w] = Compiled(w) /\ disk' = disk
    BY <1>1, <1>2, <1>10, <2>2 DEF Mount
  <2>4. Mounts(w)'
    BY <2>3, CompiledIs DEF Mounts, NotMounted
  <2>5. w \in disk.wikis
    BY <1>3, <2>1 DEF Between, SchemaKinds
  <2>6. next = Resting
    BY <1>5, <1>10 DEF Mount
  <2>7. QED
    BY <1>4, <1>8, <2>3, <2>4, <2>5, <2>6
<1>11. CASE Load(th)
  <2>1. UNCHANGED <<disk, mounted>> /\ r.pc = "load" /\ r.kind \in Registering
    BY <1>1, <1>2, <1>11 DEF Load, StepsOf, Kinds, SchemaKinds, RegistryKinds, Registering
  <2>2. CASE Refused(r)
    <3>1. r.kind \notin {"remove", "adopt"}
      BY <1>1, <1>2, <1>11, <2>2 DEF Load
    <3>2. next = Resting
      BY <1>1, <1>2, <1>11, <2>2 DEF Load
    <3>3. Agree
      BY <1>3, <1>7, <2>1, <3>1 DEF Between
    <3>4. QED
      BY <1>4, <1>8, <3>2, <3>3
  <2>3. CASE ~Refused(r)
    <3>1. next = [r EXCEPT !.saw = disk, !.pc = "save"]
      BY <1>1, <1>2, <1>11, <2>3 DEF Load
    <3>2. next.kind = r.kind /\ next.pc = "save"
      BY <3>1 DEF Requests
    <3>3. Between(next) <=> Between(r)
      BY <2>1, <3>2 DEF Between
    <3>4. QED
      BY <1>3, <1>7, <2>1, <3>2, <3>3 DEF SettledAt, Registering, RegistryKinds, SchemaKinds, Between
  <2>4. QED
    BY <2>2, <2>3
<1>12. CASE Save(th)
  <2>1. mounted' = mounted /\ r.pc = "save" /\ r.kind \in Registering
    BY <1>1, <1>2, <1>12 DEF Save, StepsOf, Kinds, SchemaKinds, RegistryKinds, Registering
  <2>2. /\ r.kind \in {"create", "createDefault"} => w \in disk'.wikis
        /\ r.kind = "remove" => w \notin disk'.wikis
        /\ r.kind \in {"adopt", "default"} => (w \in disk'.wikis <=> w \in disk.wikis)
    BY <1>1, <1>12, SaveIs
  <2>3. Mounts(w)' <=> Mounts(w)
    BY <2>1 DEF Mounts
  <2>4. next = AfterSave(r)
    BY <1>1, <1>2, <1>12 DEF Save
  <2>5. CASE r.kind \in {"create", "createDefault", "adopt"}
    <3>1. w \in disk'.wikis
      BY <1>3, <2>2, <2>5
    <3>2. (next.kind = "create" /\ next.pc = "mount") \/ next.kind = "adopt"
      BY <2>4, <2>5 DEF AfterSave, Requests
    <3>3. Between(next) /\ next.kind \notin SchemaKinds \cup {"remove"}
      BY <3>2 DEF Between, SchemaKinds
    <3>4. QED
      BY <3>1, <3>3 DEF SettledAt, Between
  <2>6. CASE r.kind = "remove"
    <3>1. Agree
      BY <1>3, <2>1, <2>2, <2>3, <2>6
    <3>2. next = Resting
      BY <2>4, <2>6 DEF AfterSave
    <3>3. QED
      BY <1>4, <1>8, <3>1, <3>2
  <2>7. CASE r.kind = "default"
    <3>1. Agree
      BY <1>3, <2>2, <2>3, <2>7 DEF Between
    <3>2. next.kind = "default"
      BY <2>4, <2>7 DEF AfterSave, Requests
    <3>3. QED
      BY <3>1, <3>2 DEF SettledAt, SchemaKinds, Between
  <2>8. QED
    BY <2>1, <2>5, <2>6, <2>7 DEF Registering, RegistryKinds
<1>13. CASE Unmount(th)
  <2>1. r.kind = "remove" /\ r.pc = "unmount" /\ ~Between(r) /\ disk' = disk
    BY <1>1, <1>2, <1>13 DEF Unmount, StepsOf, Kinds, SchemaKinds, RegistryKinds, Between
  <2>2. CASE Answer(th) /\ mounted' = mounted
    <3>1. Agree
      BY <1>3, <1>7, <2>1, <2>2
    <3>2. QED
      BY <1>4, <1>5, <1>8, <2>2, <3>1
  <2>3. CASE Goto(th, "load") /\ mounted' = [mounted EXCEPT ![w] = NotMounted]
    <3>1. ~Mounts(w)'
      BY <1>2, <2>3 DEF Mounts
    <3>2. next.kind = "remove" /\ next.pc = "load"
      BY <1>6, <2>1, <2>3
    <3>3. QED
      BY <3>1, <3>2 DEF SettledAt, Between, SchemaKinds
  <2>4. QED
    BY <1>1, <1>2, <1>13, <2>2, <2>3 DEF Unmount
<1>14. CASE SetDefault(th)
  <2>1. r.kind = "default" /\ UNCHANGED <<disk, mounted>> /\ next = Resting
    BY <1>1, <1>2, <1>5, <1>14 DEF SetDefault, StepsOf, Kinds, SchemaKinds, RegistryKinds
  <2>2. Agree
    BY <1>3, <1>7, <2>1 DEF Between
  <2>3. QED
    BY <1>4, <1>8, <2>1, <2>2
<1>15. ~TakeGitLock(th) /\ ~RefreshIndex(th)
  BY <1>1, <1>2 DEF TakeGitLock, RefreshIndex, StepsOf, Kinds, SchemaKinds, RegistryKinds
<1>16. QED
  BY <1>9, <1>10, <1>11, <1>12, <1>13, <1>14, <1>15 DEF Step

LEMMA SettledStep ==
  ASSUME TypeOK, Shapes, Overlaps, Saws, AllSettled, NEW th \in Threads, Step(th)
  PROVE  AllSettled'
<1>1. overlapped' = overlapped
  BY StepOverlaps
<1>2. halfDone \subseteq halfDone'
  BY DEF Step, Guard, Write, Release, Mount, Load, Save, Unmount, SetDefault, TakeGitLock, RefreshIndex, history
<1> SUFFICES ASSUME NEW w \in Wikis \ overlapped, w \notin halfDone'
             PROVE  Settled(w)'
  BY <1>1 DEF AllSettled
<1>3. Settled(w)
  BY <1>2 DEF AllSettled
<1>4. CASE w # req[th].wiki \/ req[th].kind \in Quiet
  BY <1>3, <1>4, SettledElsewhere
<1>5. CASE w = req[th].wiki /\ req[th].kind \notin Quiet
  <2>1. PICK next \in Requests : req' = [req EXCEPT ![th] = next] /\ Follows(req[th], next)
    BY StepGoes DEF Goes
  <2>2. req'[th] = next /\ \A o \in Threads \ {th} : req'[o] = req[o]
    BY <2>1, Types
  <2>3. \A o \in Threads \ {th} : req[o].wiki = w => req[o].kind \in Quiet
    BY <1>5 DEF Overlaps
  <2>4. \A o \in Threads \ {th} : req[o].wiki = w => ~Between(req[o])
    BY <2>3, QuietIsSettled
  <2>5. SettledAt(req[th], w)
    BY <1>3, <1>5, <2>4 DEF Settled, SettledAt
  <2>6. SettledAt(next, w)'
    BY <1>5, <2>2, <2>5, SettledHere
  <2>7. next.wiki = w \/ next.kind \in Quiet
    BY <1>5, <2>1, RestingIs DEF Follows, Quiet
  <2>8. ASSUME \A o \in Threads : req'[o].wiki = w => ~Between(req'[o])
        PROVE  Mounts(w)' <=> w \in disk'.wikis
    <3>1. ~Between(next)
      BY <2>2, <2>7, <2>8, QuietIsSettled
    <3>2. QED
      BY <2>6, <3>1 DEF SettledAt, Between
  <2>9. ASSUME NEW o \in Threads, req'[o].wiki = w
        PROVE  /\ (req'[o].kind = "create" /\ req'[o].pc = "mount") \/ req'[o].kind = "adopt" => w \in disk'.wikis
               /\ req'[o].kind = "remove" /\ req'[o].pc \in {"load", "save"} => ~Mounts(w)'
               /\ req'[o].kind \in SchemaKinds /\ req'[o].pc \in {"write", "release", "mount"} => Mounts(w)'
    <3>1. CASE o = th
      BY <2>2, <2>6, <3>1 DEF SettledAt
    <3>2. CASE o # th
      BY <2>2, <2>3, <2>9, <3>2, QuietIsSettled
    <3>3. QED
      BY <3>1, <3>2
  <2>10. QED
    BY <2>8, <2>9 DEF Settled, Between
<1>6. QED
  BY <1>4, <1>5

LEMMA StepInv ==
  ASSUME Inv, NEW th \in Threads, Step(th)
  PROVE  Inv'
<1>1. TypeOK /\ Shapes /\ Overlaps /\ Holds /\ BrokenIsByHand /\ Removes /\ LiveTypes /\ Saws /\ AllSettled
  BY DEF Inv
<1>2. TypeOK' /\ Shapes' /\ Overlaps'
  BY <1>1, StepTypes, StepOverlaps
<1>3. Holds' /\ BrokenIsByHand' /\ Removes' /\ LiveTypes' /\ Saws' /\ AllSettled'
  BY <1>1, HoldsStep, BrokenStep, RemovesStep, LiveStep, SawsStep, SettledStep
<1>4. QED
  BY <1>2, <1>3 DEF Inv

(* A call begins: the engine is as it was, and what is in flight is known. *)
LEMMA CallInv ==
  ASSUME Inv, NEW th \in Threads, NEW k \in Kinds, NEW w \in Wikis, NEW c \in Contents \cup {None},
         Call(th, k, w, c)
  PROVE  Inv'
<1>1. TypeOK /\ Shapes /\ Overlaps /\ Holds /\ BrokenIsByHand /\ Removes /\ LiveTypes /\ Saws /\ AllSettled
  BY DEF Inv
<1>2. /\ TypeOK' /\ Shapes' /\ Overlaps' /\ req[th].pc = "rest" /\ overlapped \subseteq overlapped'
      /\ req'[th].wiki = w /\ req'[th].kind = k /\ req'[th].pc = FirstStep(k)
      /\ \A o \in Threads \ {th} : req'[o] = req[o]
  BY <1>1, CallGoes
<1>3. UNCHANGED <<disk, config, mounted, files, broken, halfDone, byHand>>
  BY DEF Call
<1>4. FirstStep(k) \in {"guard", "unmount", "load"} /\ FirstStep(k) # "mount" /\ (k = "remove" => FirstStep(k) = "unmount")
  BY DEF FirstStep, Kinds, SchemaKinds, RegistryKinds
<1>5. \A v : Shown(v)' = Shown(v) /\ Compiled(v)' = Compiled(v) /\ (Mounts(v)' <=> Mounts(v))
  BY <1>3, CompiledStays DEF Shown, Mounts
<1>6. req[th].kind = "rest"
  <2>1. req[th].kind \in Kinds \cup {"rest", "adopt"}
    BY <1>1, Fields
  <2>2. req[th].pc \in StepsOf(req[th].kind)
    BY <1>1 DEF Shapes
  <2>3. QED
    BY <1>2, <2>1, <2>2 DEF StepsOf, Kinds, SchemaKinds, RegistryKinds
<1>7. Holds'
  <2> SUFFICES ASSUME NEW o \in Threads, req'[o].pc = "write",
                      NEW v, v = req'[o].wiki, v \notin overlapped' \cup byHand'
               PROVE  /\ req'[o].kind = "register" => mounted'[v] = NoType
                      /\ req'[o].kind = "evolve" => /\ Shown(v)' # None
                                                    /\ Shown(v)'.owner = req'[o].content.owner
    BY DEF Holds
  <2>1. o # th /\ req'[o] = req[o]
    BY <1>2, <1>4
  <2>2. QED
    BY <1>1, <1>2, <1>3, <1>5, <2>1 DEF Holds
<1>8. Removes'
  <2> SUFFICES ASSUME NEW o \in Threads, req'[o].kind = "remove", req'[o].pc \in {"load", "save"},
                      NEW v, v = req'[o].wiki, mounted'[v] # NotMounted
               PROVE  v \in overlapped'
    BY DEF Removes, Mounts
  <2>1. o # th /\ req'[o] = req[o]
    BY <1>2, <1>4
  <2>2. QED
    BY <1>1, <1>2, <1>3, <2>1 DEF Removes, Mounts
<1>9. LiveTypes'
  <2> SUFFICES ASSUME NEW v \in Wikis PROVE Live(v)'
    BY DEF LiveTypes, Live
  <2>1. Live(v)
    BY <1>1 DEF LiveTypes, Live
  <2>2. Remounting(v) => Remounting(v)'
    BY <1>2 DEF Remounting
  <2>3. QED
    BY <1>2, <1>3, <2>1, <2>2, LiveElsewhere
<1>10. Saws'
  <2> SUFFICES ASSUME NEW o \in Threads, req'[o].pc = "save", NEW v \in Wikis \ overlapped'
               PROVE  v \in req'[o].saw.wikis <=> v \in disk'.wikis
    BY DEF Saws
  <2>1. o # th /\ req'[o] = req[o]
    BY <1>2, <1>4
  <2>2. QED
    BY <1>1, <1>2, <1>3, <2>1 DEF Saws
<1>11. AllSettled'
  <2> SUFFICES ASSUME NEW v \in Wikis, v \notin overlapped', v \notin halfDone' PROVE Settled(v)'
    BY DEF AllSettled
  <2>1. Settled(v)
    BY <1>1, <1>2, <1>3 DEF AllSettled
  <2>2. ~Between(req[th]) /\ ~Between(req'[th])
    BY <1>2, <1>4, <1>6 DEF Between, Kinds, SchemaKinds, RegistryKinds
  <2>3. ASSUME \A o \in Threads : req'[o].wiki = v => ~Between(req'[o])
        PROVE  Mounts(v)' <=> v \in disk'.wikis
    <3>1. \A o \in Threads : req[o].wiki = v => ~Between(req[o])
      BY <1>2, <2>2, <2>3
    <3>2. QED
      BY <1>3, <1>5, <2>1, <3>1 DEF Settled
  <2>4. ASSUME NEW o \in Threads, req'[o].wiki = v
        PROVE  /\ (req'[o].kind = "create" /\ req'[o].pc = "mount") \/ req'[o].kind = "adopt" => v \in disk'.wikis
               /\ req'[o].kind = "remove" /\ req'[o].pc \in {"load", "save"} => ~Mounts(v)'
               /\ req'[o].kind \in SchemaKinds /\ req'[o].pc \in {"write", "release", "mount"} => Mounts(v)'
    <3>1. CASE o = th
      <4>1. k # "adopt"
        BY DEF Kinds, SchemaKinds, RegistryKinds
      <4>2. QED
        BY <1>2, <1>4, <3>1, <4>1
    <3>2. CASE o # th
      BY <1>2, <1>3, <1>5, <2>1, <2>4, <3>2 DEF Settled
    <3>3. QED
      BY <3>1, <3>2
  <2>5. QED
    BY <2>3, <2>4 DEF Settled, Between
<1>12. BrokenIsByHand'
  BY <1>1, <1>3 DEF BrokenIsByHand
<1>13. QED
  BY <1>2, <1>7, <1>8, <1>9, <1>10, <1>11, <1>12 DEF Inv

(* Nothing moves in the engine, and schemas change by hand at most.        *)
LEMMA AsideInv ==
  ASSUME Inv, TypeOK', UNCHANGED <<disk, config, mounted, req, overlapped, halfDone>>,
         byHand \subseteq byHand', broken' \subseteq byHand',
         \A v \in Wikis \ byHand' : files'[v] = files[v]
  PROVE  Inv'
<1>1. TypeOK /\ Shapes /\ Overlaps /\ Holds /\ BrokenIsByHand /\ Removes /\ LiveTypes /\ Saws /\ AllSettled
  BY DEF Inv
<1>2. \A v : Mounts(v)' <=> Mounts(v)
  BY DEF Mounts
<1>3. \A v \in Wikis \ byHand' : Shown(v)' = Shown(v) /\ Compiled(v)' = Compiled(v)
  BY CompiledStays DEF Shown
<1>4. Shapes' /\ Overlaps'
  BY <1>1 DEF Shapes, Overlaps
<1>5. Holds'
  <2> SUFFICES ASSUME NEW o \in Threads, req'[o].pc = "write",
                      NEW v, v = req'[o].wiki, v \notin overlapped' \cup byHand'
               PROVE  /\ req'[o].kind = "register" => mounted'[v] = NoType
                      /\ req'[o].kind = "evolve" => /\ Shown(v)' # None
                                                    /\ Shown(v)'.owner = req'[o].content.owner
    BY DEF Holds
  <2>1. v \in Wikis
    BY <1>1, Fields
  <2>2. QED
    BY <1>1, <1>3, <2>1 DEF Holds
<1>6. BrokenIsByHand'
  BY DEF BrokenIsByHand
<1>7. Removes'
  BY <1>1, <1>2 DEF Removes
<1>8. LiveTypes'
  <2> SUFFICES ASSUME NEW v \in Wikis PROVE Live(v)'
    BY DEF LiveTypes, Live
  <2>1. Live(v)
    BY <1>1 DEF LiveTypes, Live
  <2>2. Remounting(v) => Remounting(v)'
    BY DEF Remounting
  <2>3. CASE v \in byHand'
    BY <2>3 DEF Live
  <2>4. CASE v \notin byHand'
    BY <2>1, <2>2, <2>4, LiveElsewhere
  <2>5. QED
    BY <2>3, <2>4
<1>9. Saws'
  BY <1>1 DEF Saws
<1>10. AllSettled'
  BY <1>1, <1>2 DEF AllSettled, Settled, Between
<1>11. QED
  BY <1>1, <1>4, <1>5, <1>6, <1>7, <1>8, <1>9, <1>10 DEF Inv

(* The engine as it has just been built.                                   *)
Fresh == /\ req = [th \in Threads |-> Resting]
         /\ \A w \in Wikis : /\ Mounts(w) <=> w \in disk.wikis \ broken
                             /\ Mounts(w) => mounted[w] = Compiled(w)
         /\ broken \subseteq halfDone /\ broken \subseteq byHand

LEMMA FreshInv == TypeOK /\ Fresh => Inv
<1> SUFFICES ASSUME TypeOK, Fresh PROVE Inv
  OBVIOUS
<1>1. \A th \in Threads : req[th].pc = "rest" /\ req[th].kind = "rest"
  BY RestingIs DEF Fresh
<1>2. Shapes
  BY <1>1, RestingIs DEF Shapes
<1>3. Overlaps /\ Holds /\ Removes /\ Saws
  BY <1>1 DEF Overlaps, Holds, Removes, Saws, Quiet, Registering, RegistryKinds
<1>4. BrokenIsByHand /\ LiveTypes
  BY DEF Fresh, BrokenIsByHand, LiveTypes, Lagging
<1>5. \A w \in Wikis \ (overlapped \cup halfDone) : Mounts(w) <=> w \in disk.wikis
  BY DEF Fresh
<1>6. AllSettled
  BY <1>1, <1>5 DEF AllSettled, Settled, SchemaKinds
<1>7. QED
  BY <1>2, <1>3, <1>4, <1>6 DEF Inv

LEMMA FreshInvAfter == (TypeOK /\ Fresh => Inv)'
BY FreshInv, PTL

LEMMA InitInv == InitMounts => Inv
<1> SUFFICES ASSUME InitMounts PROVE Inv
  OBVIOUS
<1>1. disk \in Configs /\ config \in Configs /\ disk.wikis = Known
  BY DefaultIsKnown DEF InitMounts, Configs
<1>2. files \in [Wikis -> [Paths -> Contents \cup {None}]] /\ \A w \in Wikis, p \in Paths : files[w][p] = None
  BY DEF InitMounts
<1>3. req \in [Threads -> Requests]
  BY RestingIs DEF InitMounts
<1>4. window \in [pages : SUBSET Wikis, schemas : SUBSET Wikis] /\ Hists
  BY DefaultIsKnown DEF InitMounts, Hists
<1>5. \A w \in Wikis : Compiled(w) = NoType
  BY <1>2 DEF Compiled, Parsed
<1>6. NotMounted \in Served /\ NoType \in Served /\ NotMounted # NoType
  BY DEF NotMounted, NoType, Served
<1>7. mounted = [w \in Wikis |-> IF w \in Known THEN Compiled(w) ELSE NotMounted]
  BY DEF InitMounts, Build
<1>8. mounted \in [Wikis -> Served]
  BY <1>5, <1>6, <1>7
<1>9. TypeOK
  BY <1>1, <1>2, <1>3, <1>4, <1>8, Types
<1>10. Fresh
  BY <1>1, <1>5, <1>6, <1>7 DEF InitMounts, Fresh, Mounts
<1>11. QED
  BY <1>9, <1>10, FreshInv

LEMMA RestartInv ==
  ASSUME Inv, Restart
  PROVE  Inv'
<1>1. TypeOK
  BY DEF Inv
<1>2. /\ Build(disk.wikis) \in [Wikis -> Served]
      /\ \A w \in Wikis : /\ Build(disk.wikis)[w] # NotMounted <=> w \in disk.wikis \ broken
                          /\ w \in disk.wikis \ broken => Build(disk.wikis)[w] = Compiled(w)
  BY <1>1, BuildIs
<1>3. mounted' \in [Wikis -> Served]
  BY <1>2 DEF Restart
<1>4. /\ disk \in Configs /\ disk.wikis \subseteq Wikis /\ Hists
      /\ files \in [Wikis -> [Paths -> Contents \cup {None}]]
  BY <1>1, Types DEF Configs
<1>5. disk' \in Configs /\ config' \in Configs /\ files' \in [Wikis -> [Paths -> Contents \cup {None}]]
  BY <1>4 DEF Restart
<1>6. req' \in [Threads -> Requests]
  BY RestingIs DEF Restart
<1>7. window' \in [pages : SUBSET Wikis, schemas : SUBSET Wikis] /\ Hists'
  BY <1>4 DEF Restart, Hists
<1>8. TypeOK'
  BY <1>3, <1>5, <1>6, <1>7, TypesAfter
<1>9. \A w \in Wikis : Compiled(w)' = Compiled(w)
  BY CompiledStays DEF Restart
<1>10. Fresh'
  BY <1>2, <1>9 DEF Restart, Fresh, Mounts
<1>11. QED
  BY <1>8, <1>10, FreshInvAfter

(* The watcher, and what happens outside of the server.                    *)
LEMMA AsideTypes ==
  ASSUME TypeOK, UNCHANGED <<disk, config, mounted, req>>,
         files' \in [Wikis -> [Paths -> Contents \cup {None}]],
         window' \in [pages : SUBSET Wikis, schemas : SUBSET Wikis], Hists'
  PROVE  TypeOK'
<1>1. disk \in Configs /\ config \in Configs /\ mounted \in [Wikis -> Served] /\ req \in [Threads -> Requests]
  BY Types
<1>2. QED
  BY <1>1, TypesAfter

LEMMA WatchInv ==
  ASSUME Inv, WatchSchemas \/ WatchPages \/ UNCHANGED mountVars
  PROVE  Inv'
<1>1. TypeOK
  BY DEF Inv
<1>2. UNCHANGED <<disk, config, mounted, files, broken, req, overlapped, halfDone, byHand, watched>>
  BY DEF WatchSchemas, WatchPages, mountVars, history
<1>3. Hists /\ files \in [Wikis -> [Paths -> Contents \cup {None}]]
      /\ window \in [pages : SUBSET Wikis, schemas : SUBSET Wikis]
  BY <1>1, Types
<1>4. window' \in [pages : SUBSET Wikis, schemas : SUBSET Wikis]
  BY <1>3 DEF WatchSchemas, WatchPages, mountVars
<1>5. behind' \subseteq Wikis /\ lost' \subseteq Wikis /\ faulted' \subseteq Wikis
  BY <1>3 DEF WatchSchemas, WatchPages, mountVars, history, Hists
<1>6. TypeOK'
  BY <1>1, <1>2, <1>3, <1>4, <1>5, AsideTypes DEF Hists
<1>7. broken \subseteq byHand
  BY DEF Inv, BrokenIsByHand
<1>8. QED
  BY <1>2, <1>6, <1>7, AsideInv

LEMMA WorldInv ==
  ASSUME Inv, World
  PROVE  Inv'
<1>1. TypeOK
  BY DEF Inv
<1>2. Hists /\ files \in [Wikis -> [Paths -> Contents \cup {None}]]
      /\ window \in [pages : SUBSET Wikis, schemas : SUBSET Wikis]
  BY <1>1, Types
<1>3. broken \subseteq byHand
  BY DEF Inv, BrokenIsByHand
<1>4. PICK w \in Wikis : \/ EditPage(w) \/ BreakSchemas(w)
                         \/ \E p \in Paths, c \in Contents : AddSchema(w, p, c)
  BY DEF World
<1>5. window' \in [pages : SUBSET Wikis, schemas : SUBSET Wikis]
  <2>1. Note(w) => window' \in [pages : SUBSET Wikis, schemas : SUBSET Wikis]
    BY <1>2 DEF Note
  <2>2. EditPage(w) => window' \in [pages : SUBSET Wikis, schemas : SUBSET Wikis]
    BY <1>2 DEF EditPage, Hears
  <2>3. QED
    BY <1>4, <2>1, <2>2 DEF BreakSchemas, AddSchema
<1>6. UNCHANGED <<disk, config, mounted, req, overlapped, halfDone, watched>>
  BY <1>4 DEF EditPage, BreakSchemas, AddSchema
<1>7. CASE EditPage(w)
  <2>1. UNCHANGED <<files, broken, byHand>>
    BY <1>7 DEF EditPage
  <2>2. behind' \subseteq Wikis /\ lost' \subseteq Wikis /\ faulted' \subseteq Wikis
    BY <1>2, <1>7 DEF EditPage, Hears, Hists
  <2>3. TypeOK'
    BY <1>1, <1>2, <1>5, <1>6, <2>1, <2>2, AsideTypes DEF Hists
  <2>4. QED
    BY <1>3, <1>6, <2>1, <2>3, AsideInv
<1>8. CASE BreakSchemas(w)
  <2>1. UNCHANGED <<files, behind, lost, faulted>> /\ broken' = broken \cup {w} /\ byHand' = byHand \cup {w}
    BY <1>8 DEF BreakSchemas
  <2>2. TypeOK'
    BY <1>1, <1>2, <1>5, <1>6, <2>1, AsideTypes DEF Hists
  <2>3. QED
    BY <1>3, <1>6, <2>1, <2>2, AsideInv
<1>9. CASE \E p \in Paths, c \in Contents : AddSchema(w, p, c)
  <2>1. PICK p \in Paths : \E c \in Contents : AddSchema(w, p, c)
    BY <1>9
  <2>2. PICK c \in Contents : AddSchema(w, p, c)
    BY <2>1
  <2>3. UNCHANGED <<broken, behind, lost, faulted>> /\ byHand' = byHand \cup {w} /\ files' = [files EXCEPT ![w][p] = c]
    BY <2>2 DEF AddSchema
  <2>4. /\ files' \in [Wikis -> [Paths -> Contents \cup {None}]]
        /\ \A v \in Wikis \ byHand' : files'[v] = files[v]
    BY <1>2, <2>3
  <2>5. TypeOK'
    BY <1>1, <1>2, <1>5, <1>6, <2>3, <2>4, AsideTypes DEF Hists
  <2>6. QED
    BY <1>3, <1>6, <2>3, <2>4, <2>5, AsideInv
<1>10. QED
  BY <1>4, <1>7, <1>8, <1>9

LEMMA InvKept == Inv /\ [NextMounts]_mountVars => Inv'
<1> SUFFICES ASSUME Inv, [NextMounts]_mountVars PROVE Inv'
  OBVIOUS
<1>1. ASSUME NEW th \in Threads, Step(th) PROVE Inv'
  BY <1>1, StepInv
<1>2. ASSUME \E th \in Threads, k \in Kinds, w \in Wikis, c \in Contents \cup {None} : Call(th, k, w, c)
      PROVE  Inv'
  BY <1>2, CallInv
<1>3. CASE WatchSchemas \/ WatchPages \/ UNCHANGED mountVars
  BY <1>3, WatchInv
<1>4. CASE World
  BY <1>4, WorldInv
<1>5. CASE Restart
  BY <1>5, RestartInv
<1>6. QED
  BY <1>1, <1>2, <1>3, <1>4, <1>5 DEF NextMounts

LEMMA AlwaysInv == SpecMounts => []Inv
BY InitInv, InvKept, PTL DEF SpecMounts

-----------------------------------------------------------------------------
(* What handlers wait for: with everybody stuck, a writer waits for the    *)
(* guard of one that waits for the writers.                                *)
LEMMA StuckByNesting ==
  ASSUME TypeOK
  PROVE  WedgedOnlyByNesting
<1> SUFFICES ASSUME Busy # {}, \A th \in Busy : ~GetsLock(th)
             PROVE  Waiting # {} /\ \E th \in Threads : req[th].pc = "nested"
  BY DEF WedgedOnlyByNesting
<1>1. \A th \in Busy : /\ th \in Threads
                       /\ \/ req[th].pc \in {"guard", "nested"} /\ Waiting # {}
                          \/ req[th].pc \in {"mount", "unmount", "setdefault"} /\ Readers # {}
                          \/ req[th].pc = "admit" /\ \E o \in Threads : req[o].pc = "nested"
  BY DEF GetsLock, MayRead, MayWrite, GitLockIsFree, Busy
<1>2. \A th \in Readers \cup Waiting : th \in Busy
  BY DEF Readers, Waiting, Busy
<1>3. Waiting # {} => Readers # {}
  BY <1>1, <1>2 DEF Waiting
<1>4. \A th \in Readers : \E o \in Threads : req[o].pc = "nested"
  BY <1>1, <1>2 DEF Readers
<1>5. \A o \in Threads : req[o].pc = "nested" => Waiting # {}
  BY <1>1 DEF Busy
<1>6. QED
  BY <1>1, <1>3, <1>4, <1>5

(* The running engine serves what is registered, with the schemas on disk, *)
(* for every number of wikis and workers: the exceptions are those that    *)
(* EngineAgrees names, and handlers that wait for ever do so by nesting.   *)
THEOREM EngineStaysAgreed == SpecMounts => []EngineAgrees
<1>1. Inv => EngineAgrees
  <2> SUFFICES ASSUME Inv PROVE EngineAgrees
    OBVIOUS
  <2>1. TypeOK /\ Shapes /\ LiveTypes /\ AllSettled
    BY DEF Inv
  <2>2. MountedAreRegistered
    <3> SUFFICES ASSUME NEW w \in Wikis \ (overlapped \cup halfDone),
                        \A th \in Threads : req[th].wiki = w => req[th].kind \in {"rest", "ingest"}
                 PROVE  Mounts(w) <=> w \in disk.wikis
      BY DEF MountedAreRegistered
    <3>1. Settled(w)
      BY <2>1 DEF AllSettled
    <3>2. \A th \in Threads : req[th].wiki = w => ~Between(req[th])
      BY QuietIsSettled DEF Quiet
    <3>3. QED
      BY <3>1, <3>2 DEF Settled
  <2>3. QED
    BY <2>1, <2>2, StuckByNesting DEF EngineAgrees
<1>2. QED
  BY <1>1, AlwaysInv, PTL

-----------------------------------------------------------------------------
(* There is a default wiki, in the file, in every copy of it and in the    *)
(* engine's; and what has been spent is a number.                          *)
Defaults ==
  /\ disk.default \in Wikis /\ config.default \in Wikis
  /\ \A th \in Threads : req[th].pc = "save" => req[th].saw.default \in Wikis
  /\ spent \in [calls : Nat, hands : Nat, starts : Nat]

LEMMA DefaultsStep ==
  ASSUME Inv, Defaults, NEW th \in Threads, Step(th)
  PROVE  Defaults'
<1>1. TypeOK /\ Shapes
  BY DEF Inv
<1>2. disk \in Configs /\ config \in Configs
  BY <1>1, Types
<1>3. PICK next \in Requests : req' = [req EXCEPT ![th] = next]
  BY <1>1, StepGoes DEF Goes
<1>4. \A o \in Threads \ {th} : req'[o] = req[o]
  BY <1>1, <1>3, Types
<1>5. \A o \in Threads : req'[o].pc = "save" => req'[o].saw.default \in Wikis
  <2>1. req'[th].pc = "save" => req'[th].saw.default \in Wikis
    BY <1>1, LoadSees DEF Defaults
  <2>2. QED
    BY <1>4, <2>1 DEF Defaults
<1>6. spent' = spent
  BY DEF Step, Guard, Write, Release, Mount, Load, Save, Unmount, SetDefault, TakeGitLock, RefreshIndex, history
<1>7. PICK w \in Wikis : w = req[th].wiki
  BY <1>1, Fields
<1>8. config'.default \in Wikis
  <2>1. CASE SetDefault(th)
    BY <1>2, <1>7, <2>1 DEF SetDefault, Defaults, Configs
  <2>2. CASE ~SetDefault(th)
    <3>1. config' = config
      BY <2>2 DEF Step, Guard, Write, Release, Mount, Load, Save, Unmount, TakeGitLock, RefreshIndex
    <3>2. QED
      BY <3>1 DEF Defaults
  <2>3. QED
    BY <2>1, <2>2
<1>9. disk'.default \in Wikis
  <2>1. CASE Save(th)
    <3>1. PICK r \in Requests : r = req[th] /\ r.saw \in Configs /\ r.wiki = w
      BY <1>1, <1>7, Fields
    <3>2. r.saw.default \in Wikis
      BY <2>1, <3>1 DEF Save, Defaults
    <3>3. disk' \in {Registered(r), Removed(r), DefaultSet(r)}
      BY <2>1, <3>1 DEF Save
    <3>4. /\ Registered(r).default = r.saw.default /\ Removed(r).default = r.saw.default
          /\ DefaultSet(r).default = w
      BY <3>1 DEF Registered, Removed, DefaultSet, Configs
    <3>5. QED
      BY <3>2, <3>3, <3>4
  <2>2. CASE ~Save(th)
    BY <2>2, DiskStays DEF Defaults
  <2>3. QED
    BY <2>1, <2>2
<1>10. QED
  BY <1>5, <1>6, <1>8, <1>9 DEF Defaults

LEMMA DefaultsKept == Inv /\ Defaults /\ [NextMounts]_mountVars => Defaults'
<1> SUFFICES ASSUME Inv, Defaults, [NextMounts]_mountVars PROVE Defaults'
  OBVIOUS
<1>1. ASSUME NEW th \in Threads, Step(th) PROVE Defaults'
  BY <1>1, DefaultsStep
<1>2. ASSUME NEW th \in Threads, NEW k \in Kinds, NEW w \in Wikis, NEW c \in Contents \cup {None}, Call(th, k, w, c)
      PROVE  Defaults'
  <2>1. TypeOK /\ Shapes /\ Overlaps
    BY DEF Inv
  <2>2. req'[th].pc = FirstStep(k) /\ \A o \in Threads \ {th} : req'[o] = req[o]
    BY <1>2, <2>1, CallGoes
  <2>3. FirstStep(k) # "save"
    BY DEF FirstStep
  <2>4. spent' \in [calls : Nat, hands : Nat, starts : Nat]
    BY <1>2 DEF Call, Defaults
  <2>5. UNCHANGED <<disk, config>>
    BY <1>2 DEF Call
  <2>6. QED
    BY <2>2, <2>3, <2>4, <2>5 DEF Defaults
<1>3. CASE WatchSchemas \/ WatchPages \/ UNCHANGED mountVars
  BY <1>3 DEF WatchSchemas, WatchPages, mountVars, history, Defaults
<1>4. CASE World
  <2>1. UNCHANGED <<disk, config, req>> /\ spent' = [spent EXCEPT !.hands = @ + 1]
    BY <1>4 DEF World, EditPage, BreakSchemas, AddSchema, Hand
  <2>2. QED
    BY <2>1 DEF Defaults
<1>5. CASE Restart
  <2>1. disk' = disk /\ config' = disk /\ req' = [th \in Threads |-> Resting] /\ spent' = [spent EXCEPT !.starts = @ + 1]
    BY <1>5 DEF Restart
  <2>2. QED
    BY <2>1, RestingIs DEF Defaults
<1>6. QED
  BY <1>1, <1>2, <1>3, <1>4, <1>5 DEF NextMounts

LEMMA AlwaysDefaults == SpecMounts => [](Inv /\ Defaults)
<1>1. InitMounts => Defaults
  BY DefaultIsKnown, RestingIs DEF InitMounts, Defaults
<1>2. QED
  BY <1>1, InitInv, InvKept, DefaultsKept, PTL DEF SpecMounts

(* A schema that the door writes replaces one of the same owner.           *)
LEMMA WriteKeepsOwner ==
  ASSUME Inv, NEW th \in Threads, Write(th), NEW w \in Wikis, w = req[th].wiki,
         files[w]["own"] # None, files'[w]["own"] # None,
         w \notin overlapped, w \notin byHand, w \in config.wikis, files[w]["added"] = None
  PROVE  files[w]["own"].owner = files'[w]["own"].owner
<1>1. TypeOK /\ Shapes /\ Overlaps /\ Holds /\ LiveTypes
  BY DEF Inv
<1>2. PICK r \in Requests : r = req[th] /\ r.wiki = w
  BY <1>1, Fields
<1>3. /\ mounted \in [Wikis -> Served] /\ files \in [Wikis -> [Paths -> Contents \cup {None}]]
      /\ req \in [Threads -> Requests]
  BY <1>1, Types
<1>4. r.pc = "write" /\ r.kind \in SchemaKinds
  BY <1>1, <1>2 DEF Write, Shapes, StepsOf, Requests, Kinds, SchemaKinds, RegistryKinds
<1>5. PICK own \in Contents : own = files[w]["own"]
  BY <1>3 DEF Paths
<1>6. CASE r.kind = "drop"
  <2>1. files' = [files EXCEPT ![w][mounted[w].path] = None]
    BY <1>2, <1>6 DEF Write
  <2>2. mounted[w].path # "own"
    BY <1>3, <2>1 DEF Paths
  <2>3. PICK p \in Paths \cup {"none", "embedded"} : p = mounted[w].path
    BY <1>3 DEF Served
  <2>4. QED
    BY <1>3, <2>1, <2>2, <2>3 DEF Paths
<1>7. CASE r.kind = "register"
  <2>1. mounted[w] = NoType
    BY <1>1, <1>2, <1>4, <1>7 DEF Holds
  <2>2. "own" \in Parsed(w) /\ "added" \notin Parsed(w)
    BY <1>5 DEF Parsed, Paths
  <2>3. Compiled(w) = [path |-> "own", content |-> own]
    BY <1>5, <2>2 DEF Compiled
  <2>4. Lagging(w)
    BY <2>1, <2>3 DEF Lagging, Mounts, NoType, NotMounted
  <2>5. Remounting(w)
    BY <1>1, <2>3, <2>4 DEF LiveTypes, NoType
  <2>6. PICK o \in Threads : req[o].wiki = w /\ req[o].pc \in {"release", "mount"}
    BY <2>5 DEF Remounting
  <2>7. o # th /\ req[o].kind \notin Quiet /\ r.kind \notin Quiet
    BY <1>1, <1>2, <1>4, <2>6 DEF Shapes, StepsOf, SchemaKinds, Quiet
  <2>8. QED
    BY <1>1, <1>2, <2>6, <2>7 DEF Overlaps
<1>8. CASE r.kind = "evolve"
  <2>1. Shown(w) # None /\ Shown(w).owner = r.content.owner
    BY <1>1, <1>2, <1>4, <1>8 DEF Holds
  <2>2. Shown(w) = files[w]["own"]
    BY <2>1 DEF Shown, Paths
  <2>3. files' = [files EXCEPT ![w]["own"] = r.content]
    BY <1>2, <1>8 DEF Write
  <2>4. files'[w]["own"] = r.content
    BY <1>3, <2>3 DEF Paths
  <2>5. QED
    BY <2>1, <2>2, <2>4
<1>9. QED
  BY <1>4, <1>6, <1>7, <1>8 DEF SchemaKinds

(* What the schema door and everybody else may do to a schema's owner.     *)
LEMMA OwnerStep ==
  ASSUME Inv, [NextMounts]_mountVars, NEW w \in Wikis, files[w]["own"] # None, files'[w]["own"] # None,
         w \notin overlapped, w \notin byHand', w \in config.wikis, files[w]["added"] = None
  PROVE  files[w]["own"].owner = files'[w]["own"].owner
<1>1. TypeOK /\ Shapes
  BY DEF Inv
<1>2. files \in [Wikis -> [Paths -> Contents \cup {None}]]
  BY <1>1, Types
<1>3. ASSUME NEW th \in Threads, Step(th) PROVE files[w]["own"].owner = files'[w]["own"].owner
  <2>1. CASE w # req[th].wiki
    BY <1>1, <1>3, <2>1, Elsewhere
  <2>2. CASE w = req[th].wiki /\ Write(th)
    <3>1. w \notin byHand
      BY <2>2 DEF Write, history
    <3>2. QED
      BY <2>2, <3>1, WriteKeepsOwner
  <2>3. CASE w = req[th].wiki /\ Save(th)
    <3>1. PICK delete \in BOOLEAN :
            files' = IF delete THEN [files EXCEPT ![w] = [p \in Paths |-> None]] ELSE files
      BY <2>3 DEF Save
    <3>2. QED
      BY <1>2, <3>1 DEF Paths
  <2>4. CASE ~Write(th) /\ ~Save(th)
    <3>1. files' = files
      BY <1>3, <2>4 DEF Step, Guard, Release, Mount, Load, Unmount, SetDefault, TakeGitLock, RefreshIndex
    <3>2. QED
      BY <3>1
  <2>5. QED
    BY <2>1, <2>2, <2>3, <2>4
<1>4. CASE \/ \E th \in Threads, k \in Kinds, v \in Wikis, c \in Contents \cup {None} : Call(th, k, v, c)
           \/ WatchSchemas \/ WatchPages \/ Restart \/ UNCHANGED mountVars
  BY <1>4, Zenon DEF Call, WatchSchemas, WatchPages, Restart, mountVars
<1>5. CASE World
  <2>1. files'[w] = files[w]
    <3>1. PICK v \in Wikis : \/ EditPage(v) \/ BreakSchemas(v)
                             \/ \E p \in Paths, c \in Contents : AddSchema(v, p, c)
      BY <1>5 DEF World
    <3>2. CASE EditPage(v) \/ BreakSchemas(v)
      BY <3>2 DEF EditPage, BreakSchemas
    <3>3. CASE \E p \in Paths, c \in Contents : AddSchema(v, p, c)
      <4>1. PICK p \in Paths : \E c \in Contents : AddSchema(v, p, c)
        BY <3>3
      <4>2. PICK c \in Contents : AddSchema(v, p, c)
        BY <4>1
      <4>3. v # w
        BY <4>2 DEF AddSchema
      <4>4. QED
        BY <1>2, <4>2, <4>3 DEF AddSchema
    <3>4. QED
      BY <3>1, <3>2, <3>3
  <2>2. QED
    BY <2>1
<1>6. QED
  BY <1>3, <1>4, <1>5 DEF NextMounts

LEMMA DefaultStaysMounted ==
  ASSUME Inv, Defaults, [NextMounts]_mountVars, Mounts(config.default)
  PROVE  mounted'[config'.default] # NotMounted \/ spent'.starts > spent.starts
<1>1. TypeOK /\ Shapes
  BY DEF Inv
<1>2. mounted \in [Wikis -> Served] /\ config \in Configs
  BY <1>1, Types
<1>3. PICK d \in Wikis : d = config.default /\ mounted[d] # NotMounted
  BY DEF Defaults, Mounts
<1>4. ASSUME NEW th \in Threads, Step(th) PROVE mounted'[config'.default] # NotMounted
  <2>1. PICK w \in Wikis : w = req[th].wiki
    BY <1>1, Fields
  <2>2. CASE Mount(th)
    <3>1. mounted'[d] = mounted[d] \/ mounted'[d] = Compiled(d)
      BY <1>2, <2>1, <2>2 DEF Mount
    <3>2. config' = config
      BY <2>2 DEF Mount
    <3>3. Compiled(d) # NotMounted
      BY <1>1, CompiledIs DEF NotMounted
    <3>4. QED
      BY <1>3, <3>1, <3>2, <3>3
  <2>3. CASE Unmount(th)
    <3>1. mounted' = mounted \/ (d # w /\ mounted' = [mounted EXCEPT ![w] = NotMounted])
      BY <1>3, <2>1, <2>3 DEF Unmount
    <3>2. config' = config
      BY <2>3 DEF Unmount
    <3>3. QED
      BY <1>2, <1>3, <3>1, <3>2
  <2>4. CASE SetDefault(th)
    <3>1. mounted' = mounted /\ (config' = config \/ (Mounts(w) /\ config' = [config EXCEPT !.default = w]))
      BY <2>1, <2>4 DEF SetDefault
    <3>2. QED
      BY <1>2, <1>3, <3>1 DEF Configs, Mounts
  <2>5. CASE ~Mount(th) /\ ~Unmount(th) /\ ~SetDefault(th)
    <3>1. UNCHANGED <<mounted, config>>
      BY <1>4, <2>5 DEF Step, Guard, Write, Release, Load, Save, TakeGitLock, RefreshIndex
    <3>2. QED
      BY <1>3, <3>1
  <2>6. QED
    BY <2>2, <2>3, <2>4, <2>5
<1>5. CASE Restart
  <2>1. spent' = [spent EXCEPT !.starts = @ + 1]
    BY <1>5 DEF Restart
  <2>2. QED
    BY <2>1 DEF Defaults
<1>6. CASE \/ \E th \in Threads, k \in Kinds, v \in Wikis, c \in Contents \cup {None} : Call(th, k, v, c)
           \/ WatchSchemas \/ WatchPages \/ World \/ UNCHANGED mountVars
  <2>1. UNCHANGED <<mounted, config>>
    BY <1>6, Zenon DEF Call, WatchSchemas, WatchPages, World, EditPage, BreakSchemas, AddSchema, mountVars
  <2>2. QED
    BY <1>3, <2>1
<1>7. QED
  BY <1>4, <1>5, <1>6 DEF NextMounts

(* A schema keeps its owner and the engine its default wiki, whatever      *)
(* calls run beside each other, up to the exceptions OwnersKeep names.     *)
THEOREM OwnersAreKept == SpecMounts => OwnersKeep
<1>1. Inv /\ Defaults /\ [NextMounts]_mountVars =>
        /\ \A w \in Wikis :
             LET old == files[w]["own"] new == files'[w]["own"] IN
             (old # None /\ new # None => old.owner = new.owner)
                \/ w \in overlapped \cup byHand' \/ w \notin config.wikis \/ files[w]["added"] # None
        /\ Mounts(config.default) => mounted'[config'.default] # NotMounted \/ spent'.starts > spent.starts
  <2> SUFFICES ASSUME Inv, Defaults, [NextMounts]_mountVars
               PROVE /\ \A w \in Wikis :
                          \/ (files[w]["own"] # None /\ files'[w]["own"] # None =>
                                files[w]["own"].owner = files'[w]["own"].owner)
                          \/ w \in overlapped \cup byHand' \/ w \notin config.wikis \/ files[w]["added"] # None
                     /\ Mounts(config.default) =>
                          mounted'[config'.default] # NotMounted \/ spent'.starts > spent.starts
    OBVIOUS
  <2>1. QED
    BY OwnerStep, DefaultStaysMounted
<1>2. QED
  BY <1>1, AlwaysDefaults, PTL DEF SpecMounts, OwnersKeep

-----------------------------------------------------------------------------
(* The watcher's edits, step by step.                                      *)
Noticed == (behind \ lost) \subseteq window.pages

(* Why a wiki may be lost by this step.                                    *)
Excused(w) ==
  \/ Hears(w) = {} \/ ~Mounts(w) \/ w \in faulted'
  \/ window.schemas # {} /\ window'.schemas = {}
  \/ spent'.starts > spent.starts

Keeps == (behind' \ lost') \subseteq window'.pages /\ \A w \in lost' \ lost : Excused(w)

LEMMA EditsStep ==
  ASSUME Inv, Defaults, [NextMounts]_mountVars, Noticed
  PROVE  Keeps
<1>1. TypeOK /\ Shapes
  BY DEF Inv
<1>2. window \in [pages : SUBSET Wikis, schemas : SUBSET Wikis] /\ behind \subseteq Wikis
  BY <1>1, Types DEF Hists
<1>3. \A w : Note(w) => window'.pages = window.pages
  BY <1>2 DEF Note
<1>4. ASSUME UNCHANGED <<behind, lost>>, window'.pages = window.pages
      PROVE  Keeps
  BY <1>4 DEF Noticed, Keeps
<1>5. ASSUME NEW th \in Threads, Step(th)
      PROVE  Keeps
  <2>1. CASE RefreshIndex(th)
    BY <2>1 DEF RefreshIndex, Noticed, Keeps
  <2>2. CASE Write(th)
    BY <1>3, <1>4, <2>2 DEF Write, history
  <2>3. CASE ~RefreshIndex(th) /\ ~Write(th)
    <3>1. UNCHANGED <<behind, lost, window>>
      BY <1>5, <2>3 DEF Step, Guard, Release, Mount, Load, Save, Unmount, SetDefault, TakeGitLock, history
    <3>2. QED
      BY <1>4, <3>1
  <2>4. QED
    BY <2>1, <2>2, <2>3
<1>6. CASE (\E th \in Threads, k \in Kinds, v \in Wikis, c \in Contents \cup {None} : Call(th, k, v, c))
           \/ UNCHANGED mountVars
  <2>1. UNCHANGED <<behind, lost, window>>
    BY <1>6 DEF Call, mountVars, history
  <2>2. QED
    BY <1>4, <2>1
<1>7. CASE WatchSchemas
  <2>1. PICK seen \in SUBSET (window.schemas \cap behind) :
          /\ behind' = behind \ seen
          /\ lost' = (lost \ seen) \cup ((window.pages \cap behind) \ seen)
    BY <1>7 DEF WatchSchemas
  <2>2. behind' \ lost' = {} /\ window.schemas # {} /\ window'.schemas = {}
    BY <1>7, <2>1 DEF WatchSchemas, Noticed
  <2>3. QED
    BY <2>2 DEF Keeps, Excused
<1>8. CASE WatchPages
  <2>1. PICK served : served = {w \in window.pages : Mounts(w)}
    OBVIOUS
  <2>2. PICK done \in SUBSET served :
          /\ behind' = behind \ done
          /\ lost' = (lost \ done) \cup ((window.pages \ done) \cap behind)
          /\ faulted' = served \ done
    BY <1>8, <2>1 DEF WatchPages
  <2>3. behind' \ lost' = {}
    BY <2>2 DEF Noticed
  <2>4. \A w \in lost' \ lost : w \in faulted' \/ ~Mounts(w)
    BY <2>1, <2>2
  <2>5. QED
    BY <2>3, <2>4 DEF Keeps, Excused
<1>9. CASE World
  <2>1. PICK w \in Wikis : \/ EditPage(w) \/ BreakSchemas(w)
                           \/ \E p \in Paths, c \in Contents : AddSchema(w, p, c)
    BY <1>9 DEF World
  <2>2. CASE EditPage(w)
    <3>1. PICK heard \in SUBSET Hears(w) :
            window' = [window EXCEPT !.pages = @ \cup heard] /\ faulted' = Hears(w) \ heard
      BY <2>2 DEF EditPage
    <3>2. window'.pages = window.pages \cup heard /\ behind' = behind \cup {w}
          /\ lost' = (lost \cup {w}) \ window'.pages
      BY <1>2, <2>2, <3>1 DEF EditPage
    <3>3. (behind' \ lost') \subseteq window'.pages
      BY <3>2 DEF Noticed
    <3>4. \A v \in lost' \ lost : v = w /\ (Hears(v) = {} \/ v \in faulted')
      BY <3>1, <3>2 DEF Hears
    <3>5. QED
      BY <3>3, <3>4 DEF Keeps, Excused
  <2>3. CASE BreakSchemas(w) \/ \E p \in Paths, c \in Contents : AddSchema(w, p, c)
    <3>1. UNCHANGED <<behind, lost>> /\ Note(w)
      BY <2>3 DEF BreakSchemas, AddSchema
    <3>2. QED
      BY <1>3, <1>4, <3>1
  <2>4. QED
    BY <2>1, <2>2, <2>3
<1>10. CASE Restart
  <2>1. spent'.starts > spent.starts
    BY <1>10 DEF Restart, Defaults
  <2>2. behind' = behind /\ lost' = behind
    BY <1>10 DEF Restart
  <2>3. QED
    BY <2>1, <2>2 DEF Keeps, Excused
<1>11. QED
  BY <1>5, <1>6, <1>7, <1>8, <1>9, <1>10 DEF NextMounts

(* What the watcher was told of is in its window until it is indexed, and  *)
(* a wiki is lost for a reason that EditsAreNoticed names only.            *)
THEOREM EditsAreSeen == SpecMounts => EditsAreNoticed
<1>1. InitMounts => Noticed
  BY DEF InitMounts, Noticed
<1>2. Inv /\ Defaults /\ Noticed /\ [NextMounts]_mountVars => Noticed'
  BY EditsStep DEF Noticed, Keeps
<1>3. Inv /\ Defaults /\ Noticed /\ [NextMounts]_mountVars =>
        /\ (behind' \ lost') \subseteq window'.pages
        /\ \A w \in lost' \ lost :
             \/ Hears(w) = {} \/ ~Mounts(w) \/ w \in faulted'
             \/ window.schemas # {} /\ window'.schemas = {}
             \/ spent'.starts > spent.starts
  BY EditsStep DEF Keeps, Excused
<1>4. QED
  BY <1>1, <1>2, <1>3, AlwaysDefaults, PTL DEF SpecMounts, EditsAreNoticed

-----------------------------------------------------------------------------
(* Admissions: the gate, and what a commit takes.                          *)

Files == Texts \cup {"good", "loose", Gone} \cup {FirstTree[x] : x \in Places}
Trees == [Places -> Files]
Jobs == [pc : {"idle", "checking", "committing", "indexing"},
         kind : {"none", "slugs", "all", "ingest", "dry"}, redact : BOOLEAN,
         scope : SUBSET Places, todo : SUBSET Places, passed : SUBSET (Places \X Files),
         failed : BOOLEAN, index : Trees \cup {NeverIndexed}, calm : BOOLEAN]

AdmissionTypes ==
  /\ tree \in Trees /\ staged \in Trees /\ head \in Trees
  /\ job \in [Engines -> Jobs]
  /\ kept \in [Slugs \cup {""} -> Files]

(* An admission that nobody disturbed: while it checks, whatever it is to  *)
(* bring in waits to be checked or has passed with its present text, and   *)
(* nothing else is staged; what it then holds to commit differs from HEAD  *)
(* by such files only.                                                     *)
Passing(j, x, v) == IsPage(x) /\ v # Gone => <<x, v>> \in j.passed

JobGated(j) ==
  /\ \A x \in Places, v \in Files : <<x, v>> \in j.passed => ~Errors(v)
  /\ j.pc = "checking" /\ j.calm /\ ~j.failed =>
       /\ \A x \in Places \ j.scope : staged[x] = head[x]
       /\ \A x \in j.scope : tree[x] # head[x] => x \in j.todo \/ Passing(j, x, tree[x])
  /\ j.pc = "committing" => j.index \in Trees
  /\ j.pc = "committing" /\ j.calm =>
       \A x \in Places : j.index[x] # head[x] => x \in j.scope /\ Passing(j, x, j.index[x])

AllGated == CommitsAreGated /\ \A p \in Engines : JobGated(job[p])

LEMMA IdleJobs ==
  /\ NoJob \in Jobs /\ NoJob.pc = "idle" /\ NoJob.passed = {} /\ JobGated(NoJob)
  /\ \A j \in Jobs : j.pc \in {"idle", "indexing"} /\ (\A x \in Places, v \in Files : <<x, v>> \in j.passed => ~Errors(v))
                     => JobGated(j)
BY DEF NoJob, Jobs, JobGated, NeverIndexed

(* What a door or an editor writes.                                        *)
Changes == UNION {[D -> Files] : D \in SUBSET Places}

LEMMA ChangesAre ==
  /\ \A new \in Changes : DOMAIN new \subseteq Places /\ \A x \in DOMAIN new : new[x] \in Files
  /\ \A x \in Places, v \in Files : [y \in {x} |-> v] \in Changes
  /\ \A D \in SUBSET Places : \A new : new \in [D -> Files] => new \in Changes
<1>1. \A D \in SUBSET Places : \A new : new \in [D -> Files] => new \in Changes
  BY DEF Changes
<1>2. ASSUME NEW x \in Places, NEW v \in Files PROVE [y \in {x} |-> v] \in Changes
  <2>1. [y \in {x} |-> v] \in [{x} -> Files]
    OBVIOUS
  <2>2. QED
    BY <1>1, <2>1
<1>3. \A new \in Changes : DOMAIN new \subseteq Places /\ \A x \in DOMAIN new : new[x] \in Files
  BY DEF Changes
<1>4. QED
  BY <1>1, <1>2, <1>3

(* Whoever is disturbed keeps what passed, and promises nothing.           *)
LEMMA DisturbedGated ==
  ASSUME AdmissionTypes, \A p \in Engines : JobGated(job[p]), settings' = settings, NEW ps, NEW p \in Engines,
         NEW j, j = Disturbed(ps)[p]
  PROVE  /\ j \in Jobs
         /\ p \in ps => JobGated(j)'
         /\ p \notin ps => j = job[p]
<1>1. job[p] \in Jobs /\ JobGated(job[p])
  BY DEF AdmissionTypes
<1>2. CASE p \notin ps
  BY <1>1, <1>2 DEF Disturbed
<1>3. CASE p \in ps
  <2>1. j = [job[p] EXCEPT !.calm = @ /\ job[p].pc = "idle"]
    BY <1>3 DEF Disturbed
  <2>2. j \in Jobs /\ j.pc = job[p].pc /\ (j.calm => j.pc = "idle") /\ j.passed = job[p].passed
        /\ j.index = job[p].index
    BY <1>1, <2>1 DEF Jobs
  <2>3. JobGated(j)'
    BY <1>1, <2>2 DEF JobGated, Errors
  <2>4. QED
    BY <1>3, <2>2, <2>3
<1>4. QED
  BY <1>2, <1>3

LEMMA GatedStays ==
  ASSUME NEW j, JobGated(j), UNCHANGED <<tree, staged, head, settings>> PROVE JobGated(j)'
BY DEF JobGated, Passing, Errors

(* The doors, the editors and git add: whoever is at work is disturbed.    *)
LEMMA ChangeGated ==
  ASSUME AdmissionTypes, AllGated, job' = Disturbed(Engines), UNCHANGED <<last, settings>>
  PROVE  job' \in [Engines -> Jobs] /\ AllGated'
<1>1. job' = [p \in Engines |-> Disturbed(Engines)[p]]
  BY DEF Disturbed
<1>2. \A p \in Engines : job'[p] \in Jobs /\ JobGated(job[p])'
  <2> TAKE p \in Engines
  <2>1. PICK j : j = Disturbed(Engines)[p]
    OBVIOUS
  <2>2. j \in Jobs /\ JobGated(j)'
    BY <2>1, DisturbedGated DEF AllGated
  <2>3. job'[p] = j
    BY <1>1, <2>1
  <2>4. QED
    BY <2>2, <2>3
<1>3. CommitsAreGated'
  BY DEF AllGated, CommitsAreGated
<1>4. QED
  BY <1>1, <1>2, <1>3 DEF AllGated

(* A process goes on with a job of its own; the others, with nothing they  *)
(* look at changed, or disturbed.                                          *)
LEMMA JobsGated ==
  ASSUME AdmissionTypes, AllGated, NEW p \in Engines, NEW j \in Jobs, JobGated(j)', settings' = settings,
         \/ job' = [job EXCEPT ![p] = j] /\ UNCHANGED <<tree, staged, head>>
         \/ job' = [Disturbed(Engines \ {p}) EXCEPT ![p] = j]
  PROVE  job' \in [Engines -> Jobs] /\ \A q \in Engines : JobGated(job[q])'
<1>1. job \in [Engines -> Jobs] /\ \A q \in Engines : JobGated(job[q])
  BY DEF AdmissionTypes, AllGated
<1>2. ASSUME job' = [job EXCEPT ![p] = j], UNCHANGED <<tree, staged, head>>, NEW q \in Engines \ {p}
      PROVE  job'[q] \in Jobs /\ JobGated(job[q])'
  <2>1. PICK k \in Jobs : k = job[q] /\ JobGated(k)
    BY <1>1
  <2>2. job'[q] = k /\ JobGated(k)'
    BY <1>1, <1>2, <2>1, GatedStays
  <2>3. QED
    BY <2>2
<1>3. ASSUME job' = [Disturbed(Engines \ {p}) EXCEPT ![p] = j], NEW q \in Engines \ {p}
      PROVE  job'[q] \in Jobs /\ JobGated(job[q])'
  <2>1. PICK k : k = Disturbed(Engines \ {p})[q]
    OBVIOUS
  <2>2. k \in Jobs /\ JobGated(k)'
    BY <1>1, <2>1, DisturbedGated
  <2>3. job'[q] = k
    BY <1>3, <2>1 DEF Disturbed
  <2>4. QED
    BY <2>2, <2>3
<1>4. DOMAIN job' = Engines /\ job'[p] = j /\ job' = [q \in Engines |-> job'[q]]
  BY <1>1 DEF Disturbed
<1>5. \A q \in Engines : job'[q] \in Jobs /\ JobGated(job[q])'
  BY <1>2, <1>3, <1>4
<1>6. QED
  BY <1>4, <1>5

LEMMA StartGated ==
  ASSUME AdmissionTypes, AllGated, NEW p \in Engines, NEW kind \in {"slugs", "all", "ingest", "dry"},
         NEW redact \in BOOLEAN, NEW scope \in SUBSET Places, NEW todo \in SUBSET Places,
         Start(p, kind, redact, scope, todo),
         kind = "all" => scope = Places,
         \A x \in scope : IsPage(x) /\ tree[x] # Gone /\ tree[x] # head[x] => x \in todo
  PROVE  job' \in [Engines -> Jobs] /\ AllGated' /\ UNCHANGED <<tree, staged, head, kept>>
<1>1. PICK j : j = [NoJob EXCEPT !.pc = "checking", !.kind = kind, !.redact = redact, !.scope = scope,
                      !.todo = {x \in todo : IsPage(x)}, !.calm = kind = "all" \/ staged = head]
  OBVIOUS
<1>2. /\ j \in Jobs /\ j.pc = "checking" /\ j.scope = scope /\ j.todo = {x \in todo : IsPage(x)}
      /\ j.passed = {} /\ (j.calm => kind = "all" \/ staged = head)
  <2>1. PICK ready : ready = {x \in todo : IsPage(x)}
    OBVIOUS
  <2>2. PICK calm \in BOOLEAN : calm = (kind = "all" \/ staged = head)
    OBVIOUS
  <2>3. ready \in SUBSET Places
    BY <2>1
  <2>4. j = [pc |-> "checking", kind |-> kind, redact |-> redact, scope |-> scope, todo |-> ready,
             passed |-> {}, failed |-> FALSE, index |-> NeverIndexed, calm |-> calm]
    BY <1>1, <2>1, <2>2 DEF NoJob
  <2>5. j \in Jobs
    BY <2>3, <2>4 DEF Jobs
  <2>6. QED
    BY <2>1, <2>2, <2>4, <2>5
<1>3. job' = [job EXCEPT ![p] = j] /\ UNCHANGED <<tree, staged, head, settings, last, kept>>
  BY <1>1 DEF Start
<1>4. JobGated(j)
  BY <1>2 DEF JobGated, Passing
<1>5. JobGated(j)'
  BY <1>3, <1>4, GatedStays
<1>6. job' \in [Engines -> Jobs] /\ \A q \in Engines : JobGated(job[q])'
  BY <1>2, <1>3, <1>5, JobsGated
<1>7. CommitsAreGated'
  BY <1>3 DEF AllGated, CommitsAreGated
<1>8. QED
  BY <1>3, <1>6, <1>7 DEF AllGated

LEMMA GateGated ==
  ASSUME AdmissionTypes, AllGated, NEW p \in Engines, Gate(p)
  PROVE  job' \in [Engines -> Jobs] /\ AllGated' /\ tree' \in Trees
<1>1. /\ job[p] \in Jobs /\ JobGated(job[p]) /\ job[p].pc = "checking" /\ job[p].todo # {}
      /\ UNCHANGED <<staged, head, settings, last>> /\ tree \in Trees
  BY DEF Gate, AdmissionTypes, AllGated
<1>2. PICK x \in Places : x = CHOOSE y \in job[p].todo : TRUE
  BY <1>1 DEF Jobs
<1>3. x \in job[p].todo
  BY <1>1, <1>2
<1>4. PICK v : v = Redacted(p, tree[x])
  OBVIOUS
<1>5. v \in Files /\ tree' = [tree EXCEPT ![x] = v] /\ tree' \in Trees
      /\ (v = tree[x] => tree' = tree)
  BY <1>1, <1>2, <1>4 DEF Gate, Redacted, Files, Trees
<1>6. PICK j : j = IF Errors(v) /\ IsIngest(p) THEN NoJob
                   ELSE [job[p] EXCEPT !.todo = @ \ {x}, !.failed = @ \/ Errors(v),
                                       !.passed = IF Errors(v) THEN @ ELSE @ \cup {<<x, v>>}]
  OBVIOUS
<1>7. \/ job' = [job EXCEPT ![p] = j] /\ UNCHANGED <<tree, staged, head>>
      \/ job' = [Disturbed(Engines \ {p}) EXCEPT ![p] = j]
  BY <1>1, <1>2, <1>4, <1>5, <1>6 DEF Gate
<1>8. CASE j = NoJob
  <2>1. j \in Jobs /\ JobGated(j)'
    BY <1>8, IdleJobs DEF JobGated
  <2>2. QED
    BY <1>1, <1>5, <1>7, <2>1, JobsGated DEF AllGated, CommitsAreGated
<1>9. CASE j # NoJob
  <2>1. j = [job[p] EXCEPT !.todo = @ \ {x}, !.failed = @ \/ Errors(v),
                            !.passed = IF Errors(v) THEN @ ELSE @ \cup {<<x, v>>}]
    BY <1>6, <1>9
  <2>0. PICK bad \in BOOLEAN : bad <=> Errors(v)
    OBVIOUS
  <2> DEFINE good == IF bad THEN job[p].passed ELSE job[p].passed \cup {<<x, v>>}
  <2>a. (job[p].failed \/ bad) \in BOOLEAN /\ good \in SUBSET (Places \X Files)
    BY <1>1, <1>2, <1>5 DEF Jobs
  <2>b. j = [job[p] EXCEPT !.todo = @ \ {x}, !.failed = @ \/ bad, !.passed = good]
    BY <2>0, <2>1
  <2>2. /\ j \in Jobs /\ j.pc = "checking" /\ j.calm = job[p].calm /\ j.scope = job[p].scope
        /\ j.todo = job[p].todo \ {x} /\ (~j.failed => ~job[p].failed /\ ~Errors(v))
        /\ j.passed = IF Errors(v) THEN job[p].passed ELSE job[p].passed \cup {<<x, v>>}
    BY <1>1, <2>0, <2>a, <2>b DEF Jobs
  <2>3. \A y \in Places, w \in Files : <<y, w>> \in j.passed => ~Errors(w)'
    BY <1>1, <2>2 DEF JobGated, Errors
  <2>4. ASSUME j.calm, ~j.failed
        PROVE  /\ \A y \in Places \ j.scope : staged'[y] = head'[y]
               /\ \A y \in j.scope : tree'[y] # head'[y] => y \in j.todo \/ Passing(j, y, tree'[y])
    <3>1. \A y \in Places \ j.scope : staged'[y] = head'[y]
      BY <1>1, <2>2, <2>4 DEF JobGated
    <3>2. \A y \in j.scope : y \in Places
      BY <2>2 DEF Jobs
    <3>3. ASSUME NEW y \in j.scope, tree'[y] # head'[y] PROVE y \in j.todo \/ Passing(j, y, tree'[y])
      <4>1. CASE y = x
        <5>1. tree'[y] = v
          BY <1>1, <1>5, <4>1 DEF Trees
        <5>2. <<y, tree'[y]>> \in j.passed
          BY <2>2, <2>4, <4>1, <5>1
        <5>3. QED
          BY <5>2 DEF Passing
      <4>2. CASE y # x
        <5>1. tree'[y] = tree[y]
          BY <1>1, <1>5, <3>2, <4>2 DEF Trees
        <5>2. y \in job[p].todo \/ Passing(job[p], y, tree[y])
          BY <1>1, <2>2, <2>4, <3>3, <5>1 DEF JobGated
        <5>3. QED
          BY <2>2, <4>2, <5>1, <5>2 DEF Passing
      <4>3. QED
        BY <4>1, <4>2
    <3>4. QED
      BY <3>1, <3>3
  <2>5. JobGated(j)'
    BY <2>2, <2>3, <2>4 DEF JobGated, Passing
  <2>6. QED
    BY <1>1, <1>5, <1>7, <2>2, <2>5, JobsGated DEF AllGated, CommitsAreGated
<1>10. QED
  BY <1>8, <1>9

LEMMA StageGated ==
  ASSUME AdmissionTypes, AllGated, NEW p \in Engines, StageFiles(p)
  PROVE  job' \in [Engines -> Jobs] /\ AllGated' /\ staged' \in Trees
<1>1. /\ job[p] \in Jobs /\ JobGated(job[p]) /\ job[p].pc = "checking" /\ job[p].todo = {} /\ ~job[p].failed
      /\ UNCHANGED <<tree, head, settings, last>> /\ tree \in Trees /\ staged \in Trees
  BY DEF StageFiles, Checked, AdmissionTypes, AllGated
<1>2. CASE job' = [job EXCEPT ![p] = NoJob] /\ UNCHANGED staged
  <2>1. NoJob \in Jobs /\ JobGated(NoJob)'
    BY IdleJobs DEF JobGated
  <2>2. QED
    BY <1>1, <1>2, <2>1, JobsGated DEF AllGated, CommitsAreGated
<1>3. CASE /\ staged' = StagedBy(p)
           /\ job' = [Disturbed(Engines \ {p}) EXCEPT
                        ![p] = [job[p] EXCEPT !.pc = "committing", !.index = StagedBy(p)]]
  <2>1. PICK new : new = StagedBy(p)
    OBVIOUS
  <2>2. new \in Trees /\ \A x \in Places : new[x] = IF x \in job[p].scope THEN tree[x] ELSE staged[x]
    BY <1>1, <2>1 DEF StagedBy, Trees
  <2>3. PICK j : j = [job[p] EXCEPT !.pc = "committing", !.index = new]
    OBVIOUS
  <2>4. /\ j \in Jobs /\ j.pc = "committing" /\ j.index = new /\ j.calm = job[p].calm
        /\ j.scope = job[p].scope /\ j.passed = job[p].passed
    BY <1>1, <2>2, <2>3 DEF Jobs
  <2>5. \A y \in Places, w \in Files : <<y, w>> \in j.passed => ~Errors(w)'
    BY <1>1, <2>4 DEF JobGated, Errors
  <2>6. j.calm => \A x \in Places : new[x] # head'[x] => x \in j.scope /\ Passing(j, x, new[x])
    BY <1>1, <2>2, <2>4 DEF JobGated, Passing
  <2>7. JobGated(j)'
    BY <2>2, <2>4, <2>5, <2>6 DEF JobGated, Passing
  <2>8. job' = [Disturbed(Engines \ {p}) EXCEPT ![p] = j]
    BY <1>3, <2>1, <2>3
  <2>9. job' \in [Engines -> Jobs] /\ \A q \in Engines : JobGated(job[q])'
    BY <1>1, <2>4, <2>7, <2>8, JobsGated
  <2>10. QED
    BY <1>1, <1>3, <2>1, <2>2, <2>9 DEF AllGated, CommitsAreGated
<1>4. QED
  BY <1>2, <1>3 DEF StageFiles

LEMMA CommitGated ==
  ASSUME AdmissionTypes, AllGated, NEW p \in Engines, MakeCommit(p)
  PROVE  job' \in [Engines -> Jobs] /\ AllGated' /\ head' \in Trees
<1>1. /\ job[p] \in Jobs /\ JobGated(job[p]) /\ job[p].pc = "committing"
      /\ UNCHANGED <<tree, staged, settings>> /\ head \in Trees
  BY DEF MakeCommit, AdmissionTypes, AllGated
<1>2. PICK j : j = [job[p] EXCEPT !.pc = "indexing"]
  OBVIOUS
<1>3. j \in Jobs /\ j.pc = "indexing" /\ j.passed = job[p].passed
  BY <1>1, <1>2 DEF Jobs
<1>4. JobGated(j)' /\ NoJob \in Jobs /\ JobGated(NoJob)'
  BY <1>1, <1>3, IdleJobs DEF JobGated, Errors
<1>5. CASE job[p].index = head
  <2>1. PICK k \in {j, NoJob} : job' = [job EXCEPT ![p] = k] /\ UNCHANGED <<head, last>>
    BY <1>1, <1>2, <1>5 DEF MakeCommit
  <2>2. QED
    BY <1>1, <1>3, <1>4, <2>1, JobsGated DEF AllGated, CommitsAreGated
<1>6. CASE job[p].index # head
  <2>1. /\ head' = job[p].index /\ job' = [Disturbed(Engines \ {p}) EXCEPT ![p] = j]
        /\ last' = [from |-> head, to |-> job[p].index, scope |-> job[p].scope,
                    passed |-> job[p].passed, calm |-> job[p].calm]
    BY <1>1, <1>2, <1>6 DEF MakeCommit
  <2>2. job' \in [Engines -> Jobs] /\ \A q \in Engines : JobGated(job[q])'
    BY <1>1, <1>3, <1>4, <2>1, JobsGated
  <2>3. job[p].index \in Trees
    BY <1>1 DEF JobGated
  <2>4. ASSUME job[p].calm, NEW x \in Places, head[x] # job[p].index[x]
        PROVE  /\ x \in job[p].scope
               /\ IsPage(x) /\ job[p].index[x] # Gone =>
                    /\ <<x, job[p].index[x]>> \in job[p].passed
                    /\ job[p].index[x] # "bad" /\ (settings.strict => job[p].index[x] # "loose")
    <3>1. x \in job[p].scope /\ Passing(job[p], x, job[p].index[x])
      BY <1>1, <2>4 DEF JobGated
    <3>2. job[p].index[x] \in Files
      BY <2>3 DEF Trees
    <3>3. <<x, job[p].index[x]>> \in job[p].passed => ~Errors(job[p].index[x])
      BY <1>1, <3>2 DEF JobGated
    <3>4. QED
      BY <3>1, <3>3 DEF Passing, Errors
  <2>5. CommitsAreGated'
    BY <1>1, <2>1, <2>4 DEF CommitsAreGated
  <2>6. QED
    BY <2>1, <2>2, <2>3, <2>5 DEF AllGated
<1>7. QED
  BY <1>5, <1>6

LEMMA EndGated ==
  ASSUME AdmissionTypes, AllGated, NEW p \in Engines,
         NothingToCommit(p) \/ Dies(p) \/ \E fails \in BOOLEAN : UpdateIndex(p, fails)
  PROVE  job' \in [Engines -> Jobs] /\ AllGated' /\ UNCHANGED <<tree, staged, head, kept>>
<1>1. job[p] \in Jobs /\ JobGated(job[p]) /\ UNCHANGED <<tree, staged, head, kept, settings, last>>
  BY DEF NothingToCommit, Dies, UpdateIndex, AdmissionTypes, AllGated
<1>2. PICK j : j = [job[p] EXCEPT !.pc = "indexing"]
  OBVIOUS
<1>3. j \in Jobs /\ j.pc = "indexing" /\ j.passed = job[p].passed
  BY <1>1, <1>2 DEF Jobs
<1>4. JobGated(j)' /\ NoJob \in Jobs /\ JobGated(NoJob)'
  BY <1>1, <1>3, IdleJobs DEF JobGated, Errors
<1>5. PICK k \in {j, NoJob} : job' = [job EXCEPT ![p] = k]
  BY <1>2 DEF NothingToCommit, Dies, UpdateIndex
<1>6. QED
  BY <1>1, <1>3, <1>4, <1>5, JobsGated DEF AllGated, CommitsAreGated

-----------------------------------------------------------------------------
(* The doors, by what they change: some files, and the text kept for the   *)
(* slugs of those files only.                                              *)
LEMMA TargetIs == ASSUME NEW s \in Slugs PROVE WriteTarget(s) \in Places /\ WriteTarget(s).slug = s
<1>1. At(s, "flat") \in Places /\ At(s, "flat").slug = s /\ At(s, "bundle").slug = s
  BY PlacesAssumption DEF At
<1>2. Homes(s) # {} => PageAt(s) \in Places
  BY DEF Homes, PageAt, Has
<1>3. QED
  BY <1>1, <1>2 DEF WriteTarget, PageAt

(* Slug s keeps its text: its files stay as they are, or nobody keeps it,  *)
(* or it is just being written.                                            *)
Spared(s) == \A form \in {"flat", "bundle"} : Has(At(s, form)) \/ Has(At(s, form))' =>
                                              tree'[At(s, form)] = tree[At(s, form)]
KeepsText(s) ==
  \/ kept'[s] = Gone
  \/ kept'[s] = kept[s] /\ Spared(s)
  \/ \E v \in Texts : /\ kept'[s] = v
                      /\ tree' = [x \in Places |-> IF x = WriteTarget(s) THEN v ELSE tree[x]]

LEMMA ChangeTouches ==
  ASSUME AdmissionTypes, NEW new \in Changes, Change(new)
  PROVE  /\ tree' \in Trees /\ job' = Disturbed(Engines) /\ UNCHANGED <<staged, head, settings, last>>
         /\ \A s \in Slugs : (\A x \in DOMAIN new : x.slug # s) => Spared(s)
<1>1. /\ tree' = [x \in Places |-> IF x \in DOMAIN new THEN new[x] ELSE tree[x]]
      /\ job' = Disturbed(Engines) /\ UNCHANGED <<staged, head, settings, last>>
  BY DEF Change
<1>2. tree \in Trees /\ \A x \in DOMAIN new : new[x] \in Files
  BY ChangesAre DEF AdmissionTypes
<1>3. tree' \in Trees
  BY <1>1, <1>2 DEF Trees
<1>4. ASSUME NEW s \in Slugs, \A x \in DOMAIN new : x.slug # s PROVE Spared(s)
  <2>1. \A form : At(s, form) \notin DOMAIN new
    BY <1>4 DEF At
  <2>2. \A x \in Places : x \notin DOMAIN new => tree'[x] = tree[x]
    BY <1>1, <1>2 DEF Trees
  <2>3. QED
    BY <2>1, <2>2 DEF Spared, Has
<1>5. QED
  BY <1>1, <1>3, <1>4

LEMMA DoorsTouch ==
  ASSUME AdmissionTypes,
         \/ \E x \in Places : Stage(x) \/ \E v \in Texts \cup {Gone} : Edit(x, v)
         \/ \E s \in Slugs :
              \/ \E v \in Texts : ContentWrite(s, v)
              \/ \E section, bundle \in BOOLEAN, v \in {"good", "loose"} : ContentNew(s, section, bundle, v)
              \/ DeletePage(s)
  PROVE  /\ tree' \in Trees /\ staged' \in Trees /\ head' = head /\ kept' \in [Slugs \cup {""} -> Files]
         /\ job' = Disturbed(Engines) /\ UNCHANGED <<settings, last>>
         /\ \A s \in Slugs : KeepsText(s)
<1> DEFINE Goal == /\ tree' \in Trees /\ staged' \in Trees /\ head' = head
                   /\ kept' \in [Slugs \cup {""} -> Files]
                   /\ job' = Disturbed(Engines) /\ UNCHANGED <<settings, last>>
                   /\ \A s \in Slugs : KeepsText(s)
<1>1. /\ tree \in Trees /\ staged \in Trees /\ kept \in [Slugs \cup {""} -> Files]
      /\ Gone \in Files /\ "good" \in Files /\ "loose" \in Files /\ Texts \subseteq Files
  BY DEF AdmissionTypes, Files
<1>2. ASSUME NEW x \in Places, Stage(x) PROVE Goal
  <2>1. staged' = [staged EXCEPT ![x] = tree[x]] /\ job' = Disturbed(Engines)
        /\ UNCHANGED <<tree, head, settings, last, kept>>
    BY <1>2 DEF Stage
  <2>2. \A s \in Slugs : KeepsText(s)
    BY <2>1 DEF KeepsText, Spared
  <2>3. QED
    BY <1>1, <2>1, <2>2 DEF Trees
<1>3. ASSUME NEW x \in Places, NEW v \in Texts \cup {Gone}, Edit(x, v) PROVE Goal
  <2>1. PICK new \in Changes : new = [y \in {x} |-> v]
    BY <1>1, ChangesAre
  <2>2. Change(new) /\ kept' = [kept EXCEPT ![x.slug] = Gone]
    BY <1>3, <2>1 DEF Edit
  <2>3. ASSUME NEW s \in Slugs PROVE KeepsText(s)
    <3>1. CASE x.slug = s
      BY <1>1, <2>2, <3>1 DEF KeepsText
    <3>2. CASE x.slug # s
      <4>1. \A y \in DOMAIN new : y.slug # s
        BY <2>1, <3>2
      <4>2. Spared(s)
        BY <2>2, <4>1, ChangeTouches
      <4>3. QED
        BY <1>1, <2>2, <3>2, <4>2 DEF KeepsText
    <3>3. QED
      BY <3>1, <3>2
  <2>4. QED
    BY <1>1, <2>2, <2>3, ChangeTouches
<1>4. ASSUME NEW s \in Slugs, NEW v \in Texts, ContentWrite(s, v) PROVE Goal
  <2>1. PICK new \in Changes : new = [y \in {WriteTarget(s)} |-> v]
    BY <1>1, TargetIs, ChangesAre
  <2>2. Change(new) /\ kept' = [kept EXCEPT ![s] = v]
    BY <1>4, <2>1 DEF ContentWrite
  <2>3. tree' = [x \in Places |-> IF x = WriteTarget(s) THEN v ELSE tree[x]]
    BY <2>1, <2>2 DEF Change
  <2>4. ASSUME NEW u \in Slugs PROVE KeepsText(u)
    <3>1. CASE u = s
      BY <1>1, <2>2, <2>3, <3>1 DEF KeepsText
    <3>2. CASE u # s
      <4>1. \A y \in DOMAIN new : y.slug # u
        BY <2>1, <3>2, TargetIs
      <4>2. Spared(u)
        BY <2>2, <4>1, ChangeTouches
      <4>3. QED
        BY <1>1, <2>2, <3>2, <4>2 DEF KeepsText
    <3>3. QED
      BY <3>1, <3>2
  <2>5. QED
    BY <1>1, <2>2, <2>4, ChangeTouches
<1>5. ASSUME NEW new \in Changes, Change(new),
             kept' = [t \in Slugs \cup {""} |-> IF \E x \in DOMAIN new : x.slug = t THEN Gone ELSE kept[t]]
      PROVE  Goal
  <2>1. ASSUME NEW s \in Slugs PROVE KeepsText(s)
    <3>1. CASE \E x \in DOMAIN new : x.slug = s
      BY <1>5, <3>1 DEF KeepsText
    <3>2. CASE \A x \in DOMAIN new : x.slug # s
      <4>1. Spared(s)
        BY <1>5, <3>2, ChangeTouches
      <4>2. QED
        BY <1>5, <3>2, <4>1 DEF KeepsText
    <3>3. QED
      BY <3>1, <3>2
  <2>2. kept' \in [Slugs \cup {""} -> Files]
    BY <1>1, <1>5
  <2>3. QED
    BY <1>1, <1>5, <2>1, <2>2, ChangeTouches
<1>6. ASSUME NEW s \in Slugs, NEW section \in BOOLEAN, NEW bundle \in BOOLEAN, NEW v \in {"good", "loose"},
             ContentNew(s, section, bundle, v)
      PROVE  Goal
  <2> DEFINE page == At(s, IF section \/ bundle THEN "bundle" ELSE "flat")
             Made(bare) == {page} \cup {At(a, "bundle") : a \in IF section THEN {} ELSE bare}
  <2>0. PICK bare \in SUBSET {a \in Ancestors[s] : ~\E x \in InDir(a) : Has(x)} :
           /\ Made(bare) \subseteq Places
           /\ Change([x \in Made(bare) |-> IF x = page THEN v ELSE "good"])
           /\ kept' = [t \in Slugs \cup {""} |-> IF \E x \in Made(bare) : x.slug = t THEN Gone ELSE kept[t]]
    BY <1>6 DEF ContentNew
  <2> HIDE DEF page
  <2>1. PICK D : /\ D = Made(bare) /\ D \subseteq Places
                 /\ Change([x \in D |-> IF x = page THEN v ELSE "good"])
                 /\ kept' = [t \in Slugs \cup {""} |-> IF \E x \in D : x.slug = t THEN Gone ELSE kept[t]]
    BY <2>0
  <2>2. PICK new : new = [x \in D |-> IF x = page THEN v ELSE "good"]
    OBVIOUS
  <2>3. new \in [D -> Files] /\ DOMAIN new = D
    BY <1>1, <2>2
  <2>4. new \in Changes
    BY <2>1, <2>3, ChangesAre
  <2>5. QED
    BY <1>5, <2>1, <2>2, <2>3, <2>4
<1>7. ASSUME NEW s \in Slugs, DeletePage(s) PROVE Goal
  <2> DEFINE doomed == IF Has(At(s, "flat")) THEN {At(s, "flat")} ELSE {x \in InDir(s) : Has(x)}
  <2>0. /\ Change([x \in doomed |-> Gone])
        /\ kept' = [t \in Slugs \cup {""} |-> IF \E x \in doomed : x.slug = t THEN Gone ELSE kept[t]]
    BY <1>7 DEF DeletePage
  <2> HIDE DEF doomed
  <2>1. PICK D : /\ D = doomed
                 /\ Change([x \in D |-> Gone])
                 /\ kept' = [t \in Slugs \cup {""} |-> IF \E x \in D : x.slug = t THEN Gone ELSE kept[t]]
    BY <2>0
  <2>2. D \in SUBSET Places
    BY <2>1 DEF doomed, Has
  <2>3. PICK new : new = [x \in D |-> Gone]
    OBVIOUS
  <2>4. new \in [D -> Files] /\ DOMAIN new = D
    BY <1>1, <2>3
  <2>5. new \in Changes
    BY <2>2, <2>4, ChangesAre
  <2>6. QED
    BY <1>5, <2>1, <2>3, <2>4, <2>5
<1>8. QED
  BY <1>2, <1>3, <1>4, <1>6, <1>7

-----------------------------------------------------------------------------
LEMMA StartsGated ==
  ASSUME AdmissionTypes, AllGated, NEW p \in Engines,
         \/ \E ss \in SUBSET Slugs : CommitSlugs(p, ss)
         \/ CommitAll(p)
         \/ \E picked \in Subtrees, dry, redact \in BOOLEAN : Ingest(p, picked, dry, redact)
  PROVE  job' \in [Engines -> Jobs] /\ AllGated' /\ UNCHANGED <<tree, staged, head, kept>>
<1> DEFINE Goal == job' \in [Engines -> Jobs] /\ AllGated' /\ UNCHANGED <<tree, staged, head, kept>>
<1>1. ASSUME NEW ss \in SUBSET Slugs, CommitSlugs(p, ss) PROVE Goal
  <2>1. PICK picked : /\ picked = UNION {SlugFiles(s) : s \in ss} /\ \A s \in ss : Homes(s) # {}
                     /\ Start(p, "slugs", FALSE, picked, picked)
    BY <1>1 DEF CommitSlugs
  <2>2. ASSUME NEW s \in ss PROVE SlugFiles(s) \subseteq Places
    BY <2>1 DEF SlugFiles, Homes, PageAt, Has
  <2>3. picked \in SUBSET Places
    BY <2>1, <2>2
  <2>4. QED
    BY <2>1, <2>3, StartGated
<1>2. ASSUME CommitAll(p) PROVE Goal
  <2>1. PICK todo : todo = {x \in InContent : Pending(x)} /\ Start(p, "all", FALSE, Places, todo)
    BY <1>2 DEF CommitAll
  <2>2. todo \in SUBSET Places
    BY <2>1 DEF InContent
  <2>3. \A x \in Places : IsPage(x) /\ tree[x] # Gone /\ tree[x] # head[x] => x \in todo
    BY <2>1 DEF InContent, IsPage, Pending
  <2>4. QED
    BY <2>1, <2>2, <2>3, StartGated
<1>3. ASSUME NEW picked \in Subtrees, NEW dry \in BOOLEAN, NEW redact \in BOOLEAN, Ingest(p, picked, dry, redact)
      PROVE  Goal
  <2> PICK todo, kind : todo = {x \in picked : Has(x) /\ ~Skipped(dry, x)}
                        /\ kind = IF dry THEN "dry" ELSE "ingest"
    OBVIOUS
  <2>1. /\ todo = {x \in picked : Has(x) /\ ~Skipped(dry, x)} /\ kind \in {"dry", "ingest"}
        /\ Start(p, kind, redact, picked, todo)
    BY <1>3 DEF Ingest
  <2>2. picked \in SUBSET Places /\ todo \in SUBSET Places
    BY <2>1, PlacesAssumption
  <2>3. \A x \in picked : IsPage(x) /\ tree[x] # Gone /\ tree[x] # head[x] => x \in todo
    BY <2>1, <2>2 DEF Has, Skipped, ChangedPages, InContent, IsPage
  <2>4. QED
    BY <2>1, <2>2, <2>3, StartGated
<1>4. QED
  BY <1>1, <1>2, <1>3

LEMMA AdmissionInit == InitAdmission => AdmissionTypes /\ AllGated /\ PagesHaveOneText
<1> SUFFICES ASSUME InitAdmission PROVE AdmissionTypes /\ AllGated /\ PagesHaveOneText
  OBVIOUS
<1>1. FirstTree \in Trees /\ Gone \in Files
  BY PlacesAssumption DEF Trees, Files
<1>2. AdmissionTypes
  BY <1>1, IdleJobs DEF InitAdmission, AdmissionTypes
<1>3. AllGated
  BY IdleJobs DEF InitAdmission, AllGated, CommitsAreGated, NoCommit
<1>4. PagesHaveOneText
  BY DEF InitAdmission, PagesHaveOneText, ListAssets, Homes, Has
<1>5. QED
  BY <1>2, <1>3, <1>4

LEMMA KeepsTextKeeps ==
  ASSUME NEW s \in Slugs, tree \in Trees, tree' \in Trees, KeepsText(s), kept[s] # Gone => ContentRead(s) = kept[s]
  PROVE  kept'[s] # Gone => ContentRead(s)' = kept'[s]
<1>1. /\ ContentRead(s) = IF Has(At(s, "flat")) THEN tree[At(s, "flat")]
                          ELSE IF Has(At(s, "bundle")) THEN tree[At(s, "bundle")] ELSE Gone
      /\ ContentRead(s)' = IF Has(At(s, "flat"))' THEN tree'[At(s, "flat")]
                           ELSE IF Has(At(s, "bundle"))' THEN tree'[At(s, "bundle")] ELSE Gone
  BY DEF ContentRead, Homes, PageAt
<1>2. CASE kept'[s] = kept[s] /\ Spared(s)
  BY <1>1, <1>2 DEF Spared, Has
<1>3. ASSUME NEW v \in Texts, kept'[s] = v, v # Gone,
             tree' = [x \in Places |-> IF x = WriteTarget(s) THEN v ELSE tree[x]]
      PROVE  ContentRead(s)' = v
  <2>1. At(s, "flat") # At(s, "bundle") /\ At(s, "flat") \in Places
    BY PlacesAssumption DEF At
  <2>2. CASE Has(At(s, "flat"))
    BY <1>1, <1>3, <2>1, <2>2 DEF WriteTarget, Homes, PageAt, Has
  <2>3. CASE ~Has(At(s, "flat")) /\ Has(At(s, "bundle"))
    BY <1>1, <1>3, <2>1, <2>3 DEF WriteTarget, Homes, PageAt, Has
  <2>4. CASE ~Has(At(s, "flat")) /\ ~Has(At(s, "bundle"))
    BY <1>1, <1>3, <2>1, <2>4 DEF WriteTarget, Homes, PageAt, Has
  <2>5. QED
    BY <2>2, <2>3, <2>4
<1>4. QED
  BY <1>2, <1>3 DEF KeepsText

LEMMA GateTouches ==
  ASSUME AdmissionTypes, NEW p \in Engines, Gate(p)
  PROVE  kept' \in [Slugs \cup {""} -> Files] /\ \A s \in Slugs : KeepsText(s)
<1>1. PICK x : x = CHOOSE y \in job[p].todo : TRUE
  OBVIOUS
<1>2. PICK v : v = Redacted(p, tree[x])
  OBVIOUS
<1>3. /\ tree' = [tree EXCEPT ![x] = v]
      /\ kept' = IF v = tree[x] THEN kept ELSE [kept EXCEPT ![x.slug] = Gone]
  BY <1>1, <1>2 DEF Gate
<1>4. tree \in Trees /\ kept \in [Slugs \cup {""} -> Files] /\ Gone \in Files
  BY DEF AdmissionTypes, Files
<1>5. ASSUME NEW s \in Slugs PROVE KeepsText(s)
  <2>1. CASE v = tree[x]
    BY <1>3, <1>4, <2>1 DEF KeepsText, Spared, Trees
  <2>2. CASE v # tree[x] /\ x.slug = s
    BY <1>3, <1>4, <2>2 DEF KeepsText
  <2>3. CASE v # tree[x] /\ x.slug # s
    <3>1. \A form : At(s, form) # x
      BY <2>3 DEF At
    <3>2. Spared(s)
      BY <1>3, <1>4, <3>1 DEF Spared, Trees, Has
    <3>3. QED
      BY <1>3, <1>4, <2>3, <3>2 DEF KeepsText
  <2>4. QED
    BY <2>1, <2>2, <2>3
<1>6. QED
  BY <1>3, <1>4, <1>5

LEMMA AdmissionStep ==
  AdmissionTypes /\ AllGated /\ PagesHaveOneText /\ [NextAdmission]_admissionVars =>
    (AdmissionTypes /\ AllGated /\ PagesHaveOneText)'
<1> SUFFICES ASSUME AdmissionTypes, AllGated, PagesHaveOneText, [NextAdmission]_admissionVars
             PROVE  AdmissionTypes' /\ AllGated' /\ PagesHaveOneText'
  OBVIOUS
<1>1. /\ tree \in Trees /\ staged \in Trees /\ head \in Trees
      /\ job \in [Engines -> Jobs] /\ kept \in [Slugs \cup {""} -> Files]
  BY DEF AdmissionTypes
<1>2. ASSUME tree' \in Trees, \A s \in Slugs : KeepsText(s) PROVE PagesHaveOneText'
  <2>1. \A s \in Slugs : kept[s] # Gone => ContentRead(s) = kept[s]
    BY DEF PagesHaveOneText
  <2>2. \A s \in Slugs : kept'[s] # Gone => ContentRead(s)' = kept'[s]
    BY <1>1, <1>2, <2>1, KeepsTextKeeps
  <2>3. QED
    BY <2>2 DEF PagesHaveOneText, ListAssets, Homes, Has
<1>3. ASSUME UNCHANGED <<tree, kept>> PROVE \A s \in Slugs : KeepsText(s)
  BY <1>3 DEF KeepsText, Spared
<1>4. CASE \/ \E x \in Places : Stage(x) \/ \E v \in Texts \cup {Gone} : Edit(x, v)
           \/ \E s \in Slugs :
                \/ \E v \in Texts : ContentWrite(s, v)
                \/ \E section, bundle \in BOOLEAN, v \in {"good", "loose"} : ContentNew(s, section, bundle, v)
                \/ DeletePage(s)
  <2>1. /\ tree' \in Trees /\ staged' \in Trees /\ head' = head /\ kept' \in [Slugs \cup {""} -> Files]
        /\ job' = Disturbed(Engines) /\ UNCHANGED <<settings, last>>
        /\ \A s \in Slugs : KeepsText(s)
    BY <1>4, DoorsTouch
  <2>2. job' \in [Engines -> Jobs] /\ AllGated'
    BY <2>1, ChangeGated
  <2>3. QED
    BY <1>1, <1>2, <2>1, <2>2 DEF AdmissionTypes
<1>5. ASSUME NEW p \in Engines,
             \/ \E ss \in SUBSET Slugs : CommitSlugs(p, ss)
             \/ CommitAll(p)
             \/ \E picked \in Subtrees, dry, redact \in BOOLEAN : Ingest(p, picked, dry, redact)
      PROVE  AdmissionTypes' /\ AllGated' /\ PagesHaveOneText'
  BY <1>1, <1>2, <1>3, <1>5, StartsGated DEF AdmissionTypes
<1>6. ASSUME NEW p \in Engines, Gate(p) PROVE AdmissionTypes' /\ AllGated' /\ PagesHaveOneText'
  <2>1. UNCHANGED <<staged, head>>
    BY <1>6 DEF Gate
  <2>2. QED
    BY <1>1, <1>2, <1>6, <2>1, GateGated, GateTouches DEF AdmissionTypes
<1>7. ASSUME NEW p \in Engines, StageFiles(p) PROVE AdmissionTypes' /\ AllGated' /\ PagesHaveOneText'
  <2>1. UNCHANGED <<tree, head, kept>>
    BY <1>7 DEF StageFiles
  <2>2. QED
    BY <1>1, <1>2, <1>3, <1>7, <2>1, StageGated DEF AdmissionTypes
<1>8. ASSUME NEW p \in Engines, MakeCommit(p) PROVE AdmissionTypes' /\ AllGated' /\ PagesHaveOneText'
  <2>1. UNCHANGED <<tree, staged, kept>>
    BY <1>8 DEF MakeCommit
  <2>2. QED
    BY <1>1, <1>2, <1>3, <1>8, <2>1, CommitGated DEF AdmissionTypes
<1>9. ASSUME NEW p \in Engines, NothingToCommit(p) \/ Dies(p) \/ \E fails \in BOOLEAN : UpdateIndex(p, fails)
      PROVE  AdmissionTypes' /\ AllGated' /\ PagesHaveOneText'
  BY <1>1, <1>2, <1>3, <1>9, EndGated DEF AdmissionTypes
<1>10. CASE UNCHANGED admissionVars
  <2>1. UNCHANGED <<tree, staged, head, settings, job, last, kept>>
    BY <1>10 DEF admissionVars
  <2>2. AllGated'
    BY <2>1 DEF AllGated, CommitsAreGated, JobGated, Passing, Errors
  <2>3. QED
    BY <1>1, <1>2, <1>3, <2>1, <2>2 DEF AdmissionTypes
<1>11. QED
  BY <1>4, <1>5, <1>6, <1>7, <1>8, <1>9, <1>10 DEF NextAdmission

(* What enters a wiki's history is what was asked for and what the gate    *)
(* passed, as it stands in the commit, unless somebody wrote, staged or    *)
(* committed meanwhile; and what content_write stored is what content_read *)
(* answers with until somebody else writes to the slug (ops/content.rs,    *)
(* ingest.rs, markdown.rs).                                                *)
THEOREM AdmissionsStayWhole == SpecAdmission => []AdmissionsAreWhole
<1>1. AdmissionTypes /\ AllGated /\ PagesHaveOneText => AdmissionsAreWhole
  BY DEF AllGated, AdmissionsAreWhole
<1>2. QED
  BY <1>1, AdmissionInit, AdmissionStep, PTL DEF SpecAdmission

-----------------------------------------------------------------------------
(* What the registry can list: a wiki with its directory, or a gap.        *)
Entries == {e \in [name : Titles, dir : Dirs] : TRUE} \cup {Gap}

(* No name is listed twice.                                                *)
NoNameTwice(g) == \A i, j \in Kept(g) : g.entries[i].name = g.entries[j].name => i = j

(* What the global file, and so a held copy of it, can be.                 *)
Registries ==
  {g \in [default : Titles \cup {NoTitle}, entries : Seq(Entries), set : [SettingKeys -> Values]] :
     NoNameTwice(g) /\ g.set["auto_rebuild"] \in {0, 1}}

(* The steps of each command.                                              *)
StagesOf(op) ==
  CASE op = "create" -> {"prepare", "register", "save", "hooks", "rebuild", "default"}
    [] op = "adopt" -> {"adopt", "register", "save"}
    [] op = "remove" -> {"remove", "erase", "save"}
    [] op = "default" -> {"default", "save"}
    [] op = "setglobal" -> {"setglobal", "save"}
    [] op = "setwiki" -> {"resolve", "loadwiki", "savewiki"}

Stages ==
  {"rest", "prepare", "register", "save", "hooks", "rebuild", "default", "adopt", "remove", "erase",
   "setglobal", "resolve", "loadwiki", "savewiki"}

(* What a process can be doing: at rest, or at a step of its command.      *)
ShellKinds ==
  {r \in [cmd : Askable \cup {NoCommand}, pc : Stages, then : {"rest", "hooks", "default"}, copy : Registries,
          own : Owns, again : BOOLEAN, told : {"none", "ok", "refused"}] :
     /\ r.pc # "rest" => r.cmd \in Askable /\ r.pc \in StagesOf(r.cmd.op)
     /\ r.cmd.op # "create" => r.then = "rest"}

SettingsTypes ==
  /\ registry \in Registries
  /\ home \in [Dirs -> HomeStates]
  /\ shell \in [Shells -> ShellKinds]
  /\ troubled \in BOOLEAN /\ pointed \in BOOLEAN /\ twice \in SUBSET Dirs
  /\ runs \in [commands : Nat, deaths : Nat]

-----------------------------------------------------------------------------
Written(r) == r.pc \in {"loadwiki", "savewiki"}

(* Until there is trouble no two commands meet, and no two change the      *)
(* same wiki.toml.                                                         *)
Apart ==
  \A s, o \in Working : s # o =>
     /\ ~Meets(shell[s].cmd, shell[o].cmd)
     /\ Written(shell[s]) /\ Written(shell[o]) => shell[s].cmd.dir # shell[o].cmd.dir

(* Catch-up on read switched on.                                           *)
Turned(g) == [g EXCEPT !.set["auto_rebuild"] = 1]

(* A held copy is the change its command makes of the file as it is now:   *)
(* a name entered, catch-up switched on, the default pointed, a name       *)
(* struck, a key set.                                                      *)
Enters(r, g) ==
  r.copy = Entered(g, r.cmd.name, r.cmd.dir) /\ r.then = IF r.cmd.op = "create" THEN "hooks" ELSE "rest"
Turns(r, g) == r.copy = Turned(g) /\ r.then = AfterProvision(r)
Points(r, g) ==
  /\ r.copy = [g EXCEPT !.default = r.cmd.name] /\ r.then = "rest" /\ IsRegistered(g, r.cmd.name)
  /\ r.cmd.op = "create" => g.set["auto_rebuild"] = 1
Strikes(r, g) ==
  /\ r.copy = Struck(g, r.cmd.name) /\ g.default # r.cmd.name /\ IsRegistered(g, r.cmd.name)
  /\ r.cmd.dir = DirOf(g, r.cmd.name)
SetsKey(r, g) ==
  /\ r.copy = SetGlobalValue(g, r.cmd)
  /\ r.cmd.key \in SettingKeys \cup {"default_wiki"} /\ Parses(r.cmd)

(* The registry lists the command's wiki where the command put it.         *)
EnteredIn(r, g) == Entry(r.cmd.name, r.cmd.dir) \in Range(g.entries)
(* A git directory has the command's hooks, or its user's own.             *)
HookedIn(r, h) == h.git => h.hooks \in {r.cmd.name, UserHook}
(* The content root is there where no flag asked for another.              *)
RootedIn(r, h) ==
  r.cmd.root = "" => h.root \in h.roots \/ (r.cmd.op = "create" /\ h.stated /\ h.root # "content")

(* What a create has done by each of its steps.                            *)
CreatesWell(r, g, h) ==
  /\ r.pc \in {"register", "save", "hooks", "rebuild", "default"} => h.there /\ h.toml /\ RootedIn(r, h)
  /\ r.pc \in {"hooks", "rebuild", "default"} => EnteredIn(r, g)
  /\ r.pc \in {"rebuild", "default"} => HookedIn(r, h)
  /\ r.pc = "default" => g.set["auto_rebuild"] = 1
  /\ r.pc = "save" =>
       Enters(r, g) \/ (EnteredIn(r, g) /\ HookedIn(r, h) /\ (Turns(r, g) \/ Points(r, g)))

(* The same for a registration, a removal and a set for one wiki.          *)
AdoptsWell(r, g, h) ==
  /\ r.pc \in {"register", "save"} => h.there /\ h.toml /\ RootedIn(r, h)
  /\ r.pc = "save" => Enters(r, g)

RemovesWell(r, g, h) ==
  /\ r.pc \in {"erase", "save"} => Strikes(r, g)
  /\ r.pc = "save" /\ r.cmd.flag => ~h.there

SetsWell(r, h) ==
  /\ r.pc = "savewiki" => r.cmd.key \in WikiKeys /\ r.own = SetWikiValue(h.own, r.cmd.key, r.cmd.value)

(* Every process has kept its command's promises so far.                   *)
WorksWell(r, g, h) ==
  r.pc # "rest" =>
  /\ r.cmd.op = "create" => CreatesWell(r, g, h)
  /\ r.cmd.op = "adopt" => AdoptsWell(r, g, h)
  /\ r.cmd.op = "remove" => RemovesWell(r, g, h)
  /\ r.cmd.op = "default" /\ r.pc = "save" => Points(r, g)
  /\ r.cmd.op = "setglobal" /\ r.pc = "save" => SetsKey(r, g)
  /\ r.cmd.op = "setwiki" => SetsWell(r, h)

(* A removal that is about to strike this name.                            *)
Striking(r, t) == r.pc = "save" /\ r.cmd.op = "remove" /\ r.cmd.name = t

(* An entry's directory is there, unless a second name stood for it or its *)
(* removal is under way.                                                   *)
Housing ==
  runs.deaths = 0 => \A i \in Kept(registry) :
    \/ home[registry.entries[i].dir].there
    \/ registry.entries[i].dir \in twice
    \/ \E s \in Shells : Striking(shell[s], registry.entries[i].name)

(* A directory that two entries name is remembered.                        *)
TwiceHoused == \A d \in Dirs : \A i, j \in Housed(registry, d) : i # j => d \in twice

SettingsGood ==
  /\ Apart
  /\ \A s \in Shells : WorksWell(shell[s], registry, home[shell[s].cmd.dir])
  /\ pointed \/ DefaultIsThere
  /\ Housing

(* The inductive invariant.                                                *)
SettingsInv == SettingsTypes /\ TwiceHoused /\ (~troubled => SettingsGood)

-----------------------------------------------------------------------------
LEMMA KeysAre ==
  /\ WikiKeys \subseteq SettingKeys /\ "auto_rebuild" \in SettingKeys /\ "auto_rebuild" \notin WikiKeys
  /\ {0, 1} \subseteq Values /\ BuiltIn = 0 /\ BuiltIn \in Values
BY DEF WikiKeys, SettingKeys, GlobalOnly, Values, BuiltIn, Unparsed

LEMMA RegistryIs ==
  ASSUME NEW g \in Registries
  PROVE  /\ g \in [default : Titles \cup {NoTitle}, entries : Seq(Entries), set : [SettingKeys -> Values]]
         /\ NoNameTwice(g) /\ g.set["auto_rebuild"] \in {0, 1}
         /\ \A i \in DOMAIN g.entries : g.entries[i] \in Entries
         /\ DOMAIN g.entries = 1..Len(g.entries)
<1>1. g \in [default : Titles \cup {NoTitle}, entries : Seq(Entries), set : [SettingKeys -> Values]]
  BY DEF Registries
<1>2. g.entries \in Seq(Entries)  BY <1>1
<1> QED  BY <1>1, <1>2 DEF Registries

(* What is not a gap has a title and a directory.                          *)
LEMMA KeptIs ==
  ASSUME NEW g \in Registries, NEW i \in DOMAIN g.entries
  PROVE  /\ i \in Kept(g) <=> g.entries[i].name # NoTitle
         /\ i \in Kept(g) => /\ g.entries[i] \in [name : Titles, dir : Dirs]
                             /\ g.entries[i].name \in Titles /\ g.entries[i].dir \in Dirs
                             /\ g.entries[i] = Entry(g.entries[i].name, g.entries[i].dir)
         /\ i \notin Kept(g) => g.entries[i] = Gap /\ g.entries[i].dir = NoTitle
<1>1. g.entries[i] \in Entries  BY RegistryIs
<1>2. Gap.name = NoTitle /\ Gap.dir = NoTitle  BY DEF Gap, Entry
<1>3. CASE g.entries[i] = Gap  BY <1>2, <1>3 DEF Kept
<1>4. CASE g.entries[i] # Gap
  <2>1. g.entries[i] \in [name : Titles, dir : Dirs]  BY <1>1, <1>4 DEF Entries
  <2>2. g.entries[i].name \in Titles /\ g.entries[i].dir \in Dirs  BY <2>1
  <2>3. g.entries[i] = Entry(g.entries[i].name, g.entries[i].dir)  BY <2>1 DEF Entry
  <2> QED  BY <2>1, <2>2, <2>3, <1>4, NamesAssumption DEF Kept
<1> QED  BY <1>3, <1>4

LEMMA PlaceIs ==
  ASSUME NEW g \in Registries, NEW t \in Titles, IsRegistered(g, t)
  PROVE  /\ Place(g, t) \in Kept(g) /\ g.entries[Place(g, t)].name = t
         /\ DirOf(g, t) \in Dirs /\ g.entries[Place(g, t)] = Entry(t, DirOf(g, t))
         /\ \A i \in DOMAIN g.entries : g.entries[i].name = t => i = Place(g, t)
<1> DEFINE p == Place(g, t)
<1>1. p \in Named(g, t)  BY DEF IsRegistered, Place
<1>2. p \in DOMAIN g.entries /\ g.entries[p].name = t  BY <1>1 DEF Named
<1>3. t # NoTitle  BY NamesAssumption
<1>4. p \in Kept(g)  BY <1>2, <1>3, KeptIs
<1>5. ASSUME NEW i \in DOMAIN g.entries, g.entries[i].name = t
      PROVE  i = p
  <2>1. i \in Kept(g)  BY <1>3, <1>5, KeptIs
  <2> QED  BY <2>1, <1>2, <1>4, <1>5, RegistryIs DEF NoNameTwice
<1>6. g.entries[p].dir \in Dirs /\ g.entries[p] = Entry(t, g.entries[p].dir)
  BY <1>2, <1>4, KeptIs
<1> QED  BY <1>2, <1>4, <1>5, <1>6 DEF DirOf

(* Registering enters one name and leaves every other one alone.           *)
LEMMA EnteredIs ==
  ASSUME NEW g \in Registries, NEW t \in Titles, NEW d \in Dirs, NEW h, h = Entered(g, t, d)
  PROVE  /\ h \in Registries /\ h.default = g.default /\ h.set = g.set
         /\ \A i \in Kept(h) : h.entries[i] = Entry(t, d) \/ (i \in Kept(g) /\ h.entries[i] = g.entries[i])
         /\ \A u \in Titles : IsRegistered(g, u) => IsRegistered(h, u)
         /\ IsRegistered(h, t)
         /\ \E i \in DOMAIN h.entries : h.entries[i] = Entry(t, d)
<1> DEFINE n == Entry(t, d)
<1>1. /\ g \in [default : Titles \cup {NoTitle}, entries : Seq(Entries), set : [SettingKeys -> Values]]
      /\ NoNameTwice(g) /\ g.set["auto_rebuild"] \in {0, 1}
      /\ DOMAIN g.entries = 1..Len(g.entries)
  BY RegistryIs
<1>2. g.entries \in Seq(Entries) /\ Len(g.entries) \in Nat  BY <1>1
<1>3. n \in Entries /\ n.name = t /\ n # Gap
  BY NamesAssumption DEF Entries, Entry, Gap
<1> HIDE DEF n
<1>4. CASE IsRegistered(g, t)
  <2>1. PICK p : p = Place(g, t)  OBVIOUS
  <2>2. p \in Kept(g) /\ g.entries[p].name = t /\ \A i \in DOMAIN g.entries : g.entries[i].name = t => i = p
    BY <2>1, <1>4, PlaceIs
  <2>3. p \in DOMAIN g.entries  BY <2>2 DEF Kept
  <2>4. PICK e : e = [g.entries EXCEPT ![p] = n]  OBVIOUS
  <2>5. /\ e \in Seq(Entries) /\ Len(e) = Len(g.entries) /\ DOMAIN e = DOMAIN g.entries
        /\ e[p] = n /\ \A i \in DOMAIN e : i # p => e[i] = g.entries[i]
    BY <2>3, <2>4, <1>2, <1>3, <1>1, ExceptSeq
  <2>6. h = [g EXCEPT !.entries = e]
    BY <1>4, <2>1, <2>4 DEF Entered, n
  <2>7. /\ h \in [default : Titles \cup {NoTitle}, entries : Seq(Entries), set : [SettingKeys -> Values]]
        /\ h.default = g.default /\ h.set = g.set /\ h.entries = e
    BY <2>6, <2>5, <1>1
  <2>8. \A i \in Kept(h) : h.entries[i] = n \/ (i \in Kept(g) /\ h.entries[i] = g.entries[i])
    BY <2>7, <2>5 DEF Kept
  <2>9. \A i \in DOMAIN e : e[i].name = g.entries[i].name
    BY <2>5, <2>2, <1>3
  <2>10. \A i \in DOMAIN e : i \in Kept(h) <=> i \in Kept(g)
    BY <2>5, <2>7, <2>2, <1>3 DEF Kept
  <2>11. NoNameTwice(h)
    BY <2>9, <2>10, <2>7, <2>5, <1>1 DEF NoNameTwice, Kept
  <2>12. \A u \in Titles : IsRegistered(g, u) => IsRegistered(h, u)
    BY <2>9, <2>7, <2>5 DEF IsRegistered, Named
  <2>13. h \in Registries  BY <2>7, <2>11, <1>1 DEF Registries
  <2>14. \E i \in DOMAIN h.entries : h.entries[i] = n  BY <2>3, <2>5, <2>7
  <2> QED  BY <2>7, <2>8, <2>12, <2>13, <2>14, <1>4 DEF n
<1>5. CASE ~IsRegistered(g, t)
  <2>1. PICK e : e = Append(g.entries, n)  OBVIOUS
  <2>2. /\ e \in Seq(Entries) /\ Len(e) = Len(g.entries) + 1 /\ DOMAIN e = 1..(Len(g.entries) + 1)
        /\ e[Len(g.entries) + 1] = n /\ \A i \in 1..Len(g.entries) : e[i] = g.entries[i]
    BY <2>1, <1>2, <1>3, AppendProperties
  <2>3. h = [g EXCEPT !.entries = e]
    BY <1>5, <2>1 DEF Entered, n
  <2>4. /\ h \in [default : Titles \cup {NoTitle}, entries : Seq(Entries), set : [SettingKeys -> Values]]
        /\ h.default = g.default /\ h.set = g.set /\ h.entries = e
    BY <2>3, <2>2, <1>1
  <2>5. \A i \in DOMAIN e : i = Len(g.entries) + 1 \/ i \in 1..Len(g.entries)
    BY <2>2, <1>2
  <2>6. \A i \in DOMAIN g.entries : i \in DOMAIN e /\ e[i] = g.entries[i]
    BY <2>2, <1>1, <1>2
  <2>7. \A i \in DOMAIN e : e[i] = n \/ (i \in DOMAIN g.entries /\ e[i] = g.entries[i])
    BY <2>5, <2>2, <1>1
  <2>8. \A i \in Kept(h) : h.entries[i] = n \/ (i \in Kept(g) /\ h.entries[i] = g.entries[i])
    BY <2>4, <2>7 DEF Kept
  <2>9. \A i \in DOMAIN g.entries : g.entries[i].name # t
    BY <1>5 DEF IsRegistered, Named
  <2>10. NoNameTwice(h)
    <3>1. SUFFICES ASSUME NEW i \in Kept(h), NEW j \in Kept(h), h.entries[i].name = h.entries[j].name
                   PROVE  i = j
      BY DEF NoNameTwice
    <3>2. i \in DOMAIN e /\ j \in DOMAIN e  BY <2>4 DEF Kept
    <3>3. CASE i \in 1..Len(g.entries) /\ j \in 1..Len(g.entries)
      <4>1. i \in Kept(g) /\ j \in Kept(g) /\ g.entries[i].name = g.entries[j].name
        BY <3>1, <3>3, <2>6, <2>4, <1>1 DEF Kept
      <4> QED  BY <4>1, <1>1 DEF NoNameTwice
    <3>4. CASE i = Len(g.entries) + 1 /\ j \in 1..Len(g.entries)
      <4>1. h.entries[i].name = t /\ h.entries[j].name = g.entries[j].name
        BY <3>4, <2>2, <2>4, <1>3
      <4> QED  BY <4>1, <3>1, <3>4, <2>9, <1>1
    <3>5. CASE j = Len(g.entries) + 1 /\ i \in 1..Len(g.entries)
      <4>1. h.entries[j].name = t /\ h.entries[i].name = g.entries[i].name
        BY <3>5, <2>2, <2>4, <1>3
      <4> QED  BY <4>1, <3>1, <3>5, <2>9, <1>1
    <3> QED  BY <3>2, <3>3, <3>4, <3>5, <2>5
  <2>11. \A u \in Titles : IsRegistered(g, u) => IsRegistered(h, u)
    BY <2>6, <2>4 DEF IsRegistered, Named
  <2>12. Len(g.entries) + 1 \in DOMAIN h.entries /\ h.entries[Len(g.entries) + 1] = n
    BY <2>2, <2>4, <1>2
  <2>13. IsRegistered(h, t)  BY <2>12, <1>3 DEF IsRegistered, Named
  <2>14. h \in Registries  BY <2>4, <2>10, <1>1 DEF Registries
  <2> QED  BY <2>4, <2>8, <2>11, <2>12, <2>13, <2>14 DEF n
<1> QED  BY <1>4, <1>5

(* Striking a name leaves every other one alone.                           *)
LEMMA StruckIs ==
  ASSUME NEW g \in Registries, NEW t \in Titles, NEW h, h = Struck(g, t)
  PROVE  /\ h \in Registries /\ h.default = g.default /\ h.set = g.set
         /\ \A i \in Kept(h) : i \in Kept(g) /\ h.entries[i] = g.entries[i] /\ h.entries[i].name # t
         /\ \A u \in Titles \ {t} : IsRegistered(g, u) => IsRegistered(h, u)
         /\ ~IsRegistered(h, t)
<1>1. /\ g \in [default : Titles \cup {NoTitle}, entries : Seq(Entries), set : [SettingKeys -> Values]]
      /\ NoNameTwice(g) /\ g.set["auto_rebuild"] \in {0, 1}
      /\ DOMAIN g.entries = 1..Len(g.entries) /\ \A i \in DOMAIN g.entries : g.entries[i] \in Entries
  BY RegistryIs
<1>2. g.entries \in Seq(Entries) /\ Len(g.entries) \in Nat  BY <1>1
<1>3. Gap \in Entries /\ Gap.name # t  BY NamesAssumption DEF Entries, Gap, Entry
<1>4. PICK e : e = [i \in DOMAIN g.entries |-> IF g.entries[i].name = t THEN Gap ELSE g.entries[i]]
  OBVIOUS
<1>5. DOMAIN e = 1..Len(g.entries) /\ \A i \in DOMAIN g.entries : e[i] = IF g.entries[i].name = t THEN Gap ELSE g.entries[i]
  BY <1>4, <1>1
<1>6. e \in [1..Len(g.entries) -> Entries]  BY <1>4, <1>1, <1>3
<1>7. e \in Seq(Entries)  BY <1>6, <1>2
<1>8. h = [g EXCEPT !.entries = e]  BY <1>4 DEF Struck
<1>9. /\ h \in [default : Titles \cup {NoTitle}, entries : Seq(Entries), set : [SettingKeys -> Values]]
      /\ h.default = g.default /\ h.set = g.set /\ h.entries = e
  BY <1>7, <1>8, <1>1
<1>10. \A i \in Kept(h) : i \in Kept(g) /\ h.entries[i] = g.entries[i] /\ h.entries[i].name # t
  BY <1>9, <1>5, <1>1 DEF Kept
<1>11. NoNameTwice(h)  BY <1>10, <1>1 DEF NoNameTwice
<1>12. \A u \in Titles \ {t} : IsRegistered(g, u) => IsRegistered(h, u)
  BY <1>9, <1>5, <1>1 DEF IsRegistered, Named
<1>13. ~IsRegistered(h, t)  BY <1>9, <1>5, <1>3, <1>1 DEF IsRegistered, Named
<1>14. h \in Registries  BY <1>9, <1>11, <1>1 DEF Registries
<1> QED  BY <1>9, <1>10, <1>12, <1>13, <1>14

(* The other changes leave the entries as they are.                        *)
LEMMA SameEntries ==
  ASSUME NEW g \in Registries, NEW h,
         h \in [default : Titles \cup {NoTitle}, entries : Seq(Entries), set : [SettingKeys -> Values]],
         h.entries = g.entries, h.set["auto_rebuild"] \in {0, 1}
  PROVE  /\ h \in Registries
         /\ Kept(h) = Kept(g) /\ \A u : IsRegistered(h, u) <=> IsRegistered(g, u)
BY RegistryIs DEF Registries, NoNameTwice, Kept, IsRegistered, Named

LEMMA TurnedIs ==
  ASSUME NEW g \in Registries, NEW h, h = Turned(g)
  PROVE  /\ h \in Registries /\ h.default = g.default /\ h.entries = g.entries
         /\ h.set["auto_rebuild"] = 1 /\ \A k \in SettingKeys : k # "auto_rebuild" => h.set[k] = g.set[k]
<1>1. g \in [default : Titles \cup {NoTitle}, entries : Seq(Entries), set : [SettingKeys -> Values]]
  BY RegistryIs
<1>2. PICK f : f = [g.set EXCEPT !["auto_rebuild"] = 1]  OBVIOUS
<1>3. /\ f \in [SettingKeys -> Values] /\ f["auto_rebuild"] = 1
      /\ \A k \in SettingKeys : k # "auto_rebuild" => f[k] = g.set[k]
  BY <1>1, <1>2, KeysAre
<1>4. h = [g EXCEPT !.set = f]  BY <1>2 DEF Turned
<1>5. /\ h \in [default : Titles \cup {NoTitle}, entries : Seq(Entries), set : [SettingKeys -> Values]]
      /\ h.default = g.default /\ h.entries = g.entries /\ h.set = f
  BY <1>1, <1>3, <1>4
<1> QED  BY <1>3, <1>5, SameEntries

LEMMA PointedIs ==
  ASSUME NEW g \in Registries, NEW t \in Titles \cup {NoTitle}, NEW h, h = [g EXCEPT !.default = t]
  PROVE  h \in Registries /\ h.default = t /\ h.entries = g.entries /\ h.set = g.set
<1>1. g \in [default : Titles \cup {NoTitle}, entries : Seq(Entries), set : [SettingKeys -> Values]]
  BY RegistryIs
<1>2. /\ h \in [default : Titles \cup {NoTitle}, entries : Seq(Entries), set : [SettingKeys -> Values]]
      /\ h.default = t /\ h.entries = g.entries /\ h.set = g.set
  BY <1>1
<1> QED  BY <1>2, SameEntries, RegistryIs

LEMMA KeySetIs ==
  ASSUME NEW g \in Registries, NEW c \in Askable, c.key \in SettingKeys, Parses(c),
         NEW h, h = SetGlobalValue(g, c)
  PROVE  /\ h \in Registries /\ h.default = g.default /\ h.entries = g.entries
         /\ h.set[c.key] = c.value /\ \A k \in SettingKeys : k # c.key => h.set[k] = g.set[k]
<1>1. g \in [default : Titles \cup {NoTitle}, entries : Seq(Entries), set : [SettingKeys -> Values]]
  BY RegistryIs
<1>2. c.key # "default_wiki"  BY DEF SettingKeys, WikiKeys, GlobalOnly
<1>3. c.value \in Values  BY DEF Askable
<1>4. PICK f : f = [g.set EXCEPT ![c.key] = c.value]  OBVIOUS
<1>5. /\ f \in [SettingKeys -> Values] /\ f[c.key] = c.value
      /\ \A k \in SettingKeys : k # c.key => f[k] = g.set[k]
  BY <1>1, <1>4, <1>3
<1>6. h = [g EXCEPT !.set = f]  BY <1>4, <1>2 DEF SetGlobalValue
<1>7. /\ h \in [default : Titles \cup {NoTitle}, entries : Seq(Entries), set : [SettingKeys -> Values]]
      /\ h.default = g.default /\ h.entries = g.entries /\ h.set = f
  BY <1>1, <1>5, <1>6
<1>8. c.key = "auto_rebuild" => c.value \in {0, 1}
  BY DEF Askable, Parses, TypedKeys
<1>9. f["auto_rebuild"] \in {0, 1}
  BY <1>8, <1>5, KeysAre, RegistryIs
<1> QED  BY <1>5, <1>7, <1>9, SameEntries

-----------------------------------------------------------------------------
(* What a process is.                                                      *)

LEMMA NothingOwned == << >> \in Owns /\ DOMAIN << >> = {}
<1>1. DOMAIN << >> = {}  OBVIOUS
<1>2. << >> = [x \in {} |-> x]  OBVIOUS
<1>3. << >> \in [{} -> Values]  BY <1>2
<1>4. {} \in SUBSET WikiKeys  OBVIOUS
<1> QED  BY <1>1, <1>3, <1>4 DEF Owns

LEMMA OwnsAre ==
  ASSUME NEW f \in Owns
  PROVE  DOMAIN f \subseteq WikiKeys /\ \A k \in DOMAIN f : f[k] \in Values
BY DEF Owns

LEMMA EmptyIs == EmptyRegistry \in Registries
<1>1. << >> \in Seq(Entries)  OBVIOUS
<1>2. [k \in SettingKeys |-> BuiltIn] \in [SettingKeys -> Values]  BY KeysAre
<1>3. EmptyRegistry \in [default : Titles \cup {NoTitle}, entries : Seq(Entries), set : [SettingKeys -> Values]]
  BY <1>1, <1>2 DEF EmptyRegistry
<1>4. NoNameTwice(EmptyRegistry)  BY DEF NoNameTwice, Kept, EmptyRegistry
<1>5. EmptyRegistry.set["auto_rebuild"] = 0  BY KeysAre DEF EmptyRegistry
<1> QED  BY <1>3, <1>4, <1>5 DEF Registries

Processes ==
  [cmd : Askable \cup {NoCommand}, pc : Stages, then : {"rest", "hooks", "default"}, copy : Registries,
   own : Owns, again : BOOLEAN, told : {"none", "ok", "refused"}]

LEMMA KindIs ==
  ASSUME NEW r
  PROVE  r \in ShellKinds <=> /\ r \in Processes
                              /\ r.pc # "rest" => r.cmd \in Askable /\ r.pc \in StagesOf(r.cmd.op)
                              /\ r.cmd.op # "create" => r.then = "rest"
BY DEF ShellKinds, Processes

LEMMA IdleProcess ==
  /\ Idle \in Processes /\ Idle.pc = "rest" /\ Idle.then = "rest" /\ Idle.cmd = NoCommand /\ Idle.copy = EmptyRegistry
<1>1. PICK e : e = << >>  OBVIOUS
<1>2. PICK g : g = EmptyRegistry  OBVIOUS
<1>3. PICK c : c = NoCommand  OBVIOUS
<1>4. Idle = [cmd |-> c, pc |-> "rest", then |-> "rest", copy |-> g, own |-> e, again |-> FALSE, told |-> "none"]
  BY <1>1, <1>2, <1>3 DEF Idle
<1>5. e \in Owns /\ g \in Registries /\ c \in Askable \cup {NoCommand}
  BY <1>1, <1>2, <1>3, NothingOwned, EmptyIs
<1> QED  BY <1>2, <1>3, <1>4, <1>5 DEF Processes, Stages

LEMMA IdleIs ==
  ASSUME NEW a \in {"none", "ok", "refused"}
  PROVE  LET n == [Idle EXCEPT !.told = a] IN
         /\ n \in ShellKinds /\ n.pc = "rest" /\ n.told = a /\ n.then = "rest" /\ n.copy = EmptyRegistry
         /\ n.cmd = NoCommand
<1> DEFINE n == [Idle EXCEPT !.told = a]
<1>1. NoCommand.op = "none"  BY DEF NoCommand
<1>2. /\ Idle \in Processes /\ Idle.pc = "rest" /\ Idle.then = "rest" /\ Idle.cmd = NoCommand
      /\ Idle.copy = EmptyRegistry
  BY IdleProcess
<1>4. n \in Processes /\ n.pc = "rest" /\ n.told = a /\ n.then = "rest" /\ n.cmd = NoCommand /\ n.copy = EmptyRegistry
  BY <1>2 DEF Processes
<1> QED  BY <1>1, <1>4, KindIs

LEMMA AskedIs ==
  ASSUME NEW c \in Askable
  PROVE  /\ c \in [op : MovesWikis \cup {"default", "setglobal", "setwiki"}, name : Titles \cup {NoTitle}, dir : Dirs,
                   key : STRING, value : Values, force : BOOLEAN, flag : BOOLEAN, root : Roots \cup {""}]
         /\ c.op \in {"create", "adopt", "remove", "default", "setglobal", "setwiki"}
         /\ c.op \notin {"setglobal", "setwiki"} => c.name \in Titles
         /\ c.dir \in Dirs /\ c.root \in Roots \cup {""}
         /\ StagesOf(c.op) \subseteq Stages
         /\ FirstPc(c.op) \in StagesOf(c.op) /\ FirstPc(c.op) # "rest"
<1>1. /\ c \in [op : MovesWikis \cup {"default", "setglobal", "setwiki"}, name : Titles \cup {NoTitle}, dir : Dirs,
                key : STRING, value : Values, force : BOOLEAN, flag : BOOLEAN, root : Roots \cup {""}]
      /\ c.name = NoTitle => c.op \in {"setglobal", "setwiki"}
  BY DEF Askable
<1>2. c.op \in {"create", "adopt", "remove", "default", "setglobal", "setwiki"}
  BY <1>1 DEF MovesWikis
<1>3. StagesOf(c.op) \subseteq Stages /\ FirstPc(c.op) \in StagesOf(c.op) /\ FirstPc(c.op) # "rest"
  <2>1. CASE c.op = "create"  BY <2>1 DEF Stages, StagesOf, FirstPc
  <2>2. CASE c.op = "adopt"  BY <2>2 DEF Stages, StagesOf, FirstPc
  <2>3. CASE c.op = "remove"  BY <2>3 DEF Stages, StagesOf, FirstPc
  <2>4. CASE c.op = "default"  BY <2>4 DEF Stages, StagesOf, FirstPc
  <2>5. CASE c.op = "setglobal"  BY <2>5 DEF Stages, StagesOf, FirstPc
  <2>6. CASE c.op = "setwiki"  BY <2>6 DEF Stages, StagesOf, FirstPc
  <2> QED  BY <1>2, <2>1, <2>2, <2>3, <2>4, <2>5, <2>6
<1> QED  BY <1>1, <1>2, <1>3

LEMMA BegunIs ==
  ASSUME NEW c \in Askable
  PROVE  LET n == [Idle EXCEPT !.cmd = c, !.pc = FirstPc(c.op)] IN
         n \in ShellKinds /\ n.cmd = c /\ n.pc = FirstPc(c.op)
<1> DEFINE n == [Idle EXCEPT !.cmd = c, !.pc = FirstPc(c.op)]
<1>1. Idle \in Processes /\ Idle.then = "rest"  BY IdleProcess
<1>2. FirstPc(c.op) \in Stages  BY AskedIs
<1>3. n \in Processes /\ n.then = "rest" /\ n.cmd = c /\ n.pc = FirstPc(c.op)
  BY <1>1, <1>2 DEF Processes
<1> QED  BY <1>3, KindIs, AskedIs

Moved(r, pc) == [r EXCEPT !.pc = pc]
Held(r, g, then) == [r EXCEPT !.copy = g, !.then = then, !.pc = "save"]

LEMMA MovedIs ==
  ASSUME NEW r \in ShellKinds, r.pc # "rest", NEW pc \in StagesOf(r.cmd.op),
         NEW n, n = Moved(r, pc)
  PROVE  n \in ShellKinds /\ n.pc = pc /\ n.cmd = r.cmd /\ n.then = r.then /\ n.copy = r.copy /\ n.again = r.again
<1>1. /\ r \in Processes /\ r.cmd \in Askable
      /\ r.cmd.op # "create" => r.then = "rest"
  BY KindIs
<1>2. pc \in Stages  BY <1>1, AskedIs
<1>3. n \in Processes /\ n.pc = pc /\ n.cmd = r.cmd /\ n.then = r.then /\ n.copy = r.copy /\ n.again = r.again
  BY <1>1, <1>2 DEF Processes, Moved
<1> QED  BY <1>1, <1>3, KindIs

LEMMA HeldIs ==
  ASSUME NEW r \in ShellKinds, r.pc # "rest", "save" \in StagesOf(r.cmd.op), NEW g \in Registries,
         NEW then \in {"rest", "hooks", "default"}, r.cmd.op # "create" => then = "rest",
         NEW n, n = Held(r, g, then)
  PROVE  n \in ShellKinds /\ n.pc = "save" /\ n.cmd = r.cmd /\ n.then = then /\ n.copy = g /\ n.again = r.again
<1>1. r \in Processes /\ r.cmd \in Askable
  BY KindIs
<1>2. PICK m : m = [r EXCEPT !.copy = g]  OBVIOUS
<1>3. m \in Processes /\ m.cmd = r.cmd /\ m.copy = g /\ m.again = r.again
  BY <1>1, <1>2 DEF Processes
<1>4. PICK l : l = [m EXCEPT !.then = then]  OBVIOUS
<1>5. l \in Processes /\ l.cmd = r.cmd /\ l.copy = g /\ l.again = r.again /\ l.then = then
  BY <1>3, <1>4 DEF Processes
<1>6. n = [l EXCEPT !.pc = "save"]  BY <1>2, <1>4 DEF Held
<1>7. n \in Processes /\ n.pc = "save" /\ n.cmd = r.cmd /\ n.then = then /\ n.copy = g /\ n.again = r.again
  BY <1>5, <1>6 DEF Processes, Stages
<1> QED  BY <1>1, <1>7, KindIs

Redirected(c, d) == [c EXCEPT !.dir = d]

LEMMA AimedAgain ==
  ASSUME NEW c \in Askable, NEW d \in Dirs, NEW n, n = Redirected(c, d)
  PROVE  /\ n \in Askable /\ n.dir = d /\ n.op = c.op /\ n.name = c.name /\ n.key = c.key
         /\ n.value = c.value /\ n.flag = c.flag /\ n.root = c.root
<1>1. /\ c \in [op : MovesWikis \cup {"default", "setglobal", "setwiki"}, name : Titles \cup {NoTitle}, dir : Dirs,
                key : STRING, value : Values, force : BOOLEAN, flag : BOOLEAN, root : Roots \cup {""}]
      /\ c.name = NoTitle => c.op \in {"setglobal", "setwiki"}
      /\ c.key = "auto_rebuild" => c.value \in {0, 1, Unparsed}
  BY DEF Askable
<1>2. /\ n \in [op : MovesWikis \cup {"default", "setglobal", "setwiki"}, name : Titles \cup {NoTitle}, dir : Dirs,
                key : STRING, value : Values, force : BOOLEAN, flag : BOOLEAN, root : Roots \cup {""}]
      /\ n.dir = d /\ n.op = c.op /\ n.name = c.name /\ n.key = c.key
      /\ n.value = c.value /\ n.flag = c.flag /\ n.root = c.root
  BY <1>1 DEF Redirected
<1> QED  BY <1>1, <1>2 DEF Askable

-----------------------------------------------------------------------------
(* What a directory holds.                                                 *)

HomeRecords ==
  [there : BOOLEAN, git : BOOLEAN, hooks : Titles \cup {NoTitle, UserHook}, roots : SUBSET Roots,
   toml : BOOLEAN, root : Roots, stated : BOOLEAN, own : Owns]

LEMMA HomeIs ==
  ASSUME NEW h
  PROVE  h \in HomeStates <=> h \in HomeRecords /\ (h.stated \/ h.root = "content")
BY DEF HomeStates, HomeRecords

LEMMA NoHomeIs == NoHome \in HomeStates /\ ~NoHome.there /\ ~NoHome.toml
<1>1. PICK e : e = << >>  OBVIOUS
<1>2. e \in Owns  BY <1>1, NothingOwned
<1>3. NoHome = [there |-> FALSE, git |-> FALSE, hooks |-> NoTitle, roots |-> {},
                toml |-> FALSE, root |-> "content", stated |-> FALSE, own |-> e]
  BY <1>1 DEF NoHome
<1> QED  BY <1>2, <1>3, HomeIs, RootsAssumption DEF HomeRecords

LEMMA ProvisionedIs == Provisioned \in Owns
<1>1. {"strictness", "draft"} \in SUBSET WikiKeys  BY DEF WikiKeys
<1>2. Provisioned \in [{"strictness", "draft"} -> Values]  BY KeysAre DEF Provisioned
<1> QED  BY <1>1, <1>2 DEF Owns

LEMMA ThereIs ==
  ASSUME NEW h \in HomeStates, NEW n, n = [h EXCEPT !.there = TRUE]
  PROVE  /\ n \in HomeStates /\ n.there /\ n.toml = h.toml /\ n.own = h.own
<1>1. h \in HomeRecords /\ (h.stated \/ h.root = "content")  BY HomeIs
<1>2. n \in HomeRecords /\ n.there  BY <1>1 DEF HomeRecords
<1>3. n.toml = h.toml /\ n.own = h.own /\ n.stated = h.stated /\ n.root = h.root
  BY <1>1 DEF HomeRecords
<1> QED  BY <1>1, <1>2, <1>3, HomeIs

LEMMA GitIs ==
  ASSUME NEW h \in HomeStates, NEW b \in BOOLEAN, NEW n, n = [h EXCEPT !.git = b]
  PROVE  /\ n \in HomeStates /\ n.there = h.there /\ n.toml = h.toml /\ n.own = h.own
         /\ n.root = h.root /\ n.roots = h.roots /\ n.stated = h.stated
BY HomeIs DEF HomeRecords

LEMMA StructureIs ==
  ASSUME NEW h \in HomeStates, NEW root \in Roots, NEW n, n = Structure(h, root)
  PROVE  /\ n \in HomeStates /\ n.there /\ n.toml /\ root \in n.roots /\ h.roots \subseteq n.roots
         /\ h.toml => n.own = h.own /\ n.root = h.root /\ n.stated = h.stated
         /\ ~h.toml => n.root = root
<1> DEFINE made == [h EXCEPT !.there = TRUE, !.roots = h.roots \cup {root}]
<1>1. h \in HomeRecords /\ (h.stated \/ h.root = "content")  BY HomeIs
<1>2. /\ made \in HomeRecords /\ made.there /\ made.roots = h.roots \cup {root} /\ made.toml = h.toml
      /\ made.own = h.own /\ made.root = h.root /\ made.stated = h.stated
  BY <1>1 DEF HomeRecords
<1> HIDE DEF made
<1>3. CASE h.toml
  <2>1. n = made  BY <1>3 DEF Structure, made
  <2> QED  BY <2>1, <1>1, <1>2, <1>3, HomeIs
<1>4. CASE ~h.toml
  <2>1. n = [made EXCEPT !.toml = TRUE, !.root = root, !.stated = root # "content", !.own = Provisioned]
    BY <1>4 DEF Structure, made
  <2>2. PICK m : m = [made EXCEPT !.toml = TRUE, !.root = root]  OBVIOUS
  <2>3. m \in HomeRecords /\ m.toml /\ m.root = root /\ m.there /\ m.roots = made.roots
    BY <2>2, <1>2 DEF HomeRecords
  <2>4. PICK st \in BOOLEAN : st <=> root # "content"  OBVIOUS
  <2>5. n = [m EXCEPT !.stated = st, !.own = Provisioned]
    <3>1. st = (root # "content")  BY <2>4
    <3> QED  BY <2>1, <2>2, <3>1
  <2>6. n \in HomeRecords /\ n.toml /\ n.root = root /\ n.there /\ n.roots = made.roots /\ n.stated = st
    BY <2>5, <2>3, ProvisionedIs DEF HomeRecords
  <2> QED  BY <2>4, <2>6, <1>2, <1>4, HomeIs
<1> QED  BY <1>3, <1>4

LEMMA HookedIs ==
  ASSUME NEW h \in HomeStates, NEW t \in Titles, NEW n, n = Hooked(h, t)
  PROVE  /\ n \in HomeStates /\ n.there = h.there /\ n.toml = h.toml /\ n.own = h.own
         /\ n.root = h.root /\ n.roots = h.roots /\ n.stated = h.stated
         /\ n.git => n.hooks \in {t, UserHook}
<1>1. h \in HomeRecords /\ (h.stated \/ h.root = "content")  BY HomeIs
<1>2. CASE h.git /\ h.hooks # UserHook
  <2>1. n = [h EXCEPT !.hooks = t]  BY <1>2 DEF Hooked
  <2> QED  BY <2>1, <1>1, HomeIs DEF HomeRecords
<1>3. CASE ~(h.git /\ h.hooks # UserHook)
  BY <1>1, <1>3, HomeIs DEF Hooked
<1> QED  BY <1>2, <1>3

LEMMA OwnSetIs ==
  ASSUME NEW own \in Owns, NEW k \in WikiKeys, NEW v \in Values, NEW n, n = SetWikiValue(own, k, v)
  PROVE  /\ n \in Owns /\ DOMAIN n = DOMAIN own \cup SectionOf(k) /\ k \in SectionOf(k) /\ n[k] = v
         /\ \A x \in DOMAIN own : x # k => n[x] = own[x]
         /\ \A x \in SectionOf(k) \ DOMAIN own : x # k => n[x] = BuiltIn
<1>1. k \in SectionOf(k) /\ SectionOf(k) \subseteq WikiKeys  BY DEF SectionOf, WikiKeys
<1>2. DOMAIN own \subseteq WikiKeys /\ \A x \in DOMAIN own : own[x] \in Values  BY OwnsAre
<1>3. PICK D : D = DOMAIN own \cup SectionOf(k)  OBVIOUS
<1>4. n = [x \in D |-> IF x = k THEN v ELSE IF x \in DOMAIN own THEN own[x] ELSE BuiltIn]
  BY <1>3 DEF SetWikiValue
<1>5. DOMAIN n = D  BY <1>4
<1>6. n \in [D -> Values]  BY <1>4, <1>2, KeysAre
<1>7. D \in SUBSET WikiKeys  BY <1>1, <1>2, <1>3
<1>8. n \in Owns  BY <1>6, <1>7 DEF Owns
<1> QED  BY <1>1, <1>3, <1>4, <1>5, <1>8

LEMMA KeySetAt ==
  ASSUME NEW own \in Owns, NEW k \in WikiKeys, NEW v \in Values
  PROVE  /\ SetWikiValue(own, k, v)[k] = v
         /\ \A x \in DOMAIN own : x # k => SetWikiValue(own, k, v)[x] = own[x]
         /\ \A x \in SectionOf(k) \ DOMAIN own : x # k => SetWikiValue(own, k, v)[x] = BuiltIn
<1>1. k \in SectionOf(k)  BY DEF SectionOf
<1>2. PICK D : D = DOMAIN own \cup SectionOf(k)  OBVIOUS
<1>3. SetWikiValue(own, k, v) = [x \in D |-> IF x = k THEN v ELSE IF x \in DOMAIN own THEN own[x] ELSE BuiltIn]
  BY <1>2 DEF SetWikiValue
<1> QED  BY <1>1, <1>2, <1>3

Saved(h, own) == [h EXCEPT !.toml = TRUE, !.stated = TRUE, !.own = own]

LEMMA SavedWikiIs ==
  ASSUME NEW h \in HomeStates, NEW own \in Owns, NEW n, n = Saved(h, own)
  PROVE  /\ n \in HomeStates /\ n.there = h.there /\ n.toml /\ n.own = own
         /\ n.root = h.root /\ n.roots = h.roots /\ n.git = h.git /\ n.hooks = h.hooks
<1>1. h \in HomeRecords  BY HomeIs
<1>2. PICK m : m = [h EXCEPT !.toml = TRUE, !.stated = TRUE]  OBVIOUS
<1>3. /\ m \in HomeRecords /\ m.there = h.there /\ m.toml /\ m.stated
      /\ m.root = h.root /\ m.roots = h.roots /\ m.git = h.git /\ m.hooks = h.hooks
  BY <1>1, <1>2 DEF HomeRecords
<1>4. n = [m EXCEPT !.own = own]  BY <1>2 DEF Saved
<1>5. n \in HomeRecords /\ n.stated /\ n.own = own /\ n.there = h.there /\ n.toml
  BY <1>3, <1>4 DEF HomeRecords
<1>6. n.root = h.root /\ n.roots = h.roots /\ n.git = h.git /\ n.hooks = h.hooks
  BY <1>3, <1>4 DEF HomeRecords
<1> QED  BY <1>5, <1>6, HomeIs

-----------------------------------------------------------------------------
(* What a step leaves alone.                                               *)

LEMMA ShellStep ==
  ASSUME SettingsTypes, NEW s \in Shells, NEW n \in ShellKinds, shell' = [shell EXCEPT ![s] = n]
  PROVE  /\ shell' \in [Shells -> ShellKinds] /\ shell'[s] = n
         /\ \A o \in Shells : o # s => shell'[o] = shell[o]
BY DEF SettingsTypes

LEMMA HomeStep ==
  ASSUME SettingsTypes, NEW d \in Dirs, NEW m \in HomeStates, home' = [home EXCEPT ![d] = m]
  PROVE  /\ home' \in [Dirs -> HomeStates] /\ home'[d] = m
         /\ \A e \in Dirs : e # d => home'[e] = home[e]
BY DEF SettingsTypes

LEMMA WorkerIs ==
  ASSUME SettingsTypes, NEW s \in Shells
  PROVE  /\ shell[s] \in ShellKinds
         /\ s \in Working <=> shell[s].pc # "rest"
         /\ s \in Working => shell[s].cmd \in Askable /\ shell[s].cmd.dir \in Dirs
                             /\ shell[s].pc \in StagesOf(shell[s].cmd.op)
<1>1. shell[s] \in ShellKinds  BY DEF SettingsTypes
<1> QED  BY <1>1, KindIs, AskedIs DEF Working

LEMMA OpsApart ==
  ASSUME NEW c \in Askable, NEW o \in Askable, ~Meets(c, o)
  PROVE  /\ c.op \notin MovesWikis /\ o.op \notin MovesWikis
         /\ c.op \in {"default", "setglobal", "setwiki"} /\ o.op \in {"default", "setglobal", "setwiki"}
         /\ c.op = "setwiki" \/ o.op = "setwiki"
<1>1. c.op \in MovesWikis \cup {"default", "setglobal", "setwiki"}
  BY AskedIs
<1>2. o.op \in MovesWikis \cup {"default", "setglobal", "setwiki"}
  BY AskedIs
<1>3. "setwiki" \notin MovesWikis  BY DEF MovesWikis
<1>4. {c.op, o.op} = {"setwiki"} \/ ("setwiki" \in {c.op, o.op} /\ {c.op, o.op} \cap MovesWikis = {})
  BY DEF Meets
<1> QED  BY <1>1, <1>2, <1>3, <1>4

LEMMA WorksElsewhere ==
  ASSUME NEW r, NEW g, NEW h, NEW g2, NEW h2, WorksWell(r, g, h),
         \/ r.pc = "rest"
         \/ r.cmd.op = "setwiki" /\ (h2 = h \/ r.pc # "savewiki")
         \/ r.cmd.op \in {"default", "setglobal"} /\ g2 = g
  PROVE  WorksWell(r, g2, h2)
<1>1. CASE r.pc = "rest"  BY <1>1 DEF WorksWell
<1>2. CASE r.cmd.op = "setwiki" /\ (h2 = h \/ r.pc # "savewiki")
  BY <1>2 DEF WorksWell, SetsWell
<1>3. CASE r.cmd.op \in {"default", "setglobal"} /\ g2 = g
  BY <1>3 DEF WorksWell
<1> QED  BY <1>1, <1>2, <1>3

(* A working process disturbs no other one.                                *)
LEMMA StepStands ==
  ASSUME SettingsTypes, SettingsGood, NEW s \in Working, NEW n \in ShellKinds,
         shell' = [shell EXCEPT ![s] = n],
         n.pc = "rest" \/ n.cmd.op = shell[s].cmd.op,
         registry' = registry \/ shell[s].cmd.op # "setwiki",
         \/ home' = home
         \/ shell[s].cmd.op \in MovesWikis
         \/ /\ shell[s].pc = "savewiki" /\ shell[s].cmd.op = "setwiki"
            /\ \A d \in Dirs : d # shell[s].cmd.dir => home'[d] = home[d],
         Written(n) => \A o \in Shells : Written(shell[o]) => o = s \/ shell[o].cmd.dir # n.cmd.dir,
         WorksWell(n, registry', home'[n.cmd.dir])
  PROVE  Apart' /\ \A o \in Shells : WorksWell(shell[o], registry, home[shell[o].cmd.dir])'
<1>1. s \in Shells /\ shell[s].pc # "rest"  BY DEF Working
<1>2. shell'[s] = n /\ \A o \in Shells : o # s => shell'[o] = shell[o]
  BY <1>1, ShellStep
<1>3. \A o \in Shells : o \in Working' => o \in Working
  BY <1>1, <1>2 DEF Working
<1>4. Working' \subseteq Shells /\ Working \subseteq Shells  BY DEF Working
<1>5. \A o \in Shells : o \in Working' => shell'[o].cmd.op = shell[o].cmd.op
  BY <1>1, <1>2 DEF Working
<1>6. \A o, p \in Working : o # p => ~Meets(shell[o].cmd, shell[p].cmd)
                             /\ (Written(shell[o]) /\ Written(shell[p]) => shell[o].cmd.dir # shell[p].cmd.dir)
  BY DEF SettingsGood, Apart
<1>7. Apart'
  <2>1. SUFFICES ASSUME NEW o \in Working', NEW p \in Working', o # p
                 PROVE  /\ ~Meets(shell'[o].cmd, shell'[p].cmd)
                        /\ Written(shell'[o]) /\ Written(shell'[p]) => shell'[o].cmd.dir # shell'[p].cmd.dir
    BY DEF Apart
  <2>2. o \in Working /\ p \in Working /\ o \in Shells /\ p \in Shells  BY <2>1, <1>3, <1>4
  <2>3. ~Meets(shell[o].cmd, shell[p].cmd)  BY <2>1, <2>2, <1>6
  <2>4. shell'[o].cmd.op = shell[o].cmd.op /\ shell'[p].cmd.op = shell[p].cmd.op
    BY <2>2, <1>5
  <2>5. ~Meets(shell'[o].cmd, shell'[p].cmd)  BY <2>3, <2>4 DEF Meets
  <2>6. ASSUME Written(shell'[o]), Written(shell'[p])
        PROVE  shell'[o].cmd.dir # shell'[p].cmd.dir
    <3>1. CASE o # s /\ p # s  BY <3>1, <2>6, <2>2, <2>1, <1>2, <1>6
    <3>2. CASE o = s
      <4>1. Written(n) /\ Written(shell[p]) /\ shell'[p] = shell[p]  BY <3>2, <2>6, <2>1, <2>2, <1>2
      <4> QED  BY <4>1, <3>2, <2>1, <2>2, <1>2
    <3>3. CASE p = s
      <4>1. Written(n) /\ Written(shell[o]) /\ shell'[o] = shell[o]  BY <3>3, <2>6, <2>1, <2>2, <1>2
      <4> QED  BY <4>1, <3>3, <2>1, <2>2, <1>2
    <3> QED  BY <3>1, <3>2, <3>3
  <2> QED  BY <2>5, <2>6
<1>8. ASSUME NEW o \in Shells
      PROVE  WorksWell(shell'[o], registry', home'[shell'[o].cmd.dir])
  <2>1. CASE o = s  BY <2>1, <1>2
  <2>2. CASE o # s /\ shell[o].pc = "rest"
    <3>1. shell'[o] = shell[o]  BY <2>2, <1>2
    <3> QED  BY <3>1, <2>2 DEF WorksWell
  <2>3. CASE o # s /\ shell[o].pc # "rest"
    <3>1. shell'[o] = shell[o] /\ o \in Working  BY <2>3, <1>2 DEF Working
    <3>2. shell[o].cmd \in Askable /\ shell[s].cmd \in Askable /\ shell[o].cmd.dir \in Dirs
      BY <3>1, <1>1, WorkerIs
    <3>3. ~Meets(shell[s].cmd, shell[o].cmd)  BY <3>1, <2>3, <1>6
    <3>4. /\ shell[s].cmd.op \notin MovesWikis /\ shell[o].cmd.op \in {"default", "setglobal", "setwiki"}
          /\ shell[s].cmd.op = "setwiki" \/ shell[o].cmd.op = "setwiki"
      BY <3>2, <3>3, OpsApart
    <3>5. WorksWell(shell[o], registry, home[shell[o].cmd.dir])  BY DEF SettingsGood
    <3>6. CASE shell[o].cmd.op = "setwiki"
      <4>1. home'[shell[o].cmd.dir] = home[shell[o].cmd.dir] \/ shell[o].pc # "savewiki"
        <5>1. CASE home' = home  BY <5>1
        <5>2. CASE /\ shell[s].pc = "savewiki" /\ shell[s].cmd.op = "setwiki"
                   /\ \A d \in Dirs : d # shell[s].cmd.dir => home'[d] = home[d]
          <6>1. Written(shell[s]) /\ (shell[o].pc = "savewiki" => Written(shell[o]))
            BY <5>2 DEF Written
          <6>2. shell[o].pc = "savewiki" => shell[o].cmd.dir # shell[s].cmd.dir
            BY <6>1, <1>6, <2>3, <3>1
          <6> QED  BY <6>2, <5>2, <3>2
        <5> QED  BY <5>1, <5>2, <3>4
      <4> QED  BY <4>1, <3>1, <3>5, <3>6, WorksElsewhere
    <3>7. CASE shell[o].cmd.op \in {"default", "setglobal"}
      <4>1. registry' = registry  BY <3>7, <3>4
      <4> QED  BY <4>1, <3>1, <3>5, <3>7, WorksElsewhere
    <3> QED  BY <3>4, <3>6, <3>7
  <2> QED  BY <2>1, <2>2, <2>3
<1> QED  BY <1>7, <1>8

LEMMA DefaultStands ==
  ASSUME registry' = registry, pointed' = pointed, pointed \/ DefaultIsThere
  PROVE  pointed' \/ DefaultIsThere'
BY DEF DefaultIsThere, IsRegistered, Named

LEMMA TwiceStands ==
  ASSUME registry' = registry, twice' = twice, TwiceHoused
  PROVE  TwiceHoused'
BY DEF TwiceHoused, Housed

LEMMA HousingStands ==
  ASSUME SettingsTypes, Housing, registry' = registry, twice' = twice, runs'.deaths = runs.deaths,
         \A d \in Dirs : home[d].there => home'[d].there,
         \A o \in Shells, t \in Titles : Striking(shell[o], t) => Striking(shell'[o], t)
  PROVE  Housing'
<1>1. SUFFICES ASSUME runs.deaths = 0, NEW i \in Kept(registry)
               PROVE  \/ home'[registry.entries[i].dir].there
                      \/ registry.entries[i].dir \in twice
                      \/ \E o \in Shells : Striking(shell'[o], registry.entries[i].name)
  BY DEF Housing, Kept
<1>2. i \in DOMAIN registry.entries /\ registry \in Registries  BY DEF Kept, SettingsTypes
<1>3. registry.entries[i].dir \in Dirs /\ registry.entries[i].name \in Titles
  BY <1>2, KeptIs
<1> QED  BY <1>1, <1>3 DEF Housing

-----------------------------------------------------------------------------
(* The steps that leave the global file alone.                             *)

LEMMA StageIs ==
  ASSUME SettingsTypes, NEW s \in Working
  PROVE  LET r == shell[s] IN
         /\ r.cmd.op \in {"create", "adopt", "remove", "default", "setglobal", "setwiki"}
         /\ r.pc \in {"prepare", "hooks", "rebuild"} => r.cmd.op = "create"
         /\ r.pc = "register" => r.cmd.op \in {"create", "adopt"}
         /\ r.pc = "default" => r.cmd.op \in {"create", "default"}
         /\ r.pc = "adopt" => r.cmd.op = "adopt"
         /\ r.pc \in {"remove", "erase"} => r.cmd.op = "remove"
         /\ r.pc = "setglobal" => r.cmd.op = "setglobal"
         /\ r.pc \in {"resolve", "loadwiki", "savewiki"} => r.cmd.op = "setwiki"
         /\ r.pc = "save" => r.cmd.op # "setwiki"
<1>1. s \in Shells  BY DEF Working
<1>2. /\ shell[s].pc \in StagesOf(shell[s].cmd.op)
      /\ shell[s].cmd.op \in {"create", "adopt", "remove", "default", "setglobal", "setwiki"}
  BY <1>1, WorkerIs, AskedIs
<1> QED  BY <1>2 DEF StagesOf

LEMMA QuietStep ==
  ASSUME SettingsInv, NEW s \in Working, NEW n \in ShellKinds, shell' = [shell EXCEPT ![s] = n],
         n.pc = "rest" \/ n.cmd.op = shell[s].cmd.op,
         registry' = registry, twice' = twice, pointed' = pointed, runs' = runs,
         troubled' \in BOOLEAN, troubled => troubled',
         home' \in [Dirs -> HomeStates],
         \/ home' = home
         \/ shell[s].cmd.op \in MovesWikis
         \/ /\ shell[s].pc = "savewiki" /\ shell[s].cmd.op = "setwiki"
            /\ \A d \in Dirs : d # shell[s].cmd.dir => home'[d] = home[d],
         ~troubled' /\ SettingsGood =>
           /\ Written(n) => \A o \in Shells : Written(shell[o]) => o = s \/ shell[o].cmd.dir # n.cmd.dir
           /\ WorksWell(n, registry, home'[n.cmd.dir])
           /\ Housing'
  PROVE  SettingsInv'
<1>1. SettingsTypes /\ TwiceHoused /\ (~troubled => SettingsGood)  BY DEF SettingsInv
<1>2. s \in Shells  BY DEF Working
<1>3. SettingsTypes'
  <2>1. shell' \in [Shells -> ShellKinds]  BY <1>1, <1>2, ShellStep
  <2>2. /\ registry' \in Registries /\ pointed' \in BOOLEAN /\ twice' \in SUBSET Dirs
        /\ runs' \in [commands : Nat, deaths : Nat]
    BY <1>1 DEF SettingsTypes
  <2> QED  BY <2>1, <2>2 DEF SettingsTypes
<1>4. TwiceHoused'  BY <1>1, TwiceStands
<1>5. ASSUME ~troubled'
      PROVE  SettingsGood'
  <2>1. SettingsGood  BY <1>1, <1>5
  <2>2. /\ Written(n) => \A o \in Shells : Written(shell[o]) => o = s \/ shell[o].cmd.dir # n.cmd.dir
        /\ WorksWell(n, registry', home'[n.cmd.dir])
        /\ Housing'
    BY <2>1, <1>5
  <2>3. Apart' /\ \A o \in Shells : WorksWell(shell[o], registry, home[shell[o].cmd.dir])'
    BY <1>1, <2>1, <2>2, StepStands
  <2>4. pointed' \/ DefaultIsThere'  BY <2>1, DefaultStands DEF SettingsGood
  <2> QED  BY <2>2, <2>3, <2>4 DEF SettingsGood
<1> QED  BY <1>3, <1>4, <1>5 DEF SettingsInv

(* Nobody's directory goes while no removal is about to be saved.          *)
LEMMA HousingStandsBy ==
  ASSUME SettingsTypes, NEW s \in Working, shell[s].pc # "save", NEW n \in ShellKinds,
         shell' = [shell EXCEPT ![s] = n], registry' = registry, twice' = twice, runs' = runs,
         \A d \in Dirs : home[d].there => home'[d].there, Housing
  PROVE  Housing'
<1>1. s \in Shells  BY DEF Working
<1>2. \A o \in Shells : o # s => shell'[o] = shell[o]  BY <1>1, ShellStep
<1>3. \A o \in Shells, t \in Titles : Striking(shell[o], t) => Striking(shell'[o], t)
  BY <1>2 DEF Striking
<1> QED  BY <1>3, HousingStands

(* A command that ends without a change.                                   *)
LEMMA ToldKeeps ==
  ASSUME SettingsInv, NEW s \in Working, shell[s].pc # "save", NEW a \in {"none", "ok", "refused"}, Tell(s, a),
         UNCHANGED <<registry, twice, pointed, runs>>, troubled' \in BOOLEAN, troubled => troubled',
         home' \in [Dirs -> HomeStates], \A d \in Dirs : home[d].there => home'[d].there,
         \/ home' = home
         \/ shell[s].cmd.op \in MovesWikis
         \/ /\ shell[s].pc = "savewiki" /\ shell[s].cmd.op = "setwiki"
            /\ \A d \in Dirs : d # shell[s].cmd.dir => home'[d] = home[d]
  PROVE  SettingsInv'
<1>1. PICK n : n = [Idle EXCEPT !.told = a]  OBVIOUS
<1>2. n \in ShellKinds /\ n.pc = "rest"  BY <1>1, IdleIs
<1>3. shell' = [shell EXCEPT ![s] = n]  BY <1>1 DEF Tell
<1>4. ~Written(n) /\ WorksWell(n, registry, home'[n.cmd.dir])
  BY <1>2 DEF Written, WorksWell
<1>5. SettingsTypes  BY DEF SettingsInv
<1>6. SettingsGood => Housing'
  BY <1>2, <1>3, <1>5, HousingStandsBy DEF SettingsGood
<1> QED  BY <1>2, <1>3, <1>4, <1>6, QuietStep

LEMMA RegisterKeeps ==
  ASSUME SettingsInv, NEW s \in Shells, Register(s)
  PROVE  SettingsInv'
<1>1. SettingsTypes  BY DEF SettingsInv
<1>2. PICK r : r = shell[s]  OBVIOUS
<1>3. /\ r.pc = "register" /\ UNCHANGED <<registry, home, settingsHistory>>
      /\ IF IsRegistered(registry, r.cmd.name) /\ (r.cmd.force => r.cmd.op = "adopt") THEN Tell(s, "refused")
         ELSE Hold(s, Entered(registry, r.cmd.name, r.cmd.dir), IF r.cmd.op = "create" THEN "hooks" ELSE "rest")
  BY <1>2 DEF Register
<1>4. s \in Working /\ r \in ShellKinds /\ r.cmd \in Askable /\ r.cmd.op \in {"create", "adopt"}
  BY <1>1, <1>2, <1>3, WorkerIs, StageIs
<1>5. UNCHANGED <<registry, home, troubled, twice, pointed, runs>>  BY <1>3 DEF settingsHistory
<1>6. home \in [Dirs -> HomeStates] /\ troubled \in BOOLEAN /\ registry \in Registries
  BY <1>1 DEF SettingsTypes
<1>7. CASE Tell(s, "refused")
  BY <1>2, <1>3, <1>4, <1>5, <1>6, <1>7, ToldKeeps
<1>8. CASE Hold(s, Entered(registry, r.cmd.name, r.cmd.dir), IF r.cmd.op = "create" THEN "hooks" ELSE "rest")
  <2>1. PICK g : g = Entered(registry, r.cmd.name, r.cmd.dir)  OBVIOUS
  <2>2. PICK then : then = IF r.cmd.op = "create" THEN "hooks" ELSE "rest"  OBVIOUS
  <2>3. PICK n : n = Held(r, g, then)  OBVIOUS
  <2>4. r.cmd.name \in Titles /\ r.cmd.dir \in Dirs  BY <1>4, AskedIs
  <2>5. g \in Registries  BY <2>1, <2>4, <1>6, EnteredIs
  <2>6. /\ "save" \in StagesOf(r.cmd.op) /\ then \in {"rest", "hooks", "default"}
        /\ r.cmd.op # "create" => then = "rest"
    BY <1>4, <2>2 DEF StagesOf
  <2>7. n \in ShellKinds /\ n.pc = "save" /\ n.cmd = r.cmd /\ n.then = then /\ n.copy = g
    BY <2>3, <2>5, <2>6, <1>3, <1>4, HeldIs
  <2>8. shell' = [shell EXCEPT ![s] = n]
    BY <1>8, <2>1, <2>2, <2>3, <1>2 DEF Hold, Held
  <2>9. ~Written(n)  BY <2>7 DEF Written
  <2>10. Enters(n, registry)  BY <2>7, <2>1, <2>2 DEF Enters
  <2>11. ASSUME SettingsGood
         PROVE  WorksWell(n, registry, home'[n.cmd.dir])
    <3>1. WorksWell(r, registry, home[r.cmd.dir])  BY <2>11, <1>2 DEF SettingsGood
    <3>2. PICK h : h = home[r.cmd.dir]  OBVIOUS
    <3>3. h.there /\ h.toml /\ RootedIn(r, h)
      BY <3>1, <3>2, <1>3, <1>4 DEF WorksWell, CreatesWell, AdoptsWell
    <3>4. RootedIn(n, h)  BY <3>3, <2>7 DEF RootedIn
    <3>5. CASE r.cmd.op = "create"
      BY <3>3, <3>4, <3>5, <3>2, <2>7, <2>10, <1>5 DEF WorksWell, CreatesWell
    <3>6. CASE r.cmd.op = "adopt"
      BY <3>3, <3>4, <3>6, <3>2, <2>7, <2>10, <1>5 DEF WorksWell, AdoptsWell
    <3> QED  BY <3>5, <3>6, <1>4
  <2>12. SettingsGood => Housing'
    BY <1>1, <1>2, <1>3, <1>4, <1>5, <2>7, <2>8, HousingStandsBy DEF SettingsGood
  <2> QED  BY <2>7, <2>8, <2>9, <2>11, <2>12, <1>2, <1>4, <1>5, <1>6, QuietStep
<1> QED  BY <1>3, <1>7, <1>8

LEMMA HooksKeep ==
  ASSUME SettingsInv, NEW s \in Shells, InstallHooks(s)
  PROVE  SettingsInv'
<1>1. SettingsTypes  BY DEF SettingsInv
<1>2. PICK r : r = shell[s]  OBVIOUS
<1>3. /\ r.pc = "hooks" /\ home' = [home EXCEPT ![r.cmd.dir] = Hooked(home[r.cmd.dir], r.cmd.name)]
      /\ Proceed(s, "rebuild") /\ UNCHANGED <<registry, troubled, twice, pointed, runs>>
  BY <1>2 DEF InstallHooks, settingsHistory
<1>4. s \in Working /\ r \in ShellKinds /\ r.cmd \in Askable /\ r.cmd.dir \in Dirs /\ r.cmd.op = "create"
  BY <1>1, <1>2, <1>3, WorkerIs, StageIs
<1>5. home \in [Dirs -> HomeStates] /\ troubled \in BOOLEAN /\ registry \in Registries
  BY <1>1 DEF SettingsTypes
<1>6. PICK h, m : h = home[r.cmd.dir] /\ m = Hooked(h, r.cmd.name)  OBVIOUS
<1>7. h \in HomeStates /\ r.cmd.name \in Titles  BY <1>4, <1>5, <1>6, AskedIs
<1>8. /\ m \in HomeStates /\ m.there = h.there /\ m.toml = h.toml /\ m.own = h.own
      /\ m.root = h.root /\ m.roots = h.roots /\ m.stated = h.stated
      /\ m.git => m.hooks \in {r.cmd.name, UserHook}
  BY <1>6, <1>7, HookedIs
<1>9. home' = [home EXCEPT ![r.cmd.dir] = m]  BY <1>3, <1>6
<1>10. /\ home' \in [Dirs -> HomeStates] /\ home'[r.cmd.dir] = m
       /\ \A e \in Dirs : e # r.cmd.dir => home'[e] = home[e]
  BY <1>1, <1>4, <1>8, <1>9, HomeStep
<1>11. \A e \in Dirs : home[e].there => home'[e].there
  BY <1>10, <1>8, <1>6
<1>12. "rebuild" \in StagesOf(r.cmd.op)  BY <1>4 DEF StagesOf
<1>13. PICK n : n = Moved(r, "rebuild")  OBVIOUS
<1>14. n \in ShellKinds /\ n.pc = "rebuild" /\ n.cmd = r.cmd
  BY <1>3, <1>4, <1>12, <1>13, MovedIs
<1>15. shell' = [shell EXCEPT ![s] = n]  BY <1>2, <1>3, <1>13 DEF Proceed, Moved
<1>16. ASSUME SettingsGood
       PROVE  WorksWell(n, registry, home'[n.cmd.dir])
  <2>1. WorksWell(r, registry, h)  BY <1>16, <1>2, <1>6 DEF SettingsGood
  <2>2. h.there /\ h.toml /\ RootedIn(r, h) /\ EnteredIn(r, registry)
    BY <2>1, <1>3, <1>4 DEF WorksWell, CreatesWell
  <2>3. RootedIn(n, m) /\ EnteredIn(n, registry) /\ HookedIn(n, m)
    BY <2>2, <1>8, <1>14 DEF RootedIn, EnteredIn, HookedIn
  <2>4. CreatesWell(n, registry, m)
    BY <2>2, <2>3, <1>8, <1>14 DEF CreatesWell
  <2> QED  BY <2>4, <1>4, <1>10, <1>14 DEF WorksWell
<1>17. ~Written(n)  BY <1>14 DEF Written
<1>18. SettingsGood => Housing'
  BY <1>1, <1>2, <1>3, <1>4, <1>11, <1>14, <1>15, HousingStandsBy DEF SettingsGood
<1>19. r.cmd.op \in MovesWikis  BY <1>4 DEF MovesWikis
<1> QED  BY <1>2, <1>3, <1>4, <1>5, <1>10, <1>14, <1>15, <1>16, <1>17, <1>18, <1>19, QuietStep

LEMMA RebuildKeeps ==
  ASSUME SettingsInv, NEW s \in Shells, TurnOnRebuild(s)
  PROVE  SettingsInv'
<1>1. SettingsTypes  BY DEF SettingsInv
<1>2. PICK r, next : r = shell[s] /\ next = AfterProvision(r)  OBVIOUS
<1>3. /\ r.pc = "rebuild" /\ UNCHANGED <<registry, home, troubled, twice, pointed, runs>>
      /\ IF registry.set["auto_rebuild"] = BuiltIn
         THEN Hold(s, Turned(registry), next)
         ELSE IF next = "rest" THEN Tell(s, "ok") ELSE Proceed(s, next)
  BY <1>2 DEF TurnOnRebuild, settingsHistory, Turned
<1>4. s \in Working /\ r \in ShellKinds /\ r.cmd \in Askable /\ r.cmd.op = "create"
  BY <1>1, <1>2, <1>3, WorkerIs, StageIs
<1>5. home \in [Dirs -> HomeStates] /\ troubled \in BOOLEAN /\ registry \in Registries
  BY <1>1 DEF SettingsTypes
<1>6. next \in {"default", "rest"}  BY <1>2 DEF AfterProvision
<1>7. {"save", "default"} \subseteq StagesOf(r.cmd.op)  BY <1>4 DEF StagesOf
<1>8. ASSUME SettingsGood
      PROVE  /\ home[r.cmd.dir].there /\ home[r.cmd.dir].toml /\ RootedIn(r, home[r.cmd.dir])
             /\ EnteredIn(r, registry) /\ HookedIn(r, home[r.cmd.dir])
  <2>1. WorksWell(r, registry, home[r.cmd.dir])  BY <1>8, <1>2 DEF SettingsGood
  <2> QED  BY <2>1, <1>3, <1>4 DEF WorksWell, CreatesWell
<1>9. CASE Tell(s, "ok")
  BY <1>2, <1>3, <1>4, <1>5, <1>9, ToldKeeps
<1>10. CASE registry.set["auto_rebuild"] # BuiltIn /\ next = "default" /\ Proceed(s, next)
  <2>1. PICK n : n = Moved(r, "default")  OBVIOUS
  <2>2. n \in ShellKinds /\ n.pc = "default" /\ n.cmd = r.cmd
    BY <1>3, <1>4, <1>7, <2>1, MovedIs
  <2>3. shell' = [shell EXCEPT ![s] = n]  BY <1>2, <1>10, <2>1 DEF Proceed, Moved
  <2>4. registry.set["auto_rebuild"] = 1  BY <1>5, <1>10, RegistryIs, KeysAre
  <2>5. ASSUME SettingsGood
        PROVE  WorksWell(n, registry, home'[n.cmd.dir])
    <3>1. PICK h : h = home[r.cmd.dir]  OBVIOUS
    <3>2. RootedIn(n, h) /\ EnteredIn(n, registry) /\ HookedIn(n, h) /\ h.there /\ h.toml
      BY <3>1, <1>8, <2>5, <2>2 DEF RootedIn, EnteredIn, HookedIn
    <3>3. CreatesWell(n, registry, h)  BY <3>2, <2>2, <2>4 DEF CreatesWell
    <3> QED  BY <3>1, <3>3, <2>2, <1>3, <1>4 DEF WorksWell
  <2>6. ~Written(n)  BY <2>2 DEF Written
  <2>7. SettingsGood => Housing'
    BY <1>1, <1>2, <1>3, <1>4, <2>2, <2>3, HousingStandsBy DEF SettingsGood
  <2> QED  BY <1>2, <1>3, <1>4, <1>5, <2>2, <2>3, <2>5, <2>6, <2>7, QuietStep
<1>11. CASE Hold(s, Turned(registry), next)
  <2>1. PICK g : g = Turned(registry)  OBVIOUS
  <2>2. PICK n : n = Held(r, g, next)  OBVIOUS
  <2>3. g \in Registries  BY <2>1, <1>5, TurnedIs
  <2>4. n \in ShellKinds /\ n.pc = "save" /\ n.cmd = r.cmd /\ n.then = next /\ n.copy = g /\ n.again = r.again
    BY <2>2, <2>3, <1>3, <1>4, <1>6, <1>7, HeldIs
  <2>5. shell' = [shell EXCEPT ![s] = n]  BY <1>2, <1>11, <2>1, <2>2 DEF Hold, Held
  <2>6. ASSUME SettingsGood
        PROVE  WorksWell(n, registry, home'[n.cmd.dir])
    <3>1. PICK h : h = home[r.cmd.dir]  OBVIOUS
    <3>2. RootedIn(n, h) /\ EnteredIn(n, registry) /\ HookedIn(n, h) /\ h.there /\ h.toml
      BY <3>1, <1>8, <2>6, <2>4 DEF RootedIn, EnteredIn, HookedIn
    <3>3. AfterProvision(n) = AfterProvision(r)  BY <2>4 DEF AfterProvision
    <3>4. Turns(n, registry)  BY <3>3, <2>1, <2>4, <1>2 DEF Turns
    <3>5. CreatesWell(n, registry, h)  BY <3>2, <3>4, <2>4 DEF CreatesWell
    <3> QED  BY <3>1, <3>5, <2>4, <1>3, <1>4 DEF WorksWell
  <2>7. ~Written(n)  BY <2>4 DEF Written
  <2>8. SettingsGood => Housing'
    BY <1>1, <1>2, <1>3, <1>4, <2>4, <2>5, HousingStandsBy DEF SettingsGood
  <2> QED  BY <1>2, <1>3, <1>4, <1>5, <2>4, <2>5, <2>6, <2>7, <2>8, QuietStep
<1> QED  BY <1>3, <1>6, <1>9, <1>10, <1>11

LEMMA DefaultKeeps ==
  ASSUME SettingsInv, NEW s \in Shells, SetDefaultWiki(s)
  PROVE  SettingsInv'
<1>1. SettingsTypes  BY DEF SettingsInv
<1>2. PICK r : r = shell[s]  OBVIOUS
<1>3. /\ r.pc = "default" /\ UNCHANGED <<registry, home, troubled, twice, pointed, runs>>
      /\ IF IsRegistered(registry, r.cmd.name) THEN Hold(s, [registry EXCEPT !.default = r.cmd.name], "rest")
         ELSE Tell(s, "refused")
  BY <1>2 DEF SetDefaultWiki, settingsHistory
<1>4. s \in Working /\ r \in ShellKinds /\ r.cmd \in Askable /\ r.cmd.op \in {"create", "default"}
  BY <1>1, <1>2, <1>3, WorkerIs, StageIs
<1>5. home \in [Dirs -> HomeStates] /\ troubled \in BOOLEAN /\ registry \in Registries
  BY <1>1 DEF SettingsTypes
<1>6. CASE Tell(s, "refused")
  BY <1>2, <1>3, <1>4, <1>5, <1>6, ToldKeeps
<1>7. CASE IsRegistered(registry, r.cmd.name) /\ Hold(s, [registry EXCEPT !.default = r.cmd.name], "rest")
  <2>1. PICK g : g = [registry EXCEPT !.default = r.cmd.name]  OBVIOUS
  <2>2. PICK n : n = Held(r, g, "rest")  OBVIOUS
  <2>3. g \in Registries  BY <2>1, <1>4, <1>5, AskedIs, PointedIs
  <2>4. "save" \in StagesOf(r.cmd.op)  BY <1>4 DEF StagesOf
  <2>5. n \in ShellKinds /\ n.pc = "save" /\ n.cmd = r.cmd /\ n.then = "rest" /\ n.copy = g /\ n.again = r.again
    BY <2>2, <2>3, <2>4, <1>3, <1>4, HeldIs
  <2>6. shell' = [shell EXCEPT ![s] = n]  BY <1>2, <1>7, <2>1, <2>2 DEF Hold, Held
  <2>7. ASSUME SettingsGood
        PROVE  WorksWell(n, registry, home'[n.cmd.dir])
    <3>1. PICK h : h = home[r.cmd.dir]  OBVIOUS
    <3>2. WorksWell(r, registry, h)  BY <2>7, <3>1, <1>2 DEF SettingsGood
    <3>3. CASE r.cmd.op = "create"
      <4>1. /\ h.there /\ h.toml /\ RootedIn(r, h) /\ EnteredIn(r, registry) /\ HookedIn(r, h)
            /\ registry.set["auto_rebuild"] = 1
        BY <3>2, <3>3, <1>3 DEF WorksWell, CreatesWell
      <4>2. RootedIn(n, h) /\ EnteredIn(n, registry) /\ HookedIn(n, h)
        BY <4>1, <2>5 DEF RootedIn, EnteredIn, HookedIn
      <4>3. Points(n, registry)  BY <4>1, <2>1, <2>5, <1>7 DEF Points
      <4>4. CreatesWell(n, registry, h)  BY <4>1, <4>2, <4>3, <2>5 DEF CreatesWell
      <4> QED  BY <4>4, <3>1, <3>3, <2>5, <1>3 DEF WorksWell
    <3>4. CASE r.cmd.op = "default"
      <4>1. Points(n, registry)  BY <3>4, <2>1, <2>5, <1>7 DEF Points
      <4> QED  BY <4>1, <3>4, <2>5 DEF WorksWell
    <3> QED  BY <3>3, <3>4, <1>4
  <2>8. ~Written(n)  BY <2>5 DEF Written
  <2>9. SettingsGood => Housing'
    BY <1>1, <1>2, <1>3, <1>4, <2>5, <2>6, HousingStandsBy DEF SettingsGood
  <2> QED  BY <1>2, <1>3, <1>4, <1>5, <2>5, <2>6, <2>7, <2>8, <2>9, QuietStep
<1> QED  BY <1>3, <1>6, <1>7

Prepared(r, pc, again) == [r EXCEPT !.pc = pc, !.again = again]

LEMMA PreparedIs ==
  ASSUME NEW r \in ShellKinds, r.pc # "rest", NEW pc \in StagesOf(r.cmd.op), NEW again \in BOOLEAN,
         NEW n, n = Prepared(r, pc, again)
  PROVE  n \in ShellKinds /\ n.pc = pc /\ n.cmd = r.cmd /\ n.then = r.then /\ n.copy = r.copy
<1>1. /\ r \in Processes /\ r.cmd \in Askable
      /\ r.cmd.op # "create" => r.then = "rest"
  BY KindIs
<1>2. pc \in Stages  BY <1>1, AskedIs
<1>3. PICK m : m = [r EXCEPT !.pc = pc]  OBVIOUS
<1>4. m \in Processes /\ m.pc = pc /\ m.cmd = r.cmd /\ m.then = r.then /\ m.copy = r.copy
  BY <1>1, <1>2, <1>3 DEF Processes
<1>5. n = [m EXCEPT !.again = again]  BY <1>3 DEF Prepared
<1>6. n \in Processes /\ n.pc = pc /\ n.cmd = r.cmd /\ n.then = r.then /\ n.copy = r.copy
  BY <1>4, <1>5 DEF Processes
<1> QED  BY <1>1, <1>6, KindIs

LEMMA PreparesHome ==
  ASSUME NEW s \in Shells, Prepare(s), NEW r, r = shell[s],
         NEW rerun \in BOOLEAN, rerun = Rerun(registry, r.cmd)
  PROVE  /\ r.pc = "prepare" /\ UNCHANGED <<registry, troubled, twice, pointed, runs>>
         /\ \/ /\ home' = [home EXCEPT ![r.cmd.dir] =
                            IF rerun THEN Structure(home[r.cmd.dir], RootAsked(r.cmd))
                            ELSE [Structure(home[r.cmd.dir], RootAsked(r.cmd)) EXCEPT !.git = TRUE]]
               /\ shell' = [shell EXCEPT ![s].pc = IF rerun THEN "hooks" ELSE "register", ![s].again = rerun]
            \/ home' = [home EXCEPT ![r.cmd.dir].there = TRUE] /\ Tell(s, "refused")
BY DEF Prepare, settingsHistory

LEMMA PrepareKeeps ==
  ASSUME SettingsInv, NEW s \in Shells, Prepare(s)
  PROVE  SettingsInv'
<1>1. SettingsTypes  BY DEF SettingsInv
<1>2. PICK r, at : r = shell[s] /\ at = Housed(registry, r.cmd.dir)  OBVIOUS
<1>3. PICK rerun \in BOOLEAN : rerun = Rerun(registry, r.cmd)  BY DEF Rerun
<1>4. rerun <=> \E i \in at : registry.entries[i].name = r.cmd.name /\ \A j \in at : i <= j
  BY <1>2, <1>3 DEF Rerun
<1>5. /\ r.pc = "prepare" /\ UNCHANGED <<registry, troubled, twice, pointed, runs>>
      /\ \/ /\ home' = [home EXCEPT ![r.cmd.dir] =
                         IF rerun THEN Structure(home[r.cmd.dir], RootAsked(r.cmd))
                         ELSE [Structure(home[r.cmd.dir], RootAsked(r.cmd)) EXCEPT !.git = TRUE]]
            /\ shell' = [shell EXCEPT ![s].pc = IF rerun THEN "hooks" ELSE "register", ![s].again = rerun]
         \/ home' = [home EXCEPT ![r.cmd.dir].there = TRUE] /\ Tell(s, "refused")
  BY <1>2, <1>3, PreparesHome
<1>6. s \in Working /\ r \in ShellKinds /\ r.cmd \in Askable /\ r.cmd.dir \in Dirs /\ r.cmd.op = "create"
  BY <1>1, <1>2, <1>5, WorkerIs, StageIs
<1>7. home \in [Dirs -> HomeStates] /\ troubled \in BOOLEAN /\ registry \in Registries
  BY <1>1 DEF SettingsTypes
<1>8. PICK h : h = home[r.cmd.dir]  OBVIOUS
<1>9. h \in HomeStates  BY <1>6, <1>7, <1>8
<1>10. r.cmd.op \in MovesWikis  BY <1>6 DEF MovesWikis
<1>11. CASE home' = [home EXCEPT ![r.cmd.dir].there = TRUE] /\ Tell(s, "refused")
  <2>1. PICK m : m = [h EXCEPT !.there = TRUE]  OBVIOUS
  <2>2. m \in HomeStates /\ m.there  BY <2>1, <1>9, ThereIs
  <2>3. home' = [home EXCEPT ![r.cmd.dir] = m]  BY <1>11, <2>1, <1>8
  <2>4. /\ home' \in [Dirs -> HomeStates] /\ home'[r.cmd.dir] = m
        /\ \A e \in Dirs : e # r.cmd.dir => home'[e] = home[e]
    BY <1>1, <1>6, <2>2, <2>3, HomeStep
  <2>5. \A e \in Dirs : home[e].there => home'[e].there  BY <2>4, <2>2
  <2> QED  BY <1>2, <1>5, <1>6, <1>7, <1>10, <1>11, <2>4, <2>5, ToldKeeps
<1>12. CASE /\ home' = [home EXCEPT ![r.cmd.dir] =
                           IF rerun THEN Structure(home[r.cmd.dir], RootAsked(r.cmd))
                           ELSE [Structure(home[r.cmd.dir], RootAsked(r.cmd)) EXCEPT !.git = TRUE]]
            /\ shell' = [shell EXCEPT ![s].pc = IF rerun THEN "hooks" ELSE "register", ![s].again = rerun]
  <2>1. PICK root, l : root = RootAsked(r.cmd) /\ l = Structure(h, root)  OBVIOUS
  <2>2. root \in Roots /\ (r.cmd.root = "" => root = "content")
    BY <2>1, <1>6, AskedIs, RootsAssumption DEF RootAsked
  <2>3. /\ l \in HomeStates /\ l.there /\ l.toml /\ root \in l.roots
        /\ h.toml => l.own = h.own /\ l.root = h.root /\ l.stated = h.stated
    <3>1. l = Structure(h, root) /\ root \in Roots  BY <2>1, <2>2
    <3> QED  BY ONLY <3>1, <1>9, StructureIs
  <2>4. PICK g : g = [l EXCEPT !.git = TRUE]  OBVIOUS
  <2>5. PICK m : m = IF rerun THEN l ELSE g  OBVIOUS
  <2>6. /\ m \in HomeStates /\ m.there /\ m.toml /\ m.root = l.root /\ m.roots = l.roots /\ m.stated = l.stated
    <3>1. /\ g \in HomeStates /\ g.there = l.there /\ g.toml = l.toml
          /\ g.root = l.root /\ g.roots = l.roots /\ g.stated = l.stated
      BY <2>3, <2>4, GitIs
    <3> QED  BY <3>1, <2>3, <2>5
  <2>7. home' = [home EXCEPT ![r.cmd.dir] = m]  BY <1>12, <2>1, <2>4, <2>5, <1>8
  <2>8. /\ home' \in [Dirs -> HomeStates] /\ home'[r.cmd.dir] = m
        /\ \A e \in Dirs : e # r.cmd.dir => home'[e] = home[e]
    BY <1>1, <1>6, <2>6, <2>7, HomeStep
  <2>9. \A e \in Dirs : home[e].there => home'[e].there  BY <2>8, <2>6
  <2>10. PICK pc : pc = IF rerun THEN "hooks" ELSE "register"  OBVIOUS
  <2>11. pc \in StagesOf(r.cmd.op)  BY <2>10, <1>6 DEF StagesOf
  <2>12. PICK n : n = Prepared(r, pc, rerun)  OBVIOUS
  <2>13. n \in ShellKinds /\ n.pc = pc /\ n.cmd = r.cmd
    BY <2>11, <2>12, <1>5, <1>6, PreparedIs
  <2>14. shell' = [shell EXCEPT ![s] = n]  BY <1>12, <1>2, <2>10, <2>12 DEF Prepared
  <2>15. RootedIn(n, m)
    <3>1. r.cmd.root = "" => m.root \in m.roots \/ (m.stated /\ m.root # "content")
      BY <2>2, <2>3, <2>6, HomeIs
    <3> QED  BY <3>1, <2>13, <1>6 DEF RootedIn
  <2>16. rerun => EnteredIn(n, registry)
    <3>1. SUFFICES ASSUME rerun  PROVE EnteredIn(n, registry)  OBVIOUS
    <3>2. PICK i \in at : registry.entries[i].name = r.cmd.name  BY <3>1, <1>4
    <3>3. i \in DOMAIN registry.entries /\ registry.entries[i].dir = r.cmd.dir
      BY <3>2, <1>2 DEF Housed
    <3>4. r.cmd.name # NoTitle
      <4>1. r.cmd.name \in Titles  BY <1>6, AskedIs
      <4> QED  BY <4>1, NamesAssumption
    <3>5. registry.entries[i] = Entry(r.cmd.name, r.cmd.dir)
      BY <3>2, <3>3, <3>4, <1>7, KeptIs
    <3> QED  BY <3>3, <3>5, <2>13 DEF EnteredIn, Range
  <2>17. WorksWell(n, registry, home'[n.cmd.dir])
    <3>1. CreatesWell(n, registry, m)
      BY <2>6, <2>10, <2>13, <2>15, <2>16 DEF CreatesWell
    <3> QED  BY <3>1, <2>8, <2>13, <1>6 DEF WorksWell
  <2>18. ~Written(n)  BY <2>10, <2>13 DEF Written
  <2>19. SettingsGood => Housing'
    BY <1>1, <1>2, <1>5, <1>6, <2>9, <2>13, <2>14, HousingStandsBy DEF SettingsGood
  <2> QED  BY <1>2, <1>5, <1>6, <1>7, <1>10, <2>8, <2>13, <2>14, <2>17, <2>18, <2>19, QuietStep
<1> QED  BY <1>5, <1>11, <1>12

LEMMA AdoptKeeps ==
  ASSUME SettingsInv, NEW s \in Shells, Adopt(s)
  PROVE  SettingsInv'
<1>1. SettingsTypes  BY DEF SettingsInv
<1>2. PICK r, h : r = shell[s] /\ h = home[r.cmd.dir]  OBVIOUS
<1>3. PICK root : root = IF r.cmd.root # "" THEN r.cmd.root ELSE IF h.stated THEN h.root ELSE "content"
  OBVIOUS
<1>4. /\ r.pc = "adopt" /\ UNCHANGED <<registry, troubled, twice, pointed, runs>>
      /\ \/ home' = home /\ Tell(s, "refused")
         \/ /\ RootAdmitted(h, root) /\ home' = [home EXCEPT ![r.cmd.dir] = Structure(h, root)]
            /\ Proceed(s, "register") \/ Tell(s, "ok")
  BY <1>2, <1>3 DEF Adopt, settingsHistory
<1>5. s \in Working /\ r \in ShellKinds /\ r.cmd \in Askable /\ r.cmd.dir \in Dirs /\ r.cmd.op = "adopt"
  BY <1>1, <1>2, <1>4, WorkerIs, StageIs
<1>6. home \in [Dirs -> HomeStates] /\ troubled \in BOOLEAN /\ registry \in Registries
  BY <1>1 DEF SettingsTypes
<1>7. h \in HomeStates  BY <1>2, <1>5, <1>6
<1>8. r.cmd.op \in MovesWikis  BY <1>5 DEF MovesWikis
<1>9. CASE home' = home /\ Tell(s, "refused")
  BY <1>2, <1>4, <1>5, <1>6, <1>9, ToldKeeps
<1>10. CASE /\ RootAdmitted(h, root) /\ home' = [home EXCEPT ![r.cmd.dir] = Structure(h, root)]
            /\ Proceed(s, "register") \/ Tell(s, "ok")
  <2>1. root \in h.roots  BY <1>10 DEF RootAdmitted
  <2>2. root \in Roots  BY <2>1, <1>7, HomeIs DEF HomeRecords
  <2>3. PICK m : m = Structure(h, root)  OBVIOUS
  <2>4. /\ m \in HomeStates /\ m.there /\ m.toml /\ h.roots \subseteq m.roots
        /\ h.toml => m.root = h.root
        /\ ~h.toml => m.root = root
    BY <2>2, <2>3, <1>7, StructureIs
  <2>5. home' = [home EXCEPT ![r.cmd.dir] = m]  BY <1>10, <2>3
  <2>6. /\ home' \in [Dirs -> HomeStates] /\ home'[r.cmd.dir] = m
        /\ \A e \in Dirs : e # r.cmd.dir => home'[e] = home[e]
    BY <1>1, <1>5, <2>4, <2>5, HomeStep
  <2>7. \A e \in Dirs : home[e].there => home'[e].there  BY <2>6, <2>4
  <2>8. CASE Tell(s, "ok")
    BY <1>2, <1>4, <1>5, <1>6, <1>8, <2>6, <2>7, <2>8, ToldKeeps
  <2>9. CASE Proceed(s, "register")
    <3>1. "register" \in StagesOf(r.cmd.op)  BY <1>5 DEF StagesOf
    <3>2. PICK n : n = Moved(r, "register")  OBVIOUS
    <3>3. n \in ShellKinds /\ n.pc = "register" /\ n.cmd = r.cmd
      BY <3>1, <3>2, <1>4, <1>5, MovedIs
    <3>4. shell' = [shell EXCEPT ![s] = n]  BY <1>2, <2>9, <3>2 DEF Proceed, Moved
    <3>5. RootedIn(n, m)
      <4>1. SUFFICES ASSUME r.cmd.root = ""  PROVE m.root \in m.roots
        BY <3>3 DEF RootedIn
      <4>2. root = IF h.stated THEN h.root ELSE "content"  BY <4>1, <1>3
      <4>3. root = h.root  BY <4>2, <1>7, HomeIs
      <4> QED  BY <4>3, <2>1, <2>4
    <3>6. AdoptsWell(n, registry, m)  BY <3>3, <3>5, <2>4 DEF AdoptsWell
    <3>7. WorksWell(n, registry, home'[n.cmd.dir])
      BY <3>6, <2>6, <3>3, <1>5 DEF WorksWell
    <3>8. ~Written(n)  BY <3>3 DEF Written
    <3>9. SettingsGood => Housing'
      BY <1>1, <1>2, <1>4, <1>5, <2>7, <3>3, <3>4, HousingStandsBy DEF SettingsGood
    <3> QED  BY <1>2, <1>4, <1>5, <1>6, <1>8, <2>6, <3>3, <3>4, <3>7, <3>8, <3>9, QuietStep
  <2> QED  BY <1>10, <2>8, <2>9
<1> QED  BY <1>4, <1>9, <1>10

LEMMA SetGlobalKeeps ==
  ASSUME SettingsInv, NEW s \in Shells, SetGlobal(s)
  PROVE  SettingsInv'
<1>1. SettingsTypes  BY DEF SettingsInv
<1>2. PICK r : r = shell[s]  OBVIOUS
<1>3. /\ r.pc = "setglobal" /\ UNCHANGED <<registry, home, troubled, twice, pointed, runs>>
      /\ IF r.cmd.key \in SettingKeys \cup {"default_wiki"} /\ Parses(r.cmd)
         THEN Hold(s, SetGlobalValue(registry, r.cmd), "rest")
         ELSE Tell(s, "refused")
  BY <1>2 DEF SetGlobal, settingsHistory
<1>4. s \in Working /\ r \in ShellKinds /\ r.cmd \in Askable /\ r.cmd.op = "setglobal"
  BY <1>1, <1>2, <1>3, WorkerIs, StageIs
<1>5. home \in [Dirs -> HomeStates] /\ troubled \in BOOLEAN /\ registry \in Registries
  BY <1>1 DEF SettingsTypes
<1>6. CASE Tell(s, "refused")
  BY <1>2, <1>3, <1>4, <1>5, <1>6, ToldKeeps
<1>7. CASE /\ r.cmd.key \in SettingKeys \cup {"default_wiki"} /\ Parses(r.cmd)
           /\ Hold(s, SetGlobalValue(registry, r.cmd), "rest")
  <2>1. PICK g : g = SetGlobalValue(registry, r.cmd)  OBVIOUS
  <2>2. PICK n : n = Held(r, g, "rest")  OBVIOUS
  <2>3. g \in Registries
    <3>1. CASE r.cmd.key = "default_wiki"
      <4>1. g = [registry EXCEPT !.default = r.cmd.name]  BY <2>1, <3>1 DEF SetGlobalValue
      <4>2. r.cmd.name \in Titles \cup {NoTitle}  BY <1>4, AskedIs
      <4> QED  BY <4>1, <4>2, <1>5, PointedIs
    <3>2. CASE r.cmd.key \in SettingKeys
      BY <2>1, <3>2, <1>4, <1>5, <1>7, KeySetIs
    <3> QED  BY <3>1, <3>2, <1>7
  <2>4. "save" \in StagesOf(r.cmd.op)  BY <1>4 DEF StagesOf
  <2>5. n \in ShellKinds /\ n.pc = "save" /\ n.cmd = r.cmd /\ n.then = "rest" /\ n.copy = g /\ n.again = r.again
    BY <2>2, <2>3, <2>4, <1>3, <1>4, HeldIs
  <2>6. shell' = [shell EXCEPT ![s] = n]  BY <1>2, <1>7, <2>1, <2>2 DEF Hold, Held
  <2>7. SetsKey(n, registry)  BY <2>5, <2>1, <1>7 DEF SetsKey
  <2>8. WorksWell(n, registry, home'[n.cmd.dir])
    BY <2>7, <2>5, <1>4 DEF WorksWell
  <2>9. ~Written(n)  BY <2>5 DEF Written
  <2>10. SettingsGood => Housing'
    BY <1>1, <1>2, <1>3, <1>4, <2>5, <2>6, HousingStandsBy DEF SettingsGood
  <2> QED  BY <1>2, <1>3, <1>4, <1>5, <2>5, <2>6, <2>8, <2>9, <2>10, QuietStep
<1> QED  BY <1>3, <1>6, <1>7

Removing(r, g, pc, d) == [r EXCEPT !.copy = g, !.pc = pc, !.cmd = Redirected(r.cmd, d)]

LEMMA RemovingIs ==
  ASSUME NEW r \in ShellKinds, r.pc # "rest", NEW pc \in StagesOf(r.cmd.op), NEW g \in Registries, NEW d \in Dirs,
         NEW n, n = Removing(r, g, pc, d)
  PROVE  n \in ShellKinds /\ n.pc = pc /\ n.cmd = Redirected(r.cmd, d) /\ n.then = r.then /\ n.copy = g
<1>1. /\ r \in Processes /\ r.cmd \in Askable
      /\ r.cmd.op # "create" => r.then = "rest"
  BY KindIs
<1>2. pc \in Stages  BY <1>1, AskedIs
<1>3. PICK c : c = Redirected(r.cmd, d)  OBVIOUS
<1>4. c \in Askable /\ c.op = r.cmd.op  BY <1>1, <1>3, AimedAgain
<1>5. PICK m : m = [r EXCEPT !.copy = g]  OBVIOUS
<1>6. m \in Processes /\ m.then = r.then /\ m.copy = g  BY <1>1, <1>5 DEF Processes
<1>7. PICK l : l = [m EXCEPT !.pc = pc]  OBVIOUS
<1>8. l \in Processes /\ l.then = r.then /\ l.copy = g /\ l.pc = pc  BY <1>2, <1>6, <1>7 DEF Processes
<1>9. n = [l EXCEPT !.cmd = c]  BY <1>3, <1>5, <1>7 DEF Removing
<1>10. n \in Processes /\ n.then = r.then /\ n.copy = g /\ n.pc = pc /\ n.cmd = c
  BY <1>4, <1>8, <1>9 DEF Processes
<1> QED  BY <1>1, <1>3, <1>4, <1>10, KindIs

LEMMA UnregisterKeeps ==
  ASSUME SettingsInv, NEW s \in Shells, Unregister(s)
  PROVE  SettingsInv'
<1>1. SettingsTypes  BY DEF SettingsInv
<1>2. PICK r : r = shell[s]  OBVIOUS
<1>3. PICK pc : pc = IF r.cmd.flag THEN "erase" ELSE "save"  OBVIOUS
<1>4. PICK g, d : g = Struck(registry, r.cmd.name) /\ d = DirOf(registry, r.cmd.name)  OBVIOUS
<1>5. /\ r.pc = "remove" /\ UNCHANGED <<registry, home, troubled, twice, pointed, runs>>
      /\ IF registry.default = r.cmd.name \/ ~IsRegistered(registry, r.cmd.name) THEN Tell(s, "refused")
         ELSE shell' = [shell EXCEPT ![s].copy = g, ![s].pc = pc, ![s].cmd.dir = d]
  BY <1>2, <1>3, <1>4 DEF Unregister, settingsHistory
<1>6. s \in Working /\ r \in ShellKinds /\ r.cmd \in Askable /\ r.cmd.op = "remove" /\ r.cmd.name \in Titles
  BY <1>1, <1>2, <1>5, WorkerIs, StageIs, AskedIs
<1>7. home \in [Dirs -> HomeStates] /\ troubled \in BOOLEAN /\ registry \in Registries
  BY <1>1 DEF SettingsTypes
<1>8. CASE Tell(s, "refused")
  BY <1>2, <1>5, <1>6, <1>7, <1>8, ToldKeeps
<1>9. CASE /\ registry.default # r.cmd.name /\ IsRegistered(registry, r.cmd.name)
           /\ shell' = [shell EXCEPT ![s].copy = g, ![s].pc = pc, ![s].cmd.dir = d]
  <2>1. g \in Registries  BY <1>4, <1>6, <1>7, StruckIs
  <2>2. d \in Dirs  BY <1>4, <1>6, <1>7, <1>9, PlaceIs
  <2>3. pc \in StagesOf(r.cmd.op)  BY <1>3, <1>6 DEF StagesOf
  <2>4. PICK c, n : c = Redirected(r.cmd, d) /\ n = Removing(r, g, pc, d)  OBVIOUS
  <2>5. n \in ShellKinds /\ n.pc = pc /\ n.cmd = c /\ n.then = r.then /\ n.copy = g
    BY <2>1, <2>2, <2>3, <2>4, <1>5, <1>6, RemovingIs
  <2>6. c \in Askable /\ c.dir = d /\ c.op = "remove" /\ c.name = r.cmd.name /\ c.flag = r.cmd.flag
    BY <2>2, <2>4, <1>6, AimedAgain
  <2>7. shell' = [shell EXCEPT ![s] = n]
    BY <1>9, <1>2, <2>4 DEF Removing, Redirected
  <2>8. Strikes(n, registry)  BY <2>5, <2>6, <1>4, <1>9 DEF Strikes
  <2>9. n.pc = "save" => ~n.cmd.flag  BY <2>5, <2>6, <1>3
  <2>10. WorksWell(n, registry, home'[n.cmd.dir])
    <3>1. RemovesWell(n, registry, home'[n.cmd.dir])  BY <2>8, <2>9 DEF RemovesWell
    <3> QED  BY <3>1, <2>5, <2>6 DEF WorksWell
  <2>11. ~Written(n)  BY <2>5, <1>3 DEF Written
  <2>12. SettingsGood => Housing'
    BY <1>1, <1>2, <1>5, <1>6, <2>5, <2>7, HousingStandsBy DEF SettingsGood
  <2> QED  BY <1>2, <1>5, <1>6, <1>7, <2>5, <2>6, <2>7, <2>10, <2>11, <2>12, QuietStep
<1> QED  BY <1>5, <1>8, <1>9

LEMMA EraseKeeps ==
  ASSUME SettingsInv, NEW s \in Shells, Erase(s)
  PROVE  SettingsInv'
<1>1. SettingsTypes /\ TwiceHoused  BY DEF SettingsInv
<1>2. PICK r : r = shell[s]  OBVIOUS
<1>3. /\ r.pc = "erase" /\ home' = [home EXCEPT ![r.cmd.dir] = NoHome]
      /\ Proceed(s, "save") /\ UNCHANGED <<registry, troubled, twice, pointed, runs>>
  BY <1>2 DEF Erase, settingsHistory
<1>4. s \in Working /\ r \in ShellKinds /\ r.cmd \in Askable /\ r.cmd.dir \in Dirs /\ r.cmd.op = "remove"
      /\ r.cmd.name \in Titles
  BY <1>1, <1>2, <1>3, WorkerIs, StageIs, AskedIs
<1>5. home \in [Dirs -> HomeStates] /\ troubled \in BOOLEAN /\ registry \in Registries
  BY <1>1 DEF SettingsTypes
<1>6. /\ home' \in [Dirs -> HomeStates] /\ home'[r.cmd.dir] = NoHome
      /\ \A e \in Dirs : e # r.cmd.dir => home'[e] = home[e]
  BY <1>1, <1>3, <1>4, NoHomeIs, HomeStep
<1>7. "save" \in StagesOf(r.cmd.op)  BY <1>4 DEF StagesOf
<1>8. PICK n : n = Moved(r, "save")  OBVIOUS
<1>9. n \in ShellKinds /\ n.pc = "save" /\ n.cmd = r.cmd /\ n.then = r.then /\ n.copy = r.copy
  BY <1>3, <1>4, <1>7, <1>8, MovedIs
<1>10. shell' = [shell EXCEPT ![s] = n]  BY <1>2, <1>3, <1>8 DEF Proceed, Moved
<1>11. ASSUME SettingsGood
       PROVE  Strikes(r, registry)
  <2>1. WorksWell(r, registry, home[r.cmd.dir])  BY <1>11, <1>2 DEF SettingsGood
  <2> QED  BY <2>1, <1>3, <1>4 DEF WorksWell, RemovesWell
<1>12. ASSUME SettingsGood
       PROVE  WorksWell(n, registry, home'[n.cmd.dir])
  <2>1. Strikes(n, registry)  BY <1>11, <1>12, <1>9 DEF Strikes
  <2>2. RemovesWell(n, registry, NoHome)  BY <2>1, NoHomeIs DEF RemovesWell
  <2> QED  BY <2>2, <1>6, <1>9, <1>4, <1>3 DEF WorksWell
<1>13. ~Written(n)  BY <1>9 DEF Written
<1>14. ASSUME SettingsGood
       PROVE  Housing'
  <2>1. SUFFICES ASSUME runs.deaths = 0, NEW i \in Kept(registry)
                 PROVE  \/ home'[registry.entries[i].dir].there
                        \/ registry.entries[i].dir \in twice
                        \/ \E o \in Shells : Striking(shell'[o], registry.entries[i].name)
    BY <1>3 DEF Housing, Kept
  <2>2. i \in DOMAIN registry.entries /\ registry.entries[i].dir \in Dirs /\ registry.entries[i].name \in Titles
    BY <1>5, KeptIs DEF Kept
  <2>3. shell'[s] = n /\ \A o \in Shells : o # s => shell'[o] = shell[o]
    BY <1>1, <1>9, <1>10, ShellStep
  <2>4. CASE registry.entries[i].dir # r.cmd.dir
    <3>1. \/ home[registry.entries[i].dir].there
          \/ registry.entries[i].dir \in twice
          \/ \E o \in Shells : Striking(shell[o], registry.entries[i].name)
      BY <1>14, <2>1 DEF SettingsGood, Housing
    <3>2. \A o \in Shells : Striking(shell[o], registry.entries[i].name) => Striking(shell'[o], registry.entries[i].name)
      BY <2>3, <1>2, <1>3 DEF Striking
    <3> QED  BY <3>1, <3>2, <2>2, <2>4, <1>6
  <2>5. CASE registry.entries[i].dir = r.cmd.dir
    <3>1. PICK p : p = Place(registry, r.cmd.name)  OBVIOUS
    <3>2. IsRegistered(registry, r.cmd.name) /\ r.cmd.dir = DirOf(registry, r.cmd.name)
      BY <1>11, <1>14 DEF Strikes
    <3>3. p \in Kept(registry) /\ registry.entries[p].name = r.cmd.name /\ registry.entries[p].dir = r.cmd.dir
      BY <3>1, <3>2, <1>4, <1>5, PlaceIs DEF DirOf
    <3>4. CASE p = i
      BY <3>3, <3>4, <2>3, <1>4, <1>9 DEF Striking
    <3>5. CASE p # i
      <4>1. p \in Housed(registry, r.cmd.dir) /\ i \in Housed(registry, r.cmd.dir)
        BY <3>3, <2>2, <2>5 DEF Housed, Kept
      <4> QED  BY <4>1, <3>5, <2>5, <1>1, <1>4 DEF TwiceHoused
    <3> QED  BY <3>4, <3>5
  <2> QED  BY <2>4, <2>5
<1>15. r.cmd.op \in MovesWikis  BY <1>4 DEF MovesWikis
<1> QED  BY <1>2, <1>3, <1>4, <1>5, <1>6, <1>9, <1>10, <1>12, <1>13, <1>14, <1>15, QuietStep

Sent(r, d) == [r EXCEPT !.cmd = Redirected(r.cmd, d), !.pc = "loadwiki"]
Loaded(r, own) == [r EXCEPT !.own = own, !.pc = "savewiki"]

LEMMA SentIs ==
  ASSUME NEW r \in ShellKinds, r.pc # "rest", r.cmd.op = "setwiki", NEW d \in Dirs, NEW n, n = Sent(r, d)
  PROVE  n \in ShellKinds /\ n.pc = "loadwiki" /\ n.cmd = Redirected(r.cmd, d)
<1>1. r \in Processes /\ r.cmd \in Askable /\ r.then = "rest"
  BY KindIs
<1>2. PICK c : c = Redirected(r.cmd, d)  OBVIOUS
<1>3. c \in Askable /\ c.op = "setwiki"  BY <1>1, <1>2, AimedAgain
<1>4. PICK m : m = [r EXCEPT !.cmd = c]  OBVIOUS
<1>5. m \in Processes /\ m.then = "rest" /\ m.cmd = c  BY <1>1, <1>3, <1>4 DEF Processes
<1>6. n = [m EXCEPT !.pc = "loadwiki"]  BY <1>2, <1>4 DEF Sent
<1>7. n \in Processes /\ n.then = "rest" /\ n.cmd = c /\ n.pc = "loadwiki"
  BY <1>5, <1>6 DEF Processes, Stages
<1> QED  BY <1>2, <1>3, <1>7, KindIs DEF StagesOf

LEMMA LoadedIs ==
  ASSUME NEW r \in ShellKinds, r.pc # "rest", r.cmd.op = "setwiki", NEW own \in Owns, NEW n, n = Loaded(r, own)
  PROVE  n \in ShellKinds /\ n.pc = "savewiki" /\ n.cmd = r.cmd /\ n.own = own
<1>1. r \in Processes /\ r.cmd \in Askable /\ r.then = "rest"
  BY KindIs
<1>2. PICK m : m = [r EXCEPT !.own = own]  OBVIOUS
<1>3. m \in Processes /\ m.then = "rest" /\ m.cmd = r.cmd /\ m.own = own  BY <1>1, <1>2 DEF Processes
<1>4. n = [m EXCEPT !.pc = "savewiki"]  BY <1>2 DEF Loaded
<1>5. n \in Processes /\ n.then = "rest" /\ n.cmd = r.cmd /\ n.own = own /\ n.pc = "savewiki"
  BY <1>3, <1>4 DEF Processes, Stages
<1> QED  BY <1>1, <1>5, KindIs DEF StagesOf

LEMMA ResolveKeeps ==
  ASSUME SettingsInv, NEW s \in Shells, Resolve(s)
  PROVE  SettingsInv'
<1>1. SettingsTypes  BY DEF SettingsInv
<1>2. PICK r : r = shell[s]  OBVIOUS
<1>3. /\ r.pc = "resolve" /\ UNCHANGED <<registry, home, twice, pointed, runs>>
      /\ \/ Tell(s, "refused") /\ troubled' = troubled
         \/ \E d \in Aimed(r.cmd) : /\ shell' = [shell EXCEPT ![s].cmd.dir = d, ![s].pc = "loadwiki"]
                                    /\ troubled' = (troubled \/ \E o \in Shells : Changing(o, d))
  BY <1>2 DEF Resolve
<1>4. s \in Working /\ r \in ShellKinds /\ r.cmd \in Askable /\ r.cmd.op = "setwiki"
  BY <1>1, <1>2, <1>3, WorkerIs, StageIs
<1>5. home \in [Dirs -> HomeStates] /\ troubled \in BOOLEAN /\ registry \in Registries
  BY <1>1 DEF SettingsTypes
<1>6. CASE Tell(s, "refused") /\ troubled' = troubled
  BY <1>2, <1>3, <1>4, <1>5, <1>6, ToldKeeps
<1>7. CASE \E d \in Aimed(r.cmd) : /\ shell' = [shell EXCEPT ![s].cmd.dir = d, ![s].pc = "loadwiki"]
                                   /\ troubled' = (troubled \/ \E o \in Shells : Changing(o, d))
  <2>1. PICK d \in Aimed(r.cmd) : /\ shell' = [shell EXCEPT ![s].cmd.dir = d, ![s].pc = "loadwiki"]
                                  /\ troubled' = (troubled \/ \E o \in Shells : Changing(o, d))
    BY <1>7
  <2>2. d \in Dirs  BY <2>1, <1>5, PlaceIs DEF Aimed
  <2>3. PICK c, n : c = Redirected(r.cmd, d) /\ n = Sent(r, d)  OBVIOUS
  <2>4. n \in ShellKinds /\ n.pc = "loadwiki" /\ n.cmd = c
    BY <2>2, <2>3, <1>3, <1>4, SentIs
  <2>5. c \in Askable /\ c.dir = d /\ c.op = "setwiki"  BY <2>2, <2>3, <1>4, AimedAgain
  <2>6. shell' = [shell EXCEPT ![s] = n]  BY <2>1, <2>3, <1>2 DEF Sent, Redirected
  <2>7. troubled' \in BOOLEAN /\ (troubled => troubled')  BY <2>1, <1>5
  <2>8. ~troubled' => \A o \in Shells : Written(shell[o]) => shell[o].cmd.dir # n.cmd.dir
    BY <2>1, <2>4, <2>5 DEF Changing, Written
  <2>9. WorksWell(n, registry, home'[n.cmd.dir])
    BY <2>4, <2>5 DEF WorksWell, SetsWell
  <2>10. SettingsGood => Housing'
    BY <1>1, <1>2, <1>3, <1>4, <2>4, <2>6, HousingStandsBy DEF SettingsGood
  <2> QED  BY <1>2, <1>3, <1>4, <1>5, <2>4, <2>5, <2>6, <2>7, <2>8, <2>9, <2>10, QuietStep
<1> QED  BY <1>3, <1>6, <1>7

LEMMA LoadWikiKeeps ==
  ASSUME SettingsInv, NEW s \in Shells, LoadWiki(s)
  PROVE  SettingsInv'
<1>1. SettingsTypes  BY DEF SettingsInv
<1>2. PICK r, own : r = shell[s] /\ own = SetWikiValue(home[r.cmd.dir].own, r.cmd.key, r.cmd.value)  OBVIOUS
<1>3. /\ r.pc = "loadwiki" /\ UNCHANGED <<registry, home, troubled, twice, pointed, runs>>
      /\ \/ Tell(s, "refused")
         \/ /\ r.cmd.key \in WikiKeys
            /\ shell' = [shell EXCEPT ![s].own = own, ![s].pc = "savewiki"]
  BY <1>2 DEF LoadWiki, settingsHistory
<1>4. s \in Working /\ r \in ShellKinds /\ r.cmd \in Askable /\ r.cmd.op = "setwiki" /\ r.cmd.dir \in Dirs
  BY <1>1, <1>2, <1>3, WorkerIs, StageIs
<1>5. home \in [Dirs -> HomeStates] /\ troubled \in BOOLEAN /\ registry \in Registries
  BY <1>1 DEF SettingsTypes
<1>6. CASE Tell(s, "refused")
  BY <1>2, <1>3, <1>4, <1>5, <1>6, ToldKeeps
<1>7. CASE r.cmd.key \in WikiKeys /\ shell' = [shell EXCEPT ![s].own = own, ![s].pc = "savewiki"]
  <2>1. home[r.cmd.dir].own \in Owns /\ r.cmd.value \in Values
    <3>1. home[r.cmd.dir] \in HomeStates  BY <1>4, <1>5
    <3>2. home[r.cmd.dir].own \in Owns  BY <3>1, HomeIs DEF HomeRecords
    <3>3. r.cmd.value \in Values  BY <1>4, AskedIs
    <3> QED  BY <3>2, <3>3
  <2>2. own \in Owns
    <3>1. PICK o, k, v : o = home[r.cmd.dir].own /\ k = r.cmd.key /\ v = r.cmd.value  OBVIOUS
    <3>2. o \in Owns /\ k \in WikiKeys /\ v \in Values /\ own = SetWikiValue(o, k, v)
      BY <3>1, <2>1, <1>2, <1>7
    <3> QED  BY ONLY <3>2, OwnSetIs
  <2>3. PICK n : n = Loaded(r, own)  OBVIOUS
  <2>4. n \in ShellKinds /\ n.pc = "savewiki" /\ n.cmd = r.cmd /\ n.own = own
    BY <2>2, <2>3, <1>3, <1>4, LoadedIs
  <2>5. shell' = [shell EXCEPT ![s] = n]  BY <1>7, <1>2, <2>3 DEF Loaded
  <2>6. ASSUME SettingsGood, NEW o \in Shells, Written(shell[o])
        PROVE  o = s \/ shell[o].cmd.dir # n.cmd.dir
    <3>1. o \in Working  BY <2>6 DEF Working, Written
    <3>2. Written(shell[s])  BY <1>2, <1>3 DEF Written
    <3> QED  BY <3>1, <3>2, <2>4, <2>6, <1>2, <1>4 DEF SettingsGood, Apart
  <2>7. WorksWell(n, registry, home'[n.cmd.dir])
    <3>1. SetsWell(n, home'[n.cmd.dir])  BY <2>4, <1>2, <1>3, <1>7 DEF SetsWell
    <3> QED  BY <3>1, <2>4, <1>4 DEF WorksWell
  <2>8. SettingsGood => Housing'
    BY <1>1, <1>2, <1>3, <1>4, <2>4, <2>5, HousingStandsBy DEF SettingsGood
  <2> QED  BY <1>2, <1>3, <1>4, <1>5, <2>4, <2>5, <2>6, <2>7, <2>8, QuietStep
<1> QED  BY <1>3, <1>6, <1>7

LEMMA SaveWikiKeeps ==
  ASSUME SettingsInv, NEW s \in Shells, SaveWiki(s)
  PROVE  SettingsInv'
<1>1. SettingsTypes  BY DEF SettingsInv
<1>2. PICK r, d, h : r = shell[s] /\ d = r.cmd.dir /\ h = home[d]  OBVIOUS
<1>3. /\ r.pc = "savewiki" /\ UNCHANGED <<registry, troubled, twice, pointed, runs>>
      /\ \/ Tell(s, "refused") /\ home' = home
         \/ Tell(s, "ok") /\ home' = [home EXCEPT ![d].toml = TRUE, ![d].stated = TRUE, ![d].own = r.own]
  BY <1>2 DEF SaveWiki, settingsHistory
<1>4. s \in Working /\ r \in ShellKinds /\ r.cmd \in Askable /\ r.cmd.op = "setwiki" /\ d \in Dirs
  BY <1>1, <1>2, <1>3, WorkerIs, StageIs
<1>5. home \in [Dirs -> HomeStates] /\ troubled \in BOOLEAN /\ registry \in Registries
  BY <1>1 DEF SettingsTypes
<1>6. CASE Tell(s, "refused") /\ home' = home
  BY <1>2, <1>3, <1>4, <1>5, <1>6, ToldKeeps
<1>7. CASE Tell(s, "ok") /\ home' = [home EXCEPT ![d].toml = TRUE, ![d].stated = TRUE, ![d].own = r.own]
  <2>1. PICK m : m = Saved(h, r.own)  OBVIOUS
  <2>2. h \in HomeStates /\ r.own \in Owns  BY <1>2, <1>4, <1>5, KindIs DEF Processes
  <2>3. m \in HomeStates /\ m.there = h.there  BY <2>1, <2>2, SavedWikiIs
  <2>4. home' = [home EXCEPT ![d] = m]  BY <1>7, <1>2, <2>1 DEF Saved
  <2>5. /\ home' \in [Dirs -> HomeStates] /\ home'[d] = m
        /\ \A e \in Dirs : e # d => home'[e] = home[e]
    BY <1>1, <1>4, <2>3, <2>4, HomeStep
  <2>6. \A e \in Dirs : home[e].there => home'[e].there  BY <2>5, <2>3, <1>2
  <2> QED  BY <1>2, <1>3, <1>4, <1>5, <1>7, <2>5, <2>6, ToldKeeps
<1> QED  BY <1>3, <1>6, <1>7

LEMMA BeginKeeps ==
  ASSUME SettingsInv, NEW s \in Shells, NEW c \in Commands, Begin(s, c)
  PROVE  SettingsInv'
<1>1. SettingsTypes /\ TwiceHoused /\ (~troubled => SettingsGood)  BY DEF SettingsInv
<1>2. /\ s \notin Working /\ shell' = [shell EXCEPT ![s] = [Idle EXCEPT !.cmd = c, !.pc = FirstPc(c.op)]]
      /\ troubled' = (troubled \/ \E o \in Working : Meets(c, shell[o].cmd))
      /\ runs' = [runs EXCEPT !.commands = @ + 1]
      /\ UNCHANGED <<registry, home, twice, pointed>>
  BY DEF Begin
<1>3. c \in Askable  BY CommandsAssumption
<1>4. PICK n : n = [Idle EXCEPT !.cmd = c, !.pc = FirstPc(c.op)]  OBVIOUS
<1>5. n \in ShellKinds /\ n.cmd = c /\ n.pc = FirstPc(c.op)  BY <1>3, <1>4, BegunIs
<1>6. shell' = [shell EXCEPT ![s] = n]  BY <1>2, <1>4
<1>7. /\ shell' \in [Shells -> ShellKinds] /\ shell'[s] = n
      /\ \A o \in Shells : o # s => shell'[o] = shell[o]
  BY <1>1, <1>5, <1>6, ShellStep
<1>8. runs' \in [commands : Nat, deaths : Nat] /\ runs'.deaths = runs.deaths
  BY <1>1, <1>2 DEF SettingsTypes
<1>9. SettingsTypes'
  BY <1>1, <1>2, <1>7, <1>8 DEF SettingsTypes
<1>10. TwiceHoused'  BY <1>1, <1>2, TwiceStands
<1>11. ASSUME ~troubled'
       PROVE  SettingsGood'
  <2>1. SettingsGood /\ \A o \in Working : ~Meets(c, shell[o].cmd)  BY <1>1, <1>2, <1>11
  <2>2. n.pc \in {"prepare", "adopt", "remove", "default", "setglobal", "resolve"}
    BY <1>3, <1>5, AskedIs DEF FirstPc
  <2>3. ~Written(n)  BY <2>2 DEF Written
  <2>4. Apart'
    <3>1. SUFFICES ASSUME NEW o \in Working', NEW p \in Working', o # p
                   PROVE  /\ ~Meets(shell'[o].cmd, shell'[p].cmd)
                          /\ Written(shell'[o]) /\ Written(shell'[p]) => shell'[o].cmd.dir # shell'[p].cmd.dir
      BY DEF Apart
    <3>2. o \in Shells /\ p \in Shells  BY <3>1 DEF Working
    <3>3. CASE o # s /\ p # s
      <4>1. o \in Working /\ p \in Working /\ shell'[o] = shell[o] /\ shell'[p] = shell[p]
        BY <3>1, <3>2, <3>3, <1>7 DEF Working
      <4> QED  BY <4>1, <3>1, <2>1 DEF SettingsGood, Apart
    <3>4. CASE o = s
      <4>1. p \in Working /\ shell'[o] = n /\ shell'[p] = shell[p]
        BY <3>1, <3>2, <3>4, <1>7 DEF Working
      <4> QED  BY <4>1, <2>1, <2>3, <1>5
    <3>5. CASE p = s
      <4>1. o \in Working /\ shell'[p] = n /\ shell'[o] = shell[o]
        BY <3>1, <3>2, <3>5, <1>7 DEF Working
      <4>2. ~Meets(c, shell[o].cmd)  BY <4>1, <2>1
      <4>3. {c.op, shell[o].cmd.op} = {shell[o].cmd.op, c.op}  OBVIOUS
      <4>4. ~Meets(shell[o].cmd, c)  BY <4>2, <4>3 DEF Meets
      <4> QED  BY <4>1, <4>4, <2>3, <1>5
    <3> QED  BY <3>3, <3>4, <3>5
  <2>5. ASSUME NEW o \in Shells
        PROVE  WorksWell(shell'[o], registry', home'[shell'[o].cmd.dir])
    <3>1. CASE o # s
      BY <3>1, <2>1, <1>2, <1>7 DEF SettingsGood
    <3>2. CASE o = s
      <4>1. /\ n.cmd.op = "default" => n.pc = "default"
            /\ n.cmd.op = "setglobal" => n.pc = "setglobal"
            /\ n.cmd.op = "setwiki" => n.pc = "resolve"
            /\ n.cmd.op = "create" => n.pc = "prepare"
            /\ n.cmd.op = "adopt" => n.pc = "adopt"
            /\ n.cmd.op = "remove" => n.pc = "remove"
        BY <1>5 DEF FirstPc
      <4>2. WorksWell(n, registry', home'[n.cmd.dir])
        BY <4>1 DEF WorksWell, CreatesWell, AdoptsWell, RemovesWell, SetsWell
      <4> QED  BY <4>2, <3>2, <1>7
    <3> QED  BY <3>1, <3>2
  <2>6. pointed' \/ DefaultIsThere'  BY <2>1, <1>2, DefaultStands DEF SettingsGood
  <2>7. \A o \in Shells, t \in Titles : Striking(shell[o], t) => Striking(shell'[o], t)
    BY <1>2, <1>7 DEF Striking, Working
  <2>8. Housing'  BY <2>1, <2>7, <1>1, <1>2, <1>8, HousingStands DEF SettingsGood
  <2> QED  BY <2>4, <2>5, <2>6, <2>8 DEF SettingsGood
<1> QED  BY <1>9, <1>10, <1>11 DEF SettingsInv

LEMMA ShellDiesKeeps ==
  ASSUME SettingsInv, NEW s \in Shells, ShellDies(s)
  PROVE  SettingsInv'
<1>1. SettingsTypes /\ TwiceHoused /\ (~troubled => SettingsGood)  BY DEF SettingsInv
<1>2. /\ s \in Working /\ shell' = [shell EXCEPT ![s] = Idle]
      /\ runs' = [runs EXCEPT !.deaths = @ + 1]
      /\ UNCHANGED <<registry, home, troubled, twice, pointed>>
  BY DEF ShellDies
<1>3. NoCommand.op = "none"  BY DEF NoCommand
<1>4. Idle \in ShellKinds /\ Idle.pc = "rest"  BY <1>3, IdleProcess, KindIs
<1>5. shell' \in [Shells -> ShellKinds]  BY <1>1, <1>2, <1>4, ShellStep
<1>6. runs' \in [commands : Nat, deaths : Nat] /\ runs'.deaths # 0
  BY <1>1, <1>2 DEF SettingsTypes
<1>7. SettingsTypes'  BY <1>1, <1>2, <1>5, <1>6 DEF SettingsTypes
<1>8. TwiceHoused'  BY <1>1, <1>2, TwiceStands
<1>9. ASSUME ~troubled'
      PROVE  SettingsGood'
  <2>1. SettingsGood  BY <1>1, <1>2, <1>9
  <2>2. ~Written(Idle) /\ WorksWell(Idle, registry', home'[Idle.cmd.dir])
    BY <1>4 DEF Written, WorksWell
  <2>3. Apart' /\ \A o \in Shells : WorksWell(shell[o], registry, home[shell[o].cmd.dir])'
    BY <1>1, <1>2, <1>4, <2>1, <2>2, StepStands
  <2>4. pointed' \/ DefaultIsThere'  BY <2>1, <1>2, DefaultStands DEF SettingsGood
  <2>5. Housing'  BY <1>6 DEF Housing
  <2> QED  BY <2>3, <2>4, <2>5 DEF SettingsGood
<1> QED  BY <1>7, <1>8, <1>9 DEF SettingsInv

-----------------------------------------------------------------------------
(* Saving the global file.                                                 *)

(* What the held copy is, while there is no trouble.                       *)
FileChange(r, g, h) ==
  /\ r.cmd.op \in {"create", "adopt"} => h.there /\ h.toml /\ RootedIn(r, h)
  /\ \/ r.cmd.op \in {"create", "adopt"} /\ Enters(r, g)
     \/ r.cmd.op = "create" /\ EnteredIn(r, g) /\ HookedIn(r, h) /\ Turns(r, g)
     \/ r.cmd.op = "create" /\ EnteredIn(r, g) /\ HookedIn(r, h) /\ Points(r, g)
     \/ r.cmd.op = "default" /\ Points(r, g)
     \/ r.cmd.op = "remove" /\ Strikes(r, g) /\ (r.cmd.flag => ~h.there)
     \/ r.cmd.op = "setglobal" /\ SetsKey(r, g)

LEMMA ChangeIs ==
  ASSUME SettingsTypes, SettingsGood, NEW s \in Working, shell[s].pc = "save"
  PROVE  FileChange(shell[s], registry, home[shell[s].cmd.dir])
<1>1. PICK r, h : r = shell[s] /\ h = home[r.cmd.dir]  OBVIOUS
<1>2. WorksWell(r, registry, h)  BY <1>1 DEF SettingsGood, Working
<1>3. r.cmd.op \in {"create", "adopt", "remove", "default", "setglobal"} /\ r.pc = "save"
  BY <1>1, StageIs
<1>4. CASE r.cmd.op = "create"
  <2>1. CreatesWell(r, registry, h)  BY <1>2, <1>3, <1>4 DEF WorksWell
  <2> QED  BY <2>1, <1>1, <1>3, <1>4 DEF CreatesWell, FileChange
<1>5. CASE r.cmd.op = "adopt"
  <2>1. AdoptsWell(r, registry, h)  BY <1>2, <1>3, <1>5 DEF WorksWell
  <2> QED  BY <2>1, <1>1, <1>3, <1>5 DEF AdoptsWell, FileChange
<1>6. CASE r.cmd.op = "remove"
  <2>1. RemovesWell(r, registry, h)  BY <1>2, <1>3, <1>6 DEF WorksWell
  <2> QED  BY <2>1, <1>1, <1>3, <1>6 DEF RemovesWell, FileChange
<1>7. CASE r.cmd.op = "default"
  <2>1. Points(r, registry)  BY <1>2, <1>3, <1>7 DEF WorksWell
  <2> QED  BY <2>1, <1>1, <1>7 DEF FileChange
<1>8. CASE r.cmd.op = "setglobal"
  <2>1. SetsKey(r, registry)  BY <1>2, <1>3, <1>8 DEF WorksWell
  <2> QED  BY <2>1, <1>1, <1>8 DEF FileChange
<1> QED  BY <1>3, <1>4, <1>5, <1>6, <1>7, <1>8

ChangesEntries(r, g) ==
  \A i \in Kept(r.copy) :
    \/ r.cmd.op \in {"create", "adopt"} /\ r.copy.entries[i] = Entry(r.cmd.name, r.cmd.dir)
    \/ /\ i \in Kept(g) /\ r.copy.entries[i] = g.entries[i]
       /\ r.cmd.op = "remove" => g.entries[i].name # r.cmd.name

PointsAt(g) == g.default = NoTitle \/ IsRegistered(g, g.default)

ChangesKeys(r, g) ==
  \A k \in SettingKeys :
    \/ r.copy.set[k] = g.set[k]
    \/ r.cmd.op = "setglobal" /\ k = r.cmd.key
    \/ r.cmd.op = "create" /\ k = "auto_rebuild"

LEMMA ChangeDoes ==
  ASSUME NEW r \in ShellKinds, r.cmd \in Askable, NEW g \in Registries, NEW h, FileChange(r, g, h)
  PROVE  /\ ChangesEntries(r, g) /\ ChangesKeys(r, g)
         /\ PointsAt(g) => PointsAt(r.copy) \/ (r.cmd.op = "setglobal" /\ r.cmd.key = "default_wiki")
<1>1. r.copy \in Registries  BY KindIs DEF Processes
<1>2. g.default \in Titles \cup {NoTitle}  BY RegistryIs
<1>3. PICK c : c = r.copy  OBVIOUS
<1>4. r.cmd.dir \in Dirs /\ (r.cmd.op \notin {"setglobal", "setwiki"} => r.cmd.name \in Titles)  BY AskedIs
<1>5. CASE r.cmd.op \in {"create", "adopt"} /\ Enters(r, g)
  <2>1. c = Entered(g, r.cmd.name, r.cmd.dir)  BY <1>5, <1>3 DEF Enters
  <2>2. /\ c.default = g.default /\ c.set = g.set
        /\ \A i \in Kept(c) : c.entries[i] = Entry(r.cmd.name, r.cmd.dir) \/ (i \in Kept(g) /\ c.entries[i] = g.entries[i])
        /\ \A u \in Titles : IsRegistered(g, u) => IsRegistered(c, u)
    BY <2>1, <1>4, <1>5, EnteredIs
  <2>3. ChangesEntries(r, g)  BY <2>2, <1>3, <1>5 DEF ChangesEntries
  <2>4. ChangesKeys(r, g)  BY <2>2, <1>3 DEF ChangesKeys
  <2>5. PointsAt(g) => PointsAt(c)  BY <2>2, <1>2 DEF PointsAt
  <2> QED  BY <2>3, <2>4, <2>5, <1>3
<1>6. CASE r.cmd.op = "create" /\ Turns(r, g)
  <2>1. c = Turned(g)  BY <1>6, <1>3 DEF Turns
  <2>2. /\ c.default = g.default /\ c.entries = g.entries
        /\ \A k \in SettingKeys : k # "auto_rebuild" => c.set[k] = g.set[k]
    BY <2>1, TurnedIs
  <2>3. ChangesEntries(r, g)  BY <2>2, <1>3, <1>6 DEF ChangesEntries, Kept
  <2>4. ChangesKeys(r, g)  BY <2>2, <1>3, <1>6 DEF ChangesKeys
  <2>5. PointsAt(g) => PointsAt(c)  BY <2>2 DEF PointsAt, IsRegistered, Named
  <2> QED  BY <2>3, <2>4, <2>5, <1>3
<1>7. CASE r.cmd.op \in {"create", "default"} /\ Points(r, g)
  <2>1. c = [g EXCEPT !.default = r.cmd.name] /\ IsRegistered(g, r.cmd.name)  BY <1>7, <1>3 DEF Points
  <2>2. c.default = r.cmd.name /\ c.entries = g.entries /\ c.set = g.set
    BY <2>1, <1>4, <1>7, PointedIs
  <2>3. ChangesEntries(r, g)  BY <2>2, <1>3, <1>7 DEF ChangesEntries, Kept
  <2>4. ChangesKeys(r, g)  BY <2>2, <1>3 DEF ChangesKeys
  <2>5. PointsAt(c)  BY <2>1, <2>2 DEF PointsAt, IsRegistered, Named
  <2> QED  BY <2>3, <2>4, <2>5, <1>3
<1>8. CASE r.cmd.op = "remove" /\ Strikes(r, g)
  <2>1. c = Struck(g, r.cmd.name) /\ g.default # r.cmd.name  BY <1>8, <1>3 DEF Strikes
  <2>2. /\ c.default = g.default /\ c.set = g.set
        /\ \A i \in Kept(c) : i \in Kept(g) /\ c.entries[i] = g.entries[i] /\ c.entries[i].name # r.cmd.name
        /\ \A u \in Titles \ {r.cmd.name} : IsRegistered(g, u) => IsRegistered(c, u)
    BY <2>1, <1>4, <1>8, StruckIs
  <2>3. ChangesEntries(r, g)  BY <2>2, <1>3, <1>8 DEF ChangesEntries
  <2>4. ChangesKeys(r, g)  BY <2>2, <1>3 DEF ChangesKeys
  <2>5. PointsAt(g) => PointsAt(c)  BY <2>1, <2>2, <1>2 DEF PointsAt
  <2> QED  BY <2>3, <2>4, <2>5, <1>3
<1>9. CASE r.cmd.op = "setglobal" /\ SetsKey(r, g)
  <2>1. c = SetGlobalValue(g, r.cmd) /\ Parses(r.cmd)  BY <1>9, <1>3 DEF SetsKey
  <2>2. CASE r.cmd.key = "default_wiki"
    <3>1. c = [g EXCEPT !.default = r.cmd.name]  BY <2>1, <2>2 DEF SetGlobalValue
    <3>2. r.cmd.name \in Titles \cup {NoTitle}  BY AskedIs
    <3>3. c.entries = g.entries /\ c.set = g.set  BY <3>1, <3>2, PointedIs
    <3>4. ChangesEntries(r, g)  BY <3>3, <1>3, <1>9 DEF ChangesEntries, Kept
    <3>5. ChangesKeys(r, g)  BY <3>3, <1>3 DEF ChangesKeys
    <3> QED  BY <3>4, <3>5, <2>2, <1>9
  <2>3. CASE r.cmd.key \in SettingKeys
    <3>1. /\ c.default = g.default /\ c.entries = g.entries
          /\ \A k \in SettingKeys : k # r.cmd.key => c.set[k] = g.set[k]
      BY <2>1, <2>3, KeySetIs
    <3>2. ChangesEntries(r, g)  BY <3>1, <1>3, <1>9 DEF ChangesEntries, Kept
    <3>3. ChangesKeys(r, g)  BY <3>1, <1>3, <1>9 DEF ChangesKeys
    <3>4. PointsAt(g) => PointsAt(c)  BY <3>1 DEF PointsAt, IsRegistered, Named
    <3> QED  BY <3>2, <3>3, <3>4, <1>3
  <2> QED  BY <2>2, <2>3, <1>9 DEF SetsKey
<1> QED  BY <1>5, <1>6, <1>7, <1>8, <1>9 DEF FileChange

LEMMA SaveGlobalKeeps ==
  ASSUME SettingsInv, NEW s \in Shells, SaveGlobal(s)
  PROVE  SettingsInv'
<1>1. SettingsTypes /\ TwiceHoused /\ (~troubled => SettingsGood)  BY DEF SettingsInv
<1>2. PICK r, h : r = shell[s] /\ h = home[r.cmd.dir]  OBVIOUS
<1>3. /\ r.pc = "save" /\ registry' = r.copy /\ UNCHANGED <<home, troubled, runs>>
      /\ IF r.then = "rest" THEN Tell(s, "ok") ELSE Proceed(s, r.then)
      /\ twice' = twice \cup {d \in Dirs : \E i, j \in Housed(r.copy, d) : i # j}
      /\ pointed' = (pointed \/ (r.cmd.op = "setglobal" /\ r.cmd.key = "default_wiki"))
  BY <1>2 DEF SaveGlobal
<1>4. s \in Working /\ r \in ShellKinds /\ r.cmd \in Askable /\ r.cmd.dir \in Dirs /\ r.cmd.op # "setwiki"
  BY <1>1, <1>2, <1>3, WorkerIs, StageIs
<1>5. r.copy \in Registries /\ registry \in Registries /\ r.then \in {"rest", "hooks", "default"}
      /\ (r.cmd.op # "create" => r.then = "rest")
  BY <1>1, <1>4, KindIs DEF SettingsTypes, Processes
<1>6. PICK n \in ShellKinds : /\ shell' = [shell EXCEPT ![s] = n]
                              /\ n.pc = r.then
                              /\ r.then # "rest" => n.cmd = r.cmd /\ n.again = r.again /\ r.cmd.op = "create"
  <2>1. CASE r.then = "rest"
    <3>1. PICK n : n = [Idle EXCEPT !.told = "ok"]  OBVIOUS
    <3>2. n \in ShellKinds /\ n.pc = "rest"  BY <3>1, IdleIs
    <3>3. shell' = [shell EXCEPT ![s] = n]  BY <3>1, <2>1, <1>3 DEF Tell
    <3> QED  BY <3>2, <3>3, <2>1
  <2>2. CASE r.then # "rest"
    <3>1. r.cmd.op = "create" /\ r.then \in {"hooks", "default"}  BY <2>2, <1>5
    <3>2. r.then \in StagesOf(r.cmd.op)  BY <3>1 DEF StagesOf
    <3>3. PICK n : n = Moved(r, r.then)  OBVIOUS
    <3>4. n \in ShellKinds /\ n.pc = r.then /\ n.cmd = r.cmd /\ n.again = r.again
      BY <3>2, <3>3, <1>3, <1>4, MovedIs
    <3>5. shell' = [shell EXCEPT ![s] = n]  BY <3>3, <2>2, <1>2, <1>3 DEF Proceed, Moved
    <3> QED  BY <3>1, <3>4, <3>5
  <2> QED  BY <2>1, <2>2
<1>7. shell' \in [Shells -> ShellKinds] /\ shell'[s] = n /\ \A o \in Shells : o # s => shell'[o] = shell[o]
  BY <1>1, <1>4, <1>6, ShellStep DEF Working
<1>8. SettingsTypes'
  <2>1. pointed' \in BOOLEAN /\ twice' \in SUBSET Dirs  BY <1>1, <1>3 DEF SettingsTypes
  <2> QED  BY <2>1, <1>1, <1>3, <1>5, <1>7 DEF SettingsTypes
<1>9. TwiceHoused'
  <2>1. SUFFICES ASSUME NEW d \in Dirs, NEW i \in Housed(r.copy, d), NEW j \in Housed(r.copy, d), i # j
                 PROVE  d \in twice'
    BY <1>3 DEF TwiceHoused
  <2> QED  BY <2>1, <1>3
<1>10. ASSUME ~troubled'
       PROVE  SettingsGood'
  <2>1. SettingsGood  BY <1>1, <1>3, <1>10
  <2>2. FileChange(r, registry, h)  BY <2>1, <1>1, <1>2, <1>3, <1>4, ChangeIs
  <2>3. /\ ChangesEntries(r, registry)
        /\ PointsAt(registry) => PointsAt(r.copy) \/ (r.cmd.op = "setglobal" /\ r.cmd.key = "default_wiki")
    BY <2>2, <1>4, <1>5, ChangeDoes
  <2>4. WorksWell(n, registry', home'[n.cmd.dir])
    <3>1. CASE r.then = "rest"  BY <3>1, <1>6 DEF WorksWell
    <3>2. CASE r.then = "hooks"
      <4>1. r.cmd.op = "create" /\ n.cmd = r.cmd /\ n.pc = "hooks"  BY <3>2, <1>6
      <4>2. Enters(r, registry)
        BY <4>1, <3>2, <2>2 DEF FileChange, Turns, Points, AfterProvision
      <4>3. r.cmd.name \in Titles  BY <4>1, <1>4, AskedIs
      <4>4. \E i \in DOMAIN r.copy.entries : r.copy.entries[i] = Entry(r.cmd.name, r.cmd.dir)
        BY <4>2, <4>3, <1>4, <1>5, EnteredIs DEF Enters
      <4>5. EnteredIn(n, r.copy)  BY <4>1, <4>4 DEF EnteredIn, Range
      <4>6. h.there /\ h.toml /\ RootedIn(n, h)  BY <2>2, <4>1 DEF FileChange, RootedIn
      <4>7. CreatesWell(n, r.copy, h)  BY <4>1, <4>5, <4>6 DEF CreatesWell
      <4> QED  BY <4>1, <4>7, <1>2, <1>3 DEF WorksWell
    <3>3. CASE r.then = "default"
      <4>1. r.cmd.op = "create" /\ n.cmd = r.cmd /\ n.pc = "default"  BY <3>3, <1>6
      <4>2. EnteredIn(r, registry) /\ HookedIn(r, h) /\ Turns(r, registry)
        BY <4>1, <3>3, <2>2 DEF FileChange, Enters, Points
      <4>3. r.copy.entries = registry.entries /\ r.copy.set["auto_rebuild"] = 1
        BY <4>2, <1>5, TurnedIs DEF Turns
      <4>4. EnteredIn(n, r.copy) /\ HookedIn(n, h)
        BY <4>1, <4>2, <4>3 DEF EnteredIn, HookedIn
      <4>5. h.there /\ h.toml /\ RootedIn(n, h)  BY <2>2, <4>1 DEF FileChange, RootedIn
      <4>6. CreatesWell(n, r.copy, h)  BY <4>1, <4>3, <4>4, <4>5 DEF CreatesWell
      <4> QED  BY <4>1, <4>6, <1>2, <1>3 DEF WorksWell
    <3> QED  BY <3>1, <3>2, <3>3, <1>5
  <2>5. ~Written(n)  BY <1>5, <1>6 DEF Written
  <2>6. n.pc = "rest" \/ n.cmd.op = r.cmd.op  BY <1>6
  <2>7. Apart' /\ \A o \in Shells : WorksWell(shell[o], registry, home[shell[o].cmd.dir])'
    BY <1>1, <1>2, <1>3, <1>4, <1>6, <2>1, <2>4, <2>5, <2>6, StepStands
  <2>8. pointed' \/ DefaultIsThere'
    <3>1. pointed \/ PointsAt(registry)  BY <2>1 DEF SettingsGood, DefaultIsThere, PointsAt
    <3>2. PointsAt(registry') => DefaultIsThere'
      BY DEF DefaultIsThere, PointsAt, IsRegistered, Named
    <3> QED  BY <3>1, <3>2, <2>3, <1>3
  <2>9. Housing'
    <3>1. SUFFICES ASSUME runs.deaths = 0, NEW i \in Kept(r.copy)
                   PROVE  \/ home[r.copy.entries[i].dir].there
                          \/ r.copy.entries[i].dir \in twice'
                          \/ \E o \in Shells : Striking(shell'[o], r.copy.entries[i].name)
      BY <1>3 DEF Housing, Kept
    <3>2. CASE r.cmd.op \in {"create", "adopt"} /\ r.copy.entries[i] = Entry(r.cmd.name, r.cmd.dir)
      <4>1. r.copy.entries[i].dir = r.cmd.dir  BY <3>2 DEF Entry
      <4> QED  BY <4>1, <3>2, <2>2, <1>2 DEF FileChange
    <3>3. CASE /\ i \in Kept(registry) /\ r.copy.entries[i] = registry.entries[i]
               /\ r.cmd.op = "remove" => registry.entries[i].name # r.cmd.name
      <4>1. \/ home[registry.entries[i].dir].there
            \/ registry.entries[i].dir \in twice
            \/ \E o \in Shells : Striking(shell[o], registry.entries[i].name)
        BY <3>1, <3>3, <2>1 DEF SettingsGood, Housing
      <4>2. ASSUME NEW o \in Shells, Striking(shell[o], registry.entries[i].name)
            PROVE  Striking(shell'[o], registry.entries[i].name)
        BY <4>2, <3>3, <1>2, <1>7 DEF Striking
      <4>3. twice \subseteq twice'  BY <1>3
      <4> QED  BY <4>1, <4>2, <4>3, <3>3
    <3> QED  BY <3>1, <3>2, <3>3, <2>3 DEF ChangesEntries
  <2> QED  BY <2>7, <2>8, <2>9 DEF SettingsGood
<1> QED  BY <1>8, <1>9, <1>10 DEF SettingsInv

LEMMA SettingsStart == InitSettings => SettingsInv
<1> SUFFICES ASSUME InitSettings  PROVE SettingsInv
  OBVIOUS
<1>1. /\ registry = EmptyRegistry /\ home \in FirstHomes /\ shell = [s \in Shells |-> Idle]
      /\ troubled = FALSE /\ twice = {} /\ pointed = FALSE /\ runs = [commands |-> 0, deaths |-> 0]
  BY DEF InitSettings
<1>2. NoCommand.op = "none"  BY DEF NoCommand
<1>3. Idle \in ShellKinds /\ Idle.pc = "rest"  BY <1>2, IdleProcess, KindIs
<1>4. shell \in [Shells -> ShellKinds] /\ \A s \in Shells : shell[s].pc = "rest"
  BY <1>1, <1>3
<1>5. SettingsTypes
  BY <1>1, <1>4, EmptyIs, HomesAssumption DEF SettingsTypes
<1>6. registry.entries = << >> /\ registry.default = NoTitle
  BY <1>1 DEF EmptyRegistry
<1>7. DOMAIN registry.entries = {}  BY <1>6
<1>8. TwiceHoused  BY <1>7 DEF TwiceHoused, Housed
<1>9. Apart  BY <1>4 DEF Apart, Working
<1>10. \A s \in Shells : WorksWell(shell[s], registry, home[shell[s].cmd.dir])
  BY <1>4 DEF WorksWell
<1>11. DefaultIsThere  BY <1>6 DEF DefaultIsThere
<1>12. Housing  BY <1>7 DEF Housing, Kept
<1> QED  BY <1>5, <1>8, <1>9, <1>10, <1>11, <1>12 DEF SettingsInv, SettingsGood

LEMMA SettingsStep == SettingsInv /\ [NextSettings]_settingsVars => SettingsInv'
<1> SUFFICES ASSUME SettingsInv, [NextSettings]_settingsVars  PROVE SettingsInv'
  OBVIOUS
<1>1. CASE NextSettings
  <2>1. PICK s \in Shells :
          \/ \E c \in Commands : Begin(s, c)
          \/ Prepare(s) \/ Adopt(s) \/ Register(s) \/ InstallHooks(s) \/ TurnOnRebuild(s)
          \/ SetDefaultWiki(s) \/ SaveGlobal(s) \/ Unregister(s) \/ Erase(s)
          \/ SetGlobal(s) \/ Resolve(s) \/ LoadWiki(s) \/ SaveWiki(s) \/ ShellDies(s)
    BY <1>1 DEF NextSettings
  <2>2. CASE \E c \in Commands : Begin(s, c)  BY <2>2, BeginKeeps
  <2>3. CASE Prepare(s)  BY <2>3, PrepareKeeps
  <2>4. CASE Adopt(s)  BY <2>4, AdoptKeeps
  <2>5. CASE Register(s)  BY <2>5, RegisterKeeps
  <2>6. CASE InstallHooks(s)  BY <2>6, HooksKeep
  <2>7. CASE TurnOnRebuild(s)  BY <2>7, RebuildKeeps
  <2>8. CASE SetDefaultWiki(s)  BY <2>8, DefaultKeeps
  <2>9. CASE SaveGlobal(s)  BY <2>9, SaveGlobalKeeps
  <2>10. CASE Unregister(s)  BY <2>10, UnregisterKeeps
  <2>11. CASE Erase(s)  BY <2>11, EraseKeeps
  <2>12. CASE SetGlobal(s)  BY <2>12, SetGlobalKeeps
  <2>13. CASE Resolve(s)  BY <2>13, ResolveKeeps
  <2>14. CASE LoadWiki(s)  BY <2>14, LoadWikiKeeps
  <2>15. CASE SaveWiki(s)  BY <2>15, SaveWikiKeeps
  <2>16. CASE ShellDies(s)  BY <2>16, ShellDiesKeeps
  <2> QED
    BY <2>1, <2>2, <2>3, <2>4, <2>5, <2>6, <2>7, <2>8, <2>9, <2>10, <2>11, <2>12, <2>13, <2>14, <2>15, <2>16
<1>2. CASE UNCHANGED settingsVars
  <2>1. UNCHANGED <<registry, home, shell, troubled, twice, pointed, runs>>
    BY <1>2 DEF settingsVars, settingsHistory
  <2>2. SettingsTypes /\ TwiceHoused /\ (~troubled => SettingsGood)  BY DEF SettingsInv
  <2>3. SettingsTypes'  BY <2>1, <2>2 DEF SettingsTypes
  <2>4. TwiceHoused'  BY <2>1, <2>2, TwiceStands
  <2>5. ASSUME SettingsGood
        PROVE  SettingsGood'
    <3>1. Apart'  BY <2>1, <2>5 DEF SettingsGood, Apart, Working
    <3>2. (\A s \in Shells : WorksWell(shell[s], registry, home[shell[s].cmd.dir]))'
      BY <2>1, <2>5 DEF SettingsGood
    <3>3. pointed' \/ DefaultIsThere'  BY <2>1, <2>5, DefaultStands DEF SettingsGood
    <3>4. Housing'  BY <2>1, <2>2, <2>5, HousingStands DEF SettingsGood
    <3> QED  BY <3>1, <3>2, <3>3, <3>4 DEF SettingsGood
  <2> QED  BY <2>1, <2>2, <2>3, <2>4, <2>5 DEF SettingsInv
<1> QED  BY <1>1, <1>2

-----------------------------------------------------------------------------
(* What a step tells and changes.                                          *)

LEMMA RegistryStaysSound == SettingsInv => RegistryIsSound
<1> SUFFICES ASSUME SettingsInv  PROVE RegistryIsSound
  OBVIOUS
<1>1. SettingsTypes /\ (~troubled => SettingsGood)  BY DEF SettingsInv
<1>2. NamesAreUnique
  BY <1>1, RegistryIs DEF SettingsTypes, NamesAreUnique, NoNameTwice
<1>3. ASSUME SettingsGood
      PROVE  EntriesAreHoused
  <2>1. SUFFICES ASSUME Working = {}, runs.deaths = 0, NEW i \in Kept(registry)
                 PROVE  home[registry.entries[i].dir].there \/ registry.entries[i].dir \in twice
    BY DEF EntriesAreHoused
  <2>2. \A s \in Shells : ~Striking(shell[s], registry.entries[i].name)
    BY <2>1 DEF Striking, Working
  <2> QED  BY <2>1, <2>2, <1>3 DEF SettingsGood, Housing
<1>4. SettingsGood => pointed \/ DefaultIsThere  BY DEF SettingsGood
<1> QED  BY <1>1, <1>2, <1>3, <1>4 DEF RegistryIsSound

LEMMA TellsIt ==
  ASSUME SettingsTypes, NEW s \in Shells, NEW a \in {"none", "ok", "refused"}, Tell(s, a)
  PROVE  shell'[s].told = a /\ shell'[s].pc = "rest"
<1>1. PICK n : n = [Idle EXCEPT !.told = a]  OBVIOUS
<1>2. n.told = a /\ n.pc = "rest" /\ n \in ShellKinds  BY <1>1, IdleIs
<1>3. shell' = [shell EXCEPT ![s] = n]  BY <1>1 DEF Tell
<1> QED  BY <1>2, <1>3, ShellStep

LEMMA ProceedsTo ==
  ASSUME SettingsTypes, NEW s \in Shells, NEW pc, Proceed(s, pc)
  PROVE  shell'[s].pc = pc
<1>1. shell \in [Shells -> ShellKinds] /\ shell[s] \in Processes
  BY KindIs DEF SettingsTypes
<1>2. PICK n : n = [shell[s] EXCEPT !.pc = pc]  OBVIOUS
<1>3. n.pc = pc  BY <1>1, <1>2 DEF Processes
<1>4. shell' = [shell EXCEPT ![s] = n]  BY <1>2 DEF Proceed
<1> QED  BY <1>1, <1>3, <1>4

LEMMA HoldsIt ==
  ASSUME SettingsTypes, NEW s \in Shells, NEW g, NEW then, Hold(s, g, then)
  PROVE  shell'[s].pc = "save"
<1>1. shell \in [Shells -> ShellKinds] /\ shell[s] \in Processes
  BY KindIs DEF SettingsTypes
<1>2. PICK m : m = [shell[s] EXCEPT !.copy = g]  OBVIOUS
<1>3. PICK l : l = [m EXCEPT !.then = then]  OBVIOUS
<1>4. PICK n : n = [l EXCEPT !.pc = "save"]  OBVIOUS
<1>5. n.pc = "save"  BY <1>1, <1>2, <1>3, <1>4 DEF Processes
<1>6. shell' = [shell EXCEPT ![s] = n]  BY <1>2, <1>3, <1>4 DEF Hold
<1> QED  BY <1>1, <1>5, <1>6

(* Only these steps end a command with success.                            *)
LEMMA SaysOk ==
  ASSUME SettingsTypes, NEW s \in Working, shell'[s].pc = "rest", shell'[s].told = "ok",
         \/ Prepare(s) \/ Adopt(s) \/ Register(s) \/ InstallHooks(s) \/ TurnOnRebuild(s)
         \/ SetDefaultWiki(s) \/ SaveGlobal(s) \/ Unregister(s) \/ Erase(s)
         \/ SetGlobal(s) \/ Resolve(s) \/ LoadWiki(s) \/ SaveWiki(s) \/ ShellDies(s)
  PROVE  Adopt(s) \/ TurnOnRebuild(s) \/ SaveGlobal(s) \/ SaveWiki(s)
<1>1. s \in Shells  BY DEF Working
<1>2. ~Tell(s, "refused")  BY <1>1, TellsIt
<1>3. \A pc : Proceed(s, pc) => pc = "rest"  BY <1>1, ProceedsTo
<1>4. \A g, then : ~Hold(s, g, then)  BY <1>1, HoldsIt
<1>5. shell \in [Shells -> ShellKinds] /\ shell[s] \in Processes
  BY <1>1, KindIs DEF SettingsTypes
<1>6. ~Prepare(s)
  <2>1. SUFFICES ASSUME Prepare(s)  PROVE FALSE  OBVIOUS
  <2>2. PICK pc, b : pc \in {"hooks", "register"} /\ shell' = [shell EXCEPT ![s].pc = pc, ![s].again = b]
    BY <2>1, <1>2 DEF Prepare
  <2>3. PICK m : m = [shell[s] EXCEPT !.pc = pc]  OBVIOUS
  <2>4. PICK n : n = [m EXCEPT !.again = b]  OBVIOUS
  <2>5. n.pc = pc  BY <1>5, <2>3, <2>4 DEF Processes
  <2>6. shell' = [shell EXCEPT ![s] = n]  BY <2>2, <2>3, <2>4
  <2> QED  BY <2>2, <2>5, <2>6, <1>1, <1>5
<1>7. ~Register(s)  BY <1>2, <1>4 DEF Register
<1>8. ~InstallHooks(s)  BY <1>3 DEF InstallHooks
<1>9. ~SetDefaultWiki(s)  BY <1>2, <1>4 DEF SetDefaultWiki
<1>10. ~Unregister(s)
  <2>1. SUFFICES ASSUME Unregister(s)  PROVE FALSE  OBVIOUS
  <2>2. PICK pc \in {"erase", "save"} : pc = IF shell[s].cmd.flag THEN "erase" ELSE "save"  OBVIOUS
  <2>8. PICK g, d : g = Struck(registry, shell[s].cmd.name) /\ d = DirOf(registry, shell[s].cmd.name)  OBVIOUS
  <2>9. shell' = [shell EXCEPT ![s].copy = g, ![s].pc = pc, ![s].cmd.dir = d]
    BY <2>1, <2>2, <2>8, <1>2 DEF Unregister
  <2>3. PICK n : n = [shell[s] EXCEPT !.copy = g, !.pc = pc, !.cmd.dir = d]  OBVIOUS
  <2>6. n.pc = pc  BY <1>5, <2>3 DEF Processes
  <2>7. shell' = [shell EXCEPT ![s] = n]  BY <2>9, <2>3
  <2> QED  BY <2>2, <2>6, <2>7, <1>1, <1>5
<1>11. ~Erase(s)  BY <1>3 DEF Erase
<1>12. ~SetGlobal(s)  BY <1>2, <1>4 DEF SetGlobal
<1>13. ~Resolve(s)
  <2>1. SUFFICES ASSUME Resolve(s)  PROVE FALSE  OBVIOUS
  <2>2. PICK d : shell' = [shell EXCEPT ![s].cmd.dir = d, ![s].pc = "loadwiki"]
    BY <2>1, <1>2 DEF Resolve
  <2>3. PICK m : m = [shell[s] EXCEPT !.cmd.dir = d]  OBVIOUS
  <2>4. PICK n : n = [m EXCEPT !.pc = "loadwiki"]  OBVIOUS
  <2>5. n.pc = "loadwiki"  BY <1>5, <2>3, <2>4 DEF Processes
  <2>6. shell' = [shell EXCEPT ![s] = n]  BY <2>2, <2>3, <2>4
  <2> QED  BY <2>5, <2>6, <1>1, <1>5
<1>14. ~LoadWiki(s)
  <2>1. SUFFICES ASSUME LoadWiki(s)  PROVE FALSE  OBVIOUS
  <2>2. PICK own : shell' = [shell EXCEPT ![s].own = own, ![s].pc = "savewiki"]
    BY <2>1, <1>2 DEF LoadWiki
  <2>3. PICK m : m = [shell[s] EXCEPT !.own = own]  OBVIOUS
  <2>4. PICK n : n = [m EXCEPT !.pc = "savewiki"]  OBVIOUS
  <2>5. n.pc = "savewiki"  BY <1>5, <2>3, <2>4 DEF Processes
  <2>6. shell' = [shell EXCEPT ![s] = n]  BY <2>2, <2>3, <2>4
  <2> QED  BY <2>5, <2>6, <1>1, <1>5
<1>15. ~ShellDies(s)
  <2>1. SUFFICES ASSUME ShellDies(s)  PROVE FALSE  OBVIOUS
  <2>2. shell' = [shell EXCEPT ![s] = Idle]  BY <2>1 DEF ShellDies
  <2>3. Idle.told = "none"  BY DEF Idle
  <2> QED  BY <2>2, <2>3, <1>1, <1>5
<1> QED  BY <1>6, <1>7, <1>8, <1>9, <1>10, <1>11, <1>12, <1>13, <1>14, <1>15

LEMMA KeepsOwn ==
  ASSUME SettingsTypes, NEW s \in Shells, NEW d \in Dirs, home[d].toml, home'[d].toml,
         Prepare(s) \/ Adopt(s) \/ InstallHooks(s) \/ Erase(s)
  PROVE  registry' = registry /\ home'[d].own = home[d].own
<1>1. PICK r, h : r = shell[s] /\ h = home[r.cmd.dir]  OBVIOUS
<1>2. home \in [Dirs -> HomeStates]  BY DEF SettingsTypes
<1>3. registry' = registry  BY DEF Prepare, Adopt, InstallHooks, Erase
<1>4. s \in Working
  BY WorkerIs DEF Prepare, Adopt, InstallHooks, Erase
<1>5. r.cmd \in Askable /\ r.cmd.dir \in Dirs  BY <1>1, <1>4, WorkerIs
<1>6. h \in HomeStates  BY <1>1, <1>2, <1>5
<1>7. ASSUME NEW m, home' = [home EXCEPT ![r.cmd.dir] = m], h.toml /\ m.toml => m.own = h.own
      PROVE  home'[d].own = home[d].own
  <2>1. CASE d = r.cmd.dir
    <3>1. home'[d] = m /\ home[d] = h  BY <2>1, <1>1, <1>2, <1>5, <1>7
    <3> QED  BY <3>1, <1>7
  <2>2. CASE d # r.cmd.dir  BY <2>2, <1>2, <1>7
  <2> QED  BY <2>1, <2>2
<1>8. CASE Prepare(s)
  <2>1. PICK root, l : root = RootAsked(r.cmd) /\ l = Structure(h, root)  OBVIOUS
  <2>2. root \in Roots  BY <2>1, <1>5, AskedIs, RootsAssumption DEF RootAsked
  <2>3. l \in HomeStates /\ (h.toml => l.own = h.own)  BY <2>1, <2>2, <1>6, StructureIs
  <2>4. PICK rerun \in BOOLEAN : rerun = Rerun(registry, r.cmd)  BY DEF Rerun
  <2>5. \/ home' = [home EXCEPT ![r.cmd.dir] =
                      IF rerun THEN Structure(home[r.cmd.dir], RootAsked(r.cmd))
                      ELSE [Structure(home[r.cmd.dir], RootAsked(r.cmd)) EXCEPT !.git = TRUE]]
        \/ home' = [home EXCEPT ![r.cmd.dir].there = TRUE]
    BY <1>8, <1>1, <2>4, PreparesHome
  <2>7. CASE home' = [home EXCEPT ![r.cmd.dir] =
                        IF rerun THEN Structure(home[r.cmd.dir], RootAsked(r.cmd))
                        ELSE [Structure(home[r.cmd.dir], RootAsked(r.cmd)) EXCEPT !.git = TRUE]]
    <3>1. PICK g : g = [l EXCEPT !.git = TRUE]  OBVIOUS
    <3>2. PICK m : m = IF rerun THEN l ELSE g  OBVIOUS
    <3>3. m.own = l.own
      <4>1. g.own = l.own  BY <3>1, <2>3, GitIs
      <4> QED  BY <4>1, <3>2
    <3>4. home' = [home EXCEPT ![r.cmd.dir] = m]  BY <3>1, <3>2, <2>1, <2>7, <1>1
    <3> QED  BY <3>3, <3>4, <2>3, <1>3, <1>7
  <2>6. CASE home' = [home EXCEPT ![r.cmd.dir].there = TRUE]
    <3>1. PICK m : m = [h EXCEPT !.there = TRUE]  OBVIOUS
    <3>2. m.own = h.own  BY <3>1, <1>6, ThereIs
    <3>3. home' = [home EXCEPT ![r.cmd.dir] = m]  BY <3>1, <2>6, <1>1
    <3> QED  BY <3>2, <3>3, <1>3, <1>7
  <2> QED  BY <2>5, <2>6, <2>7, <1>3
<1>9. CASE Adopt(s)
  <2>1. PICK root : root = IF r.cmd.root # "" THEN r.cmd.root ELSE IF h.stated THEN h.root ELSE "content"
    OBVIOUS
  <2>2. \/ home' = home
        \/ RootAdmitted(h, root) /\ home' = [home EXCEPT ![r.cmd.dir] = Structure(h, root)]
    BY <1>9, <1>1, <2>1 DEF Adopt
  <2>3. CASE home' = home  BY <2>3, <1>3
  <2>4. CASE RootAdmitted(h, root) /\ home' = [home EXCEPT ![r.cmd.dir] = Structure(h, root)]
    <3>1. root \in Roots  BY <2>4, <1>6, HomeIs DEF RootAdmitted, HomeRecords
    <3>2. PICK m : m = Structure(h, root)  OBVIOUS
    <3>3. h.toml => m.own = h.own  BY <3>1, <3>2, <1>6, StructureIs
    <3>4. home' = [home EXCEPT ![r.cmd.dir] = m]  BY <3>2, <2>4
    <3> QED  BY <3>3, <3>4, <1>3, <1>7
  <2> QED  BY <2>2, <2>3, <2>4
<1>10. CASE InstallHooks(s)
  <2>1. home' = [home EXCEPT ![r.cmd.dir] = Hooked(h, r.cmd.name)] /\ r.pc = "hooks"
    BY <1>10, <1>1 DEF InstallHooks
  <2>2. r.cmd.name \in Titles  BY <2>1, <1>1, <1>4, <1>5, StageIs, AskedIs
  <2>3. PICK m : m = Hooked(h, r.cmd.name)  OBVIOUS
  <2>4. m.own = h.own  BY <2>2, <2>3, <1>6, HookedIs
  <2>5. home' = [home EXCEPT ![r.cmd.dir] = m]  BY <2>1, <2>3
  <2> QED  BY <2>4, <2>5, <1>3, <1>7
<1>11. CASE Erase(s)
  <2>1. home' = [home EXCEPT ![r.cmd.dir] = NoHome]  BY <1>11, <1>1 DEF Erase
  <2> QED  BY <2>1, <1>3, <1>7, NoHomeIs
<1> QED  BY <1>8, <1>9, <1>10, <1>11

LEMMA ShellsKeepTheirs ==
  ASSUME SettingsInv, ~troubled, NEW s \in Working,
         \/ Prepare(s) \/ Adopt(s) \/ Register(s) \/ InstallHooks(s) \/ TurnOnRebuild(s)
         \/ SetDefaultWiki(s) \/ SaveGlobal(s) \/ Unregister(s) \/ Erase(s)
         \/ SetGlobal(s) \/ Resolve(s) \/ LoadWiki(s) \/ SaveWiki(s) \/ ShellDies(s)
  PROVE  OthersKeepTheirs
<1>1. SettingsTypes /\ SettingsGood  BY DEF SettingsInv
<1>2. PICK r, h : r = shell[s] /\ h = home[r.cmd.dir]  OBVIOUS
<1>3. s \in Shells /\ r \in ShellKinds /\ r.cmd \in Askable /\ r.cmd.dir \in Dirs
  BY <1>1, <1>2, WorkerIs DEF Working
<1>4. SUFFICES ASSUME NEW d \in Dirs, NEW k \in SettingKeys, home[d].toml, home'[d].toml,
                      Effective(d, k)' # Effective(d, k)
               PROVE  Wrote(s, d, k)
  BY <1>3 DEF OthersKeepTheirs
<1>5. ~(registry' = registry /\ home'[d].own = home[d].own)
  BY <1>4 DEF Effective
<1>6. ~(registry' = registry /\ home' = home)  BY <1>5
<1>7. ~(Prepare(s) \/ Adopt(s) \/ InstallHooks(s) \/ Erase(s))
  BY <1>1, <1>3, <1>4, <1>5, KeepsOwn
<1>8. SaveGlobal(s) \/ SaveWiki(s)
  BY <1>6, <1>7 DEF Register, TurnOnRebuild, SetDefaultWiki, Unregister, SetGlobal, Resolve, LoadWiki, ShellDies
<1>9. CASE SaveGlobal(s)
  <2>1. /\ r.pc = "save" /\ registry' = r.copy /\ home' = home
        /\ IF r.then = "rest" THEN Tell(s, "ok") ELSE Proceed(s, r.then)
    BY <1>9, <1>2 DEF SaveGlobal
  <2>2. registry \in Registries /\ r.then \in {"rest", "hooks", "default"}
    BY <1>1, <1>3, KindIs DEF SettingsTypes, Processes
  <2>3. shell'[s] # r
    <3>1. shell'[s].pc \in {"rest", "hooks", "default"}  BY <2>1, <2>2, <1>1, <1>3, TellsIt, ProceedsTo
    <3> QED  BY <3>1, <2>1
  <2>4. FileChange(r, registry, h)  BY <2>1, <1>1, <1>2, ChangeIs
  <2>5. ChangesKeys(r, registry)  BY <2>2, <2>4, <1>3, ChangeDoes
  <2>6. k \notin DOMAIN home[d].own /\ registry'.set[k] # registry.set[k]
    <3>1. Effective(d, k)' = IF k \in DOMAIN home[d].own THEN home[d].own[k] ELSE registry'.set[k]
      BY <2>1 DEF Effective, Resolved
    <3>2. Effective(d, k) = IF k \in DOMAIN home[d].own THEN home[d].own[k] ELSE registry.set[k]
      BY DEF Effective, Resolved
    <3> QED  BY <3>1, <3>2, <1>4
  <2>7. \/ r.cmd.op = "setglobal" /\ k = r.cmd.key
        \/ r.cmd.op = "create" /\ k = "auto_rebuild"
    BY <2>1, <2>5, <2>6 DEF ChangesKeys
  <2> QED  BY <2>1, <2>3, <2>6, <2>7, <1>2 DEF Wrote
<1>10. CASE SaveWiki(s)
  <2>1. /\ r.pc = "savewiki" /\ registry' = registry
        /\ home' = [home EXCEPT ![r.cmd.dir].toml = TRUE, ![r.cmd.dir].stated = TRUE, ![r.cmd.dir].own = r.own]
        /\ Tell(s, "ok")
    BY <1>10, <1>2, <1>6 DEF SaveWiki
  <2>2. shell'[s] # r
    <3>1. shell'[s].pc = "rest"  BY <2>1, <1>1, <1>3, TellsIt
    <3> QED  BY <3>1, <2>1
  <2>3. home \in [Dirs -> HomeStates]  BY <1>1 DEF SettingsTypes
  <2>4. h \in HomeStates /\ h.own \in Owns /\ r.own \in Owns /\ r.cmd.value \in Values
    <3>1. h \in HomeStates  BY <2>3, <1>2, <1>3
    <3>2. h.own \in Owns  BY <3>1, HomeIs DEF HomeRecords
    <3>3. r.own \in Owns  BY <1>3, KindIs DEF Processes
    <3>4. r.cmd.value \in Values  BY <1>3, AskedIs
    <3> QED  BY <3>1, <3>2, <3>3, <3>4
  <2>5. PICK m : m = Saved(h, r.own)  OBVIOUS
  <2>6. m.own = r.own  BY <2>4, <2>5, SavedWikiIs
  <2>7. home' = [home EXCEPT ![r.cmd.dir] = m]  BY <2>1, <2>5, <1>2 DEF Saved
  <2>8. d = r.cmd.dir
    <3>1. SUFFICES ASSUME d # r.cmd.dir  PROVE FALSE  OBVIOUS
    <3>2. home'[d] = home[d]  BY <3>1, <2>3, <2>7
    <3> QED  BY <3>2, <2>1, <1>5
  <2>9. home[d] = h /\ home'[d].own = r.own  BY <2>3, <2>6, <2>7, <2>8, <1>2
  <2>10. WorksWell(r, registry, h)  BY <1>1, <1>2, <1>3 DEF SettingsGood
  <2>11. r.cmd.op = "setwiki"  BY <2>1, <1>1, <1>2, StageIs
  <2>12. r.cmd.key \in WikiKeys /\ r.own = SetWikiValue(h.own, r.cmd.key, r.cmd.value)
    BY <2>1, <2>10, <2>11 DEF WorksWell, SetsWell
  <2>13. /\ DOMAIN r.own = DOMAIN h.own \cup SectionOf(r.cmd.key)
         /\ \A x \in DOMAIN h.own : x # r.cmd.key => r.own[x] = h.own[x]
         /\ \A x \in SectionOf(r.cmd.key) \ DOMAIN h.own : x # r.cmd.key => r.own[x] = BuiltIn
    <3>1. PICK o, k1, v, n : o = h.own /\ k1 = r.cmd.key /\ v = r.cmd.value /\ n = r.own  OBVIOUS
    <3>2. o \in Owns /\ k1 \in WikiKeys /\ v \in Values /\ n = SetWikiValue(o, k1, v)
      BY <3>1, <2>4, <2>12
    <3>3. /\ DOMAIN n = DOMAIN o \cup SectionOf(k1)
          /\ \A x \in DOMAIN o : x # k1 => n[x] = o[x]
          /\ \A x \in SectionOf(k1) \ DOMAIN o : x # k1 => n[x] = BuiltIn
      <4>1. DOMAIN n = DOMAIN o \cup SectionOf(k1)  BY <3>2, OwnSetIs
      <4>2. /\ \A x \in DOMAIN o : x # k1 => n[x] = o[x]
            /\ \A x \in SectionOf(k1) \ DOMAIN o : x # k1 => n[x] = BuiltIn
        BY <3>2, KeySetAt
      <4> QED  BY <4>1, <4>2
    <3> QED  BY <3>1, <3>3
  <2>14. Effective(d, k)' = IF k \in DOMAIN r.own THEN r.own[k] ELSE registry.set[k]
    BY <2>1, <2>9 DEF Effective, Resolved
  <2>15. Effective(d, k) = IF k \in DOMAIN h.own THEN h.own[k] ELSE registry.set[k]
    BY <2>9 DEF Effective, Resolved
  <2>16. CASE k = r.cmd.key  BY <2>16, <2>1, <2>2, <2>8, <1>2 DEF Wrote
  <2>17. CASE k # r.cmd.key
    <3>1. k \in SectionOf(r.cmd.key) \ DOMAIN h.own
      BY <2>13, <2>14, <2>15, <2>17, <1>4
    <3>2. k \in DOMAIN r.own /\ r.own[k] = BuiltIn  BY <3>1, <2>13, <2>17
    <3>3. Effective(d, k)' = BuiltIn  BY <3>2, <2>14
    <3> QED  BY <3>1, <3>3, <2>1, <2>2, <2>8, <2>9, <1>2 DEF Wrote
  <2> QED  BY <2>16, <2>17
<1> QED  BY <1>8, <1>9, <1>10

LEMMA ShellsKeepPromises ==
  ASSUME SettingsInv, ~troubled, NEW s \in Working,
         Adopt(s) \/ TurnOnRebuild(s) \/ SaveGlobal(s) \/ SaveWiki(s),
         shell'[s].pc = "rest" /\ shell'[s].told = "ok",
         NEW c, c = shell[s].cmd, NEW again, again = shell[s].again
  PROVE  Promised(c, again)' /\ RootIsThere(c)'
<1>1. SettingsTypes /\ SettingsGood  BY DEF SettingsInv
<1>2. PICK r, h : r = shell[s] /\ h = home[c.dir]  OBVIOUS
<1>3. s \in Shells /\ r \in ShellKinds /\ c \in Askable /\ c.dir \in Dirs /\ r.cmd = c /\ r.again = again
  BY <1>1, <1>2, WorkerIs DEF Working
<1>4. WorksWell(r, registry, h)  BY <1>1, <1>2, <1>3 DEF SettingsGood
<1>5. home \in [Dirs -> HomeStates] /\ registry \in Registries /\ h \in HomeStates
  BY <1>1, <1>2, <1>3 DEF SettingsTypes
<1>6. ASSUME c.op = "create", EnteredIn(r, registry'), home' = home, h.toml, HookedIn(r, h),
             registry'.set["auto_rebuild"] = 1, c.flag => again \/ registry'.default = c.name,
             RootedIn(r, h)
      PROVE  Promised(c, again)' /\ RootIsThere(c)'
  <2>1. home'[c.dir] = h  BY <1>6, <1>2
  <2>2. Entry(c.name, c.dir) \in Range(registry'.entries)  BY <1>6, <1>3 DEF EnteredIn
  <2>3. h.git => h.hooks \in {c.name, UserHook}  BY <1>6, <1>3 DEF HookedIn
  <2>4. Promised(c, again)'  BY <2>1, <2>2, <2>3, <1>6 DEF Promised
  <2>5. RootIsThere(c)'  BY <2>1, <1>6, <1>3 DEF RootIsThere, RootedIn
  <2> QED  BY <2>4, <2>5
<1>7. CASE Adopt(s)
  <2>1. PICK root : root = IF c.root # "" THEN c.root ELSE IF h.stated THEN h.root ELSE "content"
    OBVIOUS
  <2>2. r.pc = "adopt" /\ c.op = "adopt"
    <3>1. r.pc = "adopt"  BY <1>7, <1>2 DEF Adopt
    <3> QED  BY <3>1, <1>1, <1>2, <1>3, StageIs
  <2>3. ~Tell(s, "refused") /\ ~Proceed(s, "register")
    BY <1>1, <1>3, TellsIt, ProceedsTo
  <2>4. /\ RootAdmitted(h, root) /\ home' = [home EXCEPT ![c.dir] = Structure(h, root)]
        /\ IsRegistered(registry, c.name) /\ registry' = registry
    BY <1>7, <1>2, <1>3, <2>1, <2>3 DEF Adopt
  <2>5. root \in h.roots /\ root \in Roots  BY <2>4, <1>5, HomeIs DEF RootAdmitted, HomeRecords
  <2>6. PICK m : m = Structure(h, root)  OBVIOUS
  <2>7. /\ m \in HomeStates /\ m.toml /\ h.roots \subseteq m.roots
        /\ h.toml => m.root = h.root
        /\ ~h.toml => m.root = root
    BY <2>5, <2>6, <1>5, StructureIs
  <2>8. home'[c.dir] = m  BY <2>4, <2>6, <1>3, <1>5
  <2>9. c.root = "" => m.root \in m.roots
    <3>1. SUFFICES ASSUME c.root = ""  PROVE m.root \in m.roots  OBVIOUS
    <3>2. root = h.root  BY <3>1, <2>1, <1>5, HomeIs
    <3> QED  BY <3>2, <2>5, <2>7
  <2>10. IsRegistered(registry, c.name)'  BY <2>4 DEF IsRegistered, Named
  <2>11. Promised(c, again)'  BY <2>2, <2>7, <2>8, <2>10 DEF Promised
  <2>12. RootIsThere(c)'  BY <2>8, <2>9 DEF RootIsThere
  <2> QED  BY <2>11, <2>12
<1>8. CASE TurnOnRebuild(s)
  <2>1. r.pc = "rebuild" /\ c.op = "create"
    <3>1. r.pc = "rebuild"  BY <1>8, <1>2 DEF TurnOnRebuild
    <3> QED  BY <3>1, <1>1, <1>2, <1>3, StageIs
  <2>2. \A g, then : ~Hold(s, g, then)  BY <1>1, <1>3, HoldsIt
  <2>3. \A pc : Proceed(s, pc) => pc = "rest"  BY <1>1, <1>3, ProceedsTo
  <2>4. /\ registry.set["auto_rebuild"] # BuiltIn /\ AfterProvision(r) = "rest"
        /\ registry' = registry /\ home' = home
    BY <1>8, <1>2, <2>2, <2>3 DEF TurnOnRebuild
  <2>5. registry.set["auto_rebuild"] = 1  BY <2>4, <1>5, RegistryIs, KeysAre
  <2>6. c.flag => again  BY <2>4, <1>3 DEF AfterProvision
  <2>7. CreatesWell(r, registry, h)  BY <2>1, <1>3, <1>4 DEF WorksWell
  <2>8. h.toml /\ RootedIn(r, h) /\ EnteredIn(r, registry) /\ HookedIn(r, h)
    BY <2>1, <2>7 DEF CreatesWell
  <2> QED  BY <2>1, <2>4, <2>5, <2>6, <2>8, <1>6
<1>9. CASE SaveGlobal(s)
  <2>1. /\ r.pc = "save" /\ registry' = r.copy /\ home' = home
        /\ r.then = "rest" \/ Proceed(s, r.then)
    BY <1>9, <1>2 DEF SaveGlobal
  <2>2. r.then = "rest"  BY <2>1, <1>1, <1>3, ProceedsTo
  <2>3. FileChange(r, registry, h)  BY <2>1, <1>1, <1>2, ChangeIs
  <2>4. home'[c.dir] = h  BY <2>1, <1>2
  <2>5. c.op \notin {"setglobal", "setwiki"} => c.name \in Titles  BY <1>3, AskedIs
  <2>6. CASE c.op = "adopt"
    <3>1. Enters(r, registry) /\ h.toml /\ RootedIn(r, h)  BY <2>6, <2>3, <1>3 DEF FileChange
    <3>2. IsRegistered(r.copy, c.name)
      BY <3>1, <2>5, <2>6, <1>3, <1>5, EnteredIs DEF Enters
    <3>3. IsRegistered(registry, c.name)'  BY <3>2, <2>1 DEF IsRegistered, Named
    <3>4. Promised(c, again)'  BY <3>1, <3>3, <2>4, <2>6 DEF Promised
    <3>5. RootIsThere(c)'  BY <3>1, <2>4, <2>6, <1>3 DEF RootIsThere, RootedIn
    <3> QED  BY <3>4, <3>5
  <2>7. CASE c.op = "create"
    <3>1. h.toml /\ RootedIn(r, h) /\ (EnteredIn(r, registry) /\ HookedIn(r, h)) /\ (Turns(r, registry) \/ Points(r, registry))
      BY <2>2, <2>3, <2>7, <1>3 DEF FileChange, Enters
    <3>2. CASE Turns(r, registry)
      <4>1. r.copy.entries = registry.entries /\ r.copy.set["auto_rebuild"] = 1 /\ r.then = AfterProvision(r)
        BY <3>2, <1>5, TurnedIs DEF Turns
      <4>2. EnteredIn(r, registry')  BY <4>1, <3>1, <2>1 DEF EnteredIn
      <4>3. c.flag => again  BY <4>1, <2>2, <1>3 DEF AfterProvision
      <4> QED  BY <4>1, <4>2, <4>3, <3>1, <2>1, <2>7, <1>6
    <3>3. CASE Points(r, registry)
      <4>1. r.copy = [registry EXCEPT !.default = c.name] /\ registry.set["auto_rebuild"] = 1
        BY <3>3, <2>7, <1>3 DEF Points
      <4>2. r.copy.default = c.name /\ r.copy.entries = registry.entries /\ r.copy.set = registry.set
        BY <4>1, <2>5, <2>7, <1>5, PointedIs
      <4>3. EnteredIn(r, registry')  BY <4>2, <3>1, <2>1 DEF EnteredIn
      <4> QED  BY <4>1, <4>2, <4>3, <3>1, <2>1, <2>7, <1>6
    <3> QED  BY <3>1, <3>2, <3>3
  <2>8. CASE c.op \notin {"create", "adopt"}
    <3>1. RootIsThere(c)'  BY <2>8 DEF RootIsThere
    <3>2. CASE c.op = "default"
      <4>1. r.copy = [registry EXCEPT !.default = c.name]  BY <3>2, <2>3, <1>3 DEF FileChange, Points
      <4>2. registry'.default = c.name  BY <4>1, <2>1, <2>5, <3>2, <1>5, PointedIs
      <4>3. Promised(c, again)'  BY <4>2, <3>2 DEF Promised
      <4> QED  BY <3>1, <4>3
    <3>3. CASE c.op = "remove"
      <4>1. r.copy = Struck(registry, c.name) /\ (c.flag => ~h.there)
        BY <3>3, <2>3, <1>3 DEF FileChange, Strikes
      <4>2. ~IsRegistered(r.copy, c.name)  BY <4>1, <2>5, <3>3, <1>5, StruckIs
      <4>3. ~IsRegistered(registry, c.name)'  BY <4>2, <2>1 DEF IsRegistered, Named
      <4>4. Promised(c, again)'  BY <4>1, <4>3, <3>3, <2>4 DEF Promised
      <4> QED  BY <3>1, <4>4
    <3>4. CASE c.op = "setglobal"
      <4>1. SetsKey(r, registry)  BY <3>4, <2>3, <1>3 DEF FileChange
      <4>2. c.key # "default_wiki" => registry'.set[c.key] = c.value
        BY <4>1, <2>1, <1>3, <1>5, KeySetIs DEF SetsKey
      <4>3. c.key # "default_wiki" => GetShows(c.key)' = c.value
        BY <4>2 DEF GetShows, Resolved
      <4>4. Promised(c, again)'  BY <4>3, <3>4 DEF Promised
      <4> QED  BY <3>1, <4>4
    <3> QED  BY <2>3, <2>8, <1>3, <3>2, <3>3, <3>4 DEF FileChange
  <2> QED  BY <2>6, <2>7, <2>8
<1>10. CASE SaveWiki(s)
  <2>1. r.pc = "savewiki" /\ c.op = "setwiki"
    <3>1. r.pc = "savewiki"  BY <1>10, <1>2 DEF SaveWiki
    <3> QED  BY <3>1, <1>1, <1>2, <1>3, StageIs
  <2>2. ~Tell(s, "refused")  BY <1>1, <1>3, TellsIt
  <2>3. home' = [home EXCEPT ![c.dir].toml = TRUE, ![c.dir].stated = TRUE, ![c.dir].own = r.own]
    BY <1>10, <1>2, <1>3, <2>2 DEF SaveWiki
  <2>4. r.own \in Owns /\ h.own \in Owns /\ c.value \in Values
    <3>1. r.own \in Owns  BY <1>3, KindIs DEF Processes
    <3>2. h.own \in Owns  BY <1>5, HomeIs DEF HomeRecords
    <3>3. c.value \in Values  BY <1>3, AskedIs
    <3> QED  BY <3>1, <3>2, <3>3
  <2>5. PICK m : m = Saved(h, r.own)  OBVIOUS
  <2>6. m.own = r.own  BY <2>4, <2>5, <1>5, SavedWikiIs
  <2>7. home' = [home EXCEPT ![c.dir] = m]  BY <2>3, <2>5, <1>2 DEF Saved
  <2>8. home'[c.dir].own = r.own  BY <2>6, <2>7, <1>3, <1>5
  <2>9. c.key \in WikiKeys /\ r.own = SetWikiValue(h.own, c.key, c.value)
    BY <2>1, <1>3, <1>4 DEF WorksWell, SetsWell
  <2>10. PICK o, k1, v, n : o = h.own /\ k1 = c.key /\ v = c.value /\ n = r.own  OBVIOUS
  <2>11. o \in Owns /\ k1 \in WikiKeys /\ v \in Values /\ n = SetWikiValue(o, k1, v)
    BY <2>10, <2>4, <2>9
  <2>12. k1 \in DOMAIN n /\ n[k1] = v
    <3>1. DOMAIN n = DOMAIN o \cup SectionOf(k1) /\ k1 \in SectionOf(k1)  BY <2>11, OwnSetIs
    <3>2. n[k1] = v  BY <2>11, KeySetAt
    <3> QED  BY <3>1, <3>2
  <2>13. Effective(c.dir, c.key)' = c.value
    BY <2>8, <2>10, <2>12 DEF Effective, Resolved
  <2>14. Promised(c, again)'  BY <2>1, <2>13 DEF Promised
  <2>15. RootIsThere(c)'  BY <2>1 DEF RootIsThere
  <2> QED  BY <2>14, <2>15
<1> QED  BY <1>7, <1>8, <1>9, <1>10

LEMMA SettingsMoves ==
  ASSUME SettingsInv, [NextSettings]_settingsVars, ~troubled', ~(UNCHANGED settingsVars)
  PROVE  OthersKeepTheirs /\ KeepsPromise
<1>1. SettingsTypes  BY DEF SettingsInv
<1>2. PICK s \in Shells :
        \/ \E c \in Commands : Begin(s, c)
        \/ Prepare(s) \/ Adopt(s) \/ Register(s) \/ InstallHooks(s) \/ TurnOnRebuild(s)
        \/ SetDefaultWiki(s) \/ SaveGlobal(s) \/ Unregister(s) \/ Erase(s)
        \/ SetGlobal(s) \/ Resolve(s) \/ LoadWiki(s) \/ SaveWiki(s) \/ ShellDies(s)
  BY DEF NextSettings
<1>3. \A o \in Shells : o # s => shell'[o] = shell[o]
  BY <1>1, <1>2 DEF SettingsTypes, Begin, Prepare, Adopt, Register, InstallHooks, TurnOnRebuild, SetDefaultWiki,
     SaveGlobal, Unregister, Erase, SetGlobal, Resolve, LoadWiki, SaveWiki, ShellDies, Tell, Proceed, Hold
<1>4. CASE \E c \in Commands : Begin(s, c)
  <2>1. UNCHANGED <<registry, home>> /\ s \notin Working  BY <1>4 DEF Begin
  <2>2. OthersKeepTheirs  BY <2>1 DEF OthersKeepTheirs, Effective
  <2>3. \A o \in Working : shell'[o].pc # "rest"
    BY <2>1, <1>3 DEF Working
  <2> QED  BY <2>2, <2>3 DEF KeepsPromise
<1>5. CASE ~\E c \in Commands : Begin(s, c)
  <2>1. \/ Prepare(s) \/ Adopt(s) \/ Register(s) \/ InstallHooks(s) \/ TurnOnRebuild(s)
        \/ SetDefaultWiki(s) \/ SaveGlobal(s) \/ Unregister(s) \/ Erase(s)
        \/ SetGlobal(s) \/ Resolve(s) \/ LoadWiki(s) \/ SaveWiki(s) \/ ShellDies(s)
    BY <1>2, <1>5
  <2>2. s \in Working
    BY <2>1, <1>1, WorkerIs DEF Prepare, Adopt, Register, InstallHooks, TurnOnRebuild, SetDefaultWiki,
     SaveGlobal, Unregister, Erase, SetGlobal, Resolve, LoadWiki, SaveWiki, ShellDies
  <2>3. ~troubled
    BY <2>1 DEF Prepare, Adopt, Register, InstallHooks, TurnOnRebuild, SetDefaultWiki, settingsHistory,
     SaveGlobal, Unregister, Erase, SetGlobal, Resolve, LoadWiki, SaveWiki, ShellDies
  <2>4. OthersKeepTheirs  BY <2>1, <2>2, <2>3, ShellsKeepTheirs
  <2>5. KeepsPromise
    <3>1. SUFFICES ASSUME NEW o \in Working, shell'[o].pc = "rest", shell'[o].told = "ok",
                          NEW c \in {shell[o].cmd}, NEW again \in {shell[o].again}
                   PROVE  Promised(c, again)' /\ RootIsThere(c)'
      BY DEF KeepsPromise
    <3>2. o = s  BY <3>1, <1>3 DEF Working
    <3>3. Adopt(s) \/ TurnOnRebuild(s) \/ SaveGlobal(s) \/ SaveWiki(s)
      BY <3>1, <3>2, <2>1, <2>2, <1>1, SaysOk
    <3> QED  BY <3>1, <3>2, <3>3, <2>2, <2>3, ShellsKeepPromises
  <2> QED  BY <2>4, <2>5
<1> QED  BY <1>4, <1>5

(* However the commands of several processes interleave and wherever they  *)
(* die, the registry stays sound, a key is moved by nobody but its setter, *)
(* and a command that reported success left what it promises, until two    *)
(* commands that save the same file overlap (registry.rs, config.rs).      *)
THEOREM SettingsStand == SettingsSpec => SettingsHold
<1>1. InitSettings => SettingsInv  BY SettingsStart
<1>2. SettingsInv /\ [NextSettings]_settingsVars => SettingsInv'  BY SettingsStep
<1>3. SettingsInv => RegistryIsSound  BY RegistryStaysSound
<1>4. SettingsInv /\ [NextSettings]_settingsVars
        => [~troubled' => OthersKeepTheirs /\ KeepsPromise]_settingsVars
  BY SettingsMoves
<1> QED  BY <1>1, <1>2, <1>3, <1>4, PTL DEF SettingsSpec, SettingsHold

=============================================================================

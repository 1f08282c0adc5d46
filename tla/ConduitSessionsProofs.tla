----------------------- MODULE ConduitSessionsProofs -----------------------
(***************************************************************************)
(* Proofs about ConduitSessions, for every tree, every set of bodies and   *)
(* any number of sessions.                                                 *)
(*                                                                         *)
(* What survives any race or death is a property of single pages: a page   *)
(* is sound (Sound) when its seal and its status agree and both are backed *)
(* by a sign-off and a commit, and every page a call has read or decided   *)
(* to write is as sound as those of the wiki, since sign-offs and commits  *)
(* are never taken back.  What holds until calls overlap rests on there    *)
(* being one call (Alone), whose reading differs from the wiki in nothing  *)
(* but bodies edited under it (Fresh), and while nothing is edited in      *)
(* nothing at all (Exact).                                                 *)
(***************************************************************************)
EXTENDS ConduitSessions, TLAPS

Landed(t) == \E n \in DOMAIN main[ProjectOf(t)] : main[ProjectOf(t)][n].task = t

(* A page as it may stand for item i.                                      *)
Sound(i, p) ==
  /\ p \in Page
  /\ p.status \in SignedOpen \cup {"done"} => p.seal # NoSeal
  /\ p.status \in {"absent", "draft"} => p.seal = NoSeal
  /\ p.seal \in signed[i] \cup {NoSeal}
  /\ i \in Tasks /\ p.status = "done" => Landed(i)

Writes == UNION {[D -> Page] : D \in SUBSET Items}

Calls == [verb : Verb \cup {"none"}, item : Items \cup {NoSeal}, seen : Seq(Page), todo : Writes,
          at : {"idle", "load", "decide", "gate", "write"}]

Commits == [task : Tasks, body : Bodies]

Types ==
  /\ page \in [Items -> Page]
  /\ branch \in [Tasks -> {"absent", "even", "ahead"}]
  /\ main \in [Projects -> Seq(Commits)]
  /\ call \in [Sessions -> Calls]
  /\ signed \in [Items -> SUBSET Bodies]

(* What each stage of a call has read, and what it still has to write.     *)
Shape(c) ==
  /\ c.at = "idle" => c = Idle
  /\ c.at # "idle" => /\ c.verb \in Verb /\ c.item \in Items
                      /\ c.verb \in {"claim", "complete"} => c.item \in Tasks
                      /\ c.verb = "close" => c.item \notin Tasks
  /\ c.at # "write" => DOMAIN c.todo = {}
  /\ c.at \in {"idle", "write"} => c.seen = << >>
  /\ c.at = "load" => Len(c.seen) < Len(Order)
  /\ c.at \in {"decide", "gate"} => Len(c.seen) = Len(Order)
  /\ c.at = "gate" => LET p == Corpus(c.seen)[c.item] IN
                      c.verb = "complete" /\ Intact(p) /\ p.status = "in-progress"

CallSound(c) ==
  /\ Shape(c)
  /\ \A n \in DOMAIN c.seen : Sound(Order[n], c.seen[n])
  /\ \A j \in DOMAIN c.todo : Sound(j, c.todo[j])

AllSound ==
  /\ \A i \in Items : Sound(i, page[i])
  /\ \A s \in Sessions : CallSound(call[s])
  /\ MergedWasSigned

Alone == \A s, o \in Sessions : Busy(s) /\ Busy(o) => s = o

ButBody(p, q) == p.status = q.status /\ p.seal = q.seal /\ p.repo = q.repo

(* What a call has read is the wiki but for bodies, and it writes no other *)
(* status on a closed item.                                                *)
Fresh(c) ==
  /\ \A n \in DOMAIN c.seen : ButBody(c.seen[n], page[Order[n]])
  /\ \A j \in DOMAIN c.todo : page[j].status \in Terminal => c.todo[j].status = page[j].status

(* What a call has read is the wiki.                                       *)
Exact(c) == \A n \in DOMAIN c.seen : c.seen[n] = page[Order[n]]

OneAtATime == "overlap" \notin trouble => Alone /\ \A s \in Sessions : Fresh(call[s])

-----------------------------------------------------------------------------
(* The data.                                                               *)

LEMMA PositionIs ==
  ASSUME NEW i \in Items
  PROVE  Position(i) \in 1..Len(Order) /\ Order[Position(i)] = i
<1>1. \E n \in DOMAIN Order : Order[n] = i
  BY OrderListsItems DEF Range
<1>2. Position(i) \in DOMAIN Order /\ Order[Position(i)] = i
  BY <1>1 DEF Position
<1>3. QED
  BY <1>2, OrderListsItems

LEMMA WritesAre ==
  /\ \A f \in Writes : DOMAIN f \subseteq Items /\ \A j \in DOMAIN f : f[j] \in Page
  /\ \A D \in SUBSET Items : \A f : f \in [D -> Page] => f \in Writes
BY DEF Writes

LEMMA IdleIs ==
  /\ Idle \in Calls /\ DOMAIN Idle.todo = {} /\ Idle.seen = << >> /\ Idle.at = "idle"
  /\ \A c \in Calls : c.at # "idle" => c # Idle
<1>1. DOMAIN << >> = {} /\ << >> \in [{} -> Page]
  OBVIOUS
<1>2. << >> \in Writes
  BY <1>1, WritesAre
<1>3. << >> \in Seq(Page)
  OBVIOUS
<1>4. QED
  BY <1>1, <1>2, <1>3 DEF Idle, Calls

(* The corpus of a call that has read it all: the pages it saw, by item.   *)
LEMMA CorpusIs ==
  ASSUME NEW c \in Calls, CallSound(c), c.at \in {"decide", "gate"}
  PROVE  /\ Corpus(c.seen) \in [Items -> Page]
         /\ \A i \in Items : Sound(i, Corpus(c.seen)[i])
         /\ Fresh(c) => \A i \in Items : ButBody(Corpus(c.seen)[i], page[i])
<1>1. c.seen \in Seq(Page) /\ Len(c.seen) = Len(Order)
  BY DEF Calls, CallSound, Shape
<1>2. ASSUME NEW i \in Items
      PROVE  /\ Position(i) \in DOMAIN c.seen /\ Corpus(c.seen)[i] = c.seen[Position(i)]
             /\ Order[Position(i)] = i
  BY <1>1, PositionIs DEF Corpus
<1>3. \A i \in Items : c.seen[Position(i)] \in Page
  BY <1>1, <1>2
<1>4. QED
  BY <1>2, <1>3 DEF Corpus, CallSound, Fresh

(* A sound page stays sound: sign-offs and commits are not taken back.     *)
LEMMA SoundStays ==
  ASSUME NEW i \in Items, NEW p, Sound(i, p), signed[i] \subseteq signed'[i],
         \A t \in Tasks : Landed(t) => Landed(t)'
  PROVE  Sound(i, p)'
BY DEF Sound

LEMMA CallStays ==
  ASSUME NEW c \in Calls, CallSound(c), \A i \in Items : signed[i] \subseteq signed'[i],
         \A t \in Tasks : Landed(t) => Landed(t)'
  PROVE  CallSound(c)'
<1>1. \A n \in DOMAIN c.seen : Order[n] \in Items
  BY OrderListsItems DEF CallSound, Shape, Calls
<1>2. \A j \in DOMAIN c.todo : j \in Items
  BY WritesAre DEF Calls
<1>3. \A n \in DOMAIN c.seen : Sound(Order[n], c.seen[n])'
  BY <1>1, SoundStays DEF CallSound
<1>4. \A j \in DOMAIN c.todo : Sound(j, c.todo[j])'
  BY <1>2, SoundStays DEF CallSound
<1>5. Shape(c)'
  BY DEF CallSound, Shape, Idle, Corpus, Position, Intact
<1>6. QED
  BY <1>3, <1>4, <1>5 DEF CallSound

-----------------------------------------------------------------------------
(* What a verb makes of a sound page is sound.                             *)
LEMMA Rewrites ==
  ASSUME NEW j \in Items, NEW p, Sound(j, p)'
  PROVE  /\ Sound(j, Bounced(p))' /\ Sound(j, Moved(p, "cancelled"))' /\ Sound(j, [p EXCEPT !.repo = TRUE])'
         /\ p.seal # NoSeal => Sound(j, Moved(p, "in-progress"))'
         /\ p.seal # NoSeal /\ (j \in Tasks => Landed(j)') => Sound(j, Moved(p, "done"))'
         /\ \A b \in Bodies : p.status = "absent" => Sound(j, [p EXCEPT !.status = "draft", !.body = b])'
         /\ p.body \in signed'[j] => Sound(j, [p EXCEPT !.status = "ready", !.seal = p.body])'
BY NoSealIsNone DEF Sound, Page, Bounced, Moved, SignedOpen, Status

(* What a call decides to write, from what it read: sound pages, and no    *)
(* other status for a closed item.                                         *)
Proper(v, todo) ==
  /\ todo \in Writes
  /\ \A j \in DOMAIN todo : /\ Sound(j, todo[j])
                            /\ v[j].status \in Terminal => todo[j].status = v[j].status

LEMMA JustIs ==
  ASSUME NEW i \in Items, NEW p \in Page
  PROVE  Just(i, p) \in Writes /\ DOMAIN Just(i, p) = {i} /\ Just(i, p)[i] = p
<1>1. Just(i, p) \in [{i} -> Page] /\ {i} \in SUBSET Items
  BY DEF Just
<1>2. QED
  BY <1>1, WritesAre DEF Just

LEMMA JustProper ==
  ASSUME NEW v, NEW i \in Items, NEW p, Sound(i, p)', v[i].status \in Terminal => p.status = v[i].status
  PROVE  Proper(v, Just(i, p))'
<1>1. p \in Page
  BY DEF Sound
<1>2. Just(i, p) \in Writes /\ DOMAIN Just(i, p) = {i} /\ Just(i, p)[i] = p
  BY <1>1, JustIs
<1>3. \A j \in DOMAIN Just(i, p) : Sound(j, Just(i, p)[j])'
                                   /\ (v[j].status \in Terminal => Just(i, p)[j].status = v[j].status)
  BY <1>2
<1>4. QED
  BY <1>2, <1>3 DEF Proper

LEMMA CascadesProper ==
  ASSUME NEW v, \A j \in Items : Sound(j, v[j])', NEW i \in Items
  PROVE  Proper(v, BounceWrites(v, i))' /\ Proper(v, CancelWrites(v, i))'
<1>1. ASSUME NEW D \in SUBSET Items, NEW f, f = [j \in D |-> f[j]], \A j \in D : Sound(j, f[j])'
      PROVE  f \in Writes
  <2>1. f \in [D -> Page]
    BY <1>1 DEF Sound
  <2>2. QED
    BY <2>1, WritesAre
<1>2. \A spared : Reached(v, i, spared) \in SUBSET Items
  BY DEF Reached, Subtree
<1>3. Proper(v, BounceWrites(v, i))'
  <2> DEFINE D == Reached(v, i, (Status \cup {"absent"}) \ SignedOpen)
  <2>1. \A j \in D : j \in Items /\ Sound(j, Bounced(v[j]))'
    BY <1>2, Rewrites
  <2>2. \A j \in D : v[j].status \notin Terminal
    BY <1>2 DEF Reached, Terminal, SignedOpen, Status, Sound, Page
  <2>3. DOMAIN BounceWrites(v, i) = D /\ \A j \in D : BounceWrites(v, i)[j] = Bounced(v[j])
    BY DEF BounceWrites
  <2>4. BounceWrites(v, i) \in Writes
    BY <1>1, <1>2, <2>1, <2>3 DEF BounceWrites
  <2>5. QED
    BY <2>1, <2>2, <2>3, <2>4 DEF Proper
<1>4. Proper(v, CancelWrites(v, i))'
  <2> DEFINE D == Reached(v, i, Terminal \cup {"absent"})
  <2>1. \A j \in D : j \in Items /\ Sound(j, Moved(v[j], "cancelled"))'
    BY <1>2, Rewrites
  <2>2. \A j \in D : v[j].status \notin Terminal
    BY DEF Reached
  <2>3. DOMAIN CancelWrites(v, i) = D /\ \A j \in D : CancelWrites(v, i)[j] = Moved(v[j], "cancelled")
    BY DEF CancelWrites
  <2>4. CancelWrites(v, i) \in Writes
    BY <1>1, <1>2, <2>1, <2>3 DEF CancelWrites
  <2>5. QED
    BY <2>1, <2>2, <2>3, <2>4 DEF Proper
<1>5. QED
  BY <1>3, <1>4

LEMMA ProjectIs ==
  /\ \A t \in Tasks : ProjectOf(t) \in Projects /\ Parent[t] \in Stories
  /\ \A s \in Stories : Parent[s] \in Projects
  /\ \A i \in Items \ Projects : Parent[i] \in Items /\ Parent[i] # i
BY ParentIsOneClassUp, ClassesDisjoint DEF ProjectOf, Items

LEMMA ClaimProper ==
  ASSUME NEW v, \A j \in Items : Sound(j, v[j])', NEW t \in Tasks, v[t].seal # NoSeal, v[t].status = "ready"
  PROVE  Proper(v, ClaimWrites(v, t))'
<1> DEFINE D == {t} \cup {p \in {ProjectOf(t)} : ~v[p].repo}
           W(j) == IF j = t THEN Moved(v[t], "in-progress") ELSE [v[j] EXCEPT !.repo = TRUE]
<1>1. D \in SUBSET Items /\ t \in Items
  BY ProjectIs DEF Items
<1>2. \A j \in D : Sound(j, W(j))'
  BY <1>1, Rewrites
<1>3. \A j \in D : v[j].status \in Terminal => W(j).status = v[j].status
  BY <1>1 DEF Terminal, Sound, Page
<1>4. DOMAIN ClaimWrites(v, t) = D /\ \A j \in D : ClaimWrites(v, t)[j] = W(j)
  BY DEF ClaimWrites
<1>5. ClaimWrites(v, t) \in [D -> Page]
  BY <1>2, <1>4 DEF ClaimWrites, Sound
<1>6. ClaimWrites(v, t) \in Writes
  BY <1>1, <1>5, WritesAre
<1>7. QED
  BY <1>2, <1>3, <1>4, <1>6 DEF Proper

(* Session s's call becomes another proper one.                            *)
Becomes(s, c) ==
  /\ c \in Calls /\ call' = [call EXCEPT ![s] = c]
  /\ CallSound(c)'
  /\ Fresh(call[s]) => Fresh(c)'
  /\ Exact(call[s]) => Exact(c)'

LEMMA IdleBecomes ==
  ASSUME NEW s \in Sessions, call' = [call EXCEPT ![s] = Idle] PROVE Becomes(s, Idle)
<1>1. Shape(Idle)'
  BY IdleIs DEF Shape
<1>2. CallSound(Idle)' /\ Fresh(Idle)' /\ Exact(Idle)'
  BY <1>1, IdleIs DEF CallSound, Fresh, Exact
<1>3. QED
  BY <1>2, IdleIs DEF Becomes

LEMMA WriteBecomes ==
  ASSUME Types, NEW s \in Sessions, call[s].at \in {"decide", "gate"}, CallSound(call[s]),
         NEW v, v = Corpus(call[s].seen), NEW todo, Proper(v, todo)', WriteNext(s, todo), page' = page
  PROVE  \E c \in Calls : Becomes(s, c)
<1>1. PICK c : c = [call[s] EXCEPT !.todo = todo, !.seen = << >>, !.at = "write"]
  OBVIOUS
<1>2. call[s] \in Calls /\ todo \in Writes /\ << >> \in Seq(Page)
  BY DEF Types, Proper
<1>3. c \in Calls /\ c.todo = todo /\ c.seen = << >> /\ c.at = "write" /\ c.verb = call[s].verb
      /\ c.item = call[s].item
  BY <1>1, <1>2 DEF Calls
<1>4. call' = [call EXCEPT ![s] = c]
  <2>1. call \in [Sessions -> Calls]
    BY DEF Types
  <2>2. call' = [call EXCEPT ![s] = [call[s] EXCEPT !.todo = todo, !.seen = << >>, !.at = "write"]]
    BY <2>1 DEF WriteNext
  <2>3. QED
    BY <1>1, <2>2
<1>5. Shape(c)'
  BY <1>3 DEF CallSound, Shape
<1>6. CallSound(c)'
  BY <1>3, <1>5 DEF CallSound, Proper
<1>7. ASSUME Fresh(call[s]) PROVE Fresh(c)'
  <2>1. \A i \in Items : ButBody(v[i], page[i])
    BY <1>2, <1>7, CorpusIs
  <2>2. DOMAIN todo \subseteq Items
    BY <1>2, WritesAre
  <2>3. \A j \in DOMAIN todo : page[j].status \in Terminal => todo[j].status = page[j].status
    BY <2>1, <2>2 DEF Proper, ButBody
  <2>4. QED
    BY <1>3, <2>3 DEF Fresh
<1>8. DOMAIN c.seen = {}
  BY <1>3
<1>9. Exact(c)'
  BY <1>8 DEF Exact
<1>10. QED
  BY <1>3, <1>4, <1>6, <1>7, <1>9 DEF Becomes

LEMMA DecideBecomes ==
  ASSUME Types, AllSound, NEW s \in Sessions, Decide(s)
  PROVE  /\ \E c \in Calls : Becomes(s, c)
         /\ UNCHANGED <<page, main, trouble>> /\ branch' \in [Tasks -> {"absent", "even", "ahead"}]
         /\ signed' \in [Items -> SUBSET Bodies] /\ \A i \in Items : signed[i] \subseteq signed'[i]
<1>1. /\ call[s].at = "decide" /\ call[s] \in Calls /\ CallSound(call[s])
      /\ UNCHANGED <<page, main, trouble>>
  BY DEF Decide, Types, AllSound
<1>2. PICK v : v = Corpus(call[s].seen)
  OBVIOUS
<1>3. PICK i \in Items : i = call[s].item
  BY <1>1 DEF CallSound, Shape
<1>4. v \in [Items -> Page] /\ \A j \in Items : Sound(j, v[j])
  BY <1>1, <1>2, CorpusIs
<1>5. ASSUME NEW t \in Tasks, Landed(t) PROVE Landed(t)'
  BY <1>1, <1>5 DEF Landed, ProjectOf
<1>6. ASSUME \A j \in Items : signed[j] \subseteq signed'[j] PROVE \A j \in Items : Sound(j, v[j])'
  BY <1>4, <1>5, <1>6, SoundStays
<1>7. signed \in [Items -> SUBSET Bodies] /\ branch \in [Tasks -> {"absent", "even", "ahead"}]
  BY DEF Types
<1> DEFINE Done == /\ \E c \in Calls : Becomes(s, c)
                   /\ branch' \in [Tasks -> {"absent", "even", "ahead"}]
                   /\ signed' \in [Items -> SUBSET Bodies]
                   /\ \A j \in Items : signed[j] \subseteq signed'[j]
<1> SUFFICES Done
  BY <1>1
<1>8. ASSUME Refuse(s) PROVE Done
  BY <1>7, <1>8, IdleBecomes, IdleIs DEF Refuse
<1>9. ASSUME NEW todo, WriteNext(s, todo), Proper(v, todo)',
             branch' \in [Tasks -> {"absent", "even", "ahead"}], UNCHANGED signed
      PROVE  Done
  BY <1>1, <1>2, <1>7, <1>9, WriteBecomes
<1>10. ASSUME NEW j \in Items, WriteNext(s, BounceWrites(v, j)), UNCHANGED <<branch, signed>> PROVE Done
  BY <1>6, <1>7, <1>9, <1>10, CascadesProper
<1>11. ASSUME DecideSealed(s, v, i) PROVE Done
  BY <1>8, <1>10, <1>11 DEF DecideSealed
<1>12. CASE DecideNew(s, v, i)
  <2>1. CASE v[i].status = "absent" /\ ~Refuse(s)
    <3>1. PICK b \in Bodies : WriteNext(s, Just(i, [v[i] EXCEPT !.status = "draft", !.body = b]))
      BY <1>12, <2>1 DEF DecideNew
    <3>2. UNCHANGED <<branch, signed>>
      BY <1>12, <2>1 DEF DecideNew
    <3>3. Sound(i, [v[i] EXCEPT !.status = "draft", !.body = b])'
      BY <1>6, <2>1, <3>2, Rewrites
    <3>4. Proper(v, Just(i, [v[i] EXCEPT !.status = "draft", !.body = b]))'
      BY <2>1, <3>3, JustProper DEF Terminal
    <3>5. QED
      BY <1>7, <1>9, <3>1, <3>2, <3>4
  <2>2. QED
    BY <1>8, <1>12, <2>1 DEF DecideNew
<1>13. CASE DecideSignoff(s, v, i)
  <2>1. CASE Allowed(v, i, "HumanSeat", "ready") /\ v[i].seal = NoSeal
    <3> DEFINE p == [v[i] EXCEPT !.status = "ready", !.seal = v[i].body]
    <3>1. WriteNext(s, Just(i, p)) /\ signed' = [signed EXCEPT ![i] = @ \cup {v[i].body}] /\ UNCHANGED branch
      BY <1>13, <2>1 DEF DecideSignoff
    <3>2. v[i].body \in Bodies
      BY <1>4 DEF Page
    <3>3. signed' \in [Items -> SUBSET Bodies] /\ v[i].body \in signed'[i]
          /\ \A j \in Items : signed[j] \subseteq signed'[j]
      BY <1>7, <3>1, <3>2
    <3>4. Sound(i, p)'
      BY <1>6, <3>3, Rewrites
    <3>5. v[i].status \notin Terminal
      BY <2>1 DEF Allowed, TransitionAllowed
    <3>6. Proper(v, Just(i, p))'
      BY <3>4, <3>5, JustProper
    <3>7. QED
      BY <1>1, <1>2, <1>7, <3>1, <3>3, <3>6, WriteBecomes
  <2>2. QED
    BY <1>8, <1>13, <2>1 DEF DecideSignoff
<1>14. CASE DecideBounce(s, v, i)
  BY <1>8, <1>10, <1>14 DEF DecideBounce
<1>15. CASE DecideCancel(s, v, i)
  BY <1>6, <1>7, <1>8, <1>9, <1>15, CascadesProper DEF DecideCancel
<1>16. CASE DecideClaim(s, v, i) /\ i \in Tasks
  <2>1. CASE Intact(v[i]) /\ Allowed(v, i, "Harness", "in-progress")
    <3>1. branch' = Provisioned(i) /\ WriteNext(s, ClaimWrites(v, i)) /\ UNCHANGED signed
      BY <1>16, <2>1 DEF DecideClaim
    <3>2. v[i].seal # NoSeal
      BY <1>4, <2>1, NoSealIsNone DEF Intact, Page
    <3>3. v[i].status = "ready"
      BY <2>1 DEF Allowed, TransitionAllowed
    <3>4. Proper(v, ClaimWrites(v, i))'
      BY <1>6, <1>16, <3>1, <3>2, <3>3, ClaimProper
    <3>5. branch' \in [Tasks -> {"absent", "even", "ahead"}]
      BY <1>7, <1>16, <3>1 DEF Provisioned
    <3>6. QED
      BY <1>9, <3>1, <3>4, <3>5
  <2>2. QED
    BY <1>11, <1>16, <2>1 DEF DecideClaim
<1>17. CASE DecideComplete(s, v, i) /\ i \in Tasks /\ call[s].verb = "complete"
  <2>1. CASE Intact(v[i]) /\ Allowed(v, i, "MergeDoor", "done")
    <3>1. call' = [call EXCEPT ![s].at = "gate"] /\ UNCHANGED <<branch, signed>>
      BY <1>17, <2>1 DEF DecideComplete
    <3>2. PICK c, d : d = call[s] /\ c = [d EXCEPT !.at = "gate"]
      OBVIOUS
    <3>3. c \in Calls /\ c.at = "gate" /\ c.seen = call[s].seen /\ c.todo = call[s].todo
          /\ c.verb = call[s].verb /\ c.item = call[s].item
      BY <1>1, <3>2 DEF Calls
    <3>4. call' = [call EXCEPT ![s] = c]
      BY <3>1, <3>2 DEF Types
    <3>5. v[i].status = "in-progress"
      <4>1. ClassOf(i) = "task"
        BY <1>17, ClassesDisjoint DEF ClassOf
      <4>2. QED
        BY <2>1, <4>1 DEF Allowed, TransitionAllowed, TaskDoneRule
    <3>6. CallSound(d)'
      BY <1>1, <1>5, <3>1, <3>2, CallStays
    <3>7. Shape(c)'
      BY <1>1, <1>2, <1>3, <1>17, <2>1, <3>3, <3>5 DEF CallSound, Shape
    <3>8. CallSound(c)' /\ (Fresh(call[s]) => Fresh(c)') /\ (Exact(call[s]) => Exact(c)')
      BY <1>1, <3>2, <3>3, <3>6, <3>7 DEF CallSound, Fresh, Exact
    <3>9. QED
      BY <1>7, <3>1, <3>3, <3>4, <3>8 DEF Becomes
  <2>2. QED
    BY <1>11, <1>17, <2>1 DEF DecideComplete
<1>18. CASE DecideClose(s, v, i) /\ i \notin Tasks
  <2>1. CASE Intact(v[i]) /\ Allowed(v, i, "HumanSeat", "done")
    <3>1. WriteNext(s, Just(i, Moved(v[i], "done"))) /\ UNCHANGED <<branch, signed>>
      BY <1>18, <2>1 DEF DecideClose
    <3>2. v[i].seal # NoSeal
      BY <1>4, <2>1, NoSealIsNone DEF Intact, Page
    <3>3. Sound(i, Moved(v[i], "done"))'
      BY <1>6, <1>18, <3>1, <3>2, Rewrites
    <3>4. v[i].status \notin Terminal
      BY <2>1 DEF Allowed, TransitionAllowed
    <3>5. Proper(v, Just(i, Moved(v[i], "done")))'
      BY <3>3, <3>4, JustProper
    <3>6. QED
      BY <1>7, <1>9, <3>1, <3>5
  <2>2. QED
    BY <1>11, <1>18, <2>1 DEF DecideClose
<1>19. /\ call[s].verb \in Verb
       /\ call[s].verb \in {"claim", "complete"} => i \in Tasks
       /\ call[s].verb = "close" => i \notin Tasks
  BY <1>1, <1>3 DEF CallSound, Shape
<1>20. QED
  BY <1>1, <1>2, <1>3, <1>12, <1>13, <1>14, <1>15, <1>16, <1>17, <1>18, <1>19 DEF Decide, Verb

-----------------------------------------------------------------------------
(* What every step leaves of the wiki, the repositories and the sign-offs. *)
Carries ==
  /\ page' \in [Items -> Page] /\ \A i \in Items : Sound(i, page[i])'
  /\ branch' \in [Tasks -> {"absent", "even", "ahead"}]
  /\ main' \in [Projects -> Seq(Commits)]
  /\ signed' \in [Items -> SUBSET Bodies] /\ \A i \in Items : signed[i] \subseteq signed'[i]
  /\ \A t \in Tasks : Landed(t) => Landed(t)'
  /\ MergedWasSigned'

LEMMA CarriesAside ==
  ASSUME Types, AllSound, UNCHANGED <<page, main>>, branch' \in [Tasks -> {"absent", "even", "ahead"}],
         signed' \in [Items -> SUBSET Bodies], \A i \in Items : signed[i] \subseteq signed'[i]
  PROVE  Carries
<1>1. \A t \in Tasks : Landed(t) => Landed(t)'
  BY DEF Landed, ProjectOf
<1>2. ASSUME NEW i \in Items PROVE Sound(i, page[i])'
  <2>1. PICK p : p = page[i]
    OBVIOUS
  <2>2. Sound(i, p)'
    BY <1>1, <2>1, SoundStays DEF AllSound
  <2>3. QED
    BY <2>1, <2>2
<1>3. MergedWasSigned'
  <2>1. ASSUME NEW p \in Projects, NEW n \in DOMAIN main[p] PROVE main[p][n].task \in Items
    <3>1. main[p] \in Seq(Commits)
      BY DEF Types
    <3>2. main[p][n] \in Commits
      BY <3>1
    <3>3. QED
      BY <3>2 DEF Commits, Items
  <2>2. QED
    BY <2>1 DEF AllSound, MergedWasSigned
<1>4. QED
  BY <1>1, <1>2, <1>3 DEF Carries, Types

(* The push puts the task's commit on main, for the body that was signed.  *)
LEMMA CarriesMerge ==
  ASSUME Types, AllSound, UNCHANGED <<page, signed>>, branch' \in [Tasks -> {"absent", "even", "ahead"}],
         NEW t \in Tasks, NEW b \in Bodies, b \in signed[t], main' = Squashed(t, b)
  PROVE  Carries /\ Landed(t)'
<1> DEFINE q == ProjectOf(t)
           commit == [task |-> t, body |-> b]
<1>1. q \in Projects /\ main \in [Projects -> Seq(Commits)] /\ commit \in Commits
  BY ProjectIs DEF Types, Commits
<1>2. main' = [main EXCEPT ![q] = Append(main[q], commit)]
  BY <1>1 DEF Squashed
<1>3. main'[q] = Append(main[q], commit) /\ \A p \in Projects \ {q} : main'[p] = main[p]
  BY <1>1, <1>2
<1>4. /\ main'[q] \in Seq(Commits) /\ DOMAIN main'[q] = 1..(Len(main[q]) + 1)
      /\ DOMAIN main[q] = 1..Len(main[q]) /\ Len(main[q]) \in Nat
      /\ main'[q][Len(main[q]) + 1] = commit
      /\ \A n \in 1..Len(main[q]) : main'[q][n] = main[q][n]
  BY <1>1, <1>3
<1>5. main' \in [Projects -> Seq(Commits)]
  BY <1>1, <1>2, <1>3, <1>4
<1>6. \A p \in Projects : \A n \in DOMAIN main[p] : n \in DOMAIN main'[p] /\ main'[p][n] = main[p][n]
  <2> TAKE p \in Projects
  <2>1. CASE p = q
    <3>1. \A n \in DOMAIN main[q] : n \in DOMAIN main'[q] /\ main'[q][n] = main[q][n]
      BY <1>4
    <3>2. QED
      BY <2>1, <3>1
  <2>2. CASE p # q
    BY <1>3, <2>2
  <2>3. QED
    BY <2>1, <2>2
<1>7. \A u \in Tasks : Landed(u) => Landed(u)'
  BY <1>6, ProjectIs DEF Landed, ProjectOf
<1>8. Landed(t)'
  <2>1. Len(main[q]) + 1 \in DOMAIN main'[q] /\ main'[q][Len(main[q]) + 1].task = t
    BY <1>4
  <2>2. QED
    BY <2>1 DEF Landed, ProjectOf
<1>9. MergedWasSigned'
  <2>1. SUFFICES ASSUME NEW p \in Projects, NEW n \in DOMAIN main'[p]
                 PROVE  main'[p][n].body \in signed[main'[p][n].task]
    BY DEF MergedWasSigned
  <2>2. CASE p = q /\ n = Len(main[q]) + 1
    BY <1>4, <2>2
  <2>3. CASE ~(p = q /\ n = Len(main[q]) + 1)
    <3>1. n \in DOMAIN main[p] /\ main'[p][n] = main[p][n]
      BY <1>3, <1>4, <2>3
    <3>2. QED
      BY <3>1 DEF AllSound, MergedWasSigned
  <2>4. QED
    BY <2>2, <2>3
<1>10. ASSUME NEW i \in Items PROVE Sound(i, page[i])'
  <2>1. PICK p : p = page[i]
    OBVIOUS
  <2>2. Sound(i, p)'
    BY <1>7, <2>1, SoundStays DEF AllSound
  <2>3. QED
    BY <2>1, <2>2
<1>11. QED
  BY <1>5, <1>7, <1>8, <1>9, <1>10 DEF Carries, Types

(* A page write of a sound page.                                           *)
LEMMA CarriesWrite ==
  ASSUME Types, AllSound, UNCHANGED <<branch, main, signed>>,
         NEW i \in Items, NEW p, Sound(i, p), page' = [page EXCEPT ![i] = p]
  PROVE  Carries
<1>1. \A t \in Tasks : Landed(t) => Landed(t)'
  BY DEF Landed, ProjectOf
<1>2. Sound(i, p)' /\ p \in Page
  BY <1>1, SoundStays DEF Sound
<1>3. ASSUME NEW j \in Items, j # i PROVE Sound(j, page[j])'
  <2>1. PICK q : q = page[j]
    OBVIOUS
  <2>2. Sound(j, q)'
    BY <1>1, <2>1, SoundStays DEF AllSound
  <2>3. page'[j] = q
    BY <1>3, <2>1 DEF Types
  <2>4. QED
    BY <2>2, <2>3
<1>4. page' \in [Items -> Page] /\ page'[i] = p
  BY <1>2 DEF Types
<1>5. \A j \in Items : Sound(j, page[j])'
  BY <1>2, <1>3, <1>4
<1>6. MergedWasSigned'
  BY DEF AllSound, MergedWasSigned
<1>7. QED
  BY <1>1, <1>4, <1>5, <1>6 DEF Carries, Types

-----------------------------------------------------------------------------
(* The steps of a call.                                                    *)
LEMMA BeginBecomes ==
  ASSUME Types, AllSound, NEW s \in Sessions, NEW verb \in Verb, NEW i \in Items, Begin(s, verb, i)
  PROVE  (\E c \in Calls : Becomes(s, c)) /\ Carries /\ page' = page
<1>1. PICK c : c = [Idle EXCEPT !.verb = verb, !.item = i, !.at = "load"]
  OBVIOUS
<1>2. c \in Calls /\ c.verb = verb /\ c.item = i /\ c.at = "load" /\ c.seen = << >> /\ DOMAIN c.todo = {}
  BY <1>1, IdleIs DEF Calls
<1>3. Len(c.seen) < Len(Order)
  <2>1. Position(i) \in 1..Len(Order) /\ Len(Order) \in Nat
    BY PositionIs, OrderListsItems
  <2>2. QED
    BY <1>2, <2>1
<1>4. (verb \in {"claim", "complete"} => i \in Tasks) /\ (verb = "close" => i \notin Tasks)
  BY DEF Begin
<1>5. Shape(c)'
  BY <1>2, <1>3, <1>4 DEF Shape
<1>6. CallSound(c)' /\ Fresh(c)' /\ Exact(c)'
  BY <1>2, <1>5 DEF CallSound, Fresh, Exact
<1>7. call' = [call EXCEPT ![s] = c] /\ UNCHANGED <<page, branch, main, signed>>
  BY <1>1 DEF Begin
<1>8. Carries
  BY <1>7, CarriesAside DEF Types
<1>9. QED
  BY <1>2, <1>6, <1>7, <1>8 DEF Becomes

LEMMA LoadBecomes ==
  ASSUME Types, AllSound, NEW s \in Sessions, Load(s)
  PROVE  (\E c \in Calls : Becomes(s, c)) /\ Carries /\ page' = page
<1>1. PICK d : d = call[s]
  OBVIOUS
<1>2. /\ d \in Calls /\ d.at = "load" /\ CallSound(d) /\ d.seen \in Seq(Page)
      /\ UNCHANGED <<page, branch, main, signed>>
  BY <1>1 DEF Load, Types, AllSound, Calls
<1>3. Carries
  BY <1>2, CarriesAside DEF Types
<1> DEFINE n == Len(d.seen) + 1
           seen == Append(d.seen, page[Order[n]])
           at == IF n = Len(Order) THEN "decide" ELSE "load"
<1>4. Len(d.seen) \in Nat /\ Len(d.seen) < Len(Order) /\ n \in 1..Len(Order) /\ Order[n] \in Items
  <2>1. Len(d.seen) < Len(Order) /\ Len(Order) \in Nat /\ Len(d.seen) \in Nat
    BY <1>2, OrderListsItems DEF CallSound, Shape
  <2>2. QED
    BY <2>1, OrderListsItems
<1>5. seen \in Seq(Page) /\ Len(seen) = n /\ seen[n] = page[Order[n]]
      /\ \A m \in 1..Len(d.seen) : seen[m] = d.seen[m]
  BY <1>2, <1>4 DEF Types
<1>6. PICK c : c = [d EXCEPT !.seen = seen, !.at = at]
  OBVIOUS
<1>7. /\ c \in Calls /\ c.seen = seen /\ c.at = at /\ c.todo = d.todo /\ c.verb = d.verb
      /\ c.item = d.item
  BY <1>2, <1>5, <1>6 DEF Calls
<1>8. call' = [call EXCEPT ![s] = c]
  <2>1. call' = [call EXCEPT ![s].seen = seen, ![s].at = at]
    BY <1>1, <1>5 DEF Load
  <2>2. QED
    BY <1>1, <1>6, <2>1 DEF Types
<1>9. DOMAIN c.seen = 1..n /\ DOMAIN d.seen = 1..Len(d.seen)
  BY <1>2, <1>5, <1>7
<1>10. CallSound(d)'
  BY <1>2, <1>3, CallStays DEF Carries
<1>11. PICK p : p = page[Order[n]]
  OBVIOUS
<1>12. Sound(Order[n], p)'
  BY <1>2, <1>3, <1>4, <1>11 DEF Carries
<1>13. Shape(c)'
  BY <1>2, <1>4, <1>5, <1>7 DEF CallSound, Shape
<1>14. \A m \in DOMAIN c.seen : Sound(Order[m], c.seen[m])'
  <2>1. \A m \in 1..Len(d.seen) : c.seen[m] = d.seen[m] /\ Sound(Order[m], d.seen[m])'
    BY <1>5, <1>7, <1>9, <1>10 DEF CallSound
  <2>2. c.seen[n] = p
    BY <1>5, <1>7, <1>11
  <2>3. \A m \in 1..n : m \in 1..Len(d.seen) \/ m = n
    BY <1>4
  <2>4. QED
    BY <1>9, <1>12, <2>1, <2>2, <2>3
<1>15. CallSound(c)'
  BY <1>7, <1>10, <1>13, <1>14 DEF CallSound
<1>16. ASSUME Fresh(d) PROVE Fresh(c)'
  <2>1. \A m \in 1..n : ButBody(c.seen[m], page[Order[m]])
    BY <1>4, <1>5, <1>7, <1>9, <1>16 DEF Fresh, ButBody
  <2>2. QED
    BY <1>2, <1>7, <1>9, <1>16, <2>1 DEF Fresh, ButBody
<1>17. ASSUME Exact(d) PROVE Exact(c)'
  <2>1. \A m \in 1..n : c.seen[m] = page[Order[m]]
    BY <1>4, <1>5, <1>7, <1>9, <1>17 DEF Exact
  <2>2. QED
    BY <1>2, <1>9, <2>1 DEF Exact
<1>18. QED
  BY <1>1, <1>2, <1>3, <1>7, <1>8, <1>15, <1>16, <1>17 DEF Becomes

LEMMA GateBecomes ==
  ASSUME Types, AllSound, NEW s \in Sessions, Merge(s) \/ MergeRefused(s)
  PROVE  (\E c \in Calls : Becomes(s, c)) /\ Carries /\ page' = page
<1>1. PICK v, t : v = Corpus(call[s].seen) /\ t = call[s].item
  OBVIOUS
<1>2. call[s].at = "gate" /\ call[s] \in Calls /\ CallSound(call[s]) /\ UNCHANGED <<page, signed>>
  BY DEF Merge, MergeRefused, Types, AllSound
<1>3. t \in Tasks /\ t \in Items /\ Intact(v[t]) /\ v[t].status = "in-progress"
  BY <1>1, <1>2 DEF CallSound, Shape, Items
<1>4. v \in [Items -> Page] /\ \A j \in Items : Sound(j, v[j])
  BY <1>1, <1>2, CorpusIs
<1>5. v[t].body \in Bodies /\ v[t].body \in signed[t] /\ v[t].seal # NoSeal
  BY <1>3, <1>4, NoSealIsNone DEF Intact, Sound, Page
<1>6. v[t].status \notin Terminal
  BY <1>3 DEF Terminal
<1>7. CASE Merge(s)
  <2>1. /\ main' = Squashed(t, v[t].body) /\ branch' = [branch EXCEPT ![t] = "even"]
        /\ WriteNext(s, Just(t, Moved(v[t], "done")))
    BY <1>1, <1>7 DEF Merge
  <2>2. Carries /\ Landed(t)'
    BY <1>2, <1>3, <1>5, <2>1, CarriesMerge DEF Types
  <2>3. Sound(t, v[t])'
    BY <1>3, <1>4, <2>2, SoundStays DEF Carries
  <2>4. Sound(t, Moved(v[t], "done"))'
    BY <1>3, <1>5, <2>2, <2>3, Rewrites
  <2>5. Proper(v, Just(t, Moved(v[t], "done")))'
    BY <1>3, <1>6, <2>4, JustProper
  <2>6. QED
    BY <1>1, <1>2, <2>1, <2>2, <2>5, WriteBecomes
<1>8. CASE MergeRefused(s)
  <2>1. UNCHANGED <<branch, main>> /\ WriteNext(s, Just(t, v[t]))
    BY <1>1, <1>8 DEF MergeRefused
  <2>2. Carries
    BY <1>2, <2>1, CarriesAside DEF Types
  <2>3. Sound(t, v[t])'
    BY <1>3, <1>4, <2>2, SoundStays DEF Carries
  <2>4. Proper(v, Just(t, v[t]))'
    BY <1>3, <2>3, JustProper
  <2>5. QED
    BY <1>1, <1>2, <2>1, <2>2, <2>4, WriteBecomes
<1>9. QED
  BY <1>7, <1>8

LEMMA EndBecomes ==
  ASSUME Types, AllSound, NEW s \in Sessions, WriteNothing(s) \/ Die(s)
  PROVE  Becomes(s, Idle) /\ Carries /\ page' = page
<1>1. call' = [call EXCEPT ![s] = Idle] /\ UNCHANGED <<page, branch, main, signed>>
  BY DEF WriteNothing, Die
<1>2. QED
  BY <1>1, IdleBecomes, CarriesAside DEF Types

LEMMA WriteSteps ==
  ASSUME Types, AllSound, NEW s \in Sessions, Write(s)
  PROVE  \E c \in Calls, j \in DOMAIN call[s].todo :
           /\ Becomes(s, c) /\ Carries /\ j \in Items
           /\ page' = [page EXCEPT ![j] = call[s].todo[j]]
           /\ DOMAIN c.todo = DOMAIN call[s].todo \ {j}
           /\ \A k \in DOMAIN c.todo : c.todo[k] = call[s].todo[k]
           /\ UNCHANGED <<branch, main, signed, trouble>>
<1>1. PICK d : d = call[s]
  OBVIOUS
<1>2. d \in Calls /\ d.at = "write" /\ CallSound(d) /\ d.seen = << >> /\ d.todo \in Writes
  BY <1>1 DEF Write, Types, AllSound, CallSound, Shape, Calls
<1>3. PICK j \in DOMAIN d.todo :
        /\ page' = [page EXCEPT ![j] = d.todo[j]]
        /\ call' = [call EXCEPT ![s] = IF DOMAIN d.todo \ {j} = {} THEN Idle
                                       ELSE [@ EXCEPT !.todo = Restrict(d.todo, DOMAIN d.todo \ {j})]]
  BY <1>1 DEF Write
<1>4. UNCHANGED <<branch, main, signed, trouble>>
  BY DEF Write
<1> DEFINE rest == DOMAIN d.todo \ {j}
<1>5. PICK c : c = IF rest = {} THEN Idle ELSE [d EXCEPT !.todo = Restrict(d.todo, rest)]
  OBVIOUS
<1>6. j \in Items /\ rest \in SUBSET Items /\ \A k \in rest : d.todo[k] \in Page
  BY <1>2, WritesAre
<1>7. Restrict(d.todo, rest) \in Writes
  <2>1. Restrict(d.todo, rest) \in [rest -> Page]
    BY <1>6 DEF Restrict
  <2>2. QED
    BY <1>6, <2>1, WritesAre
<1>8. /\ c \in Calls /\ c.seen = << >> /\ DOMAIN c.todo = rest
      /\ \A k \in rest : c.todo[k] = d.todo[k]
      /\ \/ c = Idle
         \/ c.at = "write" /\ c.verb = d.verb /\ c.item = d.item
  <2>1. CASE rest = {}
    BY <1>5, <2>1, IdleIs
  <2>2. CASE rest # {}
    BY <1>2, <1>5, <1>7, <2>2 DEF Calls, Restrict
  <2>3. QED
    BY <2>1, <2>2
<1>9. call' = [call EXCEPT ![s] = c]
  BY <1>1, <1>3, <1>5 DEF Types
<1>10. Carries
  BY <1>2, <1>3, <1>4, <1>6, CarriesWrite DEF CallSound
<1>11. CallSound(d)'
  BY <1>2, <1>10, CallStays DEF Carries
<1>12. Shape(c)'
  BY <1>2, <1>8, IdleIs DEF CallSound, Shape
<1>13. CallSound(c)'
  BY <1>8, <1>11, <1>12 DEF CallSound
<1>14. Fresh(d) => Fresh(c)'
  <2>1. \A k \in rest : page'[k] = page[k]
    BY <1>3, <1>6 DEF Types
  <2>2. QED
    BY <1>8, <2>1 DEF Fresh
<1>15. DOMAIN c.seen = {}
  BY <1>8
<1>16. Exact(c)'
  BY <1>15 DEF Exact
<1>17. QED
  BY <1>1, <1>3, <1>4, <1>6, <1>8, <1>9, <1>10, <1>13, <1>14, <1>16 DEF Becomes

(* Every step of a session, and the steps around the calls.                *)
LEMMA SessionSteps ==
  ASSUME Types, AllSound, NEW s \in Sessions,
         \/ \E verb \in Verb, i \in Items : Begin(s, verb, i)
         \/ Load(s) \/ Decide(s) \/ Merge(s) \/ MergeRefused(s) \/ Write(s) \/ WriteNothing(s) \/ Die(s)
  PROVE  (\E c \in Calls : Becomes(s, c)) /\ Carries
<1>1. CASE Decide(s)
  BY <1>1, DecideBecomes, CarriesAside
<1>2. QED
  BY <1>1, BeginBecomes, LoadBecomes, GateBecomes, EndBecomes, WriteSteps, IdleIs

LEMMA OutsideSteps ==
  ASSUME Types, AllSound,
         \/ \E i \in Items, b \in Bodies : EditBody(i, b)
         \/ \E t \in Tasks : PushWork(t)
         \/ UNCHANGED vars
  PROVE  UNCHANGED <<call, signed, main>> /\ Carries
<1>1. CASE \E i \in Items, b \in Bodies : EditBody(i, b)
  <2>1. PICK i \in Items, b \in Bodies : EditBody(i, b)
    BY <1>1
  <2>2. UNCHANGED <<branch, main, call, signed>> /\ page' = [page EXCEPT ![i] = [page[i] EXCEPT !.body = b]]
    BY <2>1 DEF EditBody, Types
  <2>3. Sound(i, [page[i] EXCEPT !.body = b])
    BY DEF AllSound, Sound, Page
  <2>4. QED
    BY <2>2, <2>3, CarriesWrite
<1>2. CASE \E t \in Tasks : PushWork(t)
  <2>1. branch' \in [Tasks -> {"absent", "even", "ahead"}] /\ UNCHANGED <<page, main, call, signed>>
    BY <1>2 DEF PushWork, Types
  <2>2. QED
    BY <2>1, CarriesAside DEF Types
<1>3. CASE UNCHANGED vars
  BY <1>3, CarriesAside DEF vars, Types
<1>4. QED
  BY <1>1, <1>2, <1>3

LEMMA SoundStep == Types /\ AllSound /\ [Next]_vars => (Types /\ AllSound)'
<1> SUFFICES ASSUME Types, AllSound, [Next]_vars PROVE (Types /\ AllSound)'
  OBVIOUS
<1>1. ASSUME Carries, call' \in [Sessions -> Calls], \A s \in Sessions : CallSound(call[s])'
      PROVE  (Types /\ AllSound)'
  BY <1>1 DEF Carries, Types, AllSound
<1>2. ASSUME Carries, NEW o \in Sessions, call'[o] = call[o] PROVE CallSound(call[o])'
  <2>1. PICK c : c = call[o]
    OBVIOUS
  <2>2. CallSound(c)'
    BY <1>2, <2>1, CallStays DEF Carries, Types, AllSound
  <2>3. QED
    BY <1>2, <2>1, <2>2
<1>3. ASSUME NEW s \in Sessions, NEW c \in Calls, Becomes(s, c), Carries PROVE (Types /\ AllSound)'
  <2>1. call' \in [Sessions -> Calls] /\ call'[s] = c /\ \A o \in Sessions \ {s} : call'[o] = call[o]
    BY <1>3 DEF Becomes, Types
  <2>2. CallSound(call[s])'
    BY <1>3, <2>1 DEF Becomes
  <2>3. QED
    BY <1>1, <1>2, <1>3, <2>1, <2>2
<1>4. ASSUME UNCHANGED call, Carries PROVE (Types /\ AllSound)'
  BY <1>1, <1>2, <1>4 DEF Types
<1>5. QED
  BY <1>3, <1>4, SessionSteps, OutsideSteps DEF Next

-----------------------------------------------------------------------------
(* Until calls overlap.                                                    *)
SessionStep(s) ==
  \/ \E verb \in Verb, i \in Items : Begin(s, verb, i)
  \/ Load(s) \/ Decide(s) \/ Merge(s) \/ MergeRefused(s) \/ Write(s) \/ WriteNothing(s) \/ Die(s)

LEMMA TroubleGrows == [Next]_vars => trouble \subseteq trouble'
BY DEF Next, Begin, Disturb, Load, Decide, Merge, MergeRefused, Write, WriteNothing, Die, EditBody,
       PushWork, vars

(* While none has overlapped, the others are idle when one takes a step.   *)
LEMMA OthersIdle ==
  ASSUME Types, OneAtATime, NEW s \in Sessions, SessionStep(s), "overlap" \notin trouble'
  PROVE  \A o \in Sessions \ {s} : call[o] = Idle
<1>1. "overlap" \notin trouble
  BY DEF SessionStep, Begin, Disturb, Load, Decide, Merge, MergeRefused, Write, WriteNothing, Die
<1>2. CASE \E verb \in Verb, i \in Items : Begin(s, verb, i)
  BY <1>2 DEF Begin, Disturb, Busy
<1>3. CASE ~(\E verb \in Verb, i \in Items : Begin(s, verb, i))
  <2>1. Busy(s)
    BY <1>3, IdleIs DEF SessionStep, Load, Decide, Merge, MergeRefused, Write, WriteNothing, Die, Busy
  <2>2. QED
    BY <1>1, <2>1 DEF OneAtATime, Alone, Busy
<1>4. QED
  BY <1>2, <1>3

LEMMA AloneStep == Types /\ AllSound /\ OneAtATime /\ [Next]_vars => OneAtATime'
<1> SUFFICES ASSUME Types, AllSound, OneAtATime, [Next]_vars, "overlap" \notin trouble'
             PROVE  Alone' /\ \A s \in Sessions : Fresh(call[s])'
  BY DEF OneAtATime
<1>1. "overlap" \notin trouble
  BY TroubleGrows
<1>2. Fresh(Idle)'
  BY IdleIs DEF Fresh
<1>3. ASSUME NEW s \in Sessions, SessionStep(s) PROVE Alone' /\ \A o \in Sessions : Fresh(call[o])'
  <2>1. PICK c \in Calls : Becomes(s, c)
    BY <1>3, SessionSteps DEF SessionStep
  <2>2. \A o \in Sessions \ {s} : call[o] = Idle
    BY <1>3, OthersIdle
  <2>3. call'[s] = c /\ \A o \in Sessions \ {s} : call'[o] = Idle
    BY <2>1, <2>2 DEF Becomes, Types
  <2>4. Fresh(c)'
    BY <1>1, <2>1 DEF Becomes, OneAtATime
  <2>5. \A o \in Sessions : Fresh(call[o])'
    BY <1>2, <2>3, <2>4
  <2>6. Alone'
    BY <2>3 DEF Alone, Busy
  <2>7. QED
    BY <2>5, <2>6
<1>4. ASSUME UNCHANGED call, \A i \in Items : ButBody(page'[i], page[i])
      PROVE  Alone' /\ \A o \in Sessions : Fresh(call[o])'
  <2>1. Alone'
    BY <1>1, <1>4 DEF OneAtATime, Alone, Busy
  <2>2. ASSUME NEW o \in Sessions PROVE Fresh(call[o])'
    <3>1. PICK c : c = call[o]
      OBVIOUS
    <3>2. c \in Calls /\ CallSound(c) /\ Fresh(c)
      BY <1>1, <3>1 DEF Types, AllSound, OneAtATime
    <3>3. (\A n \in DOMAIN c.seen : Order[n] \in Items) /\ DOMAIN c.todo \subseteq Items
      BY <3>2, OrderListsItems, WritesAre DEF CallSound, Shape, Calls
    <3>4. Fresh(c)'
      BY <1>4, <3>2, <3>3 DEF Fresh, ButBody
    <3>5. QED
      BY <1>4, <3>1, <3>4
  <2>3. QED
    BY <2>1, <2>2
<1>5. ASSUME NEW i \in Items, NEW b \in Bodies, EditBody(i, b)
      PROVE  UNCHANGED call /\ \A j \in Items : ButBody(page'[j], page[j])
  <2>1. UNCHANGED call /\ page' = [page EXCEPT ![i].body = b]
    BY <1>5 DEF EditBody
  <2>2. QED
    BY <2>1 DEF Types, Page, ButBody
<1>6. ASSUME (\E t \in Tasks : PushWork(t)) \/ UNCHANGED vars
      PROVE  UNCHANGED call /\ \A j \in Items : ButBody(page'[j], page[j])
  BY <1>6 DEF PushWork, vars, ButBody
<1>7. QED
  BY <1>3, <1>4, <1>5, <1>6 DEF Next, SessionStep

LEMMA SessionsInit == Init => Types /\ AllSound /\ OneAtATime
<1> SUFFICES ASSUME Init PROVE Types /\ AllSound /\ OneAtATime
  OBVIOUS
<1>1. PICK b \in Bodies : \E tree \in {EmptyTree(b), SignedTree(b)} : InitWith(tree)
  BY DEF Init
<1>2. PICK tree \in {EmptyTree(b), SignedTree(b)} : InitWith(tree)
  BY <1>1
<1>3. /\ page = tree /\ branch = [t \in Tasks |-> "absent"] /\ main = [p \in Projects |-> << >>]
      /\ call = [s \in Sessions |-> Idle] /\ signed = [i \in Items |-> {tree[i].seal} \ {NoSeal}]
      /\ trouble = {}
  BY <1>2 DEF InitWith
<1>4. tree \in [Items -> Page]
  <2>1. [status |-> "absent", body |-> b, seal |-> NoSeal, repo |-> FALSE] \in Page
    BY DEF Page
  <2>2. [status |-> "ready", body |-> b, seal |-> b, repo |-> FALSE] \in Page
    BY DEF Page, Status
  <2>3. QED
    BY <1>2, <2>1, <2>2 DEF EmptyTree, SignedTree
<1>5. << >> \in Seq(Commits) /\ DOMAIN << >> = {}
  OBVIOUS
<1>6. signed \in [Items -> SUBSET Bodies]
  BY <1>3, <1>4 DEF Page
<1>7. Types
  BY <1>3, <1>4, <1>5, <1>6, IdleIs DEF Types
<1>8. ASSUME NEW i \in Items PROVE Sound(i, page[i])
  <2>1. page[i] = [status |-> "absent", body |-> b, seal |-> NoSeal, repo |-> FALSE]
        \/ page[i] = [status |-> "ready", body |-> b, seal |-> b, repo |-> FALSE]
    BY <1>2, <1>3 DEF EmptyTree, SignedTree
  <2>2. signed[i] = {page[i].seal} \ {NoSeal}
    BY <1>3
  <2>3. QED
    BY <1>3, <1>4, <2>1, <2>2, NoSealIsNone DEF Sound, SignedOpen
<1>9. CallSound(Idle)
  BY IdleIs DEF CallSound, Shape
<1>10. MergedWasSigned
  BY <1>3, <1>5 DEF MergedWasSigned
<1>11. AllSound
  BY <1>3, <1>8, <1>9, <1>10 DEF AllSound
<1>12. OneAtATime
  BY <1>3, IdleIs DEF OneAtATime, Alone, Busy, Fresh
<1>13. QED
  BY <1>7, <1>11, <1>12

(* A closed item stays closed, whatever dies between the writes of a       *)
(* cascade and whatever is edited under a call, until two calls overlap:   *)
(* what a call decided to write on a page is still right when it writes.   *)
THEOREM ClosedUntilOverlap == Spec => TerminalUntilOverlap
<1>1. ASSUME Types, AllSound, OneAtATime, [Next]_vars, "overlap" \notin trouble'
      PROVE  Frozen
  <2>1. "overlap" \notin trouble
    BY <1>1, TroubleGrows
  <2>2. ASSUME page' = page PROVE Frozen
    BY <2>2 DEF Frozen
  <2>3. ASSUME NEW s \in Sessions, Write(s) PROVE Frozen
    <3>1. PICK j \in DOMAIN call[s].todo : j \in Items /\ page' = [page EXCEPT ![j] = call[s].todo[j]]
      BY <1>1, <2>3, WriteSteps
    <3>2. page[j].status \in Terminal => call[s].todo[j].status = page[j].status
      BY <1>1, <2>1 DEF OneAtATime, Fresh
    <3>3. QED
      BY <1>1, <3>1, <3>2 DEF Frozen, Types
  <2>4. ASSUME NEW i \in Items, NEW b \in Bodies, EditBody(i, b) PROVE Frozen
    <3>1. page' = [page EXCEPT ![i].body = b]
      BY <2>4 DEF EditBody
    <3>2. QED
      BY <1>1, <3>1 DEF Frozen, Types, Page
  <2>5. ASSUME NEW s \in Sessions, SessionStep(s), ~Write(s) PROVE page' = page
    BY <2>5 DEF SessionStep, Begin, Load, Decide, Merge, MergeRefused, WriteNothing, Die
  <2>6. ASSUME (\E t \in Tasks : PushWork(t)) \/ UNCHANGED vars PROVE page' = page
    BY <2>6 DEF PushWork, vars
  <2>7. QED
    BY <1>1, <2>2, <2>3, <2>4, <2>5, <2>6 DEF Next, SessionStep
<1>2. Types /\ AllSound /\ OneAtATime /\ [Next]_vars =>
        [("overlap" \notin trouble') => Frozen]_vars
  BY <1>1
<1>3. QED
  BY <1>2, SessionsInit, SoundStep, AloneStep, PTL DEF Spec, TerminalUntilOverlap

-----------------------------------------------------------------------------
(* Until anything is in another's way at all.                              *)
Undisturbed == trouble = {} => \A s \in Sessions : Exact(call[s])

LEMMA ExactStep == Types /\ AllSound /\ OneAtATime /\ Undisturbed /\ [Next]_vars => Undisturbed'
<1> SUFFICES ASSUME Types, AllSound, OneAtATime, Undisturbed, [Next]_vars, trouble' = {}
             PROVE  \A s \in Sessions : Exact(call[s])'
  BY DEF Undisturbed
<1>1. trouble = {}
  BY TroubleGrows
<1>2. Exact(Idle)'
  BY IdleIs DEF Exact
<1>3. ASSUME NEW s \in Sessions, SessionStep(s) PROVE \A o \in Sessions : Exact(call[o])'
  <2>1. PICK c \in Calls : Becomes(s, c)
    BY <1>3, SessionSteps DEF SessionStep
  <2>2. \A o \in Sessions \ {s} : call[o] = Idle
    BY <1>3, OthersIdle
  <2>3. call'[s] = c /\ \A o \in Sessions \ {s} : call'[o] = Idle
    BY <2>1, <2>2 DEF Becomes, Types
  <2>4. Exact(c)'
    BY <1>1, <2>1 DEF Becomes, Undisturbed
  <2>5. QED
    BY <1>2, <2>3, <2>4
<1>4. ASSUME NEW i \in Items, NEW b \in Bodies, EditBody(i, b) PROVE \A o \in Sessions : Exact(call[o])'
  <2>1. \A o \in Sessions : call'[o] = Idle
    BY <1>4 DEF EditBody, Disturb, Busy
  <2>2. QED
    BY <1>2, <2>1
<1>5. ASSUME (\E t \in Tasks : PushWork(t)) \/ UNCHANGED vars PROVE \A o \in Sessions : Exact(call[o])'
  BY <1>1, <1>5 DEF PushWork, vars, Undisturbed, Exact
<1>6. QED
  BY <1>3, <1>4, <1>5 DEF Next, SessionStep

(* With one call at most, the settled tree is the wiki with its writes.    *)
Over(pages, writes) == [i \in Items |-> IF i \in DOMAIN writes THEN writes[i] ELSE pages[i]]

LEMMA SettledIs ==
  ASSUME NEW pages, NEW calling \in [Sessions -> Calls], NEW s \in Sessions,
         \A o \in Sessions \ {s} : calling[o] = Idle
  PROVE  [i \in Items |->
            IF \E o \in Sessions : i \in DOMAIN calling[o].todo
            THEN calling[CHOOSE o \in Sessions : i \in DOMAIN calling[o].todo].todo[i]
            ELSE pages[i]] = Over(pages, calling[s].todo)
<1>1. \A i, o : o \in Sessions /\ i \in DOMAIN calling[o].todo => o = s
  BY IdleIs
<1>2. ASSUME NEW i \in DOMAIN calling[s].todo
      PROVE  (CHOOSE o \in Sessions : i \in DOMAIN calling[o].todo) = s
  BY <1>1
<1>3. \A i : (\E o \in Sessions : i \in DOMAIN calling[o].todo) <=> i \in DOMAIN calling[s].todo
  BY <1>1
<1>4. QED
  BY <1>2, <1>3 DEF Over

LEMMA SettledNow ==
  ASSUME Types, AllSound, OneAtATime, NEW s \in Sessions, SessionStep(s), "overlap" \notin trouble',
         [Next]_vars
  PROVE  Settled = Over(page, call[s].todo) /\ Settled' = Over(page', call'[s].todo)
<1>1. \A o \in Sessions \ {s} : call[o] = Idle
  BY OthersIdle
<1>2. PICK c \in Calls : Becomes(s, c)
  BY SessionSteps DEF SessionStep
<1>3. call' \in [Sessions -> Calls] /\ \A o \in Sessions \ {s} : call'[o] = Idle
  BY <1>1, <1>2 DEF Becomes, Types
<1>4. Settled = Over(page, call[s].todo)
  <2>1. PICK calling \in [Sessions -> Calls] : calling = call
    BY DEF Types
  <2>2. \A o \in Sessions \ {s} : calling[o] = Idle
    BY <1>1, <2>1
  <2>3. QED
    BY <2>1, <2>2, SettledIs DEF Settled
<1>5. Settled' = Over(page', call'[s].todo)
  BY <1>3, SettledIs DEF Settled
<1>6. QED
  BY <1>4, <1>5

LEMMA NothingOver ==
  ASSUME NEW pages \in [Items -> Page], NEW writes, DOMAIN writes = {} PROVE Over(pages, writes) = pages
BY DEF Over

(* Before it decides and after it ends, a call adds nothing to the wiki.   *)
LEMMA RestingIsPage ==
  ASSUME page \in [Items -> Page], \A s \in Sessions : call[s] = Idle PROVE Settled = page
BY IdleIs DEF Settled

(* The steps by what they do to the settled tree: begin, load and the page *)
(* writes nothing; a decision puts its writes over the wiki it read.       *)
LEMMA SettledSteps ==
  ASSUME Types, AllSound, OneAtATime, NEW s \in Sessions, SessionStep(s), "overlap" \notin trouble',
         "death" \notin trouble', [Next]_vars
  PROVE  \/ Settled' = Settled /\ UNCHANGED <<branch, main>>
         \/ /\ Decide(s) \/ Merge(s) \/ MergeRefused(s)
            /\ Settled = page /\ Settled' = Over(page, call'[s].todo)
<1>1. Settled = Over(page, call[s].todo) /\ Settled' = Over(page', call'[s].todo)
  BY SettledNow
<1>2. page \in [Items -> Page] /\ call \in [Sessions -> Calls] /\ Shape(call[s])
  BY DEF Types, AllSound, CallSound
<1>3. CASE \E verb \in Verb, i \in Items : Begin(s, verb, i)
  <2>1. call[s] = Idle /\ UNCHANGED <<page, branch, main>> /\ DOMAIN call'[s].todo = {}
    BY <1>2, <1>3, IdleIs DEF Begin, Busy, Calls
  <2>2. QED
    BY <1>1, <1>2, <2>1, IdleIs, NothingOver
<1>4. CASE Load(s)
  <2>1. call[s].at = "load" /\ UNCHANGED <<page, branch, main>> /\ call'[s].todo = call[s].todo
    BY <1>2, <1>4 DEF Load, Calls
  <2>2. QED
    BY <1>1, <2>1
<1>5. CASE Write(s)
  <2>1. PICK c \in Calls, j \in DOMAIN call[s].todo :
           /\ Becomes(s, c) /\ j \in Items
           /\ page' = [page EXCEPT ![j] = call[s].todo[j]]
           /\ DOMAIN c.todo = DOMAIN call[s].todo \ {j}
           /\ \A k \in DOMAIN c.todo : c.todo[k] = call[s].todo[k]
           /\ UNCHANGED <<branch, main>>
    BY <1>5, WriteSteps
  <2>2. call'[s] = c
    BY <1>2, <2>1 DEF Becomes
  <2>3. \A i \in Items : Over(page', c.todo)[i] = Over(page, call[s].todo)[i]
    BY <1>2, <2>1 DEF Over
  <2>4. Over(page', c.todo) = Over(page, call[s].todo)
    BY <2>3 DEF Over
  <2>5. QED
    BY <1>1, <2>1, <2>2, <2>4
<1>6. CASE WriteNothing(s)
  <2>1. DOMAIN call[s].todo = {} /\ call'[s] = Idle /\ UNCHANGED <<page, branch, main>>
    BY <1>2, <1>6 DEF WriteNothing
  <2>2. QED
    BY <1>1, <1>2, <2>1, IdleIs, NothingOver
<1>7. CASE Decide(s) \/ Merge(s) \/ MergeRefused(s)
  <2>1. call[s].at # "write" /\ page' = page
    BY <1>7 DEF Decide, Merge, MergeRefused
  <2>2. QED
    BY <1>1, <1>2, <1>7, <2>1, NothingOver DEF Shape
<1>8. ~Die(s)
  BY DEF Die, Disturb
<1>9. QED
  BY <1>3, <1>4, <1>5, <1>6, <1>7, <1>8 DEF SessionStep

(* What a call can decide on what it has read: nothing to write yet, or    *)
(* the writes of its verb.                                                 *)
Chosen(v, i, todo) ==
  \/ DOMAIN todo = {} /\ UNCHANGED branch
  \/ /\ v[i].status = "absent" /\ (i \notin Projects => v[Parent[i]].status # "absent")
     /\ \E b \in Bodies : todo = Just(i, [v[i] EXCEPT !.status = "draft", !.body = b])
     /\ UNCHANGED branch
  \/ /\ Allowed(v, i, "HumanSeat", "ready") /\ v[i].seal = NoSeal
     /\ todo = Just(i, [v[i] EXCEPT !.status = "ready", !.seal = v[i].body])
     /\ UNCHANGED branch
  \/ /\ Allowed(v, i, "Harness", "draft") \/ Broken(v[i])
     /\ todo = BounceWrites(v, i) /\ UNCHANGED branch
  \/ /\ Allowed(v, i, "Harness", "cancelled")
     /\ todo = CancelWrites(v, i) /\ UNCHANGED branch
  \/ /\ i \in Tasks /\ Intact(v[i]) /\ Allowed(v, i, "Harness", "in-progress")
     /\ todo = ClaimWrites(v, i) /\ branch' = Provisioned(i)
  \/ /\ i \notin Tasks /\ Intact(v[i]) /\ Allowed(v, i, "HumanSeat", "done")
     /\ todo = Just(i, Moved(v[i], "done")) /\ UNCHANGED branch

LEMMA Choices ==
  ASSUME Types, AllSound, NEW s \in Sessions, Decide(s),
         NEW v, v = Corpus(call[s].seen), NEW i \in Items, i = call[s].item
  PROVE  Chosen(v, i, call'[s].todo) /\ UNCHANGED <<page, main>>
<1>1. call \in [Sessions -> Calls] /\ call[s].at = "decide" /\ Shape(call[s]) /\ UNCHANGED <<page, main>>
  BY DEF Decide, Types, AllSound, CallSound
<1> SUFFICES Chosen(v, i, call'[s].todo)
  BY <1>1
<1>2. DOMAIN call[s].todo = {}
  BY <1>1 DEF Shape
<1>3. ASSUME Refuse(s) PROVE Chosen(v, i, call'[s].todo)
  <2>1. call'[s] = Idle /\ UNCHANGED branch
    BY <1>1, <1>3 DEF Refuse
  <2>2. QED
    BY <2>1, IdleIs DEF Chosen
<1>4. ASSUME NEW todo, WriteNext(s, todo) PROVE call'[s].todo = todo
  BY <1>1, <1>4 DEF WriteNext, Calls
<1>5. ASSUME DecideSealed(s, v, i) PROVE Chosen(v, i, call'[s].todo)
  BY <1>3, <1>4, <1>5 DEF DecideSealed, Chosen
<1>6. CASE DecideNew(s, v, i)
  BY <1>3, <1>4, <1>6 DEF DecideNew, Chosen
<1>7. CASE DecideSignoff(s, v, i)
  BY <1>3, <1>4, <1>7 DEF DecideSignoff, Chosen
<1>8. CASE DecideBounce(s, v, i)
  BY <1>3, <1>4, <1>8 DEF DecideBounce, Chosen
<1>9. CASE DecideCancel(s, v, i)
  BY <1>3, <1>4, <1>9 DEF DecideCancel, Chosen
<1>10. CASE DecideClaim(s, v, i) /\ i \in Tasks
  BY <1>4, <1>5, <1>10 DEF DecideClaim, Chosen
<1>11. CASE DecideComplete(s, v, i)
  <2>1. CASE call' = [call EXCEPT ![s].at = "gate"] /\ UNCHANGED <<branch, signed>>
    <3>1. call'[s].todo = call[s].todo
      BY <1>1, <2>1 DEF Calls
    <3>2. QED
      BY <1>2, <2>1, <3>1 DEF Chosen
  <2>2. QED
    BY <1>5, <1>11, <2>1 DEF DecideComplete
<1>12. CASE DecideClose(s, v, i) /\ i \notin Tasks
  BY <1>4, <1>5, <1>12 DEF DecideClose, Chosen
<1>13. /\ call[s].verb \in Verb
       /\ call[s].verb = "claim" => i \in Tasks
       /\ call[s].verb = "close" => i \notin Tasks
  BY <1>1 DEF Shape
<1>14. QED
  BY <1>1, <1>6, <1>7, <1>8, <1>9, <1>10, <1>11, <1>12, <1>13 DEF Decide, Verb

-----------------------------------------------------------------------------
(* Nothing executable under an unsigned parent, while no cascade is cut    *)
(* short or overlapped; bodies edited under a call do not matter to it.    *)
DownhillOf(tree) ==
  \A i \in Items \ Projects :
    tree[i].status \in SignedOpen => tree[Parent[i]].status \in SignedOpen

LEMMA AllowedIs ==
  ASSUME NEW v, NEW i \in Items, NEW actor \in Actor, NEW to \in Status, Allowed(v, i, actor, to)
  PROVE  /\ v[i].status \notin Terminal \cup {"absent"}
         /\ to = "ready" => /\ v[i].status = "draft"
                            /\ i \notin Projects => v[Parent[i]].status \in SignedOpen
         /\ to = "in-progress" => v[i].status = "ready"
         /\ to = "done" /\ i \notin Tasks => ChildrenStatuses(v, i) \subseteq Terminal
<1>1. to = "ready" /\ i \notin Projects => ClassOf(i) # "project"
  BY DEF ClassOf
<1>2. to = "done" /\ i \notin Tasks => ClassOf(i) # "task"
  BY DEF ClassOf, Items
<1>3. QED
  BY <1>1, <1>2 DEF Allowed, TransitionAllowed, SignoffRule, TaskDoneRule, CloseRule, ChildrenLanded,
     Terminal, SignedOpen, Status, Actor

LEMMA SubtreeDownClosed ==
  ASSUME NEW i \in Items, NEW j \in Items \ Projects, Parent[j] \in Subtree(i)
  PROVE  j \in Subtree(i)
BY ParentIsOneClassUp, ClassesDisjoint DEF Subtree, Items, ProjectOf

(* What Doors sees of a page.                                              *)
Shows(p, status, body, seal) == p.status = status /\ p.body = body /\ p.seal = seal

LEMMA RewritesShow ==
  ASSUME NEW p \in Page
  PROVE  /\ Shows(p, p.status, p.body, p.seal)
         /\ Shows(Bounced(p), "draft", p.body, NoSeal)
         /\ Shows([p EXCEPT !.repo = TRUE], p.status, p.body, p.seal)
         /\ \A to : Shows(Moved(p, to), to, p.body, p.seal)
         /\ \A b : Shows([p EXCEPT !.status = "draft", !.body = b], "draft", b, p.seal)
         /\ \A b : Shows([p EXCEPT !.status = "ready", !.seal = b], "ready", p.body, b)
BY DEF Page, Bounced, Moved, Shows

LEMMA OverJust ==
  ASSUME NEW pages, NEW i \in Items, NEW p, NEW j \in Items
  PROVE  Over(pages, Just(i, p))[j] = IF j = i THEN p ELSE pages[j]
BY DEF Over, Just

LEMMA OverBounce ==
  ASSUME NEW pages \in [Items -> Page], NEW v \in [Items -> Page], NEW i \in Items, NEW j \in Items
  PROVE  /\ j \in Subtree(i) /\ v[j].status \in SignedOpen =>
              Shows(Over(pages, BounceWrites(v, i))[j], "draft", v[j].body, NoSeal)
         /\ j \notin Subtree(i) \/ v[j].status \notin SignedOpen =>
              Over(pages, BounceWrites(v, i))[j] = pages[j]
<1>1. v[j].status \in Status \cup {"absent"} /\ v[j] \in Page
  BY DEF Page
<1>2. DOMAIN BounceWrites(v, i) = {k \in Subtree(i) : v[k].status \notin (Status \cup {"absent"}) \ SignedOpen}
      /\ (j \in DOMAIN BounceWrites(v, i) => BounceWrites(v, i)[j] = Bounced(v[j]))
  BY DEF BounceWrites, Reached
<1>3. j \in DOMAIN BounceWrites(v, i) <=> j \in Subtree(i) /\ v[j].status \in SignedOpen
  BY <1>1, <1>2
<1>4. Shows(Bounced(v[j]), "draft", v[j].body, NoSeal)
  BY <1>1, RewritesShow
<1>5. QED
  BY <1>2, <1>3, <1>4 DEF Over

LEMMA OverCancel ==
  ASSUME NEW pages \in [Items -> Page], NEW v \in [Items -> Page], NEW i \in Items, NEW j \in Items
  PROVE  /\ j \in Subtree(i) /\ v[j].status \notin Terminal \cup {"absent"} =>
              Shows(Over(pages, CancelWrites(v, i))[j], "cancelled", v[j].body, v[j].seal)
         /\ j \notin Subtree(i) \/ v[j].status \in Terminal \cup {"absent"} =>
              Over(pages, CancelWrites(v, i))[j] = pages[j]
<1>1. DOMAIN CancelWrites(v, i) = {k \in Subtree(i) : v[k].status \notin Terminal \cup {"absent"}}
      /\ (j \in DOMAIN CancelWrites(v, i) => CancelWrites(v, i)[j] = Moved(v[j], "cancelled"))
  BY DEF CancelWrites, Reached
<1>2. Shows(Moved(v[j], "cancelled"), "cancelled", v[j].body, v[j].seal)
  BY RewritesShow
<1>3. QED
  BY <1>1, <1>2 DEF Over

LEMMA OverClaim ==
  ASSUME NEW pages \in [Items -> Page], NEW v \in [Items -> Page], NEW t \in Tasks, NEW j \in Items
  PROVE  /\ j = t => Shows(Over(pages, ClaimWrites(v, t))[j], "in-progress", v[j].body, v[j].seal)
         /\ j # t => \/ Shows(Over(pages, ClaimWrites(v, t))[j], v[j].status, v[j].body, v[j].seal)
                     \/ Over(pages, ClaimWrites(v, t))[j] = pages[j]
<1>1. v[j] \in Page
  OBVIOUS
<1>2. Shows(Moved(v[j], "in-progress"), "in-progress", v[j].body, v[j].seal)
      /\ Shows([v[j] EXCEPT !.repo = TRUE], v[j].status, v[j].body, v[j].seal)
  BY <1>1, RewritesShow
<1>3. j = t => Over(pages, ClaimWrites(v, t))[j] = Moved(v[j], "in-progress")
  BY DEF Over, ClaimWrites
<1>4. j # t => \/ Over(pages, ClaimWrites(v, t))[j] = [v[j] EXCEPT !.repo = TRUE]
               \/ Over(pages, ClaimWrites(v, t))[j] = pages[j]
  BY DEF Over, ClaimWrites
<1>5. QED
  BY <1>2, <1>3, <1>4

LEMMA ChosenDownhill ==
  ASSUME NEW v \in [Items -> Page], NEW pages \in [Items -> Page],
         \A j \in Items : v[j].status = pages[j].status, DownhillOf(pages),
         NEW i \in Items, NEW todo, Chosen(v, i, todo), Broken(v[i]) => v[i].status # "absent"
  PROVE  DownhillOf(Over(pages, todo))
<1> SUFFICES ASSUME NEW k \in Items \ Projects, Over(pages, todo)[k].status \in SignedOpen
             PROVE  Over(pages, todo)[Parent[k]].status \in SignedOpen
  BY DEF DownhillOf
<1>0. /\ k \in Items /\ Parent[k] \in Items /\ Parent[k] # k
      /\ \A j \in Items : v[j] \in Page
      /\ pages[k].status \in SignedOpen => pages[Parent[k]].status \in SignedOpen
  BY ProjectIs DEF DownhillOf
<1>1. CASE DOMAIN todo = {}
  BY <1>0, <1>1, NothingOver
<1>2. ASSUME NEW p, todo = Just(i, p), p.status \notin SignedOpen, v[i].status \notin SignedOpen
      PROVE  Over(pages, todo)[Parent[k]].status \in SignedOpen
  <2>1. k # i /\ pages[k].status \in SignedOpen
    BY <1>0, <1>2, OverJust
  <2>2. Parent[k] # i
    BY <1>0, <1>2, <2>1
  <2>3. QED
    BY <1>0, <1>2, <2>1, <2>2, OverJust
<1>3. CASE /\ v[i].status = "absent"
           /\ \E b \in Bodies : todo = Just(i, [v[i] EXCEPT !.status = "draft", !.body = b])
  <2>1. PICK b \in Bodies : todo = Just(i, [v[i] EXCEPT !.status = "draft", !.body = b])
    BY <1>3
  <2>2. PICK p : p = [v[i] EXCEPT !.status = "draft", !.body = b]
    OBVIOUS
  <2>3. p.status = "draft" /\ todo = Just(i, p)
    BY <1>0, <2>1, <2>2 DEF Page
  <2>4. QED
    BY <1>2, <1>3, <2>3 DEF SignedOpen
<1>4. CASE /\ Allowed(v, i, "HumanSeat", "ready")
           /\ todo = Just(i, [v[i] EXCEPT !.status = "ready", !.seal = v[i].body])
  <2>1. i \notin Projects => pages[Parent[i]].status \in SignedOpen
    BY <1>4, AllowedIs, ProjectIs DEF Actor, Status
  <2>2. PICK p : p = [v[i] EXCEPT !.status = "ready", !.seal = v[i].body]
    OBVIOUS
  <2>3. p.status = "ready" /\ todo = Just(i, p)
    BY <1>0, <1>4, <2>2 DEF Page
  <2>4. Over(pages, todo)[i].status \in SignedOpen
    BY <2>3, OverJust DEF SignedOpen
  <2>5. \A j \in Items \ {i} : Over(pages, todo)[j] = pages[j]
    BY <2>3, OverJust
  <2>6. QED
    BY <1>0, <2>1, <2>4, <2>5
<1>5. CASE todo = BounceWrites(v, i)
  <2>1. \A j \in Items :
          /\ j \in Subtree(i) /\ v[j].status \in SignedOpen => Over(pages, todo)[j].status = "draft"
          /\ j \notin Subtree(i) \/ v[j].status \notin SignedOpen => Over(pages, todo)[j] = pages[j]
    BY <1>5, OverBounce DEF Shows
  <2>2. pages[k].status \in SignedOpen /\ k \notin Subtree(i)
    BY <1>0, <2>1 DEF SignedOpen
  <2>3. Parent[k] \notin Subtree(i)
    BY <2>2, SubtreeDownClosed
  <2>4. QED
    BY <1>0, <2>1, <2>2, <2>3
<1>6. CASE todo = CancelWrites(v, i)
  <2>1. \A j \in Items :
          /\ j \in Subtree(i) /\ v[j].status \notin Terminal \cup {"absent"} =>
               Over(pages, todo)[j].status = "cancelled"
          /\ j \notin Subtree(i) \/ v[j].status \in Terminal \cup {"absent"} =>
               Over(pages, todo)[j] = pages[j]
    BY <1>6, OverCancel DEF Shows
  <2>2. pages[k].status \in SignedOpen /\ k \notin Subtree(i)
    BY <1>0, <2>1 DEF SignedOpen, Terminal
  <2>3. Parent[k] \notin Subtree(i)
    BY <2>2, SubtreeDownClosed
  <2>4. QED
    BY <1>0, <2>1, <2>2, <2>3
<1>7. CASE i \in Tasks /\ Allowed(v, i, "Harness", "in-progress") /\ todo = ClaimWrites(v, i)
  <2>1. v[i].status = "ready"
    BY <1>7, AllowedIs DEF Actor, Status
  <2>2. \A j \in Items :
          Over(pages, todo)[j].status = IF j = i THEN "in-progress" ELSE pages[j].status
    BY <1>0, <1>7, OverClaim DEF Shows
  <2>3. QED
    BY <1>0, <2>1, <2>2 DEF SignedOpen
<1>8. CASE i \notin Tasks /\ Allowed(v, i, "HumanSeat", "done") /\ todo = Just(i, Moved(v[i], "done"))
  <2>1. Moved(v[i], "done").status = "done"
    BY <1>0, RewritesShow DEF Shows
  <2>2. Over(pages, todo)[i].status = "done" /\ \A j \in Items \ {i} : Over(pages, todo)[j] = pages[j]
    BY <1>8, <2>1, OverJust
  <2>3. k # i /\ pages[k].status \in SignedOpen
    BY <1>0, <2>2 DEF SignedOpen
  <2>4. Parent[k] # i
    <3>1. ChildrenStatuses(v, i) \subseteq Terminal
      BY <1>8, AllowedIs DEF Actor, Status
    <3>2. Parent[k] = i => v[k].status \in ChildrenStatuses(v, i)
      BY <2>3 DEF ChildrenStatuses, SignedOpen
    <3>3. QED
      BY <1>0, <2>3, <3>1, <3>2 DEF Terminal, SignedOpen
  <2>5. QED
    BY <1>0, <2>2, <2>3, <2>4
<1>9. QED
  BY <1>1, <1>3, <1>4, <1>5, <1>6, <1>7, <1>8 DEF Chosen

Sloping == trouble \subseteq {"edit"} => DownhillOf(Settled)

LEMMA SlopingInit == Init => Sloping
<1> SUFFICES ASSUME Init PROVE DownhillOf(Settled)
  BY DEF Sloping
<1>1. PICK b \in Bodies : InitWith(EmptyTree(b)) \/ InitWith(SignedTree(b))
  BY DEF Init
<1>2. page = EmptyTree(b) \/ page = SignedTree(b)
  BY <1>1 DEF InitWith
<1>3. Types /\ \A s \in Sessions : call[s] = Idle
  BY <1>1, SessionsInit DEF InitWith
<1>4. Settled = page
  BY <1>3, RestingIsPage DEF Types
<1>5. CASE page = EmptyTree(b)
  BY <1>4, <1>5 DEF EmptyTree, DownhillOf, SignedOpen
<1>6. CASE page = SignedTree(b)
  BY <1>4, <1>6, ProjectIs DEF SignedTree, DownhillOf, SignedOpen
<1>7. QED
  BY <1>2, <1>5, <1>6

LEMMA SlopingStep == Types /\ AllSound /\ OneAtATime /\ Sloping /\ [Next]_vars => Sloping'
<1> SUFFICES ASSUME Types, AllSound, OneAtATime, Sloping, [Next]_vars, trouble' \subseteq {"edit"}
             PROVE  DownhillOf(Settled')
  BY DEF Sloping, DownhillOf
<1>1. /\ trouble \subseteq {"edit"} /\ DownhillOf(Settled)
      /\ "overlap" \notin trouble' /\ "death" \notin trouble'
  BY TroubleGrows DEF Sloping
<1>2. page \in [Items -> Page] /\ call \in [Sessions -> Calls]
  BY DEF Types
<1>3. ASSUME NEW s \in Sessions, SessionStep(s) PROVE DownhillOf(Settled')
  <2>1. CASE Settled' = Settled
    BY <1>1, <2>1
  <2>2. ASSUME Settled = page, Settled' = Over(page, call'[s].todo), call[s].at \in {"decide", "gate"}
        PROVE  /\ \E v \in [Items -> Page], i \in Items :
                    /\ v = Corpus(call[s].seen) /\ i = call[s].item
                    /\ \A j \in Items : v[j].status = page[j].status /\ Sound(j, v[j])
               /\ DownhillOf(page)
    <3>1. call[s] \in Calls /\ CallSound(call[s]) /\ Fresh(call[s])
      BY <1>1, <1>2 DEF AllSound, OneAtATime
    <3>2. /\ Corpus(call[s].seen) \in [Items -> Page]
          /\ \A j \in Items : Sound(j, Corpus(call[s].seen)[j]) /\ ButBody(Corpus(call[s].seen)[j], page[j])
      BY <2>2, <3>1, CorpusIs
    <3>3. call[s].item \in Items
      BY <2>2, <3>1 DEF CallSound, Shape
    <3>4. QED
      BY <1>1, <2>2, <3>2, <3>3 DEF ButBody
  <2>3. CASE Decide(s) /\ Settled = page /\ Settled' = Over(page, call'[s].todo)
    <3>1. PICK v \in [Items -> Page], i \in Items :
             /\ v = Corpus(call[s].seen) /\ i = call[s].item
             /\ \A j \in Items : v[j].status = page[j].status /\ Sound(j, v[j])
      BY <2>2, <2>3 DEF Decide
    <3>2. DownhillOf(page)
      BY <2>2, <2>3 DEF Decide
    <3>3. PICK todo : todo = call'[s].todo
      OBVIOUS
    <3>4. Chosen(v, i, todo)
      BY <2>3, <3>1, <3>3, Choices
    <3>5. Broken(v[i]) => v[i].status # "absent"
      BY <3>1 DEF Sound, Broken
    <3>6. DownhillOf(Over(page, todo))
      BY <1>2, <3>1, <3>2, <3>4, <3>5, ChosenDownhill
    <3>7. QED
      BY <2>3, <3>3, <3>6
  <2>4. CASE (Merge(s) \/ MergeRefused(s)) /\ Settled = page /\ Settled' = Over(page, call'[s].todo)
    <3>1. PICK v \in [Items -> Page], t \in Items :
             /\ v = Corpus(call[s].seen) /\ t = call[s].item
             /\ \A j \in Items : v[j].status = page[j].status /\ Sound(j, v[j])
      BY <2>2, <2>4 DEF Merge, MergeRefused
    <3>2. DownhillOf(page)
      BY <2>2, <2>4 DEF Merge, MergeRefused
    <3>3. call[s].at = "gate" /\ CallSound(call[s])
      BY <2>4 DEF Merge, MergeRefused, AllSound
    <3>4. t \in Tasks /\ v[t] \in Page /\ v[t].status = "in-progress"
      BY <3>1, <3>3 DEF CallSound, Shape
    <3>5. PICK p : p \in {Moved(v[t], "done"), v[t]} /\ call'[s].todo = Just(t, p)
      <4>1. call \in [Sessions -> Calls]
        BY DEF Types
      <4>2. PICK p \in {Moved(v[t], "done"), v[t]} : WriteNext(s, Just(t, p))
        BY <2>4, <3>1 DEF Merge, MergeRefused
      <4>3. call'[s].todo = Just(t, p)
        BY <4>1, <4>2 DEF WriteNext, Calls
      <4>4. QED
        BY <4>3
    <3>6. p.status \in {"in-progress", "done"}
      BY <3>4, <3>5, RewritesShow DEF Shows
    <3>7. \A j \in Items : Over(page, Just(t, p))[j] = IF j = t THEN p ELSE page[j]
      BY <3>1, OverJust
    <3>8. \A k \in Items \ Projects : Parent[k] # t
      BY <3>4, ProjectIs, ParentIsOneClassUp, ClassesDisjoint DEF Items
    <3>9. DownhillOf(Over(page, Just(t, p)))
      BY <3>1, <3>2, <3>4, <3>7, <3>8, ProjectIs DEF DownhillOf, SignedOpen
    <3>10. QED
      BY <2>4, <3>5, <3>9
  <2>5. QED
    BY <1>1, <1>3, <2>1, <2>3, <2>4, SettledSteps
<1>4. ASSUME NEW i \in Items, NEW b \in Bodies, EditBody(i, b) PROVE DownhillOf(Settled')
  <2>1. call' = call /\ page' = [page EXCEPT ![i].body = b]
    BY <1>4 DEF EditBody
  <2>2. \A j \in Items : page'[j].status = page[j].status
    BY <1>2, <2>1 DEF Page
  <2>3. \A j \in Items : Settled'[j].status = Settled[j].status
    BY <2>1, <2>2 DEF Settled
  <2>4. QED
    BY <1>1, <2>3, ProjectIs DEF DownhillOf
<1>5. ASSUME (\E t \in Tasks : PushWork(t)) \/ UNCHANGED vars PROVE DownhillOf(Settled')
  BY <1>1, <1>5 DEF PushWork, vars, Settled
<1>6. QED
  BY <1>3, <1>4, <1>5 DEF Next, SessionStep

(* The pages agree with one another and with the repositories however the  *)
(* sessions race and wherever they die: seals only where a human signed    *)
(* and never parted from the status, merges only of signed work, done only *)
(* after the push, and, while no cascade was cut short or overlapped,      *)
(* nothing executable under an unsigned parent (surface.rs over work.rs).  *)
THEOREM PagesStayAgreed == Spec => []PagesAgree
<1>1. Types /\ AllSound /\ Sloping => PagesAgree
  <2> SUFFICES ASSUME Types, AllSound, Sloping PROVE PagesAgree
    OBVIOUS
  <2>1. page \in [Items -> Page] /\ call \in [Sessions -> Calls] /\ main \in [Projects -> Seq(Commits)]
    BY DEF Types
  <2>2. ASSUME NEW p \in Projects, NEW n \in DOMAIN main[p] PROVE main[p][n] \in Commits
    <3>1. main[p] \in Seq(Commits)
      BY <2>1
    <3>2. QED
      BY <3>1
  <2>3. ASSUME NEW s \in Sessions
        PROVE  call[s].at \in {"idle", "load", "decide", "gate", "write"} /\ Len(call[s].seen) <= Len(Order)
    <3>1. call[s] \in Calls /\ Shape(call[s])
      BY <2>1 DEF AllSound, CallSound
    <3>2. Len(Order) \in Nat /\ Len(<< >>) = 0
      BY OrderListsItems
    <3>3. call[s].seen \in Seq(Page) /\ call[s].at \in {"idle", "load", "decide", "gate", "write"}
      BY <3>1 DEF Calls
    <3>4. Len(call[s].seen) \in Nat
      BY <3>3
    <3>5. QED
      BY <3>1, <3>2, <3>3, <3>4 DEF Shape
  <2>4. TypeOK
    BY <2>2, <2>3 DEF TypeOK, Types, Commits
  <2>5. SealedIffSigned /\ NoForgedSeal
    BY DEF AllSound, Sound, SealedIffSigned, NoForgedSeal
  <2>6. DoneWasMerged
    BY DEF AllSound, Sound, DoneWasMerged, Landed, Items
  <2>7. DownhillAtRest
    <3> SUFFICES ASSUME trouble \subseteq {"edit"}, \A s \in Sessions : ~Busy(s)
                 PROVE  DownhillOf(page)
      BY DEF DownhillAtRest, DownhillOf
    <3>1. Settled = page
      BY <2>1, RestingIsPage DEF Busy
    <3>2. QED
      BY <3>1 DEF Sloping
  <2>8. QED
    BY <2>4, <2>5, <2>6, <2>7 DEF PagesAgree, AllSound
<1>2. QED
  BY <1>1, SessionsInit, SoundStep, AloneStep, SlopingInit, SlopingStep, PTL DEF Spec

-----------------------------------------------------------------------------
(* The refinement: a decision is a step of the doors, every other step of  *)
(* an undisturbed session changes nothing they see.                        *)
LEMMA SameRules ==
  /\ Doors!Items = Items /\ Doors!Terminal = Terminal /\ Doors!SignedOpen = SignedOpen
  /\ \A i \in Items : Doors!Subtree(i) = Subtree(i) /\ Doors!ClassOf(i) = ClassOf(i)
  /\ \A t \in Tasks : Doors!ProjectOf(t) = ProjectOf(t)
  /\ \A class, actor, from, to, parent, children :
       Doors!TransitionAllowed(class, actor, from, to, parent, children)
         = TransitionAllowed(class, actor, from, to, parent, children)
<1>1. Doors!Items = Items /\ Doors!Terminal = Terminal /\ Doors!SignedOpen = SignedOpen
  BY DEF Doors!Items, Items, Doors!Terminal, Terminal, Doors!SignedOpen, SignedOpen
<1>2. \A i \in Items : Doors!Subtree(i) = Subtree(i) /\ Doors!ClassOf(i) = ClassOf(i)
  BY <1>1 DEF Doors!Subtree, Subtree, Doors!ProjectOf, ProjectOf, Doors!ClassOf, ClassOf
<1>3. \A t \in Tasks : Doors!ProjectOf(t) = ProjectOf(t)
  BY DEF Doors!ProjectOf, ProjectOf
<1>4. ASSUME NEW class, NEW actor, NEW from, NEW to, NEW parent, NEW children
      PROVE  Doors!TransitionAllowed(class, actor, from, to, parent, children)
               = TransitionAllowed(class, actor, from, to, parent, children)
  BY <1>1 DEF Doors!TransitionAllowed, Doors!SignoffRule, Doors!TaskDoneRule, Doors!CloseRule,
       Doors!ChildrenLanded, TransitionAllowed, SignoffRule, TaskDoneRule, CloseRule, ChildrenLanded
<1>5. QED
  BY <1>1, <1>2, <1>3, <1>4

LEMMA ExactIsPage ==
  ASSUME page \in [Items -> Page], NEW c \in Calls, CallSound(c), c.at \in {"decide", "gate"}, Exact(c)
  PROVE  Corpus(c.seen) = page
<1>1. c.seen \in Seq(Page) /\ Len(c.seen) = Len(Order)
  BY DEF Calls, CallSound, Shape
<1>2. ASSUME NEW i \in Items PROVE Corpus(c.seen)[i] = page[i]
  BY <1>1, PositionIs DEF Corpus, Exact
<1>3. QED
  BY <1>2 DEF Corpus

LEMMA AllowedMaps ==
  ASSUME page \in [Items -> Page], Settled = page, NEW i \in Items, NEW actor, NEW to,
         Allowed(page, i, actor, to)
  PROVE  Doors!Allowed(i, actor, to)
<1> DEFINE S == [j \in Items |-> Settled[j].status]
<1>1. \A j \in Items : S[j] = page[j].status
  OBVIOUS
<1>2. i \notin Projects => Parent[i] \in Items
  BY ProjectIs
<1>3. Doors!ParentStatus(i) = IF i \in Projects THEN "none" ELSE page[Parent[i]].status
  BY <1>1, <1>2 DEF Doors!ParentStatus
<1>4. Doors!Children(i) = {j \in Items \ Projects : Parent[j] = i /\ page[j].status # "absent"}
  BY <1>1, ClassesDisjoint DEF Doors!Children, Items
<1>5. Doors!ChildrenStatuses(i) = {S[j] : j \in Doors!Children(i)}
  BY DEF Doors!ChildrenStatuses
<1>6. Doors!ChildrenStatuses(i) = ChildrenStatuses(page, i)
  BY <1>1, <1>4, <1>5 DEF ChildrenStatuses
<1>7. QED
  BY <1>1, <1>3, <1>6, SameRules DEF Doors!Allowed, Allowed

LEMMA NewMaps ==
  ASSUME page \in [Items -> Page], Settled = page, UNCHANGED <<branch, main>>,
         NEW i \in Items, NEW b \in Bodies, page[i].status = "absent",
         i \notin Projects => page[Parent[i]].status # "absent",
         Settled' = Over(page, Just(i, [page[i] EXCEPT !.status = "draft", !.body = b]))
  PROVE  Doors!New(i, b)
<1>1. page[i] \in Page /\ (i \notin Projects => Parent[i] \in Items)
  BY ProjectIs
<1>2. PICK p : p = [page[i] EXCEPT !.status = "draft", !.body = b] /\ Shows(p, "draft", b, page[i].seal)
  BY <1>1, RewritesShow
<1>3. \A j \in Items : Settled'[j] = IF j = i THEN p ELSE Settled[j]
  BY <1>2, OverJust
<1>4. /\ [j \in Items |-> Settled'[j].status] = [[j \in Items |-> Settled[j].status] EXCEPT ![i] = "draft"]
      /\ [j \in Items |-> Settled'[j].body] = [[j \in Items |-> Settled[j].body] EXCEPT ![i] = b]
      /\ [j \in Items |-> Settled'[j].seal] = [j \in Items |-> Settled[j].seal]
  BY <1>2, <1>3 DEF Shows
<1>5. QED
  BY <1>1, <1>4 DEF Doors!New

LEMMA SignoffMaps ==
  ASSUME page \in [Items -> Page], Settled = page, UNCHANGED <<branch, main>>,
         NEW i \in Items, Allowed(page, i, "HumanSeat", "ready"), page[i].seal = NoSeal,
         Settled' = Over(page, Just(i, [page[i] EXCEPT !.status = "ready", !.seal = page[i].body]))
  PROVE  Doors!Signoff(i)
<1>1. page[i] \in Page
  OBVIOUS
<1>2. PICK p : /\ p = [page[i] EXCEPT !.status = "ready", !.seal = page[i].body]
               /\ Shows(p, "ready", page[i].body, page[i].body)
  BY <1>1, RewritesShow
<1>3. \A j \in Items : Settled'[j] = IF j = i THEN p ELSE Settled[j]
  BY <1>2, OverJust
<1>4. /\ [j \in Items |-> Settled'[j].status] = [[j \in Items |-> Settled[j].status] EXCEPT ![i] = "ready"]
      /\ [j \in Items |-> Settled'[j].body] = [j \in Items |-> Settled[j].body]
      /\ [j \in Items |-> Settled'[j].seal] = [[j \in Items |-> Settled[j].seal] EXCEPT ![i] = page[i].body]
  BY <1>2, <1>3 DEF Shows
<1>5. Doors!Allowed(i, "HumanSeat", "ready")
  BY AllowedMaps
<1>6. QED
  BY <1>4, <1>5 DEF Doors!Signoff

LEMMA CloseMaps ==
  ASSUME page \in [Items -> Page], Settled = page, UNCHANGED <<branch, main>>,
         NEW i \in Items, i \notin Tasks, Intact(page[i]), Allowed(page, i, "HumanSeat", "done"),
         Settled' = Over(page, Just(i, Moved(page[i], "done")))
  PROVE  Doors!Close(i, "HumanSeat")
<1>1. PICK p : p = Moved(page[i], "done") /\ Shows(p, "done", page[i].body, page[i].seal)
  BY RewritesShow
<1>2. \A j \in Items : Settled'[j] = IF j = i THEN p ELSE Settled[j]
  BY <1>1, OverJust
<1>3. /\ [j \in Items |-> Settled'[j].status] = [[j \in Items |-> Settled[j].status] EXCEPT ![i] = "done"]
      /\ [j \in Items |-> Settled'[j].body] = [j \in Items |-> Settled[j].body]
      /\ [j \in Items |-> Settled'[j].seal] = [j \in Items |-> Settled[j].seal]
  BY <1>1, <1>2 DEF Shows
<1>4. Doors!Allowed(i, "HumanSeat", "done")
  BY AllowedMaps
<1>5. QED
  BY <1>3, <1>4 DEF Doors!Close, Doors!Intact, Intact

LEMMA BounceMaps ==
  ASSUME page \in [Items -> Page], Settled = page, UNCHANGED <<branch, main>>, NEW i \in Items,
         Settled' = Over(page, BounceWrites(page, i))
  PROVE  Doors!BounceSubtree(i)
<1>1. Doors!BounceHits(i) = {j \in Subtree(i) : page[j].status \in SignedOpen}
  BY SameRules DEF Doors!BounceHits, Subtree
<1>2. \A j \in Items :
        /\ j \in Doors!BounceHits(i) => Shows(Settled'[j], "draft", page[j].body, NoSeal)
        /\ j \notin Doors!BounceHits(i) => Settled'[j] = page[j]
  BY <1>1, OverBounce
<1>3. /\ [j \in Items |-> Settled'[j].status] =
           [j \in Items |-> IF j \in Doors!BounceHits(i) THEN "draft" ELSE page[j].status]
      /\ [j \in Items |-> Settled'[j].body] = [j \in Items |-> page[j].body]
      /\ [j \in Items |-> Settled'[j].seal] =
           [j \in Items |-> IF j \in Doors!BounceHits(i) THEN NoSeal ELSE page[j].seal]
  BY <1>2 DEF Shows
<1>4. QED
  BY <1>3, SameRules DEF Doors!BounceSubtree, Doors!Stripped

LEMMA CancelMaps ==
  ASSUME page \in [Items -> Page], Settled = page, UNCHANGED <<branch, main>>, NEW i \in Items,
         Allowed(page, i, "Harness", "cancelled"), Settled' = Over(page, CancelWrites(page, i))
  PROVE  Doors!Cancel(i, "Harness")
<1>1. \A j \in Items :
        /\ j \in Subtree(i) /\ page[j].status \notin Terminal \cup {"absent"} =>
             Shows(Settled'[j], "cancelled", page[j].body, page[j].seal)
        /\ j \notin Subtree(i) \/ page[j].status \in Terminal \cup {"absent"} => Settled'[j] = page[j]
  BY OverCancel
<1>2. /\ [j \in Items |-> Settled'[j].status] =
           [j \in Items |-> IF j \in Subtree(i) /\ page[j].status \notin Terminal \cup {"absent"}
                            THEN "cancelled" ELSE page[j].status]
      /\ [j \in Items |-> Settled'[j].body] = [j \in Items |-> page[j].body]
      /\ [j \in Items |-> Settled'[j].seal] = [j \in Items |-> page[j].seal]
  BY <1>1 DEF Shows
<1>3. Doors!Allowed(i, "Harness", "cancelled")
  BY AllowedMaps
<1>4. QED
  BY <1>2, <1>3, SameRules DEF Doors!Cancel

LEMMA ClaimMaps ==
  ASSUME page \in [Items -> Page], Settled = page, main' = main, NEW t \in Tasks,
         Intact(page[t]), Allowed(page, t, "Harness", "in-progress"), branch' = Provisioned(t),
         Settled' = Over(page, ClaimWrites(page, t))
  PROVE  Doors!Claim(t, "Harness")
<1>1. t \in Items
  BY DEF Items
<1>2. \A j \in Items : page[j] \in Page /\ Shows(page[j], page[j].status, page[j].body, page[j].seal)
  BY RewritesShow
<1>3. \A j \in Items :
        Shows(Settled'[j], IF j = t THEN "in-progress" ELSE page[j].status, page[j].body, page[j].seal)
  BY <1>2, OverClaim DEF Shows
<1>4. /\ [j \in Items |-> Settled'[j].status] = [[j \in Items |-> Settled[j].status] EXCEPT ![t] = "in-progress"]
      /\ [j \in Items |-> Settled'[j].body] = [j \in Items |-> Settled[j].body]
      /\ [j \in Items |-> Settled'[j].seal] = [j \in Items |-> Settled[j].seal]
  BY <1>1, <1>3 DEF Shows
<1>5. Doors!Allowed(t, "Harness", "in-progress")
  BY <1>1, AllowedMaps
<1>6. QED
  BY <1>1, <1>4, <1>5 DEF Doors!Claim, Doors!Intact, Intact, Provisioned

(* The squash commits of a project's main, by task.                        *)
LEMMA TasksOfAppend ==
  ASSUME NEW m \in Seq(Commits), NEW c \in Commits
  PROVE  [n \in DOMAIN Append(m, c) |-> Append(m, c)[n].task] = Append([n \in DOMAIN m |-> m[n].task], c.task)
<1> DEFINE T == [n \in 1..Len(m) |-> m[n].task]
<1>1. Len(m) \in Nat /\ DOMAIN m = 1..Len(m)
  OBVIOUS
<1>2. ASSUME NEW n \in 1..Len(m) PROVE m[n].task \in Tasks
  <2>1. m[n] \in Commits
    OBVIOUS
  <2>2. QED
    BY <2>1 DEF Commits
<1>3. T \in Seq(Tasks) /\ Len(T) = Len(m) /\ c.task \in Tasks
  BY <1>1, <1>2 DEF Commits
<1>4. DOMAIN Append(m, c) = 1..(Len(m) + 1) /\ DOMAIN Append(T, c.task) = 1..(Len(m) + 1)
  BY <1>1, <1>3
<1>5. \A n \in 1..(Len(m) + 1) : Append(m, c)[n] = IF n <= Len(m) THEN m[n] ELSE c
  BY <1>1
<1>6. \A n \in 1..(Len(m) + 1) : Append(T, c.task)[n] = IF n <= Len(m) THEN T[n] ELSE c.task
  BY <1>1, <1>3
<1>7. \A n \in 1..(Len(m) + 1) : Append(m, c)[n].task = Append(T, c.task)[n]
  BY <1>1, <1>5, <1>6
<1>8. Append(T, c.task) = [n \in 1..(Len(m) + 1) |-> Append(T, c.task)[n]]
  BY <1>3, <1>4
<1>9. QED
  BY <1>1, <1>4, <1>7, <1>8

LEMMA MergeMaps ==
  ASSUME Types, AllSound, Settled = page, NEW s \in Sessions, Merge(s), NEW t \in Tasks, t = call[s].item,
         Corpus(call[s].seen) = page, Settled' = Over(page, call'[s].todo)
  PROVE  Doors!Complete(t)
<1>1. /\ t \in Items /\ page \in [Items -> Page] /\ page[t] \in Page /\ main \in [Projects -> Seq(Commits)]
      /\ call[s].at = "gate" /\ call[s] \in Calls /\ CallSound(call[s])
      /\ call \in [Sessions -> Calls] /\ branch \in [Tasks -> {"absent", "even", "ahead"}]
  BY DEF Types, AllSound, Merge, Items
<1>2. Intact(page[t]) /\ page[t].status = "in-progress"
  BY <1>1 DEF CallSound, Shape
<1>3. call'[s].todo = Just(t, Moved(page[t], "done"))
  BY <1>1 DEF Merge, WriteNext, Calls
<1>4. PICK p : p = Moved(page[t], "done") /\ Shows(p, "done", page[t].body, page[t].seal)
  BY <1>1, RewritesShow
<1>5. \A j \in Items : Settled'[j] = IF j = t THEN p ELSE Settled[j]
  BY <1>1, <1>3, <1>4, OverJust
<1>6. /\ [j \in Items |-> Settled'[j].status] = [[j \in Items |-> Settled[j].status] EXCEPT ![t] = "done"]
      /\ [j \in Items |-> Settled'[j].body] = [j \in Items |-> Settled[j].body]
      /\ [j \in Items |-> Settled'[j].seal] = [j \in Items |-> Settled[j].seal]
  <2>1. \A j \in Items : /\ Settled'[j].status = IF j = t THEN "done" ELSE Settled[j].status
                         /\ Settled'[j].body = Settled[j].body
                         /\ Settled'[j].seal = Settled[j].seal
    BY <1>1, <1>4, <1>5 DEF Shows
  <2>2. PICK tree : tree = Settled /\ DOMAIN tree = Items
    BY <1>1
  <2>3. PICK after : after = Settled'
    OBVIOUS
  <2>4. \A j \in Items : /\ after[j].status = IF j = t THEN "done" ELSE tree[j].status
                         /\ after[j].body = tree[j].body /\ after[j].seal = tree[j].seal
    BY <2>1, <2>2, <2>3
  <2>5. /\ [j \in Items |-> after[j].body] = [j \in Items |-> tree[j].body]
        /\ [j \in Items |-> after[j].seal] = [j \in Items |-> tree[j].seal]
    BY <2>4
  <2>6. [j \in Items |-> after[j].status] = [[j \in Items |-> tree[j].status] EXCEPT ![t] = "done"]
    BY <1>1, <2>4
  <2>7. QED
    BY <2>2, <2>3, <2>5, <2>6
<1>7. ClassOf(t) = "task"
  BY ClassesDisjoint DEF ClassOf
<1>8. Allowed(page, t, "MergeDoor", "done")
  BY <1>2, <1>7 DEF Allowed, TransitionAllowed, TaskDoneRule, Terminal
<1>9. Doors!Allowed(t, "MergeDoor", "done")
  BY <1>1, <1>8, AllowedMaps
<1>10. [p1 \in Projects |-> [n \in DOMAIN main'[p1] |-> main'[p1][n].task]]
         = [[p1 \in Projects |-> [n \in DOMAIN main[p1] |-> main[p1][n].task]] EXCEPT ![ProjectOf(t)] = Append(@, t)]
  <2>1. PICK q \in Projects : q = ProjectOf(t)
    BY ProjectIs
  <2>2. PICK c \in Commits : c = [task |-> t, body |-> page[t].body]
    BY <1>1 DEF Commits, Page
  <2>3. main' = [main EXCEPT ![q] = Append(main[q], c)]
    BY <1>1, <2>1, <2>2 DEF Merge, Squashed
  <2>4. main[q] \in Seq(Commits) /\ c.task = t
    BY <1>1, <2>2
  <2>5. [n \in DOMAIN main'[q] |-> main'[q][n].task] = Append([n \in DOMAIN main[q] |-> main[q][n].task], t)
    BY <1>1, <2>3, <2>4, TasksOfAppend
  <2>6. \A p1 \in Projects \ {q} : main'[p1] = main[p1]
    BY <1>1, <2>3
  <2> DEFINE names(p1) == [n \in DOMAIN main[p1] |-> main[p1][n].task]
             now(p1) == [n \in DOMAIN main'[p1] |-> main'[p1][n].task]
  <2>7. \A p1 \in Projects : now(p1) = IF p1 = q THEN Append(names(p1), t) ELSE names(p1)
    BY <2>5, <2>6
  <2>8. [p1 \in Projects |-> now(p1)] = [[p1 \in Projects |-> names(p1)] EXCEPT ![q] = Append(@, t)]
    <3> HIDE DEF names, now
    <3>1. QED
      BY <2>7
  <2>9. QED
    BY <2>1, <2>8
<1>11. branch[t] = "ahead" /\ branch' = [branch EXCEPT ![t] = "even"]
  BY DEF Merge
<1>12. QED
  BY <1>1, <1>2, <1>6, <1>9, <1>10, <1>11, SameRules DEF Doors!Complete, Doors!Intact, Intact, Doors!Squashed

(* A decision on exactly what the wiki holds is a step of the doors.       *)
LEMMA ChosenMaps ==
  ASSUME page \in [Items -> Page], Settled = page, NEW i \in Items, NEW todo, Chosen(page, i, todo),
         Broken(page[i]) => page[i].status # "absent", main' = main, Settled' = Over(page, todo)
  PROVE  [Doors!Next]_(Doors!vars)
<1>1. CASE DOMAIN todo = {} /\ UNCHANGED branch
  <2>1. Settled' = Settled
    BY <1>1, NothingOver
  <2>2. QED
    BY <1>1, <2>1 DEF Doors!vars
<1>2. CASE /\ page[i].status = "absent" /\ (i \notin Projects => page[Parent[i]].status # "absent")
           /\ \E b \in Bodies : todo = Just(i, [page[i] EXCEPT !.status = "draft", !.body = b])
           /\ UNCHANGED branch
  <2>1. PICK b \in Bodies : todo = Just(i, [page[i] EXCEPT !.status = "draft", !.body = b])
    BY <1>2
  <2>2. Settled' = Over(page, Just(i, [page[i] EXCEPT !.status = "draft", !.body = b]))
    BY <2>1
  <2>3. Doors!New(i, b)
    BY <1>2, <2>2, NewMaps
  <2>4. QED
    BY <2>3, SameRules DEF Doors!Next
<1>3. CASE /\ Allowed(page, i, "HumanSeat", "ready") /\ page[i].seal = NoSeal
           /\ todo = Just(i, [page[i] EXCEPT !.status = "ready", !.seal = page[i].body])
           /\ UNCHANGED branch
  <2>1. Settled' = Over(page, Just(i, [page[i] EXCEPT !.status = "ready", !.seal = page[i].body]))
    BY <1>3
  <2>2. Doors!Signoff(i)
    BY <1>3, <2>1, SignoffMaps
  <2>3. QED
    BY <2>2, SameRules DEF Doors!Next
<1>4. CASE /\ Allowed(page, i, "Harness", "draft") \/ Broken(page[i])
           /\ todo = BounceWrites(page, i) /\ UNCHANGED branch
  <2>1. Doors!BounceSubtree(i)
    BY <1>4, BounceMaps
  <2>2. Allowed(page, i, "Harness", "draft") => Doors!Bounce(i, "Harness")
    BY <2>1, AllowedMaps DEF Doors!Bounce
  <2>3. Broken(page[i]) => Doors!ForcedBounce(i)
    BY <2>1 DEF Doors!ForcedBounce, Doors!Broken, Broken
  <2>4. QED
    BY <1>4, <2>2, <2>3, SameRules DEF Doors!Next, Doors!Caller
<1>5. CASE /\ Allowed(page, i, "Harness", "cancelled")
           /\ todo = CancelWrites(page, i) /\ UNCHANGED branch
  <2>1. Doors!Cancel(i, "Harness")
    BY <1>5, CancelMaps
  <2>2. QED
    BY <2>1, SameRules DEF Doors!Next, Doors!Caller
<1>6. CASE /\ i \in Tasks /\ Intact(page[i]) /\ Allowed(page, i, "Harness", "in-progress")
           /\ todo = ClaimWrites(page, i) /\ branch' = Provisioned(i)
  <2>1. Doors!Claim(i, "Harness")
    BY <1>6, ClaimMaps
  <2>2. QED
    BY <1>6, <2>1 DEF Doors!Next, Doors!Caller
<1>7. CASE /\ i \notin Tasks /\ Intact(page[i]) /\ Allowed(page, i, "HumanSeat", "done")
           /\ todo = Just(i, Moved(page[i], "done")) /\ UNCHANGED branch
  <2>1. Doors!Close(i, "HumanSeat")
    BY <1>7, CloseMaps
  <2>2. QED
    BY <2>1, SameRules DEF Doors!Next, Doors!Caller
<1>8. QED
  BY <1>1, <1>2, <1>3, <1>4, <1>5, <1>6, <1>7 DEF Chosen

LEMMA DoorsStep ==
  Types /\ AllSound /\ OneAtATime /\ Undisturbed /\ [Next]_vars =>
    [trouble' # {} \/ [Doors!Next]_(Doors!vars)]_vars
<1> SUFFICES ASSUME Types, AllSound, OneAtATime, Undisturbed, [Next]_vars, trouble' = {}
             PROVE  [Doors!Next]_(Doors!vars)
  OBVIOUS
<1>1. trouble = {} /\ "overlap" \notin trouble' /\ "death" \notin trouble'
  BY TroubleGrows
<1>2. page \in [Items -> Page] /\ call \in [Sessions -> Calls] /\ branch \in [Tasks -> {"absent", "even", "ahead"}]
  BY DEF Types
<1>3. ASSUME NEW s \in Sessions, SessionStep(s) PROVE [Doors!Next]_(Doors!vars)
  <2>1. CASE Settled' = Settled /\ UNCHANGED <<branch, main>>
    BY <2>1 DEF Doors!vars
  <2>2. ASSUME call[s].at \in {"decide", "gate"}
        PROVE  Corpus(call[s].seen) = page /\ call[s].item \in Items /\ CallSound(call[s])
    <3>1. call[s] \in Calls /\ CallSound(call[s]) /\ Exact(call[s])
      BY <1>1, <1>2 DEF AllSound, Undisturbed
    <3>2. QED
      BY <1>2, <2>2, <3>1, ExactIsPage DEF CallSound, Shape
  <2>3. CASE Decide(s) /\ Settled = page /\ Settled' = Over(page, call'[s].todo)
    <3>1. PICK i \in Items : i = call[s].item
      BY <2>2, <2>3 DEF Decide
    <3>2. page = Corpus(call[s].seen)
      BY <2>2, <2>3 DEF Decide
    <3>3. PICK todo : todo = call'[s].todo
      OBVIOUS
    <3>4. PICK v : v = Corpus(call[s].seen)
      OBVIOUS
    <3>5. Chosen(v, i, todo) /\ main' = main
      BY <2>3, <3>1, <3>3, <3>4, Choices
    <3>6. Broken(page[i]) => page[i].status # "absent"
      BY DEF AllSound, Sound, Broken
    <3>7. Chosen(page, i, todo)
      BY <3>2, <3>4, <3>5
    <3>8. QED
      BY <1>2, <2>3, <3>3, <3>5, <3>6, <3>7, ChosenMaps
  <2>4. CASE Merge(s) /\ Settled = page /\ Settled' = Over(page, call'[s].todo)
    <3>1. Corpus(call[s].seen) = page /\ CallSound(call[s]) /\ call[s].at = "gate"
      BY <2>2, <2>4 DEF Merge
    <3>2. PICK t \in Tasks : t = call[s].item
      BY <3>1 DEF CallSound, Shape
    <3>3. Doors!Complete(t)
      BY <2>4, <3>1, <3>2, MergeMaps
    <3>4. QED
      BY <3>3 DEF Doors!Next
  <2>5. CASE MergeRefused(s) /\ Settled = page /\ Settled' = Over(page, call'[s].todo)
    <3>1. Corpus(call[s].seen) = page /\ call[s].item \in Items /\ UNCHANGED <<branch, main>>
      BY <2>2, <2>5 DEF MergeRefused
    <3>2. PICK i \in Items : i = call[s].item
      BY <3>1
    <3>3. call'[s].todo = Just(i, page[i])
      BY <1>2, <2>5, <3>1, <3>2 DEF MergeRefused, WriteNext, Calls
    <3>4. \A j \in Items : Over(page, Just(i, page[i]))[j] = page[j]
      BY <1>2, OverJust
    <3>5. Over(page, Just(i, page[i])) = page
      BY <1>2, <3>4 DEF Over
    <3>6. QED
      BY <2>5, <3>1, <3>3, <3>5 DEF Doors!vars
  <2>6. QED
    BY <1>1, <1>3, <2>1, <2>3, <2>4, <2>5, SettledSteps
<1>4. ASSUME NEW i \in Items, NEW b \in Bodies, EditBody(i, b) PROVE [Doors!Next]_(Doors!vars)
  <2>1. \A s \in Sessions : call[s] = Idle /\ call'[s] = Idle
    BY <1>4 DEF EditBody, Disturb, Busy
  <2>2. page' = [page EXCEPT ![i].body = b] /\ page[i].status # "absent" /\ page[i].body # b
        /\ UNCHANGED <<branch, main>>
    BY <1>4 DEF EditBody
  <2>3. Settled = page
    BY <1>2, <2>1, RestingIsPage
  <2>4. Settled' = page'
    BY <1>2, <2>1, <2>2, IdleIs DEF Settled
  <2>5. \A j \in Items : Shows(page'[j], page[j].status, IF j = i THEN b ELSE page[j].body, page[j].seal)
    BY <1>2, <2>2 DEF Shows, Page
  <2>6. /\ [j \in Items |-> Settled'[j].status] = [j \in Items |-> Settled[j].status]
        /\ [j \in Items |-> Settled'[j].body] = [[j \in Items |-> Settled[j].body] EXCEPT ![i] = b]
        /\ [j \in Items |-> Settled'[j].seal] = [j \in Items |-> Settled[j].seal]
    BY <2>3, <2>4, <2>5 DEF Shows
  <2>7. Doors!EditBody(i, b)
    BY <2>2, <2>3, <2>6 DEF Doors!EditBody
  <2>8. QED
    BY <2>7, SameRules DEF Doors!Next
<1>5. ASSUME NEW t \in Tasks, PushWork(t) PROVE [Doors!Next]_(Doors!vars)
  <2>1. Settled' = Settled /\ main' = main
    BY <1>5 DEF PushWork, Settled
  <2>2. Doors!PushWork(t)
    BY <1>5, <2>1 DEF PushWork, Doors!PushWork
  <2>3. QED
    BY <2>2 DEF Doors!Next
<1>6. ASSUME UNCHANGED vars PROVE [Doors!Next]_(Doors!vars)
  <2>1. Settled' = Settled
    BY <1>6 DEF vars, Settled
  <2>2. QED
    BY <1>6, <2>1 DEF vars, Doors!vars
<1>7. QED
  BY <1>3, <1>4, <1>5, <1>6 DEF Next, SessionStep

LEMMA UndisturbedInit == Init => Undisturbed
<1>1. Exact(Idle)
  BY IdleIs DEF Exact
<1>2. QED
  BY <1>1 DEF Init, InitWith, Undisturbed

(* While no call is overlapped, cut short or edited under, the sessions    *)
(* implement the atomic doors of ConduitDoors: a verb takes effect where   *)
(* it decides on the corpus it loaded, complete where it pushes, and the   *)
(* page writes that follow (work.rs) only carry that out.                  *)
THEOREM SessionsImplementDoors == Spec => ImplementsDoors
<1>1. Init => Types /\ AllSound /\ OneAtATime /\ Undisturbed
  BY SessionsInit, UndisturbedInit
<1>2. Types /\ AllSound /\ OneAtATime /\ Undisturbed /\ [Next]_vars =>
        (Types /\ AllSound /\ OneAtATime /\ Undisturbed)'
  BY SoundStep, AloneStep, ExactStep
<1>3. QED
  BY <1>1, <1>2, DoorsStep, PTL DEF Spec, ImplementsDoors

=============================================================================

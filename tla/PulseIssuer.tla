---------------------------- MODULE PulseIssuer ----------------------------
(***************************************************************************)
(* Pulse's Identity zone: GET /question and POST /token/sign as concurrent *)
(* handlers run them (identity_routes.rs, token_issuer.rs, sampling.rs).   *)
(* A signature goes out after the sampling engine has counted it, and the  *)
(* engine counts before anything is signed.  The issuer never sees the     *)
(* token: all it knows of one is the employee and the batch of the         *)
(* request, so a token is not a part of this module.                       *)
(*                                                                         *)
(* Sessions, counts and the issuance log live in memory and go with the    *)
(* process.  Engine chooses between the engine with a roster               *)
(* (InMemorySamplingEngine) and the one main.rs starts (DevSamplingEngine).*)
(***************************************************************************)
EXTENDS Naturals, FiniteSets

CONSTANTS
  Employees,
  Batches,
  Assigned,     \* the roster's assignments, pairs of employee and batch
  Cap,          \* max_tokens_per_employee_per_batch
  Engine,       \* "roster" or "dev"
  Handlers,     \* requests in progress at a time
  Malformed,    \* whether a request may carry what blind_sign rejects
  MaxBoots,     \* bound: starts of the process
  MaxRequests,  \* bound: requests to sign
  Nobody

Pairs == Employees \X Batches

ASSUME AssignedPairs == Assigned \subseteq Pairs
ASSUME CapIsNatural == Cap \in Nat /\ MaxBoots \in Nat /\ MaxRequests \in Nat
ASSUME Choices == Engine \in {"roster", "dev"} /\ Malformed \in BOOLEAN
ASSUME NobodyIsNone == Nobody \notin Pairs
ASSUME FiniteHandlers == IsFiniteSet(Handlers)

VARIABLES
  boot,      \* starts of the process so far
  session,   \* employees with a session in this process
  closed,    \* batches whose expiry has passed
  pc,        \* where each handler is in sign_token
  req,       \* whose request it serves, and for which batch
  counts,    \* issuance_counts of the sampling engine
  log,       \* issuance_log: signatures released, per employee and batch
  burnt,     \* history: counted, and not signed
  offered,   \* the batches GET /question last gave each employee
  ever,      \* history: signatures released in all processes
  requests   \* requests left

vars == <<boot, session, closed, pc, req, counts, log, burnt, offered, ever, requests>>

Zero == [p \in Pairs |-> 0]

(* Handlers whose request is counted and not signed yet.                   *)
Counted(p) == {h \in Handlers : pc[h] = "counted" /\ req[h] = p}

Init ==
  /\ boot = 1
  /\ session = {}
  /\ closed = {}
  /\ pc = [h \in Handlers |-> "idle"]
  /\ req = [h \in Handlers |-> Nobody]
  /\ counts = Zero /\ log = Zero /\ burnt = Zero /\ ever = Zero
  /\ offered = [e \in Employees |-> {}]
  /\ requests = MaxRequests

-----------------------------------------------------------------------------
(* POST /auth; a session never ends while the process runs.                *)
Authenticate(e) ==
  /\ session' = session \cup {e}
  /\ UNCHANGED <<boot, closed, pc, req, counts, log, burnt, offered, ever, requests>>

(* A batch's expiry passes.                                                *)
Close(b) ==
  /\ closed' = closed \cup {b}
  /\ UNCHANGED <<boot, session, pc, req, counts, log, burnt, offered, ever, requests>>

OneMore(p) == counts[p] <= Cap      \* Mutant

StrictlyUnder(p) == counts[p] + 1 < Cap  \* Mutant

UnderCap(p) == counts[p] < Cap

AnyAssigned(e) == {b \in Batches : <<e, b>> \in Assigned}  \* Mutant

(* assignments_for: the engine with a roster leaves out what is closed and *)
(* what is used up; the dev engine offers its batch to everybody.          *)
Assignments(e) ==
  IF Engine = "dev" THEN Batches
  ELSE {b \in Batches \ closed : <<e, b>> \in Assigned /\ UnderCap(<<e, b>>)}

Questions(e) ==
  /\ e \in session
  /\ offered' = [offered EXCEPT ![e] = Assignments(e)]
  /\ UNCHANGED <<boot, session, closed, pc, req, counts, log, burnt, ever, requests>>

-----------------------------------------------------------------------------
(* POST /token/sign.  A request without a session is turned away before    *)
(* the handler starts.                                                     *)
Request(h, p) ==
  /\ pc[h] = "idle"
  /\ p[1] \in session
  /\ requests > 0
  /\ requests' = requests - 1
  /\ pc' = [pc EXCEPT ![h] = "asked"]
  /\ req' = [req EXCEPT ![h] = p]
  /\ UNCHANGED <<boot, session, closed, counts, log, burnt, offered, ever>>

Done(h) ==
  /\ pc' = [pc EXCEPT ![h] = "idle"]
  /\ req' = [req EXCEPT ![h] = Nobody]

OpenBatch(p) == p[2] \notin closed  \* Mutant

(* The roster's checks, made before the lock on the counts is taken.       *)
Admits(p) == Engine = "dev" \/ (p[2] \notin closed /\ p \in Assigned)

Admit(h) ==
  /\ pc[h] = "asked"
  /\ IF Admits(req[h])
     THEN pc' = [pc EXCEPT ![h] = "admitted"] /\ UNCHANGED req
     ELSE Done(h)
  /\ UNCHANGED <<boot, session, closed, counts, log, burnt, offered, ever, requests>>

(* Under the lock: the cap is compared and the count raised.               *)
Count(h) ==
  /\ pc[h] = "admitted"
  /\ IF UnderCap(req[h])
     THEN /\ counts' = [counts EXCEPT ![req[h]] = @ + 1]
          /\ pc' = [pc EXCEPT ![h] = "counted"]
          /\ UNCHANGED req
     ELSE Done(h) /\ UNCHANGED counts
  /\ UNCHANGED <<boot, session, closed, log, burnt, offered, ever, requests>>

Removed(p) == [log EXCEPT ![p] = @ - 1]    \* Mutant

Logged(p) == [log EXCEPT ![p] = @ + 1]

(* blind_sign, the entry in the log, and the response.                     *)
Sign(h) ==
  /\ pc[h] = "counted"
  /\ log' = Logged(req[h])
  /\ ever' = [ever EXCEPT ![req[h]] = @ + 1]
  /\ Done(h)
  /\ UNCHANGED <<boot, session, closed, counts, burnt, offered, requests>>

(* blind_sign refuses the blinded message; the count stays.                *)
SigningFails(h) ==
  /\ Malformed
  /\ pc[h] = "counted"
  /\ burnt' = [burnt EXCEPT ![req[h]] = @ + 1]
  /\ Done(h)
  /\ UNCHANGED <<boot, session, closed, counts, log, offered, ever, requests>>

(* A new process remembers nobody and nothing.                             *)
Restart ==
  /\ boot < MaxBoots
  /\ boot' = boot + 1
  /\ session' = {}
  /\ pc' = [h \in Handlers |-> "idle"]
  /\ req' = [h \in Handlers |-> Nobody]
  /\ counts' = Zero /\ log' = Zero /\ burnt' = Zero
  /\ UNCHANGED <<closed, offered, ever, requests>>

Next ==
  \/ \E h \in Handlers :
       \/ Admit(h) \/ Count(h) \/ Sign(h) \/ SigningFails(h)
       \/ \E p \in Pairs : Request(h, p)
  \/ \E e \in Employees : Authenticate(e) \/ Questions(e)
  \/ \E b \in Batches : Close(b)
  \/ Restart

Spec == Init /\ [][Next]_vars

-----------------------------------------------------------------------------
(* Type invariant.                                                         *)
TypeOK ==
  /\ boot \in Nat
  /\ session \subseteq Employees
  /\ closed \subseteq Batches
  /\ pc \in [Handlers -> {"idle", "asked", "admitted", "counted"}]
  /\ req \in [Handlers -> Pairs \cup {Nobody}]
  /\ \A h \in Handlers : pc[h] # "idle" => req[h] \in Pairs
  /\ counts \in [Pairs -> Nat] /\ log \in [Pairs -> Nat]
  /\ burnt \in [Pairs -> Nat] /\ ever \in [Pairs -> Nat]
  /\ offered \in [Employees -> SUBSET Batches]
  /\ requests \in Nat

(* Every unit of the quota is a signature in the log, one on its way, or   *)
(* one that signing failed on; concurrent requests never get past the cap. *)
QuotaAddsUp ==
  \A p \in Pairs :
    /\ counts[p] = log[p] + burnt[p] + Cardinality(Counted(p))
    /\ counts[p] <= Cap

(* What GET /question of the engine with a roster offers can be signed     *)
(* when it is offered.                                                     *)
OfferedIsSignable ==
  Engine = "roster" => \A e \in Employees : offered'[e] # offered[e] =>
    \A b \in offered'[e] : UnderCap(<<e, b>>) /\ b \notin closed

=============================================================================

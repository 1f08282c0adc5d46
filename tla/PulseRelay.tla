----------------------------- MODULE PulseRelay -----------------------------
(***************************************************************************)
(* Pulse's anonymizing relay: the handlers that enqueue submissions        *)
(* (routes.rs), the task that drains, shuffles and forwards them           *)
(* (batcher.rs), and the shutdown main.rs arranges between the two.        *)
(*                                                                         *)
(* The handlers and the flush loop share the queue and a tokio Notify.  Of *)
(* the Notify both halves matter: a waiter that has been woken, and the    *)
(* one permit that is stored when nobody waits.  The order of a batch is   *)
(* drawn at random, so queue and batch are sets.                           *)
(***************************************************************************)
EXTENDS Naturals, FiniteSets

CONSTANTS
  Requests,    \* one POST /response each
  BatchSize,   \* PULSE_RELAY_BATCH_SIZE
  Stops,       \* whether ctrl-c may come
  None

ASSUME BatchSizeIsPositive == BatchSize \in Nat \ {0}
ASSUME FiniteRequests == IsFiniteSet(Requests) /\ None \notin Requests
ASSUME StopsIsBoolean == Stops \in BOOLEAN

VARIABLES
  client,     \* what the handler of each request is doing, or answered
  queue,      \* Batcher::queue
  permit,     \* the Notify holds a permit
  woken,      \* the loop's registered waiter has been notified
  loop,       \* where flush_loop is
  batch,      \* drained and not sent yet
  sending,    \* the request being forwarded
  received,   \* requests the Signal zone got
  tried,      \* requests forward() has returned for
  shutdown,   \* ctrl-c has been signalled to the loop
  last        \* the drain in progress is the final one

relayVars == <<client, queue, permit, woken, loop, batch, sending, received,
              tried, shutdown, last>>

Waiting(r) == client[r] = "waiting"

(* A handler that runs can still change what the loop sees.                *)
Serving == {r \in Requests : client[r] \in {"receiving", "waiting"}}

RelayInit ==
  /\ client = [r \in Requests |-> "new"]
  /\ queue = {} /\ batch = {} /\ received = {} /\ tried = {}
  /\ permit = FALSE /\ woken = FALSE
  /\ loop = "poll"
  /\ sending = None
  /\ shutdown = FALSE /\ last = FALSE

-----------------------------------------------------------------------------
(* The handlers.                                                           *)

(* The server accepts the connection; the body is still on its way.        *)
Accept(r) ==
  /\ ~shutdown
  /\ client[r] = "new"
  /\ client' = [client EXCEPT ![r] = "receiving"]
  /\ UNCHANGED <<queue, permit, woken, loop, batch, sending, received, tried, shutdown, last>>

Reached(q) == Cardinality(q) >= BatchSize

(* notify_waiters would be: nobody waiting, nothing kept.                  *)
NotifyWaiters ==                            \* Mutant
  /\ woken' = (woken \/ loop = "waiting")
  /\ UNCHANGED permit

(* Notify::notify_one wakes the waiter, or stores a permit when there is   *)
(* none or it is awake already.                                            *)
NotifyOne ==
  IF loop = "waiting" /\ ~woken
  THEN woken' = TRUE /\ UNCHANGED permit
  ELSE permit' = TRUE /\ UNCHANGED woken

(* relay_response up to its await.  A connection that was accepted before  *)
(* the shutdown is served after it.                                        *)
Enqueue(r) ==
  /\ client[r] = "receiving"
  /\ client' = [client EXCEPT ![r] = "waiting"]
  /\ queue' = queue \cup {r}
  /\ IF Reached(queue') THEN NotifyOne ELSE UNCHANGED <<permit, woken>>
  /\ UNCHANGED <<loop, batch, sending, received, tried, shutdown, last>>

NoTimeOut(r) == FALSE                       \* Mutant

(* request_timeout_secs after the enqueue the client gets a 504.           *)
TimeOut(r) ==
  /\ Waiting(r)
  /\ client' = [client EXCEPT ![r] = "504"]
  /\ UNCHANGED <<queue, permit, woken, loop, batch, sending, received, tried, shutdown, last>>

(* The client hangs up; the handler, and with it the receiver, is dropped. *)
Disconnect(r) ==
  /\ client[r] \in {"receiving", "waiting"}
  /\ client' = [client EXCEPT ![r] = "gone"]
  /\ UNCHANGED <<queue, permit, woken, loop, batch, sending, received, tried, shutdown, last>>

-----------------------------------------------------------------------------
(* flush_loop.  select! looks at all its branches before it waits; a timer *)
(* it has just set is not due yet.                                         *)
Poll ==
  /\ loop = "poll"
  /\ \/ /\ shutdown
        /\ loop' = "drain" /\ last' = TRUE
        /\ UNCHANGED permit
     \/ /\ permit
        /\ loop' = "drain"
        /\ permit' = FALSE
        /\ UNCHANGED last
     \/ /\ ~shutdown /\ ~permit
        /\ loop' = "waiting"
        /\ UNCHANGED <<permit, last>>
  /\ UNCHANGED <<client, queue, woken, batch, sending, received, tried, shutdown>>

(* The loop leaves select! through another branch while its waiter has     *)
(* been notified: dropping the Notified future hands the notification on.  *)
HandOn == permit' = (permit \/ woken) /\ woken' = FALSE

Wake ==
  /\ loop = "waiting"
  /\ woken
  /\ loop' = "drain"
  /\ woken' = FALSE
  /\ UNCHANGED <<client, queue, permit, batch, sending, received, tried, shutdown, last>>

WindowElapses ==
  /\ loop = "waiting"
  /\ loop' = "drain"
  /\ HandOn
  /\ UNCHANGED <<client, queue, batch, sending, received, tried, shutdown, last>>

WakeToStop ==
  /\ loop = "waiting"
  /\ shutdown
  /\ loop' = "drain" /\ last' = TRUE
  /\ HandOn
  /\ UNCHANGED <<client, queue, batch, sending, received, tried, shutdown>>

\* Negative controls: only so many as make a batch are kept; an empty slot.
Capped(q) == CHOOSE s \in SUBSET q : Cardinality(s) = IF Reached(q) THEN BatchSize ELSE 0
Slotted(q) == q \cup {None}

Drained(q) == q

Drain ==
  /\ loop = "drain"
  /\ batch' = Drained(queue)
  /\ queue' = {}
  /\ loop' = "flushing"
  /\ UNCHANGED <<client, permit, woken, sending, received, tried, shutdown, last>>

(* flush_batch takes the next request of the shuffled batch.               *)
Send(r) ==
  /\ loop = "flushing"
  /\ sending = None
  /\ r \in batch
  /\ batch' = batch \ {r}
  /\ sending' = r
  /\ UNCHANGED <<client, queue, permit, woken, loop, received, tried, shutdown, last>>

(* The Signal zone gets the request.                                       *)
Receive ==
  /\ sending \notin received \cup {None}
  /\ received' = received \cup {sending}
  /\ UNCHANGED <<client, queue, permit, woken, loop, batch, sending, tried, shutdown, last>>

AnyReply == {"answered", "502"}   \* Mutant

(* What forward() may return: the response only if the request got there.  *)
Replies == IF sending \in received THEN {"answered", "502"} ELSE {"502"}

(* forward() returns the response, or an error that may also come after    *)
(* the Signal zone got the request; a client that is gone gets nothing.    *)
Settle(result) ==
  /\ sending # None
  /\ result \in Replies
  /\ client' = [client EXCEPT ![sending] = IF @ = "waiting" THEN result ELSE @]
  /\ tried' = tried \cup {sending}
  /\ sending' = None
  /\ UNCHANGED <<queue, permit, woken, loop, batch, received, shutdown, last>>

BackToPoll == "poll"   \* Mutant

AfterFlush == IF last THEN "exited" ELSE "poll"

(* The batch is through: back to select!, or out after the final flush.    *)
Flushed ==
  /\ loop = "flushing"
  /\ batch = {} /\ sending = None
  /\ loop' = AfterFlush
  /\ UNCHANGED <<client, queue, permit, woken, batch, sending, received, tried, shutdown, last>>

(* ctrl-c.                                                                 *)
Stop ==
  /\ Stops
  /\ ~shutdown
  /\ shutdown' = TRUE
  /\ UNCHANGED <<client, queue, permit, woken, loop, batch, sending, received, tried, last>>

Loop ==
  \/ Poll \/ Wake \/ WindowElapses \/ WakeToStop \/ Drain \/ Flushed
  \/ \E r \in Requests : Send(r)
  \/ \E result \in {"answered", "502"} : Settle(result)

RelayNext ==
  \/ Loop \/ Receive \/ Stop
  \/ \E r \in Requests : Accept(r) \/ Enqueue(r) \/ TimeOut(r) \/ Disconnect(r)

RelaySpec == RelayInit /\ [][RelayNext]_relayVars

(* The runtime runs the loop's task, its timers come due and forward()     *)
(* returns: reqwest has a timeout.  tokio also completes the timeout of a  *)
(* handler, and the server gets the body of a request it accepted, or      *)
(* notices that the client is gone.                                        *)
FairSpec ==
  /\ RelaySpec
  /\ WF_relayVars(Loop)
  /\ \A r \in Requests :
       /\ WF_relayVars(TimeOut(r))
       /\ WF_relayVars(Enqueue(r) \/ (client[r] = "receiving" /\ Disconnect(r)))

-----------------------------------------------------------------------------
(* Type invariant.                                                         *)
RelayTypes ==
  /\ client \in [Requests -> {"new", "receiving", "waiting", "answered", "502", "504", "gone"}]
  /\ queue \subseteq Requests /\ batch \subseteq Requests
  /\ received \subseteq Requests /\ tried \subseteq Requests
  /\ permit \in BOOLEAN /\ woken \in BOOLEAN /\ shutdown \in BOOLEAN /\ last \in BOOLEAN
  /\ loop \in {"poll", "waiting", "drain", "flushing", "exited"}
  /\ sending \in Requests \cup {None}

(* No wake-up is lost: the loop never sleeps over a full queue, and when   *)
(* the queue fills while the loop is busy it will not go to sleep.         *)
NoLostWakeup ==
  Reached(queue) =>
    /\ loop = "waiting" => woken
    /\ loop \in {"poll", "flushing"} => permit

(* What the relay holds of a request's body, or has held.                  *)
Held == queue \cup batch \cup tried \cup ({sending} \ {None})

(* No submission is dropped and none is sent twice: whatever a handler     *)
(* enqueued is in exactly one place between the queue and the end of       *)
(* forward(), also when its client has given up.                           *)
Accounted ==
  /\ \A r \in Requests :
       /\ client[r] \in {"new", "receiving"} => r \notin Held
       /\ client[r] \in {"waiting", "answered", "502", "504"} => r \in Held
  /\ queue \cap batch = {} /\ queue \cap tried = {} /\ batch \cap tried = {}
  /\ sending \notin queue \cup batch \cup tried

(* A client is told what the Signal zone answered only if it was asked.    *)
AnsweredWasReceived ==
  \A r \in Requests : client[r] = "answered" => r \in received

(* Every submission in the queue before the final drain is forwarded,      *)
(* whether its client waits or not.                                        *)
QueuedIsTried ==
  \A r \in Requests : (r \in queue /\ ~last) ~> (r \in tried)

(* Every client that reached the relay gets an answer.                     *)
ClientsAreReleased ==
  \A r \in Requests : client[r] = "receiving" ~> r \notin Serving

(* After ctrl-c the flush loop ends and nobody is left waiting, so main    *)
(* can return.                                                             *)
ShutdownCompletes == shutdown ~> [](loop = "exited" /\ Serving = {})

(* Between a handler and the end of a forwarding nothing is lost, sent     *)
(* twice or slept over, and no answer is made up.                          *)
SubmissionsAreKept == RelayTypes /\ NoLostWakeup /\ Accounted /\ AnsweredWasReceived

(* Everybody is served in the end: what is queued before the final drain   *)
(* is tried, every client hears, and a shutdown completes.                 *)
EveryoneIsServed == QueuedIsTried /\ ClientsAreReleased /\ ShutdownCompletes

=============================================================================

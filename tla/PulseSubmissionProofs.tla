--------------------------- MODULE PulseSubmissionProofs ---------------------------
(***************************************************************************)
(* Proofs about the way of a submission: through the relay (PulseRelay),   *)
(* for any number of submissions, any batch size and any moment of the     *)
(* shutdown, and into the collector (PulseCollector), for any number of    *)
(* tokens, handlers, restarts and faults, with either storage.             *)
(*                                                                         *)
(* The relay's NoLostWakeup and AnsweredWasReceived are inductive once the *)
(* types are known; Accounted needs to know besides that a batch and a     *)
(* request on the wire exist only while the loop is flushing               *)
(* (FlushingOnly), or Drain could overwrite a batch.                       *)
(*                                                                         *)
(* The collector's CountedOnce is not inductive.  What carries it is that  *)
(* a handler past validation holds a token signed in this boot, that a     *)
(* handler past the ledger is the only one with its token and the token is *)
(* not recorded yet, and that a recorded token is either in the ledger or  *)
(* was signed by a key that is gone.                                       *)
(***************************************************************************)
EXTENDS PulseRelay, PulseCollector, FiniteSetTheorems, TLAPS

-----------------------------------------------------------------------------
(* The relay.                                                              *)

(* Only a loop that is flushing has a batch or a request on the wire.      *)
FlushingOnly == loop # "flushing" => batch = {} /\ sending = None

LEMMA EmptyQueueIsNotReached == ~Reached({})
  BY FS_EmptySet, BatchSizeIsPositive DEF Reached

LEMMA TypesHold == RelaySpec => []RelayTypes
<1>1. RelayInit => RelayTypes
  BY DEF RelayInit, RelayTypes
<1>2. RelayTypes /\ [RelayNext]_relayVars => RelayTypes'
  <2> SUFFICES ASSUME RelayTypes, [RelayNext]_relayVars PROVE RelayTypes'
    OBVIOUS
  <2> USE DEF RelayTypes
  <2>1. ASSUME NEW r \in Requests, Accept(r) PROVE RelayTypes'
    BY <2>1 DEF Accept
  <2>2. ASSUME NEW r \in Requests, Enqueue(r) PROVE RelayTypes'
    BY <2>2 DEF Enqueue, NotifyOne
  <2>3. ASSUME NEW r \in Requests, TimeOut(r) PROVE RelayTypes'
    BY <2>3 DEF TimeOut
  <2>4. ASSUME NEW r \in Requests, Disconnect(r) PROVE RelayTypes'
    BY <2>4 DEF Disconnect
  <2>5. CASE Poll
    BY <2>5 DEF Poll
  <2>6. CASE Wake
    BY <2>6 DEF Wake
  <2>7. CASE WindowElapses \/ WakeToStop
    BY <2>7 DEF WindowElapses, WakeToStop, HandOn
  <2>8. CASE Drain
    BY <2>8 DEF Drain, Drained
  <2>9. CASE Flushed
    BY <2>9 DEF Flushed, AfterFlush
  <2>10. ASSUME NEW r \in Requests, Send(r) PROVE RelayTypes'
    BY <2>10 DEF Send
  <2>11. ASSUME NEW result \in {"answered", "502"}, Settle(result) PROVE RelayTypes'
    BY <2>11 DEF Settle
  <2>12. CASE Receive
    BY <2>12 DEF Receive
  <2>13. CASE Stop
    BY <2>13 DEF Stop
  <2>14. CASE UNCHANGED relayVars
    BY <2>14 DEF relayVars
  <2>15. QED
    BY <2>1, <2>2, <2>3, <2>4, <2>5, <2>6, <2>7, <2>8, <2>9, <2>10, <2>11,
       <2>12, <2>13, <2>14 DEF RelayNext, Loop
<1>3. QED
  BY <1>1, <1>2, PTL DEF RelaySpec

(* The loop never sleeps over a full queue (batcher.rs, enqueue and        *)
(* flush_loop): every way into the queue leaves a notification behind, and *)
(* a notification is used up only on the way to a drain.                   *)
THEOREM WakeupsAreKept == RelaySpec => []NoLostWakeup
<1>1. RelayInit => NoLostWakeup
  BY EmptyQueueIsNotReached DEF RelayInit, NoLostWakeup
<1>2. RelayTypes /\ NoLostWakeup /\ [RelayNext]_relayVars => NoLostWakeup'
  <2> SUFFICES ASSUME RelayTypes, NoLostWakeup, [RelayNext]_relayVars PROVE NoLostWakeup'
    OBVIOUS
  <2> USE DEF NoLostWakeup
  <2>1. ASSUME NEW r \in Requests, Enqueue(r) PROVE NoLostWakeup'
    <3>1. CASE Reached(queue')
      BY <2>1, <3>1 DEF Enqueue, NotifyOne, RelayTypes
    <3>2. CASE ~Reached(queue')
      BY <3>2 DEF Reached
    <3>3. QED
      BY <3>1, <3>2
  <2>2. CASE Poll
    BY <2>2 DEF Poll, Reached
  <2>3. CASE Wake
    BY <2>3 DEF Wake, Reached
  <2>4. CASE WindowElapses \/ WakeToStop
    BY <2>4 DEF WindowElapses, WakeToStop, Reached
  <2>5. CASE Drain
    BY <2>5, EmptyQueueIsNotReached DEF Drain, Reached
  <2>6. CASE Flushed
    BY <2>6 DEF Flushed, AfterFlush, Reached
  <2>7. ASSUME UNCHANGED <<queue, permit, woken, loop>> PROVE NoLostWakeup'
    BY <2>7 DEF Reached
  <2>8. QED
    BY <2>1, <2>2, <2>3, <2>4, <2>5, <2>6, <2>7
       DEF RelayNext, Loop, Accept, TimeOut, Disconnect, Send, Settle, Receive, Stop, relayVars
<1>3. QED
  BY <1>1, <1>2, TypesHold, PTL DEF RelaySpec

(* No submission is dropped and none is sent twice (batcher.rs, drain and  *)
(* flush_batch), whatever clients, timeouts and the shutdown do.           *)
THEOREM SubmissionsAreAccounted == RelaySpec => []Accounted
<1> DEFINE I == FlushingOnly /\ Accounted
<1>1. RelayInit => I
  BY DEF RelayInit, FlushingOnly, Accounted, Held
<1>2. RelayTypes /\ I /\ [RelayNext]_relayVars => I'
  <2> SUFFICES ASSUME RelayTypes, FlushingOnly, Accounted, [RelayNext]_relayVars PROVE I'
    OBVIOUS
  <2> USE FiniteRequests DEF FlushingOnly, Accounted, Held, RelayTypes
  <2>1. ASSUME NEW r \in Requests, Accept(r) PROVE I'
    BY <2>1 DEF Accept
  <2>2. ASSUME NEW r \in Requests, Enqueue(r) PROVE I'
    BY <2>2 DEF Enqueue
  <2>3. ASSUME NEW r \in Requests, TimeOut(r) PROVE I'
    BY <2>3 DEF TimeOut, Waiting
  <2>4. ASSUME NEW r \in Requests, Disconnect(r) PROVE I'
    BY <2>4 DEF Disconnect
  <2>5. CASE Poll
    BY <2>5 DEF Poll
  <2>6. CASE Wake \/ WindowElapses \/ WakeToStop
    BY <2>6 DEF Wake, WindowElapses, WakeToStop
  <2>7. CASE Drain
    BY <2>7 DEF Drain, Drained
  <2>8. CASE Flushed
    BY <2>8 DEF Flushed, AfterFlush
  <2>9. ASSUME NEW r \in Requests, Send(r) PROVE I'
    BY <2>9 DEF Send
  <2>10. ASSUME NEW result \in {"answered", "502"}, Settle(result) PROVE I'
    BY <2>10 DEF Settle
  <2>11. CASE Receive \/ Stop \/ UNCHANGED relayVars
    BY <2>11 DEF Receive, Stop, relayVars
  <2>12. QED
    BY <2>1, <2>2, <2>3, <2>4, <2>5, <2>6, <2>7, <2>8, <2>9, <2>10, <2>11
       DEF RelayNext, Loop
<1>3. QED
  BY <1>1, <1>2, TypesHold, PTL DEF RelaySpec

(* A client is told what the Signal zone answered only if it was asked     *)
(* (batcher.rs, forward; routes.rs, relay_response).                       *)
THEOREM AnswersAreReal == RelaySpec => []AnsweredWasReceived
<1>1. RelayInit => AnsweredWasReceived
  BY DEF RelayInit, AnsweredWasReceived
<1>2. RelayTypes /\ AnsweredWasReceived /\ [RelayNext]_relayVars => AnsweredWasReceived'
  <2> SUFFICES ASSUME RelayTypes, AnsweredWasReceived, [RelayNext]_relayVars
               PROVE AnsweredWasReceived'
    OBVIOUS
  <2> USE DEF AnsweredWasReceived, RelayTypes
  <2>1. ASSUME NEW r \in Requests, Accept(r) \/ Enqueue(r) \/ TimeOut(r) \/ Disconnect(r)
        PROVE AnsweredWasReceived'
    BY <2>1 DEF Accept, Enqueue, TimeOut, Disconnect
  <2>2. ASSUME NEW result \in {"answered", "502"}, Settle(result) PROVE AnsweredWasReceived'
    BY <2>2 DEF Settle, Replies
  <2>3. CASE Receive
    BY <2>3 DEF Receive
  <2>4. ASSUME UNCHANGED <<client, received>> PROVE AnsweredWasReceived'
    BY <2>4
  <2>5. QED
    BY <2>1, <2>2, <2>3, <2>4
       DEF RelayNext, Loop, Poll, Wake, WindowElapses, WakeToStop, Drain, Flushed, Send, Stop, relayVars
<1>3. QED
  BY <1>1, <1>2, TypesHold, PTL DEF RelaySpec

(* The relay keeps its books: the three together, with the types.          *)
THEOREM RelayKeepsSubmissions == RelaySpec => []SubmissionsAreKept
BY TypesHold, WakeupsAreKept, SubmissionsAreAccounted, AnswersAreReal, PTL DEF SubmissionsAreKept

-----------------------------------------------------------------------------
(* The collector.                                                          *)

Validated == {"verified", "spent", "sealed"}
Past == {"spent", "sealed"}

(* Keys: no token is signed in a boot to come, and validation saw the key  *)
(* of this boot.                                                           *)
KeysOfBoot ==
  /\ boot >= 1
  /\ \A t \in Tokens : signedIn[t] <= boot
  /\ \A h \in Handlers : pc[h] \in Validated => signedIn[tok[h]] = boot

(* The ledger admits one handler per token.                                *)
OneCarrier ==
  /\ \A h \in Handlers : pc[h] \in Past => tok[h] \in ledger /\ recorded[tok[h]] = 0
  /\ \A g, h \in Handlers :
       pc[g] \in Past /\ pc[h] \in Past /\ tok[g] = tok[h] => g = h

(* What is recorded cannot be spent again.                                 *)
RecordedIsGone ==
  \A t \in Tokens :
    recorded[t] > 0 => /\ recorded[t] = 1
                       /\ signedIn[t] > 0
                       /\ t \in ledger \/ signedIn[t] < boot

Inv == TypeOK /\ KeysOfBoot /\ OneCarrier /\ RecordedIsGone

(* The types a step of accept works with, and those it only writes.         *)
Plain ==
  /\ boot \in Nat
  /\ signedIn \in [Tokens -> Nat]
  /\ expired \subseteq Tokens
  /\ pc \in [Handlers -> {"idle", "received", "verified", "spent", "sealed"}]
  /\ tok \in [Handlers -> Tokens \cup {NoToken}]
  /\ \A h \in Handlers : pc[h] # "idle" => tok[h] \in Tokens
  /\ ledger \subseteq Tokens
  /\ shredded \in BOOLEAN
  /\ poisoned \subseteq {"ledger", "store"}
  /\ faults \in Nat
  /\ recorded \in [Tokens -> Nat]
Written == store \in Seq(Row) /\ said \in [Tokens -> SUBSET Answers]

LEMMA TypeParts == TypeOK <=> Plain /\ Written
BY DEF TypeOK, Plain, Written

(* The invariant holds when the process starts with nothing stored.        *)
LEMMA InitInv == Init => Inv
<1> SUFFICES ASSUME Init PROVE Inv
  OBVIOUS
<1>1. TypeOK
  <2>1. tok \in [Handlers -> Tokens \cup {NoToken}] /\ pc = [h \in Handlers |-> "idle"]
    BY DEF Init
  <2>2. signedIn \in [Tokens -> Nat] /\ recorded \in [Tokens -> Nat] /\ boot \in Nat
    BY DEF Init
  <2>3. said \in [Tokens -> SUBSET Answers] /\ store \in Seq(Row)
    BY DEF Init
  <2>4. QED
    BY <2>1, <2>2, <2>3, Bounds DEF Init, TypeOK
<1>2. KeysOfBoot /\ OneCarrier /\ RecordedIsGone
  BY DEF Init, KeysOfBoot, OneCarrier, RecordedIsGone, Validated, Past
<1>3. QED
  BY <1>1, <1>2 DEF Inv

(* Types are kept by every step.                                           *)
LEMMA TypeStep == TypeOK /\ [Next]_vars => TypeOK'
<1> SUFFICES ASSUME Plain, Written, [Next]_vars PROVE (Plain /\ Written)'
  BY DEF TypeOK, Plain, Written
<1> DEFINE Kept == (Plain /\ Written)'
<1> USE NoTokenIsNone, DurableIsBoolean, Bounds
<1> HIDE DEF Kept
<1>1. ASSUME NEW h \in Handlers, Mismatched(h) PROVE Kept
  <2>1. Plain'
    BY <1>1 DEF Plain, Mismatched, Answer
  <2>2. Written'
    BY <1>1 DEF Plain, Written, Answers, Mismatched, Answer
  <2>3. QED
    BY <2>1, <2>2 DEF Kept
<1>2. ASSUME NEW h \in Handlers, Validate(h) PROVE Kept
  <2>1. Plain'
    BY <1>2 DEF Plain, Validate, Answer
  <2>2. Written'
    BY <1>2 DEF Plain, Written, Answers, Validate, Answer
  <2>3. QED
    BY <2>1, <2>2 DEF Kept
<1>3. ASSUME NEW h \in Handlers, Spend(h) PROVE Kept
  <2>1. Plain'
    BY <1>3 DEF Plain, Spend, Answer
  <2>2. Written'
    <3>1. tok[h] \in Tokens
      BY <1>3 DEF Plain, Spend
    <3>2. store' = store /\ (said' = said \/ said' = [said EXCEPT ![tok[h]] = @ \cup {"spent"}])
      BY <1>3 DEF Spend, Answer
    <3>3. QED
      BY <3>1, <3>2 DEF Written, Answers
  <2>3. QED
    BY <2>1, <2>2 DEF Kept
<1>4. ASSUME NEW h \in Handlers, Seal(h) PROVE Kept
  <2>1. Plain'
    BY <1>4 DEF Plain, Seal, Panic
  <2>2. Written'
    BY <1>4 DEF Plain, Written, Answers, Seal, Panic
  <2>3. QED
    BY <2>1, <2>2 DEF Kept
<1>5. ASSUME NEW h \in Handlers, Store(h) PROVE Kept
  <2>1. tok[h] \in Tokens
    BY <1>5 DEF Store, Plain
  <2>2. store' \in Seq(Row) /\ Len(store') = Len(store) + 1
    BY <1>5, <2>1 DEF Store, Appended, Row, Written, Plain
  <2>3. recorded' = [recorded EXCEPT ![tok[h]] = @ + 1]
    BY <1>5, <2>1, <2>2 DEF Store, Plain, Written
  <2>4. Plain'
    BY <1>5, <2>1, <2>3 DEF Store, Answer, Plain
  <2>5. said' \in [Tokens -> SUBSET Answers]
    BY <1>5, <2>1 DEF Store, Answer, Answers, Written
  <2>6. QED
    BY <2>2, <2>4, <2>5 DEF Kept, Written
<1>6. ASSUME NEW h \in Handlers, NEW t \in Tokens, Submit(h, t) PROVE Kept
  <2>1. Plain'
    BY <1>6 DEF Plain, Submit
  <2>2. Written'
    BY <1>6 DEF Plain, Written, Answers, Submit
  <2>3. QED
    BY <2>1, <2>2 DEF Kept
<1>7. ASSUME NEW h \in Handlers, NEW lock \in {"ledger", "store"}, StatementFails(h, lock) PROVE Kept
  <2>1. Plain'
    BY <1>7 DEF Plain, StatementFails, Panic
  <2>2. Written'
    BY <1>7 DEF Plain, Written, Answers, StatementFails, Panic
  <2>3. QED
    BY <2>1, <2>2 DEF Kept
<1>8. ASSUME NEW h \in Handlers, LockPoisoned(h) PROVE Kept
  <2>1. Plain'
    BY <1>8 DEF Plain, LockPoisoned, Panic
  <2>2. Written'
    BY <1>8 DEF Plain, Written, Answers, LockPoisoned, Panic
  <2>3. QED
    BY <2>1, <2>2 DEF Kept
<1>9. ASSUME NEW t \in Tokens, Sign(t) \/ Expire(t) PROVE Kept
  <2>1. signedIn' \in [Tokens -> Nat] /\ expired' \subseteq Tokens
    BY <1>9 DEF Plain, Sign, Expire
  <2>2. UNCHANGED <<boot, pc, tok, ledger, store, shredded, poisoned, faults, recorded, said>>
    BY <1>9 DEF Sign, Expire
  <2>3. QED
    BY <2>1, <2>2 DEF Kept, Plain, Written
<1>10. CASE Shred
  <2>1. Plain'
    BY <1>10 DEF Plain, Shred
  <2>2. Written'
    BY <1>10 DEF Written, Shred
  <2>3. QED
    BY <2>1, <2>2 DEF Kept
<1>11. CASE Restart
  <2>1. ledger' \subseteq Tokens /\ store' \in Seq(Row)
    BY <1>11 DEF Plain, Written, Restart
  <2>2. boot' \in Nat /\ poisoned' = {} /\ shredded' = FALSE
    BY <1>11 DEF Plain, Restart, NextKeys
  <2>3. pc' = [h \in Handlers |-> "idle"] /\ tok' = [h \in Handlers |-> NoToken]
    BY <1>11 DEF Restart
  <2>4. UNCHANGED <<signedIn, expired, faults, recorded, said>>
    BY <1>11 DEF Restart
  <2>5. QED
    BY <2>1, <2>2, <2>3, <2>4 DEF Kept, Plain, Written
<1>12. CASE UNCHANGED vars
  <2>1. Plain'
    BY <1>12 DEF Plain, vars
  <2>2. Written'
    BY <1>12 DEF Written, vars
  <2>3. QED
    BY <2>1, <2>2 DEF Kept
<1>13. QED
  BY <1>1, <1>2, <1>3, <1>4, <1>5, <1>6, <1>7, <1>8, <1>9, <1>10, <1>11, <1>12 DEF Next, Handle, Kept

(* Every step keeps the three conjuncts, which need each other.            *)
LEMMA CountStep == Inv /\ [Next]_vars => Inv'
<1> SUFFICES ASSUME Plain, store \in Seq(Row), KeysOfBoot, OneCarrier, RecordedIsGone, [Next]_vars
             PROVE  (KeysOfBoot /\ OneCarrier /\ RecordedIsGone)'
  BY TypeStep, TypeParts DEF Inv, Written
<1> DEFINE Kept == (KeysOfBoot /\ OneCarrier /\ RecordedIsGone)'
<1> USE NoTokenIsNone DEF Plain, KeysOfBoot, OneCarrier, RecordedIsGone, Validated, Past
<1>1. ASSUME NEW h \in Handlers, Mismatched(h) PROVE Kept
  BY <1>1 DEF Mismatched, Answer
<1>2. ASSUME NEW h \in Handlers, Validate(h) PROVE Kept
  <2>1. CASE pc' = [pc EXCEPT ![h] = "verified"] /\ tok' = tok /\ Verifies(tok[h])
    BY <1>2, <2>1 DEF Validate, Verifies
  <2>2. CASE pc' = [pc EXCEPT ![h] = "idle"] /\ tok' = [tok EXCEPT ![h] = NoToken]
    BY <1>2, <2>2 DEF Validate
  <2>3. QED
    BY <1>2, <2>1, <2>2 DEF Validate, Answer
<1>3. ASSUME NEW h \in Handlers, Spend(h) PROVE Kept
  <2>1. tok[h] \in Tokens /\ signedIn[tok[h]] = boot
    BY <1>3 DEF Spend
  <2>2. CASE Unspent(tok[h])
    <3>1. recorded[tok[h]] = 0
      BY <2>1, <2>2 DEF Unspent
    <3>2. \A g \in Handlers : pc[g] \in Past => tok[g] # tok[h]
      BY <2>2 DEF Unspent
    <3>3. QED
      BY <1>3, <2>1, <2>2, <3>1, <3>2 DEF Spend, Unspent
  <2>3. CASE ~Unspent(tok[h])
    <3>1. pc' = [pc EXCEPT ![h] = "idle"] /\ tok' = [tok EXCEPT ![h] = NoToken]
      BY <1>3, <2>3 DEF Spend, Answer
    <3>2. UNCHANGED <<boot, signedIn, ledger, recorded>>
      BY <1>3, <2>3 DEF Spend
    <3>3. QED
      BY <3>1, <3>2
  <2>4. QED
    BY <2>2, <2>3
<1>4. ASSUME NEW h \in Handlers, Seal(h) PROVE Kept
  <2>1. UNCHANGED <<boot, signedIn, ledger, recorded>> /\ pc[h] = "spent"
    BY <1>4 DEF Seal
  <2>2. \/ pc' = [pc EXCEPT ![h] = "idle"] /\ tok' = [tok EXCEPT ![h] = NoToken]
        \/ pc' = [pc EXCEPT ![h] = "sealed"] /\ tok' = tok
    BY <1>4 DEF Seal, Panic
  <2>3. CASE pc' = [pc EXCEPT ![h] = "idle"] /\ tok' = [tok EXCEPT ![h] = NoToken]
    BY <2>1, <2>3
  <2>4. CASE pc' = [pc EXCEPT ![h] = "sealed"] /\ tok' = tok
    <3>1. \A g \in Handlers : pc'[g] \in Past <=> pc[g] \in Past
      BY <2>1, <2>4
    <3>2. \A g \in Handlers : pc'[g] \in Validated <=> pc[g] \in Validated
      BY <2>1, <2>4
    <3>3. QED
      BY <2>1, <2>4, <3>1, <3>2
  <2>5. QED
    BY <2>2, <2>3, <2>4
<1>5. ASSUME NEW h \in Handlers, Store(h) PROVE Kept
  <2>1. tok[h] \in ledger /\ recorded[tok[h]] = 0 /\ signedIn[tok[h]] = boot
    BY <1>5 DEF Store
  <2>2. Len(store') = Len(store) + 1
    BY <1>5, <2>1 DEF Store, Appended, Row
  <2>3. recorded' = [recorded EXCEPT ![tok[h]] = 1]
    BY <1>5, <2>1, <2>2 DEF Store
  <2>4. \A g \in Handlers : g # h /\ pc[g] \in Past => tok[g] # tok[h]
    BY <1>5 DEF Store
  <2>5. QED
    BY <1>5, <2>1, <2>3, <2>4 DEF Store, Answer
<1>6. ASSUME NEW h \in Handlers, NEW t \in Tokens, Submit(h, t) PROVE Kept
  BY <1>6 DEF Submit
<1>7. ASSUME NEW h \in Handlers, NEW lock \in {"ledger", "store"}, StatementFails(h, lock)
      PROVE  Kept
  BY <1>7 DEF StatementFails, Panic
<1>8. ASSUME NEW h \in Handlers, LockPoisoned(h) PROVE Kept
  BY <1>8 DEF LockPoisoned, Panic
<1>9. ASSUME NEW t \in Tokens, Sign(t) PROVE Kept
  <2>1. \A h \in Handlers : pc[h] \in Validated => tok[h] # t
    BY <1>9 DEF Sign
  <2>2. recorded[t] = 0
    <3>1. signedIn[t] = 0 /\ recorded[t] \in Nat
      BY <1>9 DEF Sign
    <3>2. ~(recorded[t] > 0)
      BY <3>1
    <3>3. QED
      BY <3>1, <3>2
  <2>3. QED
    BY <1>9, <2>1, <2>2 DEF Sign
<1>10. ASSUME NEW t \in Tokens, Expire(t) PROVE Kept
  BY <1>10 DEF Expire
<1>11. CASE Shred
  BY <1>11 DEF Shred
<1>12. CASE Restart
  BY <1>12 DEF Restart, NextKeys
<1>13. CASE UNCHANGED vars
  BY <1>13 DEF vars
<1>14. QED
  BY <1>1, <1>2, <1>3, <1>4, <1>5, <1>6, <1>7, <1>8, <1>9, <1>10, <1>11, <1>12, <1>13
     DEF Next, Handle

(* The invariant holds in every reachable state.                           *)
LEMMA Invariance == Spec => []Inv
BY InitInv, CountStep, PTL DEF Spec

(* A token brings at most one response into the store, over all handlers   *)
(* and restarts, whether the ledger is durable or not.                     *)
THEOREM OneResponsePerToken == Spec => []CountedOnce
<1>1. Inv => CountedOnce
  <2>1. Inv => recorded \in [Tokens -> Nat] /\ RecordedIsGone
    BY DEF Inv, TypeOK
  <2>2. QED
    BY <2>1 DEF RecordedIsGone, CountedOnce
<1>2. QED
  BY <1>1, Invariance, PTL

-----------------------------------------------------------------------------
RowOf(t) == \E n \in DOMAIN store : store[n].token = t

(* A row of a durable store is found after every step.                     *)
LEMMA RowsStay ==
  ASSUME Inv, [Next]_vars, Durable, NEW t \in Tokens, RowOf(t) PROVE RowOf(t)'
<1>1. store' = store \/ \E h \in Handlers : Store(h)
  BY DEF Next, Handle, Mismatched, Validate, Spend, Seal, Submit, StatementFails,
         LockPoisoned, Sign, Expire, Shred, Restart, vars
<1>2. ASSUME NEW h \in Handlers, Store(h) PROVE RowOf(t)'
  <2>1. store' = Append(store, [token |-> tok[h], dek |-> boot]) /\ tok[h] \in Tokens
    BY <1>2 DEF Store, Appended, Inv, TypeOK
  <2>2. store \in Seq(Row) /\ boot \in Nat
    BY DEF Inv, TypeOK
  <2>3. PICK n \in DOMAIN store : store[n].token = t
    BY DEF RowOf
  <2>4. n \in DOMAIN store' /\ store'[n] = store[n]
    BY <2>1, <2>2, <2>3 DEF Row
  <2>5. QED
    BY <2>3, <2>4 DEF RowOf
<1>3. QED
  BY <1>1, <1>2 DEF RowOf

(* Answers add up: only Store acknowledges, and it has just recorded.      *)
LEMMA AckStep == Inv /\ AckedIsStored /\ [Next]_vars => AckedIsStored'
<1> SUFFICES ASSUME Inv, AckedIsStored, [Next]_vars, NEW t \in Tokens, "ack" \in said'[t]
             PROVE  recorded'[t] = 1 /\ (Durable => RowOf(t)')
  BY DEF AckedIsStored, RowOf
<1>1. Inv'
  BY CountStep
<1>2. CASE "ack" \in said[t]
  <2>1. recorded[t] = 1 /\ (Durable => RowOf(t))
    BY <1>2 DEF AckedIsStored, RowOf
  <2>2. recorded'[t] >= 1
    <3>1. recorded' = recorded \/ \E h \in Handlers : Store(h)
      BY DEF Next, Handle, Mismatched, Validate, Spend, Seal, Submit, StatementFails,
             LockPoisoned, Sign, Expire, Shred, Restart, vars
    <3>2. ASSUME NEW h \in Handlers, Store(h) PROVE recorded'[t] >= 1
      BY <3>2, <2>1 DEF Store, Appended, Inv, TypeOK, Row
    <3>3. QED
      BY <2>1, <3>1, <3>2
  <2>3. QED
    BY <1>1, <2>1, <2>2, RowsStay DEF Inv, RecordedIsGone, TypeOK
<1>3. CASE "ack" \notin said[t]
  <2>1. PICK h \in Handlers : Store(h) /\ tok[h] = t
    <3>1. said \in [Tokens -> SUBSET Answers]
      BY DEF Inv, TypeOK
    <3>2. \/ said' = said
          \/ \E h \in Handlers, a \in Answers \ {"ack"} :
               said' = [said EXCEPT ![tok[h]] = @ \cup {a}]
          \/ \E h \in Handlers : Store(h)
      BY DEF Next, Handle, Mismatched, Validate, Spend, Seal, Submit, StatementFails,
             LockPoisoned, Sign, Expire, Shred, Restart, vars, Answer, Answers, Panic
    <3>3. ASSUME NEW h \in Handlers, NEW a \in Answers \ {"ack"},
                 said' = [said EXCEPT ![tok[h]] = @ \cup {a}]
          PROVE  FALSE
      BY <1>3, <3>1, <3>3
    <3>4. PICK h \in Handlers : Store(h)
      BY <1>3, <3>2, <3>3
    <3>5. tok[h] = t
      BY <1>3, <3>1, <3>4 DEF Store, Answer
    <3>6. QED
      BY <3>4, <3>5
  <2>2. recorded'[t] = 1
    BY <2>1, <1>1 DEF Store, Appended, Inv, TypeOK, Row, OneCarrier, Past
  <2>3. RowOf(t)'
    <3>1. store' = Append(store, [token |-> t, dek |-> boot]) /\ store \in Seq(Row)
      BY <2>1 DEF Store, Appended, Inv, TypeOK
    <3>2. Len(store) + 1 \in DOMAIN store' /\ store'[Len(store) + 1].token = t
      BY <3>1
    <3>3. QED
      BY <3>2 DEF RowOf
  <2>4. QED
    BY <2>2, <2>3
<1>4. QED
  BY <1>2, <1>3

(* An acknowledged response is recorded, and in a durable store it is      *)
(* still there, whatever ends the process.                                 *)
THEOREM AcknowledgedIsStored == Spec => []AckedIsStored
<1>1. Init => AckedIsStored
  BY DEF Init, AckedIsStored
<1>2. QED
  BY <1>1, AckStep, Invariance, PTL DEF Spec

(* Both together, with the types: every answer counts once or not at all.  *)
THEOREM EveryResponseCounts == Spec => []ResponsesCount
<1>1. Inv => TypeOK
  BY DEF Inv
<1>2. QED
  BY <1>1, Invariance, OneResponsePerToken, AcknowledgedIsStored, PTL DEF ResponsesCount

-----------------------------------------------------------------------------
(* A spent token without a failure: only a handler that panics loses one,  *)
(* and the three panics need deleted keys or a poisoned lock.              *)
LEMMA SpentStep ==
  Inv /\ SpentIsRecordedUntilFailure /\ [Next]_vars => SpentIsRecordedUntilFailure'
<1> SUFFICES ASSUME Inv, SpentIsRecordedUntilFailure, [Next]_vars,
                    boot' = 1, poisoned' = {}, ~shredded',
                    NEW t \in Tokens, t \in ledger'
             PROVE  recorded'[t] = 1 \/ Carrying(t)' # {}
  BY DEF SpentIsRecordedUntilFailure, SpentIsRecorded
<1> DEFINE Kept == recorded'[t] = 1 \/ Carrying(t)' # {}
<1>0. /\ Plain /\ store \in Seq(Row)
      /\ \A h \in Handlers : pc[h] \in Past => recorded[tok[h]] = 0
      /\ boot >= 1
  BY TypeParts DEF Inv, Written, OneCarrier, KeysOfBoot
<1> USE DEF Plain, Carrying
<1>1. ASSUME boot = 1, poisoned = {}, ~shredded, t \in ledger
      PROVE  recorded[t] = 1 \/ Carrying(t) # {}
  BY <1>1 DEF SpentIsRecordedUntilFailure, SpentIsRecorded
<1>2. ASSUME UNCHANGED <<boot, ledger, recorded>>, poisoned = {}, ~shredded,
             \A h \in Handlers : pc[h] \in Past /\ tok[h] = t => pc'[h] \in Past /\ tok'[h] = t
      PROVE  Kept
  BY <1>1, <1>2 DEF Past
<1>3. ASSUME NEW h \in Handlers, Mismatched(h) \/ Validate(h) PROVE Kept
  <2>1. UNCHANGED <<boot, ledger, recorded, poisoned, shredded>> /\ pc[h] = "received"
    BY <1>3 DEF Mismatched, Validate
  <2>2. \A g \in Handlers : g # h => pc'[g] = pc[g] /\ tok'[g] = tok[g]
    BY <1>0, <1>3 DEF Mismatched, Validate, Answer
  <2>3. QED
    BY <1>2, <2>1, <2>2 DEF Past
<1>4. ASSUME NEW h \in Handlers, NEW u \in Tokens, Submit(h, u) PROVE Kept
  <2>1. UNCHANGED <<boot, ledger, recorded, poisoned, shredded>> /\ pc[h] = "idle"
    BY <1>4 DEF Submit
  <2>2. \A g \in Handlers : g # h => pc'[g] = pc[g] /\ tok'[g] = tok[g]
    BY <1>0, <1>4 DEF Submit
  <2>3. QED
    BY <1>2, <2>1, <2>2 DEF Past
<1>5. ASSUME NEW h \in Handlers, Spend(h) PROVE Kept
  <2>1. UNCHANGED <<boot, recorded, poisoned, shredded>> /\ pc[h] = "verified"
    BY <1>5 DEF Spend
  <2>2. \A g \in Handlers : g # h => pc'[g] = pc[g] /\ tok'[g] = tok[g]
    BY <1>0, <1>5 DEF Spend, Answer
  <2>3. CASE t \in ledger
    BY <1>1, <2>1, <2>2, <2>3 DEF Past
  <2>4. CASE t \notin ledger
    <3>1. pc' = [pc EXCEPT ![h] = "spent"] /\ tok' = tok /\ tok[h] = t
      BY <1>5, <2>4 DEF Spend
    <3>2. QED
      BY <1>0, <3>1
  <2>5. QED
    BY <2>3, <2>4
<1>6. ASSUME NEW h \in Handlers, Seal(h) PROVE Kept
  <2>1. UNCHANGED <<boot, ledger, recorded, poisoned, shredded>> /\ pc[h] = "spent"
    BY <1>6 DEF Seal
  <2>2. pc' = [pc EXCEPT ![h] = "sealed"] /\ tok' = tok
    BY <1>6, <2>1 DEF Seal
  <2>3. QED
    BY <1>0, <1>2, <2>1, <2>2 DEF Past
<1>7. ASSUME NEW h \in Handlers, Store(h) PROVE Kept
  <2>1. tok[h] \in Tokens /\ recorded[tok[h]] = 0 /\ pc[h] = "sealed"
    BY <1>0, <1>7 DEF Store, Past
  <2>2. Len(store') = Len(store) + 1
    BY <1>0, <1>7, <2>1 DEF Store, Appended, Row
  <2>3. recorded' = [recorded EXCEPT ![tok[h]] = 1]
    BY <1>0, <1>7, <2>1, <2>2 DEF Store
  <2>4. \A g \in Handlers : g # h => pc'[g] = pc[g] /\ tok'[g] = tok[g]
    BY <1>0, <1>7 DEF Store, Answer
  <2>5. recorded[t] = 1 \/ Carrying(t) # {}
    BY <1>1, <1>7 DEF Store
  <2>6. CASE tok[h] = t
    BY <1>0, <2>1, <2>3, <2>6
  <2>7. CASE tok[h] # t
    <3>1. recorded'[t] = recorded[t]
      BY <1>0, <2>1, <2>3, <2>7
    <3>2. Carrying(t) \subseteq Carrying(t)'
      BY <2>4, <2>7
    <3>3. QED
      BY <2>5, <3>1, <3>2
  <2>8. QED
    BY <2>6, <2>7
<1>8. ASSUME NEW h \in Handlers, NEW lock \in {"ledger", "store"}, StatementFails(h, lock)
      PROVE  Kept
  BY <1>8 DEF StatementFails
<1>9. ASSUME NEW h \in Handlers, LockPoisoned(h) PROVE Kept
  BY <1>9 DEF LockPoisoned
<1>10. ASSUME NEW u \in Tokens, Sign(u) \/ Expire(u) PROVE Kept
  BY <1>2, <1>10 DEF Sign, Expire
<1>11. CASE Shred
  BY <1>11 DEF Shred
<1>12. CASE Restart
  BY <1>0, <1>12 DEF Restart, NextKeys
<1>13. CASE UNCHANGED vars
  BY <1>2, <1>13 DEF vars
<1>14. QED
  BY <1>3, <1>4, <1>5, <1>6, <1>7, <1>8, <1>9, <1>10, <1>11, <1>12, <1>13 DEF Next, Handle

(* In the first process, until a lock is poisoned or keys are deleted, a   *)
(* spent token has its response in the store or on its way: "already       *)
(* spent" can be taken for success.                                        *)
THEOREM SpentMeansRecorded == Spec => []SpentIsRecordedUntilFailure
<1>1. Init => SpentIsRecordedUntilFailure
  BY DEF Init, SpentIsRecordedUntilFailure, SpentIsRecorded
<1>2. QED
  BY <1>1, SpentStep, Invariance, PTL DEF Spec

-----------------------------------------------------------------------------
(* No row is under the data key of a process to come.                      *)
RowsOfBoots == \A n \in DOMAIN store : store[n].dek <= boot

(* What a step does to the store and to what reads it.                     *)
LEMMA StoreSteps ==
  ASSUME Inv, [Next]_vars
  PROVE  \/ UNCHANGED <<boot, store>> /\ (shredded => shredded')
         \/ /\ \E t \in Tokens : store' = Append(store, [token |-> t, dek |-> boot])
            /\ UNCHANGED <<boot, shredded>>
         \/ boot' = boot + 1 /\ store' \in {store, << >>}
<1>1. ASSUME NEW h \in Handlers, Store(h)
      PROVE  /\ \E t \in Tokens : store' = Append(store, [token |-> t, dek |-> boot])
             /\ UNCHANGED <<boot, shredded>>
  <2>1. tok[h] \in Tokens
    BY <1>1 DEF Store, Inv, TypeOK
  <2>2. QED
    BY <1>1, <2>1 DEF Store, Appended
<1>2. CASE Restart
  BY <1>2 DEF Restart, NextKeys
<1>3. QED
  BY <1>1, <1>2 DEF Next, Handle, Mismatched, Validate, Spend, Seal, Submit, StatementFails,
         LockPoisoned, Sign, Expire, Shred, vars

LEMMA RowTypes ==
  ASSUME Inv
  PROVE  boot \in Nat /\ store \in Seq(Row) /\ \A m \in DOMAIN store : store[m].dek \in Nat
<1>1. boot \in Nat /\ store \in Seq(Row)
  BY DEF Inv, TypeOK
<1>2. \A m \in DOMAIN store : store[m] \in Row
  BY <1>1
<1>3. QED
  BY <1>1, <1>2 DEF Row

LEMMA RowsStep == Inv /\ RowsOfBoots /\ [Next]_vars => RowsOfBoots'
<1> SUFFICES ASSUME Inv, RowsOfBoots, [Next]_vars, NEW n \in DOMAIN store'
             PROVE  store'[n].dek <= boot'
  BY DEF RowsOfBoots
<1>1. boot \in Nat /\ store \in Seq(Row) /\ \A m \in DOMAIN store : store[m].dek \in Nat
  BY RowTypes
<1>2. CASE \E t \in Tokens : store' = Append(store, [token |-> t, dek |-> boot]) /\ boot' = boot
  <2>1. PICK t \in Tokens : store' = Append(store, [token |-> t, dek |-> boot])
    BY <1>2
  <2>2. CASE n = Len(store) + 1
    BY <1>1, <1>2, <2>1, <2>2
  <2>3. CASE n # Len(store) + 1
    <3>1. n \in DOMAIN store /\ store'[n] = store[n]
      BY <1>1, <2>1, <2>3
    <3>2. QED
      BY <1>2, <3>1 DEF RowsOfBoots
  <2>4. QED
    BY <2>2, <2>3
<1>3. CASE store' \in {store, << >>} /\ boot' \in {boot, boot + 1}
  <2>1. n \in DOMAIN store /\ store'[n] = store[n]
    BY <1>3
  <2>2. QED
    BY <1>1, <1>3, <2>1 DEF RowsOfBoots
<1>4. QED
  BY <1>2, <1>3, StoreSteps

(* Deleting the keys is final: a row that could not be read stays as it is *)
(* and stays unreadable, in this process and in every later one, and no    *)
(* running process drops a row.                                            *)
THEOREM DeletedStaysDeleted == Spec => ShreddingIsFinal
<1> DEFINE Final ==
      /\ \A n \in DOMAIN store :
           Len(store') >= n /\ ~Readable(store[n]) =>
             store'[n] = store[n] /\ ~(store'[n].dek = boot' /\ ~shredded')
      /\ boot' = boot => \A n \in DOMAIN store : Len(store') >= n
<1>1. Init => RowsOfBoots
  BY DEF Init, RowsOfBoots
<1>2. Inv /\ RowsOfBoots /\ [Next]_vars => [Final]_vars
  <2> SUFFICES ASSUME Inv, RowsOfBoots, [Next]_vars PROVE Final
    OBVIOUS
  <2>1. boot \in Nat /\ store \in Seq(Row) /\ \A m \in DOMAIN store : store[m].dek \in Nat
    BY RowTypes
  <2>2. CASE UNCHANGED <<boot, store>> /\ (shredded => shredded')
    BY <2>1, <2>2 DEF Readable
  <2>3. CASE /\ \E t \in Tokens : store' = Append(store, [token |-> t, dek |-> boot])
             /\ UNCHANGED <<boot, shredded>>
    <3>1. PICK t \in Tokens : store' = Append(store, [token |-> t, dek |-> boot])
      BY <2>3
    <3>2. Len(store') = Len(store) + 1 /\ \A n \in DOMAIN store : store'[n] = store[n]
      BY <2>1, <3>1
    <3>3. QED
      BY <2>1, <2>3, <3>2 DEF Readable
  <2>4. CASE boot' = boot + 1 /\ store' = store
    BY <2>1, <2>4 DEF RowsOfBoots
  <2>5. CASE boot' = boot + 1 /\ store' = << >>
    BY <2>1, <2>5
  <2>6. QED
    BY <2>2, <2>3, <2>4, <2>5, StoreSteps
<1>3. QED
  BY <1>1, <1>2, RowsStep, Invariance, PTL DEF Spec, ShreddingIsFinal

=============================================================================

--------------------------- MODULE PulseCollector ---------------------------
(***************************************************************************)
(* Pulse's Signal zone: ResponseCollector::accept as concurrent handlers   *)
(* run it.  A handler validates a submission, spends its token in the      *)
(* ledger, seals the blob under the tenant's data key and appends it to    *)
(* the response store: three locks taken one after the other, with nothing *)
(* that undoes an earlier step when a later one fails.                     *)
(*                                                                         *)
(* The composition root (pulse-server/src/main.rs) generates the signing   *)
(* key and the data key when the process starts and keeps them in memory;  *)
(* the ledger and the store are in memory too, or both in one SQLite file  *)
(* (Durable).  boot counts the starts, and stands for the keys generated   *)
(* in that start; the key version is 1 in all of them.                     *)
(***************************************************************************)
EXTENDS Naturals, Sequences, FiniteSets

CONSTANTS
  Tokens,     \* the tokens clients hold
  Handlers,   \* requests in progress at a time
  Durable,    \* PULSE_DB_URL is sqlite:<path>, not memory
  MaxBoots,   \* bound: starts of the process in a behaviour
  MaxFaults,  \* bound: failed database statements
  CanShred,   \* whether the tenant's wrapped keys may be deleted
  NoToken

ASSUME DurableIsBoolean == Durable \in BOOLEAN /\ CanShred \in BOOLEAN
ASSUME Bounds == MaxBoots \in Nat /\ MaxFaults \in Nat
ASSUME NoTokenIsNone == NoToken \notin Tokens

VARIABLES
  boot,       \* the running process
  signedIn,   \* the boot whose key signed a token; 0 when none did
  expired,    \* tokens whose expiry has passed
  pc,         \* where each handler is in accept
  tok,        \* the token of each handler's submission
  ledger,     \* SpentTokenLedger: hashes of spent tokens
  store,      \* ResponseStore: rows, each under the data key of a boot
  shredded,   \* the wrapped data keys of this boot are deleted
  poisoned,   \* mutexes a panic has poisoned: "ledger", "store"
  faults,     \* failed database statements left
  recorded,   \* history: how often a response came into the store per token
  said        \* history: the answers given per token

vars == <<boot, signedIn, expired, pc, tok, ledger, store, shredded, poisoned,
          faults, recorded, said>>

Answers == {"ack", "spent", "invalid", "expired", "mismatch"}
Row == [token : Tokens, dek : Nat]

(* Handlers between the spending of t and its row in the store.            *)
Carrying(t) == {h \in Handlers : tok[h] = t /\ pc[h] \in {"spent", "sealed"}}

Readable(row) == row.dek = boot /\ ~shredded

Init ==
  /\ boot = 1
  /\ signedIn = [t \in Tokens |-> 0]
  /\ expired = {}
  /\ pc = [h \in Handlers |-> "idle"]
  /\ tok = [h \in Handlers |-> NoToken]
  /\ ledger = {}
  /\ store = << >>
  /\ shredded = FALSE
  /\ poisoned = {}
  /\ faults = MaxFaults
  /\ recorded = [t \in Tokens |-> 0]
  /\ said = [t \in Tokens |-> {}]

-----------------------------------------------------------------------------
(* Outside accept: the issuer signs tokens, time passes, keys are deleted. *)

Sign(t) ==
  /\ signedIn[t] = 0
  /\ signedIn' = [signedIn EXCEPT ![t] = boot]
  /\ UNCHANGED <<boot, expired, pc, tok, ledger, store, shredded, poisoned,
                 faults, recorded, said>>

Expire(t) ==
  /\ t \notin expired
  /\ expired' = expired \cup {t}
  /\ UNCHANGED <<boot, signedIn, pc, tok, ledger, store, shredded, poisoned,
                 faults, recorded, said>>

(* DekStore::delete_tenant.                                                *)
Shred ==
  /\ CanShred /\ ~shredded
  /\ shredded' = TRUE
  /\ UNCHANGED <<boot, signedIn, expired, pc, tok, ledger, store, poisoned,
                 faults, recorded, said>>

-----------------------------------------------------------------------------
(* accept, one lock at a time.                                             *)

Answer(h, a) ==
  /\ pc' = [pc EXCEPT ![h] = "idle"]
  /\ tok' = [tok EXCEPT ![h] = NoToken]
  /\ said' = [said EXCEPT ![tok[h]] = @ \cup {a}]

(* A panic unwinds the request's task and nothing else: the connection is  *)
(* dropped without an answer and the process serves on.                    *)
Panic(h) ==
  /\ pc' = [pc EXCEPT ![h] = "idle"]
  /\ tok' = [tok EXCEPT ![h] = NoToken]
  /\ UNCHANGED said

Submit(h, t) ==
  /\ pc[h] = "idle"
  /\ pc' = [pc EXCEPT ![h] = "received"]
  /\ tok' = [tok EXCEPT ![h] = t]
  /\ UNCHANGED <<boot, signedIn, expired, ledger, store, shredded, poisoned,
                 faults, recorded, said>>

(* The signature checks against the key of this boot, if of any.           *)
Verifies(t) == signedIn[t] = boot

(* The checks that come before the ledger, in the order of the code.  A    *)
(* submission whose batch or tenant is not its token's stops at the first. *)
Mismatched(h) ==
  /\ pc[h] = "received"
  /\ Answer(h, "mismatch")
  /\ UNCHANGED <<boot, signedIn, expired, ledger, store, shredded, poisoned,
                 faults, recorded>>

Validate(h) ==
  /\ pc[h] = "received"
  /\ CASE tok[h] \in expired -> Answer(h, "expired")
       [] tok[h] \notin expired /\ ~Verifies(tok[h]) -> Answer(h, "invalid")
       [] OTHER -> /\ pc' = [pc EXCEPT ![h] = "verified"]
                   /\ UNCHANGED <<tok, said>>
  /\ UNCHANGED <<boot, signedIn, expired, ledger, store, shredded, poisoned,
                 faults, recorded>>

NeverSpent(t) == TRUE  \* Mutant

Unspent(t) == t \notin ledger

(* check_and_spend: the check and the insert under one lock.               *)
Spend(h) ==
  /\ pc[h] = "verified"
  /\ "ledger" \notin poisoned
  /\ IF Unspent(tok[h])
     THEN /\ ledger' = ledger \cup {tok[h]}
          /\ pc' = [pc EXCEPT ![h] = "spent"]
          /\ UNCHANGED <<tok, said>>
     ELSE /\ Answer(h, "spent")
          /\ UNCHANGED ledger
  /\ UNCHANGED <<boot, signedIn, expired, store, shredded, poisoned, faults, recorded>>

(* EncryptingResponseStore::store looks the data key up, or panics.        *)
Seal(h) ==
  /\ pc[h] = "spent"
  /\ IF shredded
     THEN Panic(h)
     ELSE pc' = [pc EXCEPT ![h] = "sealed"] /\ UNCHANGED <<tok, said>>
  /\ UNCHANGED <<boot, signedIn, expired, ledger, store, shredded, poisoned,
                 faults, recorded>>

NoRow(t) == store             \* Mutant
Bare(t) == Append(store, t)   \* Mutant

Appended(t) == Append(store, [token |-> t, dek |-> boot])

Store(h) ==
  /\ pc[h] = "sealed"
  /\ "store" \notin poisoned
  /\ store' = Appended(tok[h])
  /\ recorded' = [recorded EXCEPT ![tok[h]] = @ + Len(store') - Len(store)]
  /\ Answer(h, "ack")
  /\ UNCHANGED <<boot, signedIn, expired, ledger, shredded, poisoned, faults>>

(* A statement fails under its mutex (disk full, i/o error): expect panics *)
(* while the guard is held, which poisons the mutex.                       *)
StatementFails(h, lock) ==
  /\ Durable /\ faults > 0
  /\ <<pc[h], lock>> \in {<<"verified", "ledger">>, <<"sealed", "store">>}
  /\ lock \notin poisoned
  /\ poisoned' = poisoned \cup {lock}
  /\ faults' = faults - 1
  /\ Panic(h)
  /\ UNCHANGED <<boot, signedIn, expired, ledger, store, shredded, recorded>>

(* lock().expect("... poisoned").                                          *)
LockPoisoned(h) ==
  /\ \/ pc[h] = "verified" /\ "ledger" \in poisoned
     \/ pc[h] = "sealed" /\ "store" \in poisoned
  /\ Panic(h)
  /\ UNCHANGED <<boot, signedIn, expired, ledger, store, shredded, poisoned,
                 faults, recorded>>

-----------------------------------------------------------------------------
SameKeys == boot  \* Mutant

(* The keys of the next process are new ones.                              *)
NextKeys == boot + 1

(* The process ends at any point and is started again.                     *)
Restart ==
  /\ boot < MaxBoots
  /\ boot' = NextKeys
  /\ pc' = [h \in Handlers |-> "idle"]
  /\ tok' = [h \in Handlers |-> NoToken]
  /\ shredded' = FALSE
  /\ poisoned' = {}
  /\ ledger' = IF Durable THEN ledger ELSE {}
  /\ store' = IF Durable THEN store ELSE << >>
  /\ UNCHANGED <<signedIn, expired, faults, recorded, said>>

Handle(h) ==
  \/ Mismatched(h) \/ Validate(h) \/ Spend(h) \/ Seal(h) \/ Store(h)
  \/ LockPoisoned(h)
  \/ \E t \in Tokens : Submit(h, t)
  \/ \E lock \in {"ledger", "store"} : StatementFails(h, lock)

Next ==
  \/ \E h \in Handlers : Handle(h)
  \/ \E t \in Tokens : Sign(t) \/ Expire(t)
  \/ Shred
  \/ Restart

Spec == Init /\ [][Next]_vars

-----------------------------------------------------------------------------
(* Type invariant.                                                         *)
TypeOK ==
  /\ boot \in Nat
  /\ signedIn \in [Tokens -> Nat]
  /\ expired \subseteq Tokens
  /\ pc \in [Handlers -> {"idle", "received", "verified", "spent", "sealed"}]
  /\ tok \in [Handlers -> Tokens \cup {NoToken}]
  /\ \A h \in Handlers : pc[h] # "idle" => tok[h] \in Tokens
  /\ ledger \subseteq Tokens
  /\ store \in Seq(Row)
  /\ shredded \in BOOLEAN
  /\ poisoned \subseteq {"ledger", "store"}
  /\ faults \in Nat
  /\ recorded \in [Tokens -> Nat]
  /\ said \in [Tokens -> SUBSET Answers]

(* A token brings at most one response into the store, over all handlers   *)
(* and all restarts: an in-memory ledger that forgets what was spent is    *)
(* only safe because the keys are forgotten with it.                       *)
CountedOnce == \A t \in Tokens : recorded[t] <= 1

(* An acknowledged response is in the store: a client deletes its token on *)
(* the acknowledgement, so nothing could be retried.                       *)
AckedIsStored ==
  \A t \in Tokens :
    "ack" \in said[t] =>
      /\ recorded[t] = 1
      /\ Durable => \E n \in DOMAIN store : store[n].token = t

(* A spent token has its response recorded or on its way: what lets a      *)
(* client take "already spent" for success (the protocol document).        *)
SpentIsRecorded ==
  \A t \in Tokens : t \in ledger => recorded[t] = 1 \/ Carrying(t) # {}

(* It holds until a process ends, a statement fails or keys are deleted.   *)
SpentIsRecordedUntilFailure ==
  boot = 1 /\ poisoned = {} /\ ~shredded => SpentIsRecorded

(* Deleted keys stay deleted: a row that cannot be read any more never     *)
(* becomes readable again, and the rows of a running process only grow.    *)
ShreddingIsFinal ==
  [][/\ \A n \in DOMAIN store :
           Len(store') >= n /\ ~Readable(store[n]) =>
             store'[n] = store[n] /\ ~(store'[n].dek = boot' /\ ~shredded')
     /\ boot' = boot => \A n \in DOMAIN store : Len(store') >= n]_vars

(* Every answer counts once or not at all: no token records two responses, *)
(* and what a client was told is recorded stays so across restarts.        *)
ResponsesCount == TypeOK /\ CountedOnce /\ AckedIsStored

=============================================================================

------------------------ MODULE PulseProtocolProofs ------------------------
(***************************************************************************)
(* Proofs about PulseProtocol, for any number of employees, batches,       *)
(* tokens, concurrent requests and restarts, any cap and either engine:    *)
(* what clients may hold and a ballot may contain, and that the issuer is  *)
(* fair at both ends of its quota.                                         *)
(*                                                                         *)
(* Neither zone knows what the other does.  What ties them together is     *)
(* that a request carries one token (Serving), that the tokens a process   *)
(* has signed for an employee and a batch are as many as its log says      *)
(* (Books), and that a token is only submitted once it is ready, after     *)
(* which nothing signs it again (Staged, Delivered).                       *)
(***************************************************************************)
EXTENDS PulseProtocol, FiniteSetTheorems, TLAPS

-----------------------------------------------------------------------------
(* The issuer alone: the equation of QuotaAddsUp is itself inductive once  *)
(* the types are known; what the proof needs are the sizes of the sets of  *)
(* handlers that a step moves a handler into or out of.                    *)

LEMMA InitHolds == Init => TypeOK /\ QuotaAddsUp
<1> SUFFICES ASSUME Init PROVE TypeOK /\ QuotaAddsUp
  OBVIOUS
<1>1. TypeOK
  BY CapIsNatural DEF Init, TypeOK, Zero, Pairs
<1>2. \A p \in Pairs : Cardinality(Counted(p)) = 0
  <2>1. \A p \in Pairs : Counted(p) = {}
    BY DEF Init, Counted
  <2>2. QED
    BY <2>1, FS_EmptySet
<1>3. QED
  BY <1>1, <1>2, CapIsNatural DEF Init, QuotaAddsUp, Zero

(* Types are kept by every step.                                           *)
LEMMA TypeStep == TypeOK /\ [Next]_vars => TypeOK'
<1> SUFFICES ASSUME TypeOK, [Next]_vars PROVE TypeOK'
  OBVIOUS
<1> USE DEF TypeOK
<1>1. ASSUME NEW h \in Handlers, NEW p \in Pairs, Request(h, p) PROVE TypeOK'
  BY <1>1 DEF Request
<1>2. ASSUME NEW h \in Handlers, Admit(h) PROVE TypeOK'
  BY <1>2 DEF Admit, Done
<1>3. ASSUME NEW h \in Handlers, Count(h) PROVE TypeOK'
  BY <1>3 DEF Count, Done
<1>4. ASSUME NEW h \in Handlers, Sign(h) PROVE TypeOK'
  BY <1>4 DEF Sign, Logged, Done
<1>5. ASSUME NEW h \in Handlers, SigningFails(h) PROVE TypeOK'
  BY <1>5 DEF SigningFails, Done
<1>6. ASSUME NEW e \in Employees, Authenticate(e) \/ Questions(e) PROVE TypeOK'
  BY <1>6 DEF Authenticate, Questions, Assignments
<1>7. ASSUME NEW b \in Batches, Close(b) PROVE TypeOK'
  BY <1>7 DEF Close
<1>8. CASE Restart
  BY <1>8 DEF Restart, Zero
<1>9. CASE UNCHANGED vars
  BY <1>9 DEF vars
<1>10. QED
  BY <1>1, <1>2, <1>3, <1>4, <1>5, <1>6, <1>7, <1>8, <1>9 DEF Next

(* The handlers counted for a pair are finitely many.                      *)
LEMMA CountedFinite ==
  ASSUME NEW p PROVE IsFiniteSet(Counted(p)) /\ Cardinality(Counted(p)) \in Nat
<1>1. Counted(p) \subseteq Handlers
  BY DEF Counted
<1>2. QED
  BY <1>1, FiniteHandlers, FS_Subset, FS_CardinalityType

(* A handler that leaves "counted" takes one off its pair and no other.    *)
LEMMA LeavesCounted ==
  ASSUME TypeOK, NEW h \in Handlers, pc[h] = "counted", Done(h), NEW p \in Pairs
  PROVE  Cardinality(Counted(p)') =
           IF p = req[h] THEN Cardinality(Counted(p)) - 1 ELSE Cardinality(Counted(p))
<1>1. CASE p = req[h]
  <2>1. Counted(p)' = Counted(p) \ {h} /\ h \in Counted(p)
    BY <1>1 DEF Counted, Done, TypeOK
  <2>2. IsFiniteSet(Counted(p))
    BY CountedFinite
  <2>3. Cardinality(Counted(p) \ {h}) = Cardinality(Counted(p)) - 1
    BY <2>1, <2>2, FS_RemoveElement
  <2>4. QED
    BY <1>1, <2>1, <2>3
<1>2. CASE p # req[h]
  <2>1. Counted(p)' = Counted(p)
    BY <1>2 DEF Counted, Done, TypeOK
  <2>2. QED
    BY <1>2, <2>1
<1>3. QED
  BY <1>1, <1>2

(* Every step keeps the books, in which the cap is never passed.           *)
LEMMA QuotaStep == TypeOK /\ QuotaAddsUp /\ [Next]_vars => QuotaAddsUp'
<1> SUFFICES ASSUME TypeOK, QuotaAddsUp, [Next]_vars, NEW p \in Pairs
             PROVE  /\ counts'[p] = log'[p] + burnt'[p] + Cardinality(Counted(p)')
                    /\ counts'[p] <= Cap
  BY DEF QuotaAddsUp, Counted
<1> DEFINE Kept == /\ counts'[p] = log'[p] + burnt'[p] + Cardinality(Counted(p)')
                   /\ counts'[p] <= Cap
<1>0. /\ counts[p] = log[p] + burnt[p] + Cardinality(Counted(p)) /\ counts[p] <= Cap
      /\ counts \in [Pairs -> Nat] /\ log \in [Pairs -> Nat] /\ burnt \in [Pairs -> Nat]
  BY DEF QuotaAddsUp, TypeOK
<1>1. ASSUME Counted(p)' = Counted(p), UNCHANGED <<counts, log, burnt>> PROVE Kept
  BY <1>0, <1>1
<1>2. ASSUME NEW h \in Handlers, NEW q \in Pairs, Request(h, q) PROVE Kept
  BY <1>1, <1>2 DEF Request, Counted, TypeOK
<1>3. ASSUME NEW h \in Handlers, Admit(h) PROVE Kept
  BY <1>1, <1>3 DEF Admit, Done, Counted, TypeOK
<1>4. ASSUME NEW h \in Handlers, Count(h) PROVE Kept
  <2>1. req[h] \in Pairs
    BY <1>4 DEF Count, TypeOK
  <2>2. CASE UnderCap(req[h]) /\ req[h] = p
    <3>1. Counted(p)' = Counted(p) \cup {h} /\ h \notin Counted(p)
      BY <1>4, <2>2 DEF Count, Counted, TypeOK
    <3>2. Cardinality(Counted(p)') = Cardinality(Counted(p)) + 1
      BY <3>1, CountedFinite, FS_AddElement
    <3>3. counts' = [counts EXCEPT ![p] = @ + 1] /\ UNCHANGED <<log, burnt>> /\ counts[p] < Cap
      BY <1>4, <2>2 DEF Count, UnderCap
    <3>4. QED
      BY <1>0, <3>2, <3>3, CapIsNatural, CountedFinite
  <2>3. CASE UnderCap(req[h]) /\ req[h] # p
    <3>1. Counted(p)' = Counted(p)
      BY <1>4, <2>3 DEF Count, Counted, TypeOK
    <3>2. counts'[p] = counts[p] /\ UNCHANGED <<log, burnt>>
      BY <1>0, <1>4, <2>1, <2>3 DEF Count
    <3>3. QED
      BY <1>0, <3>1, <3>2
  <2>4. CASE ~UnderCap(req[h])
    BY <1>1, <1>4, <2>4 DEF Count, Done, Counted, TypeOK
  <2>5. QED
    BY <2>2, <2>3, <2>4
<1>5. ASSUME NEW h \in Handlers, Sign(h) PROVE Kept
  <2>1. req[h] \in Pairs /\ pc[h] = "counted" /\ Done(h)
    BY <1>5 DEF Sign, TypeOK
  <2>2. log' = [log EXCEPT ![req[h]] = @ + 1] /\ UNCHANGED <<counts, burnt>>
    BY <1>5 DEF Sign, Logged
  <2>3. QED
    BY <1>0, <2>1, <2>2, LeavesCounted, CountedFinite
<1>6. ASSUME NEW h \in Handlers, SigningFails(h) PROVE Kept
  <2>1. req[h] \in Pairs /\ pc[h] = "counted" /\ Done(h)
    BY <1>6 DEF SigningFails, TypeOK
  <2>2. burnt' = [burnt EXCEPT ![req[h]] = @ + 1] /\ UNCHANGED <<counts, log>>
    BY <1>6 DEF SigningFails
  <2>3. QED
    BY <1>0, <2>1, <2>2, LeavesCounted, CountedFinite
<1>7. ASSUME NEW e \in Employees, Authenticate(e) \/ Questions(e) PROVE Kept
  BY <1>1, <1>7 DEF Authenticate, Questions, Counted
<1>8. ASSUME NEW b \in Batches, Close(b) PROVE Kept
  BY <1>1, <1>8 DEF Close, Counted
<1>9. CASE Restart
  <2>1. Counted(p)' = {}
    BY <1>9 DEF Restart, Counted
  <2>2. QED
    BY <1>9, <2>1, FS_EmptySet, CapIsNatural DEF Restart, Zero
<1>10. CASE UNCHANGED vars
  BY <1>1, <1>10 DEF vars, Counted
<1>11. QED
  BY <1>2, <1>3, <1>4, <1>5, <1>6, <1>7, <1>8, <1>9, <1>10 DEF Next

(* Concurrent requests never get more counted than the cap, and what is    *)
(* counted is signed, on its way to be signed, or lost to a failed signing.*)
THEOREM QuotaHolds == Spec => []QuotaAddsUp
<1>1. TypeOK /\ QuotaAddsUp /\ [Next]_vars => (TypeOK /\ QuotaAddsUp)'
  BY TypeStep, QuotaStep
<1>2. QED
  BY <1>1, InitHolds, PTL DEF Spec

-----------------------------------------------------------------------------
(* Clients, issuer and collector.                                          *)

SignedBy(p, k) == {t \in Tokens : token[t].pair = p /\ signer[t] = k}

ClientTypes ==
  /\ boot >= 1
  /\ key \in [Employees -> 0..boot]
  /\ token \in [Tokens -> [at : Stages, pair : Pairs \cup {Nobody}, key : 0..boot]]
  /\ serves \in [Handlers -> Tokens \cup {NoToken}]
  /\ signer \in [Tokens -> 0..boot]
  /\ wire \subseteq Tokens /\ spent \subseteq Tokens
  /\ holding \subseteq Tokens /\ mislaid \subseteq Tokens /\ stored \subseteq Tokens
  /\ said \in [Tokens -> SUBSET {"accepted", "spent", "refused"}]

(* A request in progress carries one token, of the employee and the batch  *)
(* the issuer reads in it, and no other request does.                      *)
Serving ==
  /\ \A h \in Handlers : pc[h] # "idle" =>
       /\ serves[h] \in Tokens
       /\ token[serves[h]].at = "asked" /\ token[serves[h]].pair = req[h]
  /\ \A g, h \in Handlers : pc[g] # "idle" /\ pc[h] # "idle" /\ serves[g] = serves[h] => g = h

(* What a token's stage says of its signature.                             *)
Staged ==
  \A t \in Tokens :
    /\ token[t].at \in {"none", "blinded", "asked"} => signer[t] = 0
    /\ token[t].at \in {"signed", "ready"} => signer[t] > 0
    /\ token[t].at = "ready" => signer[t] = token[t].key
    /\ token[t].at # "none" => token[t].pair \in Pairs
    /\ token[t].at = "none" => token[t].pair = Nobody

(* Only a ready token is submitted, one that is spent is stored, about to  *)
(* be, or lost, and the client is told the truth.                          *)
Delivered ==
  /\ spent = stored \cup holding \cup mislaid
  /\ stored \cap holding = {} /\ stored \cap mislaid = {} /\ holding \cap mislaid = {}
  /\ \A t \in Tokens :
       /\ t \in wire \cup spent \/ said[t] # {} => token[t].at = "ready"
       /\ "refused" \in said[t] => token[t].pair[2] \in closed \/ signer[t] < boot
       /\ "accepted" \in said[t] => t \in stored
       /\ "spent" \in said[t] => t \in spent

(* The roster has everybody whose request is past the checks, or who was   *)
(* signed for.                                                             *)
OnRoster ==
  Engine = "roster" =>
    /\ \A h \in Handlers : pc[h] \in {"admitted", "counted"} => req[h] \in Assigned
    /\ \A t \in Tokens : signer[t] > 0 => token[t].pair \in Assigned

(* The tokens this process has signed are the entries of its log, and no   *)
(* process has signed more than the cap.                                   *)
Books ==
  \A p \in Pairs :
    /\ Cardinality(SignedBy(p, boot)) = log[p]
    /\ \A k \in 1..boot : IsFiniteSet(SignedBy(p, k)) /\ Cardinality(SignedBy(p, k)) <= Cap

PInv ==
  TypeOK /\ QuotaAddsUp /\ ClientTypes /\ Serving /\ Staged /\ Delivered /\ OnRoster /\ Books

-----------------------------------------------------------------------------
(* A step of the whole is a step of the issuer or none: what is proved of  *)
(* the issuer holds here.                                                  *)
LEMMA IssuerSteps ==
  ASSUME ClientTypes, Serving, Staged, [PulseNext]_pulse PROVE [Next]_vars
<1>1. ASSUME NEW t \in Tokens, NEW h \in Handlers, Ask(t, h) PROVE [Next]_vars
  <2>1. Request(h, token[t].pair) /\ token[t].pair \in Pairs
    BY <1>1 DEF Ask, Staged
  <2>2. QED
    BY <2>1 DEF Next
<1>2. ASSUME NEW t \in Tokens, ClientStep(t) PROVE [Next]_vars
  BY <1>1, <1>2 DEF ClientStep, Blind, AskFails, Finalize, Submit, CollectorSpends, CollectorStores,
                    CollectorLoses, CollectorRefuses, WireLoses
<1>3. ASSUME NEW h \in Handlers, IssuerAdmits(h) \/ IssuerCounts(h) \/ IssuerSigns(h) \/ IssuerFails(h)
      PROVE  [Next]_vars
  BY <1>3 DEF IssuerAdmits, IssuerCounts, IssuerSigns, IssuerFails, Next
<1>4. CASE ServerRestarts
  BY <1>4 DEF ServerRestarts, Next
<1>5. ASSUME NEW e \in Employees, Connect(e) \/ Authenticate(e) \/ Questions(e) PROVE [Next]_vars
  BY <1>5 DEF Connect, Next
<1>6. ASSUME NEW b \in Batches, Close(b) PROVE [Next]_vars
  BY <1>6 DEF Next
<1>7. CASE UNCHANGED pulse
  BY <1>7 DEF pulse
<1>8. QED
  BY <1>2, <1>3, <1>4, <1>5, <1>6, <1>7 DEF PulseNext

LEMMA IssuerHolds ==
  ASSUME PInv, [PulseNext]_pulse PROVE (TypeOK /\ QuotaAddsUp)'
BY IssuerSteps, TypeStep, QuotaStep DEF PInv

-----------------------------------------------------------------------------
(* Nothing of a client changes the books but a signature: a step that      *)
(* leaves the signers, the log and the pairs of the signed tokens alone    *)
(* keeps them.                                                             *)
LEMMA BooksKept ==
  ASSUME PInv, UNCHANGED <<boot, log, signer>>,
         \A t \in Tokens : signer[t] > 0 => token'[t].pair = token[t].pair
  PROVE  Books'
<1> SUFFICES ASSUME NEW p \in Pairs PROVE
      /\ Cardinality(SignedBy(p, boot)') = log[p]
      /\ \A k \in 1..boot : IsFiniteSet(SignedBy(p, k)') /\ Cardinality(SignedBy(p, k)') <= Cap
  BY DEF Books, SignedBy
<1>1. boot \in Nat /\ boot >= 1 /\ \A t \in Tokens : signer[t] \in 0..boot
  BY DEF PInv, TypeOK, ClientTypes
<1>2. ASSUME NEW k \in 1..boot PROVE SignedBy(p, k)' = SignedBy(p, k)
  <2>1. \A t \in Tokens : signer[t] = k => signer[t] > 0 /\ token'[t].pair = token[t].pair
    BY <1>1
  <2>2. \A t \in Tokens : signer'[t] = signer[t]
    OBVIOUS
  <2>3. QED
    BY <2>1, <2>2 DEF SignedBy
<1>3. boot \in 1..boot
  BY <1>1
<1>4. QED
  BY <1>2, <1>3 DEF PInv, Books

(* The signature of a token that had none adds one to the books of its     *)
(* employee and batch, where the log has one more entry.                   *)
LEMMA BooksSigned ==
  ASSUME PInv, (TypeOK /\ QuotaAddsUp)', NEW h \in Handlers, NEW t \in Tokens, pc[h] = "counted",
         t = serves[h], boot' = boot, log' = Logged(req[h]), signer' = [signer EXCEPT ![t] = boot],
         \A u \in Tokens : token'[u].pair = token[u].pair
  PROVE  Books'
<1> SUFFICES ASSUME NEW p \in Pairs PROVE
      /\ Cardinality(SignedBy(p, boot)') = log'[p]
      /\ \A k \in 1..boot : IsFiniteSet(SignedBy(p, k)') /\ Cardinality(SignedBy(p, k)') <= Cap
  BY DEF Books, SignedBy
<1>1. /\ boot \in Nat /\ boot >= 1 /\ signer \in [Tokens -> 0..boot]
      /\ log \in [Pairs -> Nat] /\ req[h] \in Pairs
      /\ token[t].pair = req[h] /\ signer[t] = 0
  BY DEF PInv, TypeOK, ClientTypes, Serving, Staged
<1>2. log' = [log EXCEPT ![req[h]] = @ + 1]
  BY DEF Logged
<1>3. \A k \in 1..boot : IsFiniteSet(SignedBy(p, k)) /\ Cardinality(SignedBy(p, k)) <= Cap
      /\ Cardinality(SignedBy(p, boot)) = log[p]
  BY <1>1 DEF PInv, Books
<1>4. ASSUME NEW k \in 1..boot, k # boot \/ p # req[h] PROVE SignedBy(p, k)' = SignedBy(p, k)
  <2>1. t \notin SignedBy(p, k) /\ t \notin SignedBy(p, k)'
    BY <1>1, <1>4 DEF SignedBy
  <2>2. \A u \in Tokens \ {t} : signer'[u] = signer[u]
    BY <1>1
  <2>3. QED
    BY <2>1, <2>2 DEF SignedBy
<1>5. CASE p = req[h]
  <2>1. SignedBy(p, boot)' = SignedBy(p, boot) \cup {t} /\ t \notin SignedBy(p, boot)
    BY <1>1, <1>5 DEF SignedBy
  <2>2. IsFiniteSet(SignedBy(p, boot)') /\ Cardinality(SignedBy(p, boot)') = log[p] + 1
    <3>1. boot \in 1..boot
      BY <1>1
    <3>2. IsFiniteSet(SignedBy(p, boot)) /\ Cardinality(SignedBy(p, boot)) = log[p]
      BY <1>3, <3>1
    <3>3. \A S : IsFiniteSet(S) /\ t \notin S =>
            IsFiniteSet(S \cup {t}) /\ Cardinality(S \cup {t}) = Cardinality(S) + 1
      BY FS_AddElement
    <3>4. IsFiniteSet(SignedBy(p, boot) \cup {t})
          /\ Cardinality(SignedBy(p, boot) \cup {t}) = Cardinality(SignedBy(p, boot)) + 1
      BY <2>1, <3>2, <3>3
    <3>5. QED
      BY <2>1, <3>2, <3>4
  <2>3. log'[p] <= Cap
    <3>1. counts'[p] = log'[p] + burnt'[p] + Cardinality(Counted(p)') /\ counts'[p] <= Cap
          /\ burnt'[p] \in Nat /\ log'[p] \in Nat
      BY DEF QuotaAddsUp, TypeOK, Counted
    <3>2. Cardinality(Counted(p)') \in Nat
      <4>1. Counted(p)' \subseteq Handlers
        BY DEF Counted
      <4>2. QED
        BY <4>1, FiniteHandlers, FS_Subset, FS_CardinalityType
    <3>3. QED
      BY <3>1, <3>2, CapIsNatural
  <2>4. log'[p] = log[p] + 1
    BY <1>1, <1>2, <1>5
  <2>5. QED
    BY <1>3, <1>4, <2>2, <2>3, <2>4
<1>6. CASE p # req[h]
  <2>1. log'[p] = log[p] /\ boot \in 1..boot
    BY <1>1, <1>2, <1>6
  <2>2. QED
    BY <1>3, <1>4, <1>6, <2>1
<1>7. QED
  BY <1>5, <1>6

(* A new process has signed nothing yet.                                   *)
LEMMA BooksRestarted ==
  ASSUME PInv, boot' = boot + 1, log' = Zero, signer' = signer,
         \A t \in Tokens : token'[t].pair = token[t].pair
  PROVE  Books'
<1>1. boot \in Nat /\ boot >= 1 /\ signer \in [Tokens -> 0..boot]
  BY DEF PInv, TypeOK, ClientTypes
<1>2. ASSUME NEW p \in Pairs PROVE SignedBy(p, boot)' = {}
  BY <1>1 DEF SignedBy
<1>3. ASSUME NEW p \in Pairs PROVE IsFiniteSet(SignedBy(p, boot)') /\ Cardinality(SignedBy(p, boot)') = 0
  BY <1>2, FS_EmptySet
<1>4. ASSUME NEW p \in Pairs, NEW k \in 1..boot' PROVE IsFiniteSet(SignedBy(p, k)') /\ Cardinality(SignedBy(p, k)') <= Cap
  <2>1. CASE k = boot'
    <3>1. SignedBy(p, k)' = {}
      BY <1>1, <2>1 DEF SignedBy
    <3>2. QED
      BY <3>1, FS_EmptySet, CapIsNatural
  <2>2. CASE k # boot'
    <3>1. k \in 1..boot
      BY <1>1, <2>2
    <3>2. SignedBy(p, k)' = SignedBy(p, k)
      BY DEF SignedBy
    <3>3. IsFiniteSet(SignedBy(p, k)) /\ Cardinality(SignedBy(p, k)) <= Cap
      BY <3>1 DEF PInv, Books
    <3>4. QED
      BY <3>2, <3>3
  <2>3. QED
    BY <2>1, <2>2
<1>5. QED
  BY <1>3, <1>4 DEF Books, Zero

-----------------------------------------------------------------------------
(* What a call that moves a token leaves of the tokens.                    *)
LEMMA Moved ==
  ASSUME ClientTypes, boot \in Nat, NEW t \in Tokens, NEW to \in Stages, Moves(t, to)
  PROVE  /\ token' \in [Tokens -> [at : Stages, pair : Pairs \cup {Nobody}, key : 0..boot]]
         /\ token'[t].at = to /\ token'[t].pair = token[t].pair /\ token'[t].key = token[t].key
         /\ \A u \in Tokens \ {t} : token'[u] = token[u]
         /\ \A u \in Tokens : token'[u].pair = token[u].pair /\ token'[u].key = token[u].key
<1>1. token \in [Tokens -> [at : Stages, pair : Pairs \cup {Nobody}, key : 0..boot]]
  BY DEF ClientTypes
<1>2. token' = [token EXCEPT ![t].at = to]
  BY DEF Moves
<1>3. token[t] \in [at : Stages, pair : Pairs \cup {Nobody}, key : 0..boot]
  BY <1>1
<1>4. token'[t] = [token[t] EXCEPT !.at = to] /\ \A u \in Tokens \ {t} : token'[u] = token[u]
  BY <1>1, <1>2
<1>5. token'[t] \in [at : Stages, pair : Pairs \cup {Nobody}, key : 0..boot]
      /\ token'[t].at = to /\ token'[t].pair = token[t].pair /\ token'[t].key = token[t].key
  BY <1>3, <1>4
<1>6. token' \in [Tokens -> [at : Stages, pair : Pairs \cup {Nobody}, key : 0..boot]]
  BY <1>1, <1>2, <1>4, <1>5
<1>7. QED
  BY <1>4, <1>5, <1>6

(* What touches no request, token or signature keeps what is said of them. *)
LEMMA Aside ==
  ASSUME PInv, UNCHANGED <<boot, pc, req, log, token, serves, signer>>
  PROVE  (Serving /\ Staged /\ OnRoster /\ Books)'
<1>1. Serving' /\ Staged' /\ OnRoster'
  BY DEF PInv, Serving, Staged, OnRoster
<1>2. QED
  BY <1>1, BooksKept

(* Only a ready token is on the wire or in the ledger: a step that leaves  *)
(* the ready ones alone keeps what clients are told true.                  *)
LEMMA DeliveredKept ==
  ASSUME PInv, UNCHANGED <<wire, spent, holding, mislaid, stored, said, closed>>, boot' \in {boot, boot + 1},
         \A u \in Tokens : token[u].at = "ready" => token'[u] = token[u] /\ signer'[u] = signer[u]
  PROVE  Delivered'
<1>1. boot \in Nat /\ \A u \in Tokens : signer[u] \in 0..boot
  BY DEF PInv, TypeOK, ClientTypes
<1>2. QED
  BY <1>1 DEF PInv, Delivered

(* Nor does a step on a token that no request carries disturb the requests.*)
LEMMA ServingKept ==
  ASSUME PInv, UNCHANGED <<pc, req, serves>>,
         \A u \in Tokens : token[u].at = "asked" => token'[u] = token[u]
  PROVE  Serving'
BY DEF PInv, Serving

(* A request that ends lets its token go.                                  *)
LEMMA ServingReleased ==
  ASSUME PInv, NEW h \in Handlers, NEW to \in Stages, pc[h] # "idle", Done(h), Released(h),
         Moves(serves[h], to)
  PROVE  Serving'
<1>1. serves[h] \in Tokens /\ ClientTypes /\ boot \in Nat
  BY DEF PInv, TypeOK, Serving
<1>2. \A u \in Tokens \ {serves[h]} : token'[u] = token[u]
  BY <1>1, Moved
<1>3. pc'[h] = "idle" /\ \A g \in Handlers \ {h} :
        pc'[g] = pc[g] /\ req'[g] = req[g] /\ serves'[g] = serves[g]
  BY DEF Done, Released, PInv, TypeOK, ClientTypes
<1>4. \A g \in Handlers \ {h} : pc[g] # "idle" => serves[g] # serves[h]
  BY DEF PInv, Serving
<1>5. QED
  BY <1>2, <1>3, <1>4 DEF PInv, Serving

-----------------------------------------------------------------------------
(* The steps, one lemma for each of those that move a token.               *)
Ties == ClientTypes /\ Serving /\ Staged /\ Delivered /\ OnRoster /\ Books

LEMMA BlindKeeps ==
  ASSUME PInv, NEW t \in Tokens, NEW e \in Employees, NEW b \in Batches, Blind(t, e, b)
  PROVE  Ties'
<1>1. /\ boot \in Nat /\ boot >= 1 /\ <<e, b>> \in Pairs /\ key[e] \in 0..boot
      /\ token \in [Tokens -> [at : Stages, pair : Pairs \cup {Nobody}, key : 0..boot]]
      /\ token[t].at = "none" /\ signer[t] = 0
      /\ token' = [token EXCEPT ![t] = [at |-> "blinded", pair |-> <<e, b>>, key |-> key[e]]]
      /\ UNCHANGED <<boot, closed, pc, req, log, key, serves, signer, wire, spent, holding, mislaid, stored, said>>
  BY DEF Blind, PInv, TypeOK, ClientTypes, Staged, Unmade, Pairs, vars
<1>2. token'[t] = [at |-> "blinded", pair |-> <<e, b>>, key |-> key[e]]
      /\ \A u \in Tokens \ {t} : token'[u] = token[u]
  BY <1>1
<1>3. [at |-> "blinded", pair |-> <<e, b>>, key |-> key[e]]
        \in [at : Stages, pair : Pairs \cup {Nobody}, key : 0..boot]
  BY <1>1 DEF Stages
<1>4. ClientTypes'
  BY <1>1, <1>3 DEF PInv, ClientTypes
<1>5. Serving'
  BY <1>1, <1>2, ServingKept
<1>6. Staged'
  BY <1>1, <1>2 DEF PInv, Staged
<1>7. Delivered'
  BY <1>1, <1>2, DeliveredKept
<1>8. OnRoster'
  BY <1>1, <1>2 DEF PInv, OnRoster
<1>9. Books'
  BY <1>1, <1>2, BooksKept
<1>10. QED
  BY <1>4, <1>5, <1>6, <1>7, <1>8, <1>9 DEF Ties

LEMMA AskKeeps ==
  ASSUME PInv, NEW t \in Tokens, NEW h \in Handlers, Ask(t, h)
  PROVE  Ties'
<1>1. /\ boot \in Nat /\ boot >= 1 /\ ClientTypes /\ token[t].at = "blinded" /\ Moves(t, "asked")
      /\ token[t].pair \in Pairs /\ signer[t] = 0 /\ pc[h] = "idle"
      /\ serves' = [serves EXCEPT ![h] = t]
      /\ pc' = [pc EXCEPT ![h] = "asked"] /\ req' = [req EXCEPT ![h] = token[t].pair]
      /\ UNCHANGED <<boot, closed, log, key, signer, wire, spent, holding, mislaid, stored, said>>
  <2>1. token[t].at = "blinded" /\ Request(h, token[t].pair) /\ Moves(t, "asked")
        /\ serves' = [serves EXCEPT ![h] = t] /\ UNCHANGED <<key, signer, wire, spent, holding, mislaid, stored, said>>
    BY DEF Ask
  <2>2. boot \in Nat /\ boot >= 1 /\ ClientTypes
    BY DEF PInv, TypeOK, ClientTypes
  <2>3. token[t].pair \in Pairs /\ signer[t] = 0
    BY <2>1 DEF PInv, Staged
  <2>4. QED
    BY <2>1, <2>2, <2>3 DEF Request
<1>2. /\ token' \in [Tokens -> [at : Stages, pair : Pairs \cup {Nobody}, key : 0..boot]]
      /\ token'[t].at = "asked" /\ token'[t].pair = token[t].pair
      /\ \A u \in Tokens \ {t} : token'[u] = token[u]
  BY <1>1, Moved DEF Stages
<1>3. ClientTypes'
  BY <1>1, <1>2 DEF ClientTypes
<1>4. Serving'
  <2>1. pc'[h] = "asked" /\ req'[h] = token[t].pair /\ serves'[h] = t
        /\ \A g \in Handlers \ {h} : pc'[g] = pc[g] /\ req'[g] = req[g] /\ serves'[g] = serves[g]
    BY <1>1 DEF PInv, TypeOK, ClientTypes
  <2>2. \A g \in Handlers : pc[g] # "idle" => serves[g] # t
    BY <1>1 DEF PInv, Serving
  <2>3. QED
    BY <1>2, <2>1, <2>2 DEF PInv, Serving
<1>5. Staged'
  BY <1>1, <1>2 DEF PInv, Staged
<1>6. Delivered'
  BY <1>1, <1>2, DeliveredKept
<1>7. OnRoster'
  BY <1>1, <1>2 DEF PInv, OnRoster, TypeOK
<1>8. Books'
  BY <1>1, <1>2, BooksKept
<1>9. QED
  BY <1>3, <1>4, <1>5, <1>6, <1>7, <1>8 DEF Ties

(* A token that no request carries ends or becomes ready.                  *)
LEMMA SettledKeeps ==
  ASSUME PInv, NEW t \in Tokens, AskFails(t) \/ Finalize(t)
  PROVE  Ties'
<1>1. PICK to \in Stages : Moves(t, to)
        /\ to \in {"denied", "ready", "void"} /\ (to = "ready" => token[t].key = signer[t] /\ signer[t] > 0)
  BY DEF AskFails, Finalize, Finalized, Stages, PInv, Staged
<1>2. /\ boot \in Nat /\ boot >= 1 /\ ClientTypes /\ token[t].at \in {"blinded", "signed"}
      /\ token[t].pair \in Pairs
      /\ UNCHANGED <<boot, closed, pc, req, log, key, serves, signer, wire, spent, holding, mislaid, stored, said>>
  <2>1. token[t].at \in {"blinded", "signed"}
        /\ UNCHANGED <<boot, closed, pc, req, log, key, serves, signer, wire, spent, holding, mislaid, stored, said>>
    BY DEF AskFails, Finalize, vars
  <2>2. boot \in Nat /\ boot >= 1 /\ ClientTypes
    BY DEF PInv, TypeOK, ClientTypes
  <2>3. token[t].pair \in Pairs
    BY <2>1 DEF PInv, Staged
  <2>4. QED
    BY <2>1, <2>2, <2>3
<1>3. /\ token' \in [Tokens -> [at : Stages, pair : Pairs \cup {Nobody}, key : 0..boot]]
      /\ token'[t].at = to /\ token'[t].pair = token[t].pair /\ token'[t].key = token[t].key
      /\ \A u \in Tokens \ {t} : token'[u] = token[u]
  BY <1>1, <1>2, Moved
<1>4. ClientTypes'
  BY <1>2, <1>3 DEF ClientTypes
<1>5. Serving'
  BY <1>2, <1>3, ServingKept
<1>6. Staged'
  BY <1>1, <1>2, <1>3 DEF PInv, Staged
<1>7. Delivered'
  BY <1>2, <1>3, DeliveredKept
<1>8. OnRoster'
  BY <1>2, <1>3 DEF PInv, OnRoster
<1>9. Books'
  BY <1>2, <1>3, BooksKept
<1>10. QED
  BY <1>4, <1>5, <1>6, <1>7, <1>8, <1>9 DEF Ties

(* The issuer turns a request away, at its checks, at the cap or in the    *)
(* signing; or it lets it go on.                                           *)
LEMMA TurnedAwayKeeps ==
  ASSUME PInv, NEW h \in Handlers, pc[h] # "idle", Done(h), Released(h), Moves(serves[h], "denied"),
         UNCHANGED <<boot, closed, log, key, signer, wire, spent, holding, mislaid, stored, said>>
  PROVE  Ties'
<1>1. /\ boot \in Nat /\ boot >= 1 /\ ClientTypes /\ serves[h] \in Tokens
      /\ token[serves[h]].at = "asked" /\ token[serves[h]].pair \in Pairs
  <2>1. serves[h] \in Tokens /\ token[serves[h]].at = "asked"
    BY DEF PInv, Serving
  <2>2. token[serves[h]].pair \in Pairs
    BY <2>1 DEF PInv, Staged
  <2>3. boot \in Nat /\ boot >= 1 /\ ClientTypes
    BY DEF PInv, TypeOK, ClientTypes
  <2>4. QED
    BY <2>1, <2>2, <2>3
<1>2. /\ token' \in [Tokens -> [at : Stages, pair : Pairs \cup {Nobody}, key : 0..boot]]
      /\ token'[serves[h]].at = "denied" /\ token'[serves[h]].pair = token[serves[h]].pair
      /\ \A u \in Tokens \ {serves[h]} : token'[u] = token[u]
  BY <1>1, Moved DEF Stages
<1>3. serves' \in [Handlers -> Tokens \cup {NoToken}]
  BY <1>1 DEF Released, ClientTypes
<1>4. ClientTypes'
  BY <1>1, <1>2, <1>3 DEF ClientTypes
<1>5. Serving'
  BY ServingReleased DEF Stages
<1>6. Staged'
  BY <1>1, <1>2 DEF PInv, Staged
<1>7. Delivered'
  BY <1>1, <1>2, DeliveredKept
<1>8. OnRoster'
  <2>1. \A g \in Handlers : pc'[g] \in {"admitted", "counted"} => pc'[g] = pc[g] /\ req'[g] = req[g]
    BY DEF Done, PInv, TypeOK
  <2>2. QED
    BY <1>1, <1>2, <2>1 DEF PInv, OnRoster
<1>9. Books'
  BY <1>1, <1>2, BooksKept
<1>10. QED
  BY <1>4, <1>5, <1>6, <1>7, <1>8, <1>9 DEF Ties

LEMMA LetOnKeeps ==
  ASSUME PInv, NEW h \in Handlers, NEW to \in {"admitted", "counted"}, pc[h] # "idle",
         pc' = [pc EXCEPT ![h] = to], to = "counted" => pc[h] = "admitted",
         to = "admitted" => Admits(req[h]),
         UNCHANGED <<boot, closed, log, req, token, serves, key, signer, wire, spent, holding, mislaid, stored, said>>
  PROVE  Ties'
<1>1. \A g \in Handlers : pc'[g] = IF g = h THEN to ELSE pc[g]
  BY DEF PInv, TypeOK
<1>2. ClientTypes' /\ Staged' /\ Delivered'
  BY DEF PInv, ClientTypes, Staged, Delivered
<1>3. Serving'
  BY <1>1 DEF PInv, Serving
<1>4. OnRoster'
  BY <1>1 DEF PInv, OnRoster, Admits
<1>5. Books'
  BY BooksKept
<1>6. QED
  BY <1>2, <1>3, <1>4, <1>5 DEF Ties

(* The signature goes out: the token of the request is signed by this      *)
(* process, and arrives or is lost.                                        *)
LEMMA SignKeeps ==
  ASSUME PInv, (TypeOK /\ QuotaAddsUp)', NEW h \in Handlers, IssuerSigns(h)
  PROVE  Ties'
<1> DEFINE t == serves[h]
<1>1. PICK to \in {"signed", "lost"} : Moves(t, to)
  BY DEF IssuerSigns
<1>2. /\ pc[h] = "counted" /\ Done(h) /\ Released(h) /\ log' = Logged(req[h])
      /\ signer' = [signer EXCEPT ![t] = boot]
      /\ UNCHANGED <<boot, closed, key, wire, spent, holding, mislaid, stored, said>>
  BY DEF IssuerSigns, Sign
<1>3. boot \in Nat /\ boot >= 1 /\ ClientTypes
  BY DEF PInv, TypeOK, ClientTypes
<1>4. t \in Tokens /\ token[t].at = "asked" /\ token[t].pair = req[h] /\ req[h] \in Pairs
  BY <1>2 DEF PInv, Serving, TypeOK
<1>5. to \in Stages
  BY DEF Stages
<1>6. /\ token' \in [Tokens -> [at : Stages, pair : Pairs \cup {Nobody}, key : 0..boot]]
      /\ token'[t].at = to /\ token'[t].pair = token[t].pair
      /\ \A u \in Tokens \ {t} : token'[u] = token[u]
      /\ \A u \in Tokens : token'[u].pair = token[u].pair
  BY <1>1, <1>3, <1>4, <1>5, Moved
<1>7. signer' \in [Tokens -> 0..boot] /\ signer'[t] = boot
      /\ \A u \in Tokens \ {t} : signer'[u] = signer[u]
  BY <1>2, <1>3, <1>4 DEF ClientTypes
<1>8. serves' \in [Handlers -> Tokens \cup {NoToken}]
  BY <1>2, <1>3 DEF Released, ClientTypes
<1>9. ClientTypes'
  BY <1>2, <1>3, <1>6, <1>7, <1>8 DEF ClientTypes
<1>10. Serving'
  BY <1>1, <1>2, <1>5, ServingReleased
<1>11. Staged'
  BY <1>3, <1>4, <1>6, <1>7 DEF PInv, Staged
<1>12. Delivered'
  BY <1>2, <1>4, <1>6, <1>7, DeliveredKept
<1>13. OnRoster'
  <2>1. \A g \in Handlers : pc'[g] \in {"admitted", "counted"} => pc'[g] = pc[g] /\ req'[g] = req[g]
    BY <1>2 DEF Done, PInv, TypeOK
  <2>2. Engine = "roster" => req[h] \in Assigned
    BY <1>2 DEF PInv, OnRoster
  <2>3. QED
    BY <1>4, <1>6, <1>7, <2>1, <2>2 DEF PInv, OnRoster
<1>14. Books'
  BY <1>2, <1>4, <1>6, BooksSigned
<1>15. QED
  BY <1>9, <1>10, <1>11, <1>12, <1>13, <1>14 DEF Ties

LEMMA RestartKeeps ==
  ASSUME PInv, ServerRestarts
  PROVE  Ties'
<1>1. /\ boot' = boot + 1 /\ log' = Zero /\ pc' = [h \in Handlers |-> "idle"]
      /\ token' = [t \in Tokens |-> IF token[t].at = "asked" THEN [token[t] EXCEPT !.at = "lost"] ELSE token[t]]
      /\ serves' = [h \in Handlers |-> NoToken]
      /\ holding' = {} /\ mislaid' = mislaid \cup holding
      /\ UNCHANGED <<closed, key, signer, wire, spent, stored, said>>
  BY DEF ServerRestarts, Restart
<1>2. boot \in Nat /\ boot >= 1 /\ ClientTypes /\ 0..boot \subseteq 0..boot' /\ boot' >= 1
  BY <1>1 DEF PInv, TypeOK, ClientTypes
<1>3. ASSUME NEW t \in Tokens
      PROVE  /\ token'[t] \in [at : Stages, pair : Pairs \cup {Nobody}, key : 0..boot]
             /\ token[t].at = "asked" => token'[t].at = "lost"
             /\ token[t].at # "asked" => token'[t] = token[t]
             /\ token'[t].pair = token[t].pair
  <2>1. token[t] \in [at : Stages, pair : Pairs \cup {Nobody}, key : 0..boot]
    BY <1>2 DEF ClientTypes
  <2>2. token'[t] = IF token[t].at = "asked" THEN [token[t] EXCEPT !.at = "lost"] ELSE token[t]
    BY <1>1
  <2>3. QED
    BY <2>1, <2>2 DEF Stages
<1>4. token' \in [Tokens -> [at : Stages, pair : Pairs \cup {Nobody}, key : 0..boot']]
  <2>1. \A t \in Tokens : token'[t] \in [at : Stages, pair : Pairs \cup {Nobody}, key : 0..boot']
    BY <1>2, <1>3
  <2>2. QED
    BY <1>1, <2>1
<1>5. ClientTypes'
  <2>1. key' \in [Employees -> 0..boot'] /\ signer' \in [Tokens -> 0..boot']
    BY <1>1, <1>2 DEF ClientTypes
  <2>2. serves' \in [Handlers -> Tokens \cup {NoToken}]
    BY <1>1
  <2>3. QED
    BY <1>1, <1>2, <1>4, <2>1, <2>2 DEF ClientTypes
<1>6. Serving'
  BY <1>1 DEF Serving
<1>7. Staged'
  <2>1. SUFFICES ASSUME NEW t \in Tokens PROVE
          /\ token'[t].at \in {"none", "blinded", "asked"} => signer[t] = 0
          /\ token'[t].at \in {"signed", "ready"} => signer[t] > 0
          /\ token'[t].at = "ready" => signer[t] = token'[t].key
          /\ token'[t].at # "none" => token'[t].pair \in Pairs
          /\ token'[t].at = "none" => token'[t].pair = Nobody
    BY <1>1 DEF Staged
  <2>2. QED
    BY <1>3 DEF PInv, Staged
<1>8. Delivered'
  <2>1. \A t \in Tokens : signer[t] \in 0..boot
    BY <1>2 DEF ClientTypes
  <2>2. \A t \in Tokens : token[t].at = "ready" => token'[t] = token[t]
    BY <1>3
  <2>3. QED
    BY <1>1, <1>2, <2>1, <2>2 DEF PInv, Delivered
<1>9. OnRoster'
  BY <1>1, <1>3 DEF PInv, OnRoster
<1>10. Books'
  BY <1>1, <1>3, BooksRestarted
<1>11. QED
  BY <1>5, <1>6, <1>7, <1>8, <1>9, <1>10 DEF Ties

(* The collector and the wire: a submission is spent and then stored or    *)
(* lost, or it is refused, or does not arrive.                             *)
LEMMA DeliveryKeeps ==
  ASSUME PInv, NEW t \in Tokens,
         \/ Submit(t) \/ WireLoses(t) \/ CollectorRefuses(t)
         \/ CollectorSpends(t) \/ CollectorStores(t) \/ CollectorLoses(t)
  PROVE  Ties'
<1>1. UNCHANGED <<boot, closed, pc, req, log, key, token, serves, signer>>
  BY DEF Submit, CollectorSpends, CollectorStores, CollectorLoses, CollectorRefuses, WireLoses, vars
<1>2. (Serving /\ Staged /\ OnRoster /\ Books)'
  BY <1>1, Aside
<1>3. wire \subseteq Tokens /\ spent \subseteq Tokens
      /\ holding \subseteq Tokens /\ mislaid \subseteq Tokens /\ stored \subseteq Tokens
      /\ said \in [Tokens -> SUBSET {"accepted", "spent", "refused"}]
  BY DEF PInv, ClientTypes
<1>4. ASSUME NEW what \in {"accepted", "spent", "refused"}, Hears(t, what)
      PROVE  /\ said' \in [Tokens -> SUBSET {"accepted", "spent", "refused"}]
             /\ said'[t] \subseteq said[t] \cup {what}
             /\ \A u \in Tokens \ {t} : said'[u] = said[u]
  BY <1>3, <1>4 DEF Hears
<1>5. ASSUME wire' \subseteq Tokens, spent' \subseteq Tokens, holding' \subseteq Tokens,
             mislaid' \subseteq Tokens, stored' \subseteq Tokens,
             said' \in [Tokens -> SUBSET {"accepted", "spent", "refused"}], Delivered'
      PROVE  Ties'
  BY <1>1, <1>2, <1>5 DEF PInv, ClientTypes, Ties
<1>6. CASE Submit(t)
  <2>1. token[t].at = "ready" /\ wire' = wire \cup {t} /\ UNCHANGED <<spent, holding, mislaid, stored, said>>
    BY <1>6 DEF Submit
  <2>2. Delivered'
    BY <1>1, <2>1 DEF PInv, Delivered
  <2>3. QED
    BY <1>3, <1>5, <2>1, <2>2
<1>7. CASE WireLoses(t)
  <2>1. wire' = wire \ {t} /\ UNCHANGED <<spent, holding, mislaid, stored, said>>
    BY <1>7 DEF WireLoses
  <2>2. Delivered'
    BY <1>1, <2>1 DEF PInv, Delivered
  <2>3. QED
    BY <1>3, <1>5, <2>1, <2>2
<1>8. CASE CollectorSpends(t)
  <2>1. /\ t \in wire /\ t \notin spent /\ wire' = wire \ {t}
        /\ spent' = spent \cup {t} /\ holding' = holding \cup {t}
        /\ UNCHANGED <<mislaid, stored, said>>
    BY <1>8 DEF CollectorSpends
  <2>2. token[t].at = "ready"
    BY <2>1 DEF PInv, Delivered
  <2>3. Delivered'
    BY <1>1, <2>1, <2>2 DEF PInv, Delivered
  <2>4. QED
    BY <1>3, <1>5, <2>1, <2>3
<1>9. CASE CollectorStores(t)
  <2>1. /\ t \in holding /\ holding' = holding \ {t} /\ stored' = stored \cup {t}
        /\ Hears(t, "accepted") /\ UNCHANGED <<wire, spent, mislaid>>
    BY <1>9 DEF CollectorStores
  <2>2. /\ said' \in [Tokens -> SUBSET {"accepted", "spent", "refused"}]
        /\ said'[t] \subseteq said[t] \cup {"accepted"} /\ \A u \in Tokens \ {t} : said'[u] = said[u]
    BY <1>4, <2>1
  <2>3. token[t].at = "ready" /\ t \in spent
    BY <2>1 DEF PInv, Delivered
  <2>4. Delivered'
    BY <1>1, <2>1, <2>2, <2>3 DEF PInv, Delivered
  <2>5. QED
    BY <1>3, <1>5, <2>1, <2>2, <2>4
<1>10. CASE CollectorLoses(t)
  <2>1. /\ t \in holding /\ holding' = holding \ {t} /\ mislaid' = mislaid \cup {t}
        /\ UNCHANGED <<wire, spent, stored, said>>
    BY <1>10 DEF CollectorLoses
  <2>2. Delivered'
    BY <1>1, <2>1 DEF PInv, Delivered
  <2>3. QED
    BY <1>3, <1>5, <2>1, <2>2
<1>11. CASE CollectorRefuses(t)
  <2>1. /\ t \in wire /\ wire' = wire \ {t} /\ UNCHANGED <<spent, holding, mislaid, stored>>
        /\ \/ Hears(t, "refused") /\ (token[t].pair[2] \in closed \/ signer[t] # boot)
           \/ Hears(t, "spent") /\ t \in spent
    BY <1>11 DEF CollectorRefuses, Verified
  <2>2. token[t].at = "ready" /\ signer[t] \in 0..boot /\ boot \in Nat
    BY <2>1 DEF PInv, Delivered, ClientTypes, TypeOK
  <2>3. ASSUME Hears(t, "refused"), token[t].pair[2] \in closed \/ signer[t] # boot PROVE Delivered'
    <3>1. said'[t] \subseteq said[t] \cup {"refused"} /\ \A u \in Tokens \ {t} : said'[u] = said[u]
      BY <1>4, <2>3
    <3>2. token[t].pair[2] \in closed \/ signer[t] < boot
      BY <2>2, <2>3
    <3>3. QED
      BY <1>1, <2>1, <2>2, <3>1, <3>2 DEF PInv, Delivered
  <2>4. ASSUME Hears(t, "spent"), t \in spent PROVE Delivered'
    <3>1. said'[t] \subseteq said[t] \cup {"spent"} /\ \A u \in Tokens \ {t} : said'[u] = said[u]
      BY <1>4, <2>4
    <3>2. QED
      BY <1>1, <2>1, <2>2, <2>4, <3>1 DEF PInv, Delivered
  <2>5. Delivered'
    BY <2>1, <2>3, <2>4
  <2>6. said' \in [Tokens -> SUBSET {"accepted", "spent", "refused"}]
    BY <1>4, <2>1
  <2>7. QED
    BY <1>3, <1>5, <2>1, <2>5, <2>6
<1>12. QED
  BY <1>6, <1>7, <1>8, <1>9, <1>10, <1>11

LEMMA PStep == PInv /\ [PulseNext]_pulse => PInv'
<1> SUFFICES ASSUME PInv, [PulseNext]_pulse PROVE PInv'
  OBVIOUS
<1>1. (TypeOK /\ QuotaAddsUp)'
  BY IssuerHolds
<1>2. ASSUME NEW t \in Tokens, ClientStep(t) PROVE Ties'
  BY <1>2, BlindKeeps, AskKeeps, SettledKeeps, DeliveryKeeps DEF ClientStep
<1>3. ASSUME NEW h \in Handlers, IssuerAdmits(h) \/ IssuerCounts(h) PROVE Ties'
  <2>1. PICK to \in {"admitted", "counted"} :
          /\ pc[h] # "idle"
          /\ \/ Done(h)
             \/ /\ pc' = [pc EXCEPT ![h] = to] /\ UNCHANGED req
                /\ to = "counted" => pc[h] = "admitted"
                /\ to = "admitted" => Admits(req[h])
          /\ IF pc'[h] = "idle" THEN Moves(serves[h], "denied") /\ Released(h) ELSE UNCHANGED <<token, serves>>
          /\ UNCHANGED <<boot, closed, log, key, signer, wire, spent, holding, mislaid, stored, said>>
    <3>1. CASE IssuerAdmits(h) /\ Admits(req[h])
      BY <3>1 DEF IssuerAdmits, Admit
    <3>2. CASE IssuerAdmits(h) /\ ~Admits(req[h])
      <4>1. pc[h] = "asked" /\ Done(h)
        BY <3>2 DEF IssuerAdmits, Admit
      <4>2. QED
        BY <3>2, <4>1 DEF IssuerAdmits, Admit
    <3>3. CASE IssuerCounts(h)
      BY <3>3 DEF IssuerCounts, Count
    <3>4. QED
      BY <1>3, <3>1, <3>2, <3>3
  <2>2. CASE Done(h)
    <3>1. pc'[h] = "idle"
      BY <2>2 DEF Done, PInv, TypeOK
    <3>2. QED
      BY <2>1, <2>2, <3>1, TurnedAwayKeeps
  <2>3. CASE /\ pc' = [pc EXCEPT ![h] = to] /\ UNCHANGED req
             /\ to = "counted" => pc[h] = "admitted"
             /\ to = "admitted" => Admits(req[h])
    <3>1. pc'[h] # "idle"
      BY <2>3 DEF PInv, TypeOK
    <3>2. QED
      BY <2>1, <2>3, <3>1, LetOnKeeps
  <2>4. QED
    BY <2>1, <2>2, <2>3
<1>4. ASSUME NEW h \in Handlers, IssuerSigns(h) PROVE Ties'
  BY <1>1, <1>4, SignKeeps
<1>5. ASSUME NEW h \in Handlers, IssuerFails(h) PROVE Ties'
  <2>1. pc[h] # "idle" /\ Done(h) /\ Moves(serves[h], "denied") /\ Released(h)
        /\ UNCHANGED <<boot, closed, log, key, signer, wire, spent, holding, mislaid, stored, said>>
    BY <1>5 DEF IssuerFails, SigningFails
  <2>2. QED
    BY <2>1, TurnedAwayKeeps
<1>6. ASSUME NEW e \in Employees, Connect(e) PROVE Ties'
  <2>1. (Serving /\ Staged /\ OnRoster /\ Books)'
    BY <1>6, Aside DEF Connect, vars
  <2>2. ClientTypes' /\ Delivered'
    BY <1>6 DEF Connect, vars, PInv, TypeOK, ClientTypes, Delivered
  <2>3. QED
    BY <2>1, <2>2 DEF Ties
<1>7. ASSUME UNCHANGED <<boot, pc, req, log, client>>, closed \subseteq closed' PROVE Ties'
  <2>1. (Serving /\ Staged /\ OnRoster /\ Books)'
    BY <1>7, Aside DEF client
  <2>2. ClientTypes' /\ Delivered'
    BY <1>7 DEF client, PInv, ClientTypes, Delivered
  <2>3. QED
    BY <2>1, <2>2 DEF Ties
<1>8. ASSUME NEW e \in Employees, Authenticate(e) \/ Questions(e), UNCHANGED client PROVE Ties'
  BY <1>7, <1>8 DEF Authenticate, Questions
<1>9. ASSUME NEW b \in Batches, Close(b), UNCHANGED client PROVE Ties'
  BY <1>7, <1>9 DEF Close
<1>10. CASE ServerRestarts
  BY <1>1, <1>10, RestartKeeps DEF Ties, PInv
<1>11. CASE UNCHANGED pulse
  BY <1>1, <1>7, <1>11 DEF pulse, vars, Ties, PInv
<1>12. QED
  BY <1>1, <1>2, <1>3, <1>4, <1>5, <1>6, <1>8, <1>9, <1>10, <1>11 DEF PulseNext, Ties, PInv

LEMMA PInit == PulseInit => PInv
<1> SUFFICES ASSUME PulseInit PROVE PInv
  OBVIOUS
<1>1. TypeOK /\ QuotaAddsUp
  BY InitHolds DEF PulseInit
<1>2. boot = 1 /\ pc = [h \in Handlers |-> "idle"] /\ log = Zero /\ signer = [t \in Tokens |-> 0]
      /\ token = [t \in Tokens |-> Unmade] /\ wire = {} /\ spent = {} /\ holding = {} /\ mislaid = {} /\ stored = {}
      /\ said = [t \in Tokens |-> {}]
  BY DEF PulseInit, Init
<1>3. ClientTypes
  BY <1>2 DEF PulseInit, ClientTypes, Unmade, Stages
<1>4. Serving /\ Staged /\ Delivered /\ OnRoster
  BY <1>2 DEF Serving, Staged, Delivered, OnRoster, Unmade
<1>5. Books
  <2>1. ASSUME NEW p \in Pairs, NEW k \in 1..boot PROVE SignedBy(p, k) = {}
    BY <1>2 DEF SignedBy
  <2>2. ASSUME NEW p \in Pairs, NEW k \in 1..boot
        PROVE  IsFiniteSet(SignedBy(p, k)) /\ Cardinality(SignedBy(p, k)) = 0
    BY <2>1, FS_EmptySet
  <2>3. QED
    BY <1>2, <2>2, CapIsNatural DEF Books, Zero
<1>6. QED
  BY <1>1, <1>3, <1>4, <1>5 DEF PInv

LEMMA PAlways == PulseSpec => []PInv
BY PInit, PStep, PTL DEF PulseSpec

-----------------------------------------------------------------------------
(* A client's ready token verifies and what it is told of one is true; and *)
(* the ballot has at most the cap of one employee and process, all of them *)
(* of people on the roster.                                                *)
THEOREM VotesStaySound == PulseSpec => []VotesAreSound
<1>1. ASSUME PInv PROVE PulseTypeOK
  BY <1>1 DEF PInv, ClientTypes, PulseTypeOK
<1>2. ASSUME PInv PROVE ReadyIsUsable
  BY <1>2 DEF PInv, Staged, Delivered, ReadyIsUsable
<1>3. ASSUME PInv, NEW p \in Pairs, NEW k \in 1..boot
      PROVE  LET ballot == {t \in stored \cap Of(p) : signer[t] = k} IN
               /\ Cardinality(ballot) <= Cap
               /\ ballot # {} /\ Engine = "roster" => p \in Assigned
  <2> DEFINE ballot == {t \in stored \cap Of(p) : signer[t] = k}
  <2>1. ballot \subseteq SignedBy(p, k)
    BY DEF Of, SignedBy
  <2>2. IsFiniteSet(SignedBy(p, k)) /\ Cardinality(SignedBy(p, k)) <= Cap
    BY <1>3 DEF PInv, Books
  <2>3. Cardinality(ballot) <= Cardinality(SignedBy(p, k)) /\ IsFiniteSet(ballot)
    BY <2>1, <2>2, FS_Subset
  <2>4. Cardinality(ballot) \in Nat /\ Cardinality(SignedBy(p, k)) \in Nat
    BY <2>2, <2>3, FS_CardinalityType
  <2>5. ASSUME NEW t \in ballot, Engine = "roster" PROVE p \in Assigned
    <3>1. t \in Tokens /\ token[t].pair = p /\ signer[t] > 0
      BY DEF Of
    <3>2. QED
      BY <1>3, <2>5, <3>1 DEF PInv, OnRoster
  <2>6. QED
    BY <2>2, <2>3, <2>4, <2>5, CapIsNatural
<1>4. ASSUME PInv PROVE VotesAreSound
  BY <1>1, <1>2, <1>3, <1>4 DEF BallotIsBounded, VotesAreSound
<1>5. QED
  BY <1>4, PAlways, PTL

(* The issuer's quota adds up under these clients as it does on its own.   *)
THEOREM QuotaHoldsForClients == PulseSpec => []QuotaAddsUp
<1>1. PInv => QuotaAddsUp
  BY DEF PInv
<1>2. QED
  BY <1>1, PAlways, PTL

(* A step that ends an admitted request while the process runs is the one  *)
(* at the cap.                                                             *)
LEMMA RefusedAtCap ==
  ASSUME PInv, [PulseNext]_pulse, NEW h \in Handlers, pc[h] = "admitted", pc'[h] = "idle", boot' = boot
  PROVE  Count(h) /\ ~UnderCap(req[h])
<1>1. pc \in [Handlers -> {"idle", "asked", "admitted", "counted"}] /\ boot \in Nat
  BY DEF PInv, TypeOK
<1>2. pc' # pc /\ pc'[h] # "asked" /\ boot' # boot + 1
  BY <1>1
<1>3. ASSUME NEW t \in Tokens, ClientStep(t) PROVE FALSE
  <2>1. ASSUME NEW g \in Handlers, Ask(t, g) PROVE FALSE
    <3>1. pc' = [pc EXCEPT ![g] = "asked"]
      BY <2>1 DEF Ask, Request
    <3>2. QED
      BY <1>1, <3>1
  <2>2. QED
    BY <1>2, <1>3, <2>1 DEF ClientStep, Blind, AskFails, Finalize, Submit, CollectorSpends,
                            CollectorStores, CollectorLoses, CollectorRefuses, WireLoses, vars
<1>4. ASSUME NEW g \in Handlers, Done(g) \/ (\E to \in {"admitted", "counted"} : pc' = [pc EXCEPT ![g] = to])
      PROVE  g = h /\ Done(g)
  BY <1>1, <1>4 DEF Done
<1>5. ASSUME NEW g \in Handlers, IssuerAdmits(g) \/ IssuerSigns(g) \/ IssuerFails(g) PROVE FALSE
  <2>1. pc[g] # "admitted" /\ (Done(g) \/ (\E to \in {"admitted", "counted"} : pc' = [pc EXCEPT ![g] = to]))
    BY <1>5 DEF IssuerAdmits, IssuerSigns, IssuerFails, Admit, Sign, SigningFails
  <2>2. QED
    BY <1>4, <2>1
<1>6. ASSUME NEW g \in Handlers, IssuerCounts(g) PROVE Count(h) /\ ~UnderCap(req[h])
  <2>1. Done(g) \/ (\E to \in {"admitted", "counted"} : pc' = [pc EXCEPT ![g] = to])
    BY <1>6 DEF IssuerCounts, Count
  <2>2. g = h /\ Done(g)
    BY <1>4, <2>1
  <2>3. Count(h) /\ pc' # [pc EXCEPT ![h] = "counted"]
    BY <1>1, <1>6, <2>2 DEF IssuerCounts, Done
  <2>4. QED
    BY <2>3 DEF Count
<1>7. ASSUME NEW e \in Employees, Connect(e) \/ Authenticate(e) \/ Questions(e) PROVE FALSE
  BY <1>2, <1>7 DEF Connect, Authenticate, Questions, vars
<1>8. ASSUME NEW b \in Batches, Close(b) PROVE FALSE
  BY <1>2, <1>8 DEF Close
<1>9. ~ServerRestarts /\ ~UNCHANGED pulse
  BY <1>2 DEF ServerRestarts, Restart, pulse, vars
<1>10. QED
  BY <1>3, <1>5, <1>6, <1>7, <1>8, <1>9 DEF PulseNext

(* What a step of another than GET /question offers is what was offered.   *)
LEMMA OffersAreQuestions ==
  ASSUME TypeOK, [Next]_vars, offered' # offered PROVE \E e \in Employees : Questions(e)
BY DEF Next, vars, Request, Admit, Count, Sign, SigningFails, Authenticate, Close, Restart

(* What is offered can be signed when it is offered, and what the quota    *)
(* refuses is all accounted for.                                           *)
THEOREM QuotaStaysFair == PulseSpec => QuotaIsFair
<1>1. ASSUME PInv, [PulseNext]_pulse PROVE OfferedIsSignable
  <2> SUFFICES ASSUME Engine = "roster", NEW e \in Employees, offered'[e] # offered[e], NEW b \in offered'[e]
               PROVE  UnderCap(<<e, b>>) /\ b \notin closed
    BY DEF OfferedIsSignable
  <2>1. PICK o \in Employees : Questions(o)
    BY <1>1, IssuerSteps, OffersAreQuestions DEF PInv
  <2>2. o = e /\ offered'[e] = Assignments(e)
    BY <1>1, <2>1 DEF Questions, PInv, TypeOK
  <2>3. QED
    BY <2>2, Choices DEF Assignments
<1>2. ASSUME PInv, [PulseNext]_pulse PROVE RefusedOnlyWhenUsed
  <2> SUFFICES ASSUME NEW h \in Handlers, pc[h] = "admitted", pc'[h] = "idle", boot' = boot
               PROVE  Cap <= Cardinality({t \in Of(req[h]) : signer[t] = boot}) + burnt[req[h]]
                             + Cardinality({o \in Handlers \ {h} : pc[o] = "counted" /\ req[o] = req[h]})
    BY DEF RefusedOnlyWhenUsed
  <2> DEFINE p == req[h]
  <2>1. p \in Pairs /\ ~UnderCap(p)
    BY <1>2, RefusedAtCap DEF PInv, TypeOK
  <2>2. {t \in Of(p) : signer[t] = boot} = SignedBy(p, boot)
    BY DEF Of, SignedBy
  <2>3. {o \in Handlers \ {h} : pc[o] = "counted" /\ req[o] = p} = Counted(p)
    BY DEF Counted
  <2>4. Cardinality(SignedBy(p, boot)) = log[p]
    BY <1>2, <2>1 DEF PInv, Books
  <2>5. counts[p] = log[p] + burnt[p] + Cardinality(Counted(p)) /\ counts[p] \in Nat
    BY <1>2, <2>1 DEF PInv, QuotaAddsUp, TypeOK
  <2>6. Cap <= counts[p]
    BY <2>1, <2>5, CapIsNatural DEF UnderCap
  <2>7. QED
    BY <2>2, <2>3, <2>4, <2>5, <2>6
<1>3. ASSUME PInv, [PulseNext]_pulse PROVE [OfferedIsSignable /\ RefusedOnlyWhenUsed]_pulse
  BY <1>1, <1>2, <1>3
<1>4. QED
  BY <1>3, PAlways, PTL DEF PulseSpec, QuotaIsFair

=============================================================================

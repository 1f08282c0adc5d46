---------------------------- MODULE PulseProtocol ---------------------------
(***************************************************************************)
(* Pulse from one end to the other: the client library (pulse-client: the  *)
(* typestate from a blinded token to a ready one, and the calls that move  *)
(* it) between the issuer of PulseIssuer and the collector, over a network *)
(* that loses answers.  Every step of the issuer is a step here too, with  *)
(* what it does to the token whose request it serves.                      *)
(*                                                                         *)
(* The collector is its two steps on a token: it spends it and then stores *)
(* its response, and what comes in between loses the response for good.    *)
(* Its ledger and store are the durable ones; PulseCollector has those     *)
(* that live in memory too, the sealing and the poisoned mutexes.  A       *)
(* process makes its signing key when it starts, so a key is known by its  *)
(* boot.                                                                   *)
(***************************************************************************)
EXTENDS PulseIssuer

CONSTANTS Tokens, NoToken

ASSUME NoTokenIsNone == NoToken \notin Tokens

VARIABLES
  key,     \* the boot whose key each employee's client is connected with; 0 when none
  token,   \* by token: how far it is, whose and for which batch, and the key it is blinded under
  serves,  \* the token each handler's request carries
  signer,  \* by token: the boot that signed it; 0 when none did
  wire,    \* submissions on their way to the collector
  spent,   \* tokens in the collector's ledger
  holding, \* tokens spent by a request that has not stored the response yet
  mislaid, \* history: tokens spent by a request that ended before it stored one
  stored,  \* tokens whose response is in its store
  said     \* what the client was told of each token's submissions

client == <<key, token, serves, signer, wire, spent, holding, mislaid, stored, said>>
pulse  == <<vars, client>>

Stages == {"none", "blinded", "asked", "signed", "ready", "void", "lost", "denied"}
Unmade == [at |-> "none", pair |-> Nobody, key |-> 0]

PulseInit ==
  /\ Init
  /\ key = [e \in Employees |-> 0]
  /\ token = [t \in Tokens |-> Unmade]
  /\ serves = [h \in Handlers |-> NoToken]
  /\ signer = [t \in Tokens |-> 0]
  /\ wire = {} /\ spent = {} /\ holding = {} /\ mislaid = {} /\ stored = {}
  /\ said = [t \in Tokens |-> {}]

Moves(t, to) == token' = [token EXCEPT ![t].at = to]
Of(p) == {t \in Tokens : token[t].pair = p}

-----------------------------------------------------------------------------
(* The client.  A token's state is consumed by the call that moves it on:  *)
(* what a failed call leaves cannot be tried again.                        *)

\* connect: the key of the process that answers
Connect(e) ==
  /\ key' = [key EXCEPT ![e] = boot]
  /\ UNCHANGED <<vars, token, serves, signer, wire, spent, holding, mislaid, stored, said>>

\* blind_token: for any question that was delivered, to whomever
Blind(t, e, b) ==
  /\ token[t] = Unmade /\ key[e] > 0
  /\ \E o \in Employees : b \in offered[o]
  /\ token' = [token EXCEPT ![t] = [at |-> "blinded", pair |-> <<e, b>>, key |-> key[e]]]
  /\ UNCHANGED <<vars, key, serves, signer, wire, spent, holding, mislaid, stored, said>>

\* request_signature
Ask(t, h) ==
  /\ token[t].at = "blinded"
  /\ Request(h, token[t].pair)
  /\ Moves(t, "asked")
  /\ serves' = [serves EXCEPT ![h] = t]
  /\ UNCHANGED <<key, signer, wire, spent, holding, mislaid, stored, said>>

\* the session has gone with the process it was made in, or nobody answers
AskFails(t) ==
  /\ token[t].at = "blinded" /\ token[t].pair[1] \notin session
  /\ Moves(t, "denied")
  /\ UNCHANGED <<vars, key, serves, signer, wire, spent, holding, mislaid, stored, said>>

FinalizeUnchecked(t) == Moves(t, "ready")  \* Mutant: the signature is not verified

\* finalize unblinds the signature and verifies it under the client's key
Finalized(t) == Moves(t, IF token[t].key = signer[t] THEN "ready" ELSE "void")

Finalize(t) ==
  /\ token[t].at = "signed"
  /\ Finalized(t)
  /\ UNCHANGED <<vars, key, serves, signer, wire, spent, holding, mislaid, stored, said>>

\* submit_response borrows the token: it may be called again
Submit(t) ==
  /\ token[t].at = "ready"
  /\ wire' = wire \cup {t}
  /\ UNCHANGED <<vars, key, token, serves, signer, spent, holding, mislaid, stored, said>>

-----------------------------------------------------------------------------
(* The issuer's steps, and the token of the request.                       *)

Released(h) == serves' = [serves EXCEPT ![h] = NoToken]

IssuerAdmits(h) ==
  /\ Admit(h)
  /\ IF pc'[h] = "idle" THEN Moves(serves[h], "denied") /\ Released(h) ELSE UNCHANGED <<token, serves>>
  /\ UNCHANGED <<key, signer, wire, spent, holding, mislaid, stored, said>>

IssuerCounts(h) ==
  /\ Count(h)
  /\ IF pc'[h] = "idle" THEN Moves(serves[h], "denied") /\ Released(h) ELSE UNCHANGED <<token, serves>>
  /\ UNCHANGED <<key, signer, wire, spent, holding, mislaid, stored, said>>

\* the answer arrives, or the transport fails and the token is gone
IssuerSigns(h) ==
  /\ Sign(h)
  /\ signer' = [signer EXCEPT ![serves[h]] = boot]
  /\ \E to \in {"signed", "lost"} : Moves(serves[h], to)
  /\ Released(h)
  /\ UNCHANGED <<key, wire, spent, holding, mislaid, stored, said>>

IssuerFails(h) ==
  /\ SigningFails(h)
  /\ Moves(serves[h], "denied") /\ Released(h)
  /\ UNCHANGED <<key, signer, wire, spent, holding, mislaid, stored, said>>

\* requests in progress go with the process, those of the collector too; what
\* its ledger and its store have stays
ServerRestarts ==
  /\ Restart
  /\ token' = [t \in Tokens |-> IF token[t].at = "asked" THEN [token[t] EXCEPT !.at = "lost"] ELSE token[t]]
  /\ serves' = [h \in Handlers |-> NoToken]
  /\ holding' = {} /\ mislaid' = mislaid \cup holding
  /\ UNCHANGED <<key, signer, wire, spent, stored, said>>

-----------------------------------------------------------------------------
(* The collector takes a submission off the wire, and the client hears of  *)
(* it or not.                                                              *)

Hears(t, what) == said' \in {said, [said EXCEPT ![t] = @ \cup {what}]}

\* the signature verifies under the key of this process
Verified(t) == token[t].pair[2] \notin closed /\ signer[t] = boot

CollectorSpends(t) ==
  /\ t \in wire /\ Verified(t) /\ t \notin spent
  /\ spent' = spent \cup {t} /\ holding' = holding \cup {t}
  /\ wire' = wire \ {t}
  /\ UNCHANGED <<vars, key, token, serves, signer, mislaid, stored, said>>

CollectorStores(t) ==
  /\ t \in holding
  /\ holding' = holding \ {t} /\ stored' = stored \cup {t}
  /\ Hears(t, "accepted")
  /\ UNCHANGED <<vars, key, token, serves, signer, wire, spent, mislaid>>

\* the store panics: nothing answers, and nothing takes the token back
CollectorLoses(t) ==
  /\ t \in holding
  /\ holding' = holding \ {t} /\ mislaid' = mislaid \cup {t}
  /\ UNCHANGED <<vars, key, token, serves, signer, wire, spent, stored, said>>

\* a retry may meet the request that spent the token before it stores
CollectorRefuses(t) ==
  /\ t \in wire
  /\ \/ ~Verified(t) /\ Hears(t, "refused")
     \/ Verified(t) /\ t \in spent /\ Hears(t, "spent")
  /\ wire' = wire \ {t}
  /\ UNCHANGED <<vars, key, token, serves, signer, spent, holding, mislaid, stored>>

\* the submission does not arrive, or its handler dies before it spends
WireLoses(t) ==
  /\ t \in wire
  /\ wire' = wire \ {t}
  /\ UNCHANGED <<vars, key, token, serves, signer, spent, holding, mislaid, stored, said>>

-----------------------------------------------------------------------------
ClientStep(t) ==
  \/ \E e \in Employees, b \in Batches : Blind(t, e, b)
  \/ \E h \in Handlers : Ask(t, h)
  \/ AskFails(t) \/ Finalize(t) \/ Submit(t)
  \/ CollectorSpends(t) \/ CollectorStores(t) \/ CollectorLoses(t)
  \/ CollectorRefuses(t) \/ WireLoses(t)

PulseNext ==
  \/ \E t \in Tokens : ClientStep(t)
  \/ \E h \in Handlers : IssuerAdmits(h) \/ IssuerCounts(h) \/ IssuerSigns(h) \/ IssuerFails(h)
  \/ \E e \in Employees : Connect(e) \/ ((Authenticate(e) \/ Questions(e)) /\ UNCHANGED client)
  \/ \E b \in Batches : Close(b) /\ UNCHANGED client
  \/ ServerRestarts

PulseSpec == PulseInit /\ [][PulseNext]_pulse

-----------------------------------------------------------------------------
\* Every variable of the client and the collector holds a value of its kind
\* (token_state.rs, ledger.rs).
PulseTypeOK ==
  /\ TypeOK
  /\ key \in [Employees -> 0..boot]
  /\ token \in [Tokens -> [at : Stages, pair : Pairs \cup {Nobody}, key : 0..boot]]
  /\ serves \in [Handlers -> Tokens \cup {NoToken}]
  /\ signer \in [Tokens -> 0..boot]
  /\ wire \subseteq Tokens /\ spent \subseteq Tokens
  /\ holding \subseteq Tokens /\ mislaid \subseteq Tokens /\ stored \subseteq Tokens
  /\ \A t \in Tokens : said[t] \subseteq {"accepted", "spent", "refused"}

\* However often clients ask, retry and submit, a batch holds at most Cap
\* responses of one employee signed by one process, each of somebody who is on
\* the roster for it: the issuer's quota and the collector's ledger together
\* bound the ballot, though neither sees what the other does.
BallotIsBounded ==
  \A p \in Pairs, k \in 1..boot :
    LET ballot == {t \in stored \cap Of(p) : signer[t] = k} IN
    /\ Cardinality(ballot) <= Cap
    /\ ballot # {} /\ Engine = "roster" => p \in Assigned

\* A client that finalizes a token can use it: one it calls ready verifies
\* with the process that signed it, so that a refusal has one of two causes it
\* can learn of, the batch's end or a new process.  One told that its response
\* was accepted has it stored, whatever came in between; one told that its
\* token was spent has it stored too, unless a request is still about to store
\* it, or failed or went down between the two steps, and then no retry ever
\* puts it into the ballot.
ReadyIsUsable ==
  \A t \in Tokens :
    /\ token[t].at = "ready" => signer[t] = token[t].key /\ signer[t] > 0
    /\ "refused" \in said[t] => token[t].pair[2] \in closed \/ signer[t] < boot
    /\ "accepted" \in said[t] => t \in stored
    /\ "spent" \in said[t] => t \in stored \cup holding \cup mislaid
    /\ t \in mislaid => t \notin stored

\* An employee is refused for the quota only when all of it is accounted for,
\* by what this process signed (tokens in hand, used, lost on the way back, or
\* void because the client was connected to an earlier process), refused to
\* sign after counting, or is signing now.
RefusedOnlyWhenUsed ==
  \A h \in Handlers : pc[h] = "admitted" /\ pc'[h] = "idle" /\ boot' = boot =>
    LET p == req[h] IN
    Cap <= Cardinality({t \in Of(p) : signer[t] = boot}) + burnt[p]
           + Cardinality({o \in Handlers \ {h} : pc[o] = "counted" /\ req[o] = p})

\* What a client holds is as good as it looks, and no more than that of it is
\* in the ballot.
VotesAreSound == PulseTypeOK /\ ReadyIsUsable /\ BallotIsBounded

\* The issuer is fair at both ends of its quota: what it offers can be signed,
\* and what it refuses has been used.
QuotaIsFair == [][OfferedIsSignable /\ RefusedOnlyWhenUsed]_pulse

=============================================================================

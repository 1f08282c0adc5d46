----------------------------- MODULE MCHistories -----------------------------
(***************************************************************************)
(* What gets into a git history, for TLC: a behaviour is one of conduit's  *)
(* merge door, with two tasks one of whose changes breaks the gate, or of  *)
(* llm-wiki's admissions, with a section, a page in it and a file outside. *)
(***************************************************************************)
EXTENDS ConduitRepo, WikiAdmission

CONSTANTS t1, t2

VARIABLE history    \* whose history it is

MCTasks == {t1, t2}
MCChanges == {"good1", "bad1", "good2"}
MCAuthor == [c \in MCChanges |-> IF c = "good2" THEN t2 ELSE t1]
MCGreen == SUBSET {"good1", "good2"}

MCPlaces ==
  {At("section", "flat"), At("section", "bundle"), At("section", "asset"), At("page", "flat"),
   At("", "outside")}
MCAncestors == [section |-> {}, page |-> {"section"}]
MCFirstTree ==
  [x \in Places |->
     CASE x = At("section", "flat") -> Gone [] x = At("page", "flat") -> "secret" [] OTHER -> "good"]
MCSubtrees == {InContent, InDir("section")}
MCSettings ==
  {[strict |-> TRUE, auto |-> TRUE], [strict |-> FALSE, auto |-> TRUE],
   [strict |-> TRUE, auto |-> FALSE]}

----------------------------------------------------------------------------
RestAdmission ==
  /\ settings = [strict |-> TRUE, auto |-> TRUE] /\ indexed = NeverIndexed
  /\ tree = FirstTree /\ staged = FirstTree /\ head = FirstTree
  /\ job = [p \in Engines |-> NoJob] /\ last = NoCommit
  /\ kept = [s \in Slugs \cup {""} |-> Gone] /\ acts = [edits |-> 0, jobs |-> 0]

Init ==
  \/ history = "merges" /\ InitMerges /\ RestAdmission
  \/ history = "admissions" /\ InitAdmission /\ InitMerges

Next ==
  /\ UNCHANGED history
  /\ \/ history = "merges" /\ NextMerges /\ UNCHANGED admissionVars
     \/ history = "admissions" /\ NextAdmission /\ UNCHANGED mergeVars

Spec == Init /\ [][Next]_<<history, mergeVars, admissionVars>>

Symmetry == Permutations(Engines) \cup Permutations(Sessions)
=============================================================================

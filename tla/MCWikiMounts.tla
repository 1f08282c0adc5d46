---------------------------- MODULE MCWikiMounts ----------------------------
(***************************************************************************)
(* The wikis of an installation, for TLC: a behaviour is one of a serving  *)
(* engine, with two wikis, one of them registered before it starts, and    *)
(* two workers, or one of the configuration files under the commands of    *)
(* two processes, with two names and two directories.                      *)
(***************************************************************************)
EXTENDS WikiMounts, WikiSettings, TLC

CONSTANTS d1, d2, a, b

VARIABLE level    \* whose behaviour it is

A1 == [owner |-> "adroit", ver |-> 1]
A2 == [owner |-> "adroit", ver |-> 2]
B1 == [owner |-> "assess", ver |-> 1]
MCContents == {A1, A2, B1}

----------------------------------------------------------------------------
\* the first directory is not there; the second holds a repository with a hook
\* of its user's, or is the clone of a wiki whose pages are in docs/
\* and which sets every key; an empty docs/ is not cloned
Repository == [NoHome EXCEPT !.there = TRUE, !.git = TRUE, !.roots = {"docs"}, !.hooks = UserHook]
Clone ==
  [Structure([NoHome EXCEPT !.git = TRUE], "docs") EXCEPT
     !.own = [k \in WikiKeys |-> IF k = "strictness" THEN 1 ELSE 2]]

MCFirstHomes == {(d1 :> NoHome) @@ (d2 :> h) : h \in {Repository, Clone, [Clone EXCEPT !.roots = {}]}}

Create(t, d) == [NoCommand EXCEPT !.op = "create", !.name = t, !.dir = d]
Takes(op, t) == [NoCommand EXCEPT !.op = op, !.name = t]
Sets(op, t, k, v) == [Takes(op, t) EXCEPT !.key = k, !.value = v]

MCCommands ==
  {[Create(a, d1) EXCEPT !.flag = TRUE], Create(b, d1), [Create(b, d1) EXCEPT !.force = TRUE],
   [Create(b, d2) EXCEPT !.root = "docs"], [Create(a, d2) EXCEPT !.force = TRUE],
   [Create(b, d2) EXCEPT !.op = "adopt"], [Create(b, d2) EXCEPT !.op = "adopt", !.root = "docs"],
   [Takes("remove", b) EXCEPT !.flag = TRUE], Takes("remove", a), Takes("default", b),
   Sets("setglobal", b, "default_wiki", 0), Sets("setglobal", NoTitle, "page_mode", 2),
   Sets("setglobal", NoTitle, "auto_rebuild", 0), Sets("setglobal", NoTitle, "top_k", Unparsed),
   Sets("setwiki", NoTitle, "top_k", 1), Sets("setwiki", b, "page_mode", 1),
   Sets("setwiki", a, "auto_rebuild", 1), Sets("setwiki", b, "draft", 1)}

----------------------------------------------------------------------------
RestMounts == InitMounts
RestSettings == InitSettings /\ ~home[d2].toml

Init ==
  \/ level = "engine" /\ InitMounts /\ RestSettings
  \/ level = "files" /\ RestMounts /\ InitSettings

Next ==
  /\ UNCHANGED level
  /\ \/ level = "engine" /\ NextMounts /\ UNCHANGED settingsVars
     \/ level = "files" /\ NextSettings /\ UNCHANGED mountVars

Spec == Init /\ [][Next]_<<level, mountVars, settingsVars>>

Symmetric == Permutations(Threads) \cup Permutations(Shells)
=============================================================================

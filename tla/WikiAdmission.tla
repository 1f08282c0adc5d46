---------------------------- MODULE WikiAdmission ----------------------------
(***************************************************************************)
(* How a page gets into a wiki's history: the doors that write the working *)
(* tree (content_write, content_new, delete_page), and the two admissions  *)
(* that check pages and commit them, content_commit and ingest             *)
(* (ops/content.rs, ops/ingest.rs, ingest.rs, markdown.rs, slug.rs,        *)
(* git.rs).                                                                *)
(*                                                                         *)
(* An admission lists files, reads each one, stages what is on disk when   *)
(* it comes to that, and commits the whole git index.  git_lock keeps the  *)
(* admissions of one process apart; nothing keeps editors, git add or      *)
(* another process out.                                                    *)
(*                                                                         *)
(* A file is what the checks tell apart: "good" and "fixed" (two valid     *)
(* texts), "loose" (breaks its schema, or of an unknown type), "bad" (no   *)
(* title), "bare" (no frontmatter, or YAML that does not parse), "secret"  *)
(* (valid, and the redaction patterns match).                              *)
(***************************************************************************)
EXTENDS Naturals, FiniteSets

CONSTANTS Engines,      \* the processes
          Slugs,
          Ancestors,    \* the sections above each slug
          Places,       \* where a file may be: [slug, form]
          Texts,        \* what an editor may leave in a file
          FirstTree,    \* the wiki to begin with: a file, or Gone, for each place
          Subtrees,     \* what an ingest may be asked for
          Settings,     \* [strict, auto]: type_strictness, ingest.auto_commit
          MaxEdits, MaxActs   \* bounds; an admission counts as two acts

VARIABLES tree,       \* the working tree
          staged,     \* the git index
          head,       \* the tree of HEAD
          indexed,    \* the tree of the last indexed commit, or NeverIndexed
          settings,   \* the wiki's configuration
          job,        \* the admission under way in each process
          last,       \* the last commit an engine made
          kept,       \* the last text written through content_write to a slug, or Gone
          acts        \* bounds: [edits, jobs]

admissionVars == <<tree, staged, head, indexed, settings, job, last, kept, acts>>

Gone == "gone"
NeverIndexed == [x \in {} |-> Gone]

----------------------------------------------------------------------------
(* Slugs and files (slug.rs, markdown.rs).                                 *)

At(s, form) == [slug |-> s, form |-> form]

\* A slug can be a flat page; the wiki to begin with and what an ingest is
\* asked for are of these places.
ASSUME PlacesAssumption ==
  /\ \A s \in Slugs : At(s, "flat") \in Places
  /\ FirstTree = [x \in Places |-> FirstTree[x]]
  /\ Subtrees \subseteq SUBSET Places

Below(s) == {t \in Slugs : s \in Ancestors[t]}
InDir(s) == {x \in Places : (x.slug = s /\ x.form \in {"bundle", "asset"}) \/ x.slug \in Below(s)}
InContent == {x \in Places : x.form # "outside"}
IsPage(x) == x.form \in {"flat", "bundle"}
Has(x) == x \in Places /\ tree[x] # Gone

\* Slug::resolve: the flat page first
Homes(s) == {x \in {At(s, "flat"), At(s, "bundle")} : Has(x)}
PageAt(s) == IF Has(At(s, "flat")) THEN At(s, "flat") ELSE At(s, "bundle")

ContentRead(s) == IF Homes(s) = {} THEN Gone ELSE tree[PageAt(s)]
ListAssets(s) == {x \in {At(s, "asset")} : Has(x) /\ Has(At(s, "bundle"))}

\* Mutant: a page is written where bundles are.
WriteToBundle(s) == At(s, "bundle")

\* write_page
WriteTarget(s) == IF Homes(s) # {} THEN PageAt(s) ELSE At(s, "flat")

----------------------------------------------------------------------------
(* Jobs.  calm: nobody else wrote, staged or committed since the admission *)
(* began, and nothing was staged before.                                   *)

NoJob == [pc |-> "idle", kind |-> "none", redact |-> FALSE, scope |-> {}, todo |-> {},
          passed |-> {}, failed |-> FALSE, index |-> NeverIndexed, calm |-> TRUE]
NoCommit == [from |-> NeverIndexed, to |-> NeverIndexed, scope |-> {}, passed |-> {}, calm |-> FALSE]
Disturbed(ps) ==
  [p \in Engines |-> IF p \in ps THEN [job[p] EXCEPT !.calm = @ /\ job[p].pc = "idle"] ELSE job[p]]

Spent == acts.edits + 2 * acts.jobs

(* The working tree changes under the admissions. *)

Change(new) ==
  /\ acts.edits < MaxEdits /\ Spent < MaxActs /\ acts' = [acts EXCEPT !.edits = @ + 1]
  /\ tree' = [x \in Places |-> IF x \in DOMAIN new THEN new[x] ELSE tree[x]]
  /\ tree' # tree
  /\ job' = Disturbed(Engines)
  /\ UNCHANGED <<staged, head, indexed, settings, last>>

\* an editor, outside the program
Edit(x, v) == Change([y \in {x} |-> v]) /\ kept' = [kept EXCEPT ![x.slug] = Gone]

\* git add, outside the program
Stage(x) ==
  /\ acts.edits < MaxEdits /\ Spent < MaxActs /\ acts' = [acts EXCEPT !.edits = @ + 1]
  /\ staged[x] # tree[x] /\ staged' = [staged EXCEPT ![x] = tree[x]]
  /\ job' = Disturbed(Engines)
  /\ UNCHANGED <<tree, head, indexed, settings, last, kept>>

ContentWrite(s, v) == Change([y \in {WriteTarget(s)} |-> v]) /\ kept' = [kept EXCEPT ![s] = v]

\* The sections above a page that have no directory get one, with an index
\* page; a directory may have outlived its files.
ContentNew(s, section, bundle, v) ==
  \E bare \in SUBSET {a \in Ancestors[s] : ~\E x \in InDir(a) : Has(x)} :
    LET page == At(s, IF section \/ bundle THEN "bundle" ELSE "flat")
        new == {page} \cup {At(a, "bundle") : a \in IF section THEN {} ELSE bare}
    IN /\ new \subseteq Places
       /\ Change([x \in new |-> IF x = page THEN v ELSE "good"])
       /\ kept' = [t \in Slugs \cup {""} |-> IF \E x \in new : x.slug = t THEN Gone ELSE kept[t]]

\* delete_page, for schema_remove: the flat page, else the whole directory
DeletePage(s) ==
  LET doomed == IF Has(At(s, "flat")) THEN {At(s, "flat")} ELSE {x \in InDir(s) : Has(x)}
  IN /\ Homes(s) # {}
     /\ Change([x \in doomed |-> Gone])
     /\ kept' = [t \in Slugs \cup {""} |-> IF \E x \in doomed : x.slug = t THEN Gone ELSE kept[t]]

----------------------------------------------------------------------------
(* An admission begins: it takes the lock and lists its files.             *)

\* changed_worktree_paths
Pending(x) == \/ tree[x] # Gone /\ tree[x] # staged[x]
              \/ staged[x] # Gone /\ staged[x] # head[x]

Start(p, kind, redact, scope, todo) ==
  /\ job[p].pc = "idle" /\ Spent + 2 <= MaxActs
  /\ acts' = [acts EXCEPT !.jobs = @ + 1]
  /\ job' = [job EXCEPT ![p] =
       [NoJob EXCEPT !.pc = "checking", !.kind = kind, !.redact = redact, !.scope = scope,
                     !.todo = {x \in todo : IsPage(x)}, !.calm = kind = "all" \/ staged = head]]
  /\ UNCHANGED <<tree, staged, head, indexed, settings, last, kept>>

\* A slug that is a bundle stands for every file under its directory.
SlugFiles(s) ==
  IF PageAt(s).form = "bundle" THEN {x \in InDir(s) : Has(x)} ELSE {PageAt(s)}
CommitSlugs(p, ss) ==
  /\ ss # {} /\ \A s \in ss : Homes(s) # {}
  /\ LET files == UNION {SlugFiles(s) : s \in ss} IN Start(p, "slugs", FALSE, files, files)

CommitAll(p) == Start(p, "all", FALSE, Places, {x \in InContent : Pending(x)})

\* collect_changed_files; an empty set skips nothing
ChangedPages ==
  {x \in InContent : IsPage(x) /\ (tree[x] # head[x] \/ (indexed # NeverIndexed /\ indexed[x] # head[x]))}
Skipped(dry, x) == ~dry /\ ChangedPages # {} /\ x \notin ChangedPages

Ingest(p, files, dry, redact) ==
  /\ \E x \in files : Has(x)
  /\ Start(p, IF dry THEN "dry" ELSE "ingest", redact, files,
           {x \in files : Has(x) /\ ~Skipped(dry, x)})

----------------------------------------------------------------------------
(* The gate: WikiTypeRegistry::validate, file by file.  content_commit     *)
(* collects what fails and refuses at the end; ingest stops at the first.  *)

Errors(v) == v = "bad" \/ (v = "loose" /\ settings.strict)

\* redact_body: written back before the file is validated, a dry run's too
Redacted(p, v) == IF job[p].redact /\ v = "secret" THEN "good" ELSE v

IsIngest(p) == job[p].kind \in {"ingest", "dry"}

\* The files come in one order.  One that is gone by now is a deletion,
\* with nothing to validate.
Gate(p) ==
  /\ job[p].pc = "checking" /\ job[p].todo # {}
  /\ LET x == CHOOSE y \in job[p].todo : TRUE
         v == Redacted(p, tree[x])
     IN /\ tree' = [tree EXCEPT ![x] = v]
        /\ kept' = IF v = tree[x] THEN kept ELSE [kept EXCEPT ![x.slug] = Gone]
        /\ job' = [(IF v = tree[x] THEN job ELSE Disturbed(Engines \ {p})) EXCEPT ![p] =
                     IF Errors(v) /\ IsIngest(p) THEN NoJob
                     ELSE [job[p] EXCEPT !.todo = @ \ {x}, !.failed = @ \/ Errors(v),
                                         !.passed = IF Errors(v) THEN @ ELSE @ \cup {<<x, v>>}]]
  /\ UNCHANGED <<staged, head, indexed, settings, last, acts>>

Checked(p) == job[p].pc = "checking" /\ job[p].todo = {}
Commits(p) == job[p].kind # "dry" /\ (IsIngest(p) => settings.auto)

\* refused, or only tried, or on to the index with nothing to commit
NothingToCommit(p) ==
  /\ Checked(p) /\ (job[p].failed \/ ~Commits(p))
  /\ job' = [job EXCEPT ![p] = IF job[p].failed \/ job[p].kind = "dry" THEN NoJob
                               ELSE [job[p] EXCEPT !.pc = "indexing"]]
  /\ UNCHANGED <<tree, staged, head, indexed, settings, last, kept, acts>>

----------------------------------------------------------------------------
(* The commit: git::commit, commit_pathspec, commit_paths.                 *)

\* Mutant: an ingest stages everything.
StageEverything(p) == tree

StagedBy(p) == [x \in Places |-> IF x \in job[p].scope THEN tree[x] ELSE staged[x]]

\* The git index is read, extended and written back; add_path fails on a
\* file that is gone, add_all stages its deletion.
StageFiles(p) ==
  /\ Checked(p) /\ ~job[p].failed /\ Commits(p)
  /\ IF job[p].kind = "slugs" /\ \E x \in job[p].scope : ~Has(x)
       THEN job' = [job EXCEPT ![p] = NoJob] /\ UNCHANGED staged
       ELSE /\ staged' = StagedBy(p)
            /\ job' = [Disturbed(Engines \ {p}) EXCEPT
                         ![p] = [job[p] EXCEPT !.pc = "committing", !.index = StagedBy(p)]]
  /\ UNCHANGED <<tree, head, indexed, settings, last, kept, acts>>

\* The tree is written from the index as this process holds it, on top of
\* whatever HEAD is by now; nothing is committed when they agree.
MakeCommit(p) ==
  /\ job[p].pc = "committing"
  /\ IF job[p].index = head
       THEN /\ job' = [job EXCEPT ![p] = IF IsIngest(p) THEN [job[p] EXCEPT !.pc = "indexing"] ELSE NoJob]
            /\ UNCHANGED <<head, last>>
       ELSE /\ head' = job[p].index
            /\ last' = [from |-> head, to |-> job[p].index, scope |-> job[p].scope,
                        passed |-> job[p].passed, calm |-> job[p].calm]
            /\ job' = [Disturbed(Engines \ {p}) EXCEPT ![p] = [job[p] EXCEPT !.pc = "indexing"]]
  /\ UNCHANGED <<tree, staged, indexed, settings, kept, acts>>

\* refresh_index, and the rebuild behind it: they may fail, and are reported
UpdateIndex(p, fails) ==
  /\ job[p].pc = "indexing"
  /\ indexed' = IF fails THEN indexed ELSE head
  /\ job' = [job EXCEPT ![p] = NoJob]
  /\ UNCHANGED <<tree, staged, head, settings, last, kept, acts>>

\* the process dies: the lock is free, what it staged stays
Dies(p) ==
  /\ job[p].pc # "idle"
  /\ job' = [job EXCEPT ![p] = NoJob]
  /\ UNCHANGED <<tree, staged, head, indexed, settings, last, kept, acts>>

----------------------------------------------------------------------------
InitAdmission ==
  /\ settings \in Settings
  /\ tree = FirstTree /\ staged = FirstTree /\ head = FirstTree
  /\ indexed \in {FirstTree, NeverIndexed}
  /\ job = [p \in Engines |-> NoJob] /\ last = NoCommit
  /\ kept = [s \in Slugs \cup {""} |-> Gone] /\ acts = [edits |-> 0, jobs |-> 0]

NextAdmission ==
  \/ \E x \in Places : Stage(x) \/ \E v \in Texts \cup {Gone} : Edit(x, v)
  \/ \E s \in Slugs :
       \/ \E v \in Texts : ContentWrite(s, v)
       \/ \E section, bundle \in BOOLEAN, v \in {"good", "loose"} : ContentNew(s, section, bundle, v)
       \/ DeletePage(s)
  \/ \E p \in Engines :
       \/ \E ss \in SUBSET Slugs : CommitSlugs(p, ss)
       \/ CommitAll(p)
       \/ \E files \in Subtrees, dry, redact \in BOOLEAN : Ingest(p, files, dry, redact)
       \/ Gate(p) \/ NothingToCommit(p) \/ StageFiles(p) \/ MakeCommit(p) \/ Dies(p)
       \/ \E fails \in BOOLEAN : UpdateIndex(p, fails)

SpecAdmission == InitAdmission /\ [][NextAdmission]_admissionVars

----------------------------------------------------------------------------
(* Properties.                                                             *)

\* What an engine commits is what it was asked to commit and what its gate
\* passed, as it stands in the commit: every file the commit changes is in
\* its scope, and every page it brings in was validated with this very text,
\* has a title, and in a strict wiki keeps its schema - unless somebody
\* wrote, staged or committed while the admission was at it, or had staged
\* something before (ops/content.rs:296, ingest.rs:133).
CommitsAreGated ==
  last.calm =>
    \A x \in Places : last.from[x] # last.to[x] =>
      /\ x \in last.scope
      /\ IsPage(x) /\ last.to[x] # Gone =>
           /\ <<x, last.to[x]>> \in last.passed
           /\ last.to[x] # "bad" /\ (settings.strict => last.to[x] # "loose")

\* A page has one text: what content_write stored is what content_read
\* answers with until somebody else writes to the slug, wherever the page
\* lives and whatever is made, deleted or redacted around it; and an asset
\* that is listed can be read (markdown.rs:41, slug.rs:46).
PagesHaveOneText ==
  \A s \in Slugs : /\ kept[s] # Gone => ContentRead(s) = kept[s]
                   /\ \A x \in ListAssets(s) : Has(x) /\ Homes(s) # {}

\* What enters the history of a wiki went through its gate whole, and what was
\* written to a page is what is read from it (the two statements above).
AdmissionsAreWhole == CommitsAreGated /\ PagesHaveOneText
=============================================================================

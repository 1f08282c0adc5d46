# TAPS suite: TLA+ models, checks and proofs

The TAPS suite is a workspace of products around one loop (assess, prescribe,
adopt, measure) and one knowledge base. This directory models what its programs
do to state that several actors share, and the algorithms that read one store
and make something else of it: **conduit** (work items and their merge door),
**pulse** (the anonymous polling protocol), **llm-wiki** (the knowledge base),
**adroit** (decision records), the **assessments** and **tuesday** (effort and
price). TLC checks every module on a small instance; TLAPS proves the theorems
of the `*Proofs` modules for every value of the constants. `PROJECT.json` lists
every component, run, hazard and theorem, and maps every definition to the
lines of the source it stands for.

## 1. Inventory

**M** modelled, **P** partly, **-** not modelled (section 6 says why).

| component | state it keeps | operations | | modules |
|---|---|---|---|---|
| conduit doors (`surface.rs`, `workitem.rs`, `approval.rs`) | status, body and approval seal of every project, story and task page | new, signoff, bounce, claim, complete, close, cancel, forced bounce | M | `WorkLifecycle`, `ConduitDoors` |
| conduit store access (`work.rs`, `mcp.rs`, `cli.rs`) | the corpus a verb loaded | load page by page, decide, write page by page | M | `ConduitSessions` |
| conduit repositories (`repo.rs`, `proc.rs`) | a bare repository, its branches and main, the scratch workspace `merge-ws` | ensure_repo, ensure_branch, merge_task | M | `ConduitRepo` |
| pulse Signal zone (`pulse-signal`, `sqlite_*`, `encrypting_store`) | spent ledger, response store, data key, poisoned mutexes | accept | M | `PulseCollector` |
| pulse Identity zone (`pulse-identity`, `identity_routes`) | sessions, counts per employee and batch, issuance log, closed batches | authenticate, questions, token/sign | P | `PulseIssuer` |
| pulse relay (`pulse-relay`) | queue, Notify permit, batch on the wire, one oneshot per request | relay_response, flush_loop, flush_batch, shutdown | M | `PulseRelay` |
| pulse client (`pulse-client`) | typestate of one token | connect, authenticate, blind, sign, finalize, submit | M | `PulseProtocol` |
| pulse analytics, report, simulation (`analytics.rs`, `simulation/`, `pulse-report`) | aggregates of the store, a page of the wiki | sample, run the flows, aggregate, suppress below k, publish | M/P | `PulsePoll` |
| pulse composition root and key custody (`main.rs`, `dek_store.rs`) | keys of the process, wrapped keys | provisioning at start, shredding | P | in `PulseCollector`, `PulseIssuer` |
| pulse cryptography and wire types | none | - | - | |
| llm-wiki index (`index_manager.rs`, `git.rs`) | index directory, `state.toml`, tantivy's writer lock, a reader per process | rebuild, update, rebuild_types, staleness, open | P | `WikiIndex` |
| llm-wiki engine (`engine.rs`, `mcp/handlers.rs`, `watch.rs`) | the table of mounted wikis under one read-write lock, what each compiled when mounted | handlers, mount, unmount, refresh, watch | M | `WikiMounts`, `WikiIndex` |
| llm-wiki admissions (`ops/content.rs`, `ops/ingest.rs`, `ingest.rs`) | working tree, git index, history | write, new, delete, content_commit, ingest, redaction, dry run | M | `WikiAdmission` |
| llm-wiki schema door, type registry (`ops/schema.rs`, `type_registry.rs`, `wiki_builder.rs`) | schema files, owners, compiled types, fields of the index | register, evolve, remove, compile | P | `WikiMounts`, `WikiSearch` |
| llm-wiki graph and its caches (`graph.rs`) | graph by generation, snapshot on disk, communities | build, merge, metrics, Louvain, load, save | M | `WikiConcepts`, `WikiGraphCache` |
| llm-wiki search, list, lint, stats, suggest | none | queries over the index | P | `WikiSearch`, `WikiConcepts` |
| llm-wiki configuration (`config.rs`, `registry.rs`, `ops/config.rs`, `ops/admin.rs`) | global file, `wiki.toml` of each wiki, git hooks | create, register, remove, set-default, config set | P | `WikiSettings` |
| adroit (`surface.rs`, `store.rs`, `naming.rs`, `plan.rs`) | decision pages: status, supersedes, superseded_by, the stored plan | new, edit, set-status, set-review, supersede, plan, check | M/P | `AdrDecisions`, `PlanSection` |
| assessments store (`storage.rs`, `draft.rs`, `tools.rs`) | `draft.yaml` with an ETag, versions in two objects each | the surgical and whole-draft tools, publish, reset | M | `AssessDraft` |
| assessments responses (`responses.rs`) | one response object per project | ensure_primary, upsert, clear, submit | M | `AssessResponses` |
| assessments conversation (`chat.rs`, `projects.rs`, `upload.rs`) | `project.json`, `chat.json`, documents | chat turn, question cards, focus stepper, upload, delete | P | `AssessTurns` |
| amaker author, publish (`author.rs`, `generation.rs`, `publish.rs`) | an assessment being made; two pages of the wiki | structure, questions, gates; scorecard, gaps, roadmap, page writes | P | `AssessAuthor`, `AssessPublish` |
| tuesday (`calculator.rs`, `strict.rs`, `measure.rs`, sources) | none | a month's pull requests to hours; a month's decisions to a price | M/P | `TuesdayForge`, `TuesdayMeasure` |
| tuesday web, kb-client's discovery, contract, books, `taps-tests` | none | - | - | |

### How they interact

* conduit, adroit, amaker, tuesday and pulse-report keep their pages **in**
  llm-wiki. They reach it over MCP through kb-client: whole pages are read and
  written one by one, and nothing locks the wiki between a read and a write.
  That is why `ConduitSessions` stands beside `ConduitDoors`, and why
  `AdrDecisions`, `AssessPublish` and `TuesdayMeasure` take a step per call.
* conduit's `claim` and `complete` run git in a bare repository and in one
  scratch directory per work directory, shared by all processes there.
* pulse's client gets blind-signed tokens from the Identity zone and spends
  them through the relay at the Signal zone. The zones share nothing but the
  signing key, which lives as long as the process.
* llm-wiki's index is a cache of the git tree and the schema files, its graph a
  cache of the index, its mounted contexts a cache of the configuration.
  Servers, command lines and git hooks mount the same wiki as separate
  processes; tantivy's lock and a per-process git lock are the only ones.
* The assessments keep objects that are read whole and written whole; the draft
  alone is written on the condition that nobody wrote it in between.

### What is hard in each, and what makes it correct

* **conduit**: cascades over a tree, stale corpora, a gate that runs for
  minutes, deaths inside a cascade or between two git commands. Correct:
  nothing executable under an unsigned parent; a seal is never forged; what
  lands is what the gate saw and is its task's work; closed items stay closed.
* **pulse**: two uses of one token, check and count raced, lost answers and
  retries, restarts that forget one thing and keep another, wake-ups of the
  flush loop, shutdown. Correct: a token counts once; a quota is exact; an
  acknowledged response is stored; nobody waits for ever; a published average
  is of at least k people and of the answers it claims.
* **llm-wiki**: processes indexing over each other, nested read locks, schema
  files changed under a mounted wiki, files changed between check and commit,
  caches keyed by what another process has moved on, configuration files
  rewritten whole by several processes. Correct: a stale document is one that
  the next update visits; what is committed was checked; a schema stays with
  its owner; a setting moves no other; graph, lint, search and suggest agree
  about the same pages.
* **adroit**: two pages per supersession, references allocated from a loaded
  corpus, a managed section spliced into hand-written text. Correct: `check`
  finds nothing while calls do not overlap or die; decided records stay; a plan
  is replaced and nothing beside it is touched.
* **assessments**: requests that hold a copy for as long as a model talks, two
  objects per version, unconditional writes. Correct: a tool changes what it
  names; a listed version has its content and keeps it; undisturbed, no request
  undoes another; two lanes give the same assessment as one.
* **tuesday**: paged reads of a list that shifts, months at a year's end,
  decisions priced from pages that go on being stamped. Correct: a pull request
  present throughout counts once, in its month; hours are neither lost nor
  made; a price is between those of the wiki before and after the reading.

## 2. Modules

| module | models | checked by |
|---|---|---|
| `WorkLifecycle` | the rule table `check_transition`; no state | `doors`, `sessions` |
| `ConduitDoors` | the seven verbs, one call at a time: the abstract specification; theorems in `ConduitDoorsProofs` | `doors` |
| `ConduitSessions` | the same verbs as sessions run them; implements `ConduitDoors`; theorems in `ConduitSessionsProofs` | `sessions` |
| `ConduitRepo` | the git commands of claim and complete; theorems in `ConduitDoorsProofs` | `histories` |
| `PulseCollector` | `ResponseCollector::accept`; theorems in `PulseSubmissionProofs` | `collector` |
| `PulseIssuer` | question and token/sign; theorem in `PulseProtocolProofs` | `protocol` |
| `PulseProtocol` | the client over issuer and collector, with a network that loses answers; theorems in `PulseProtocolProofs` | `protocol` |
| `PulseRelay` | handlers, flush loop, shutdown; theorems in `PulseSubmissionProofs` | `relay` |
| `PulsePoll` | the simulated poll, its aggregation, the report page | `pipelines` |
| `WikiIndex` | index, `state.toml`, mounts, watchers, admissions; theorems in `WikiIndexProofs` | `wiki_index` |
| `WikiGraphCache` | which cache answers for a graph, under which key; theorem in `WikiIndexProofs` | `wiki_index` |
| `WikiMounts` | the engine's lock, handlers, mounts, schema door, watcher; theorems in `WikiEngineProofs` | `wiki_mounts` |
| `WikiSettings` | configuration files under the admin commands of several processes; theorem in `WikiEngineProofs` | `wiki_mounts` |
| `WikiAdmission` | the working tree's doors and the two admissions, file by file; theorem in `WikiEngineProofs` | `histories` |
| `WikiConcepts` | graph, merge, metrics, lint, Louvain, stats, suggest | `pipelines` |
| `WikiSearch` | fields of an index, documents, search, search_all, facets, list | `pipelines` |
| `AdrDecisions`, `PlanSection` | adroit's verbs call by call; the splice of a plan; theorems in `AdrDecisionsProofs` | `adr` |
| `AssessDraft`, `AssessResponses` | draft, versions and tools; the respondent beside them; theorems in `AssessProofs` | `assess` |
| `AssessTurns` | the authoring conversation; theorems in `AssessProofs` | `turns` |
| `AssessAuthor`, `AssessPublish` | amaker author; import, respond, publish | `pipelines` |
| `TuesdayForge`, `TuesdayMeasure` | the forge lane and the KB lane | `pipelines` |

An `MC<module>` module names the model values, the inputs and the symmetry of an
instance, and its `.cfg` gives the constants. Three of them hold several
independent programs side by side, so that one run has one question: the
variable `tool` of `MCPipelines` (seven tools), `level` of `MCWikiMounts` (a
serving engine, or the configuration on disk), `layer` of `MCWikiIndex` (the
index, or the graph caches above it). In `MCHistories` a behaviour is one of the
merge door or of the admissions. A behaviour never leaves its program, and the
variables of the others stand still.

Definitions commented as mutants or negative controls are slips that a change
of the code could make: each stands before the definition it would replace, and
breaks one named property when it does (`mutants` in `PROJECT.json`).

### conduit

An item is its identity: `new` chooses class, title and parent by choosing
which absent item it creates. `status`, `body` and `seal` are the page; `seal`
is the body it was taken over, so `seal = body` is `Intact`. `branch` is
`absent`, `even` with main or `ahead`; `main` is the sequence of tasks whose
squash commits it holds. In `ConduitDoors` a verb is one action: rule table,
seal check and the writes of the whole cascade. `ForcedBounce` is
`require_intact` on a broken seal. Outside the doors there are `EditBody` and
`PushWork`. Left out because no guard reads them: titles, timestamps, the
counters, the repo field.

In `ConduitSessions` a call is `Begin`, one `Load` per page, `Decide` on what was
read and one `Write` per page in the code's order, with `Merge` or
`MergeRefused` before the write of a complete. `Die` drops a call with its
remaining writes. What a call has still to write is a function from items to
pages, taken in the order of the list. `trouble` remembers what kinds of disturbance have happened,
so that a property can say until when it holds. `ImplementsDoors` is the
refinement: `Settled` maps a tree with decided but unwritten pages to the tree
with them written, and as long as nothing disturbed a call every step is a step
of `ConduitDoors` or a stutter.

`ConduitRepo` has one action per git command. A tree is the set of changes in
it, and the gate is green exactly on the trees in `Green`. `overlapped` remembers
that a complete began while another had `merge-ws`, or two sessions provisioned
one repository: nothing in the code keeps them apart. The gate runs on the
branch alone, as in `repo.rs:158`: that the *merged* tree would pass is no
promise of the code, and no property claims it.

### pulse

`PulseCollector`: `boot` counts the starts of the process and stands for the
keys made in it. A handler goes through `Validate`, `Spend`, `Seal`, `Store`;
`StatementFails` poisons a mutex; `Restart` makes new keys, empties what is in
memory and keeps what is in SQLite; `Shred` deletes the wrapped keys.
`PulseIssuer`: `Admit`, `Count`, then `Sign` or `SigningFails`; `burnt` counts
quota lost to a failed signing. `PulseProtocol` joins every step of a handler of
the issuer with what it does to the token whose request it serves, lets answers
get lost and submissions be retried. Its collector is the two steps of the real one:
a submission is spent, and then stored or lost (`holding`, `mislaid`), and a retry
may come in between and be told that it was spent.
`PulseRelay`: `permit` and `woken` are the two halves of tokio's `Notify`;
`HandOn` is what happens to a notification when `select!` drops a notified
waiter. `PulsePoll`: employees' flows run under a semaphore and end in any
order, some fail; suppression counts pseudonyms while the count and the average
are made of answers.

### llm-wiki

`WikiIndex`: a document is the page's type and text and the version of the
schema it was indexed under; an engine is one process and `at` says where it
stands in update, rebuild or rebuild_types; `lock` is tantivy's. `sound` becomes
FALSE at the events after which the recorded commit no longer speaks for the
documents, each of which is in the code and named by the model: a page whose
uncommitted text was indexed is put back (`Undoes`); a commit lands between a
diff and `state.toml` (`Interferes`); a commit takes a page back to the recorded
one (`Reverts`); `update` runs with another registry than the recorded one
(`Outgrown`); two rewrites overlap; a process dies while it rewrites
(`Rewriting`); rebuild_types moves the commit over changes of other types.
Without them, no page is forgotten across every other interleaving. An engine
that is done indexing reads HEAD in one step (`ReadHead`) and writes `state.toml` in a later one
(`Record`); another process may commit in between, and `raced` marks
an admission that does. Assumed of
tantivy: the commit of a writer whose directory was removed fails, and opening
a directory that lost its index rebuilds.

`WikiGraphCache`: a graph is the version of the index it was built from; a
server's reader moves only when it reloads, and `generation` counts reloads.
`stateToml` lists the versions that were recorded, one per build key, so that
the key a graph is saved under says which index it stands for. `Lags` is a
graph built by a reader that is behind what its key stands for.
`WikiMounts`: a handler takes a read guard and may take it again inside
(`refresh_index`); a mount waits for the write guard; std's lock prefers
writers. Contexts are what was compiled at mount; files on disk move on. An edit reaches
the watcher only in a wiki whose content path holds a directory named `wiki`
(`Audible`, `Hears`), may be dropped at a full channel, and is gone with a window
whose update failed: `behind` are the wikis with a page the index has
not seen in its present text, `lost` those of them the watcher does not know of,
`faulted` where a drop or a failed update was the cause.
`WikiSettings`: every command loads a file, changes its copy and saves it whole,
under no lock, and may die between its steps; a wiki's own keys are whole
sections. An entry that is struck leaves a gap, as only the order of the others
counts. `troubled` remembers that two commands met that save one file: when the
second begins, or, for two that set a key of one wiki, when the second resolves
which `wiki.toml` it will change. `WikiAdmission`: a file is what the checks tell apart; an admission
lists, reads, stages what is on disk when it comes to that, and commits the
whole git index.

`WikiConcepts`: the index is a sequence of documents; the graph, its filters and
neighbourhoods, the merge across wikis with external placeholders, lint's rules
over the same links, Louvain's passes, stats and suggest are operators over it,
asked in any order against graphs cached as the code caches them. `WikiSearch`:
a text is a sequence of words, the score the number of queried fields a word
occurs in times the status multiplier and the confidence; a facet counts what is
stored, so a text field's whole text is one value. Confidence is the only
numeric field: indexing text into another one is an error of tantivy.

### adroit, assessments, tuesday

`AdrDecisions`: a call lists, reads every page, decides, writes whole pages,
ingests; any step may fail or the process die. `PlanSection`: a body is the
sequence of its non-blank lines, a line what the code tells apart.
`AssessDraft`: a writer is one chat turn; surgical tools save on the condition
of an ETag, modelled by whether anybody has put the draft since it was read;
four tools save whatever happened. `AssessResponses` adds requests of the
respondent that read and write back one object. `AssessTurns`: a turn keeps its
copy of the project while the model talks, and its tools save it at once.
`AssessAuthor`: a model's answer is whatever it likes; lanes end in any order
and are taken in the order of the structure. `AssessPublish`: import in three
writes, then two pages and an ingestion as separate calls, under a slug two
projects may share. `TuesdayForge`: the list of pull requests shifts while it is
read. The totals add up every label of a pull request, the allocation keeps one of each
name. `TuesdayMeasure`: doors go on stamping pages between two reads, and a bounce
strips the sign-off of an item and of its signed open descendants; a page's
`implements` list may name a decision twice, and then its hours count twice.

## 3. Runs

Twelve runs, all of which pass and are exhaustive within their bounds. A few
need TLC up to four minutes with two workers.

| run | instance | question it answers |
|---|---|---|
| `doors` | one project, one story, two tasks, two bodies | do the doors keep tree, seals and main consistent (`DoorsAgree`), land signed work only (`LandingIsSigned`), and leave closed items alone (`TerminalFrozen`)? |
| `sessions` | one item per class, two sessions, `MaxCalls` 5, two disturbances | what can a race, a death or an edit not break (`PagesAgree`, `TerminalUntilOverlap`), and do undisturbed calls implement the doors (`ImplementsDoors`)? |
| `histories` | the merge door: two tasks, three changes of which one breaks the gate, two sessions that can die, 5 calls; the admissions: a section, a page in it, two processes, edits and acts with `acts.edits + 2 * acts.jobs <= MaxActs` | until two completes overlap, is what lands what the gate saw and does main only grow (`MainIsAsGated`, `MainOnlyGrows`), and is what is committed to a wiki what was checked (`AdmissionsAreWhole`)? |
| `collector` | two tokens, two handlers, SQLite, two starts, one failed statement, shredding | does every answer count once (`ResponsesCount`), when are spent and recorded apart (`SpentIsRecordedUntilFailure`), do deleted keys stay so (`ShreddingIsFinal`)? |
| `protocol` | two employees, one on the roster; three tokens, cap 2, two handlers, three requests, two starts; a batch ends or the process restarts, not both | is the quota exact (`QuotaAddsUp`) and fair at both ends (`QuotaIsFair`), and what may a client hold and a ballot contain (`VotesAreSound`)? |
| `relay` | three submissions, batches of two, shutdown | is nothing lost or sent twice (`SubmissionsAreKept`), and is everybody served and the relay stopped (`EveryoneIsServed`)? |
| `wiki_index` | the index: two engines, two pages, one type, three commits, two edits; the caches: three servers, at most two updates, two requests and one restart, four of these in all | is no page forgotten (`IndexKeepsUp`), is work accounted for (`WorkIsAccountedFor`), and do graphs follow (`GraphsKeepUpUntilOverlap`)? |
| `wiki_mounts` | the engine: two wikis, two workers, three calls with a restart, or two with a change by hand (`MaxSpent` 4); the files: two processes, three commands, one death, two names, two directories | do engine, disk and registry agree and do handlers wait for each other for ever only by nesting (`EngineAgrees`), do schemas keep their owners (`OwnersKeep`), is what the watcher was told of indexed or lost for a named cause (`EditsAreNoticed`), do settings hold (`SettingsHold`)? |
| `adr` | two sessions, three calls, deaths, two titles, each naming scheme, two initial corpora | is the corpus one that check passes (`CorpusIsClean`), do decided records stay (`DecidedStays`), are plans and hand-written sections kept (`PlansAreKept`)? |
| `assess` | two turns and two requests of the respondent (`MaxBegun` 3), two domains, practices and questions, two versions | do drafts, versions and responses stand (`AssessmentsStand`), does a tool change what it names only (`OnlyWhatWasNamed`), are answers kept (`AnswersUntilOverlap`)? |
| `turns` | two requests, two documents, two practices, with failures at every step | is a project at rest whole (`RestIsWhole`), is nothing undone (`NothingUndoneUntilOverlap`), does the budget bind (`BudgetBinds`)? |
| `pipelines` | seven programs on the inputs named in `MCPipelines` | `WorkIsCountedOnce`, `PricesAreBracketed` (tuesday), `LinksTellOneStory`, `SearchTellsAll` (llm-wiki), `AuthoredIsSound`, `PublishedAgree` (amaker), `PollIsHonest` (pulse) |

A property whose name ends in `Until...`, and some others, hold up to an event
that the code does not exclude: two writes that overlap, a death, a failed
statement. The event is a variable or a named operator of the module, its
property says exactly how far the promise reaches, and section 5 lists what
happens beyond.

### Why the bounds suffice

* `doors` has no counter: the tree is the bound. Two tasks are what the rules
  look at: a story closes over one done and one cancelled child, a bounce finds
  children in different states. The theorems cover every tree.
* `sessions`: two calls that overlap and others that come after them are enough
  for a stale write to be written, seen and acted on; a disturbance costs a
  call. `SignedTree` as a second initial state spends none on getting to a
  claimed task.
* `histories`: five calls of two sessions let a task be claimed, die in complete,
  and be completed by the other while the first is at it again. Of the admissions, two jobs beside each other or one
  beside two edits reach every order of check, stage and commit.
* `collector`: every failure once and one restart, with two requests in flight
  for one token. `protocol`: cap 2 and two handlers reach count = cap with a
  request between check and count; one restart gives a token under an old key;
  three tokens are one more than the quota. A batch's end and a restart refuse a
  token each on its own, so `OneEnding` takes them one at a time; the theorems
  have them together. `relay`: the queue is below, at and
  above the size that wakes the loop, and a submission can come after the final
  drain.
* `wiki_index`: two pages are one the diff names and one it does not; three
  commits leave one recorded, one HEAD and one in between; contents hold one
  text, as all that matters of a document is whether it is the page's. Three
  servers are one that updates, one that lags and one that moves the build key on
  between the two: with two, a graph saved under a key its reader never saw went
  unseen. `FewRounds` leaves out only that they do everything at once, and `FewAtOnce`
that both engines work after the third change, of commits and edits together.
* `wiki_mounts`: two threads and one writer are what a nested read needs to
  wedge; one wiki is mounted from the start and one comes later, and the watcher
  can hear of the first alone. On disk, three
  commands by two processes make a lost update and a command that meets what it
  left; one death stands for each of a command's steps.
* `adr`: a third call finds what two that overlapped have left. `assess` and
  `turns`: two writers overlap, a third request comes after; two ids per level
  let a tool move something from one place to another.
* `pipelines`: the inputs hold a month's and a year's end, a page limit of two
  with three items, labels of every kind, a category label that comes twice and an
  answer that breaks off; a decision that a task implements twice; a page linked to itself, by
  id, through another wiki, to nothing, two pages with one id, webs that are a
  path, a star and a triangle; schema files in which the first reading decides;
  every defect a gate looks for, once and with a good neighbour; a segment
  named twice and a threshold of two.

`CHECK_DEADLOCK FALSE` stands in the configurations whose counters run out or
whose system stops. `doors` checks deadlock.

### Fairness

Only `PulseRelay!FairSpec` assumes any. Weak fairness of `Loop`: the
runtime schedules the flush task, its timers come due, and `forward()` returns
because reqwest has a timeout. Of `TimeOut(r)`: `tokio::time::timeout` around
the handler completes. Of the end of `receiving`: the server gets the body or
notices that the client is gone. Nothing is assumed of the Signal zone
(`Receive`) or of ctrl-c (`Stop`). All other modules make safety claims only:
nothing in the code makes a human sign off, a client retry, a model answer or a
process restart. That handlers of llm-wiki can wait for each other for ever is
stated as a state (`WedgedOnlyByNesting`), not as a liveness property.

## 4. Proofs

Every theorem is for all values of the constants its module allows: any tree,
any number of tokens, handlers, employees, submissions, any cap, batch size,
and any bound.

* `ConduitDoorsProofs`. `TypeCorrect` is inductive alone.
  `DoorsKeepPromises` is the conjunction of types with `Downhill`,
  `SealedIffSigned`, `Uphill` and `DoneIffLanded`: the first, second and fourth
  are each inductive given types, and `Uphill` needs `Downhill` (a child under a
  done parent can not become ready, because a done parent is not signed-open).
  The lemmas are that a subtree is closed downwards and what the rule table
  implies per target status. `MergesAreSigned` and `ClosedItemsStay` are action
  properties from these invariants: the merge door reads the task alone, that
  story and project are still signed is `Downhill`.
  Of the repositories (`ConduitRepo`): What `MainIsAsGated` says of main has to be known of it
  before the push: that the clone's main is sound and its branches hold their
  tasks' work (`Cloned`, `OwnWork`), that what is staged is what the gate saw
  (`Gated`), that a push lands the task it closes (`Pushable`). All of it rests
  on `Apart`: one session in the workspace, one provisioning. `MainIsNeverRewritten`
  holds because a clone's main extends the main it was cloned from and nobody
  else pushes. Both until `overlapped`.
* `PulseSubmissionProofs`. Of the collector: `CountedOnce` is not inductive: what keeps a second
  response out is that the token is in the ledger *or* its signature no longer
  verifies. `Inv` adds `KeysOfBoot` (a handler past validation carries a token
  signed in this start, and no token was signed in a start to come),
  `OneCarrier` (at most one handler is between spend and store with a token,
  which is in the ledger and not recorded yet) and `RecordedIsGone` (a recorded
  token was recorded once, and is spent or of an earlier start).
  `AcknowledgedIsStored` follows with the fact that rows of a durable store
  stay; `EveryResponseCounts` is the property the run checks.
  `SpentMeansRecorded` is inductive over `Inv`: until a failure, a spent token is
  recorded or in the hands of its `OneCarrier`. `DeletedStaysDeleted` needs that
  no row names the key of a start to come (`RowsOfBoots`).
  Of the relay: `NoLostWakeup` is inductive with the types. `Accounted`
  needs `FlushingOnly` (outside of flushing there is no batch and nothing on the
  wire), otherwise a drain could overwrite a batch. `RelayKeepsSubmissions` puts
  the parts together.
* `PulseProtocolProofs`. Of the issuer alone: `QuotaAddsUp` is an equation with
  the number of handlers between count and signature, inductive with the types;
  the lemmas say by how much a step changes that cardinality (`QuotaHolds`).
  Every step of the protocol is a step of the issuer or
  leaves it alone (`IssuerSteps`), so the issuer's theorem carries over as
  `QuotaHoldsForClients`. `VotesStaySound` needs `Serving` (a handler serves the
  token that waits for it), `Staged` (what a token's stage says of its signer),
  `Delivered` (every spent token of this start is stored, in the hands of the
  collector or mislaid, and what a client was told is so there), `OnRoster` (a
  token signed for an employee is of a batch assigned to her) and `Books` (the
  tokens signed in a start for an employee and batch are as many as the log
  says, and at most the cap: no client code gets around the issuer's count).
  `QuotaStaysFair` says of each single step that what is offered can be signed
  and that a refusal finds the quota used.
* `ConduitSessionsProofs`. The invariant has five parts, each reaching as far as
  the trouble it survives: `Types`; `AllSound` (every page, and every page a call
  holds or will write, has a seal exactly as its status demands, and a done task
  has landed), whatever happens; `OneAtATime` (no two calls, and
  what a call has read or will write differs from the pages by hand edits at
  most) until two overlap; `Sloping` (in the tree with the pending writes taken,
  nothing executable stands under an unsigned parent) until one dies or overlaps;
  `Undisturbed` (what a call read is what the pages hold) until anything happens.
  From them come `PagesStayAgreed`, `ClosedUntilOverlap` and
  `SessionsImplementDoors`: initial states map to initial states, a decision (for
  a complete its merge) maps to the verb of `ConduitDoors`, every load and
  every write to a stutter.
* `WikiIndexProofs`. Of the index: `IndexKeepsUp` speaks of every page that no
  diff would name, so the invariant has to say what makes such a page's document
  right while the versions in `state.toml` still differ from the disk: `Fits`
  asks for one document of the page's type and text, under the present version
  only where the versions it was made with are present. `Kept` says so of those
  pages with the recorded versions; `Phases` carries it over an update: an
  engine that has diffed knows every page the recorded commit and HEAD tell apart
  (`Diffed`), and one that has written leaves every page that is as in HEAD fitting
  its own registry (`Indexing`), which is what it records next. `OneHolder` (whoever
  writes has the lock) and `BuiltFirst` hold until `sound` ends, and `VersionsGrow`
  (no registry is ahead of the disk) always; a schema can then only move away
  from what is recorded. For `WorkIsAccountedFor`, with no `sound` at all: the last
  to write has the directory it cleared to itself or serves it (`Serves`), and an
  admission that was not raced returns without a warning only where HEAD was recorded
  or equals what was (`Vouched`). As HEAD is read before it is written down, that
  needs `Ahead` (no engine still holds an earlier HEAD than such an admission's) and
  that what is held or recorded is a commit there is (`HeadsExist`); in `Phases`, as
  long as `sound`, the HEAD an engine holds is the present one.
  Of the caches: `AllAged` bounds what any reader, graph or snapshot
  can hold by the index, and any key by its counter; `AllCalm` says that in a
  process no overlap touched, reader and generation are its own, and that under
  the key in `state.toml` and under the key it builds for there are only graphs
  as new as what was recorded with that key; `OneWriter` is tantivy's lock. Each
  action moves one process, and `OthersStay` says once why the rest keep their
  parts. An earlier `Lags`, which asked for the latest recorded version instead of
  the key's, held for two processes and could not be proved; with three, TLC
  showed why.
* `WikiEngineProofs`. Of the mounts: a handler acts on what it knew some steps ago: the schema it
  was admitted on (`Holds`), the registry it loaded (`Saws`), the wiki it
  unmounted (`Removes`). Each is good while no other change of that wiki, or of
  the registry, is in flight, and `Overlaps` says that any two such threads are
  known to `overlapped`. `AllSettled` says for every wiki without one where table and
  file stand at each step of the one call that may be changing it; with
  `LiveTypes` and `BrokenIsByHand` this is inductive, and `EngineStaysAgreed`
  follows, its last part from the types alone: with everybody stuck, each waits for a
  guard, a writer or a git lock, and all three lead to a nested read.
  `OwnersAreKept` uses it at the one step that writes a schema; for the default
  wiki, `Defaults` says there is one in the file, in each copy and in the engine.
  `EditsAreSeen` has an invariant and a step: a wiki the index is behind on is in the
  window or lost (`Noticed`), and each action loses a wiki only for a cause it names
  (`Excused`). The attempt corrected the model twice:
  the second half of a create with `set_default` was not counted as a change of
  the registry, which three wikis are needed to see; and `LiveTypes` excused a
  removed wiki that had not been overlapped, where the case was a directory
  deleted under a remount that had.
  Of the admissions: `JobGated` says of one at every
  step that each page it is going to stage passed its checks in the text it then
  had, unless the model's named disturbances struck; `CommitsAreGated` follows at
  the commit. `PagesHaveOneText` is inductive with the types: every door that
  makes a page, or moves one between flat and bundle, minds the other form.
  Of the configuration: an invariant over the files alone says nothing of the
  commands under way, so `SettingsInv` speaks of both. Whatever happens, no name
  is listed twice, in the file or in a copy, and a directory that two entries
  name is in `twice`. Until two commands meet (`Apart`), every copy a process
  holds is the change its command makes of the file *as it is now* (`Enters`,
  `Turns`, `Points`, `Strikes`, `SetsKey`), so that saving it whole undoes
  nothing; and `WorksWell` says for each step of each command what it has done
  so far, which at its last step is what it promises. `Housing` follows a
  removal between the directory and the entry. The attempt corrected the model
  twice: two settings of one wiki can meet after a third command moved the
  default name under them, which takes three processes to see, so it is at
  `Resolve` that they are found to meet; and a create whose `wiki.toml` states a
  root that is not there succeeds all the same, which no first state of the run
  had shown (only `adopt` validates, `registry.rs:182`).
* `AssessProofs`. Of draft and versions: `DraftInv` says that not only the draft
  but every copy a writer holds and every version is a tree, because a whole-draft
  save writes back a copy of any age; the lemmas say once per kind of tool
  (append, retract, drop, move, reorder, reset) that a tree stays one and what
  it keeps (`Keeps`), and `NothingElseIsTouched` is that, read per step.
  `PublishInv` counts: the highest listed number is the count of what is listed,
  which makes the next name free until somebody chooses one. `RequestInv` says of
  each respondent's copy what it says of the response: on a listed version and,
  until one was overwritten, inside it. `AnswersHold` is then a matter of one put.
  Of the conversation (`AssessTurns`): `TurnInv` is what holds always, most of it
  about copies: a copy nobody has put over is what was loaded, changed by its own
  request alone (`Freshly`), and a turn asks what its copy has queued. `CardsInv`
  and `FilesInv` hold until something is lost (`Lost`: the project torn or deleted,
  two answers or two turns about to be saved at once, a save due from a copy that
  is no longer current): every card is in the
  conversation, in the queue, gone, or in the hands of one request; every document
  is both stored and listed unless one request is about to do the other half.
  `RestHolds` puts them together where no request is under way, `NothingUndoneHolds`
  and `BudgetHolds` follow from `Freshly`.
* `AdrDecisionsProofs`. `CorpusIsClean` speaks of what a check reports, so the
  invariant has to say it of the pages: `Linked` (a decision is superseded exactly
  when it names its successor, and both ids of a supersession are of listed
  pages) holds until a page is written on an old corpus, however many calls die
  between the two pages of a supersession; `Distinct` (no two pages share a
  reference or an id) only until a call also dies unlisted, and with it that every
  page is listed unless a call is about to ingest. Between them stand the calls:
  `Copied` (a call that nobody wrote under has read what the pages hold) and
  `Pending` (each of its writes is `Due`: linked, and of a listed page a lawful
  change, of a new one `Novel`). `Novel` rests on `AssignIs`: the sequential
  number is above all, the date number is found because the corpus is finite
  (a pigeonhole), the uuid is the page's own id. `DecidedStays` and `PlansAreKept`
  are what a `Due` write may do to its page. `SpliceIs` bounds the spans of a plan.

Assumptions: the named `ASSUME`s of the modules, each checked by TLC on the
instances. They say that item classes are disjoint and a parent is one class up,
that `Order` lists every item once, that the "nothing" values are not real ones
(nor sets of documents, versions or states),
that a branch of a task is not `main`, that an author is a task and green trees
are sets of changes, that every slug can be a flat page and the first tree and
the subtrees are of the places, that handlers and submissions are finite,
that adroit's texts are sequences of lines and a first corpus is one its check
finds nothing wrong with, that the structures amaker is given and the drafts it
starts from are trees, that the projects a conversation is taken up with are
whole, that a budget's minimum is not above its maximum, that commands and first
directories of llm-wiki are such as can be asked for and found, that the wikis a
watcher can hear are wikis, and that bounds,
caps and batch sizes are numbers of the right kind.

Only model-checked: `EveryoneIsServed` (liveness, which with fairness and
`ENABLED` is out of the prover's reach), and the seven properties of `pipelines`
(`WorkIsCountedOnce`, `PricesAreBracketed`, `LinksTellOneStory`, `SearchTellsAll`,
`AuthoredIsSound`, `PublishedAgree`, `PollIsHonest`). What a recursive definition
or a fold computes for every input can not be proved here: those algorithms
(Louvain, ranking, sums over pull requests, the months of a range, the pairing of
versions) are checked against what they promise on the inputs named, and so is
where the splice of a plan puts it. Every other property of a run is a theorem.

## 5. Where code and documents disagree

None of these has a run of its own: the properties of the passing runs say up to
where the code keeps its promise, and each item is visible in the model named.

### conduit
* Cancel's doc says "Terminal items never move" (`surface.rs:582`). A verb
  writes the page it loaded; if another session cancelled the item meanwhile,
  the stale write reopens it (`surface.rs:549`; `TerminalUntilOverlap`).
* The gate's comment says it runs on "exactly what would merge" (`repo.rs:158`).
  Two completes share `merge-ws`: one re-clones it under the other, which then
  lands what its gate never saw (`repo.rs:149`); `MainIsAsGated` holds until then.
* `ensure_repo` takes a repository with a HEAD file as provisioned; a death
  between `git init` and the root commit leaves it without main for ever
  (`repo.rs:95`; `NoBase`). A session that dies inside a bounce leaves signed
  children under a draft parent (`surface.rs:204`).

### pulse
* The protocol document lets a client take `TokenAlreadySpent` for success
  (`anonymity-protocol.md:136`). A process that ends
  between ledger and store, or fails there, has spent the token and lost the response,
  and a retry in between is told of success too soon (`response_collector.rs:96`).
* The flush loop promises to deliver in-flight requests before it exits
  (`batcher.rs:124`); a body that arrives after the final drain is never
  forwarded (`batcher.rs:139`). A permit left over from a batch drained at its
  size flushes a later single submission early (`batcher.rs:136`).
* A stored token cannot be retried after a restart, rows of an earlier start
  cannot be read, and an employee can be issued tokens again
  (`tenant_provisioner.rs:71`, `main.rs:179`, `dev_sampling.rs:68`); one failed
  statement poisons a mutex and the process serves on, failing every request
  (`sqlite_store.rs:90`); a failed signature uses up quota
  (`token_issuer.rs:137`); the development engine offers batches whose quota is
  used up (`dev_sampling.rs:34`).
* A segment label that a survey repeats counts each response twice
  (`analytics.rs:142`). A seeded report lists `errors` in completion order, so
  it is not byte-identical when flows fail (`report.rs`, `without_timings`).

### llm-wiki
* "Index matches current HEAD" (`index_manager.rs:70`): a rebuild that dies after
  emptying the directory leaves an empty index that counts as current (`:284`).
  `index.auto_rebuild` is off by default. A flat `x.md` and a bundle
  `x/index.md` share a slug; an update deletes both documents and adds one
  (`:418`). The watcher rebuilds with the registry compiled at mount, and a
  write by another process never reloads a running server's reader: its graphs
  are saved under a key that another, or by then a third, process moved on, and
  a server that is up to date takes such a snapshot for its own (`Lags`).
  HEAD is read and `state.toml` written apart (`index_manager.rs:366` and `:375`,
  `:458` and `:461`, `:646` and `:655`): a process that is slow between the two
  puts an earlier commit over the one an admission has recorded without a warning,
  and that admission is then ahead of the baseline (`raced`; the next update
  visits its pages again).
* `content_commit --all` checks the files under the content root and stages
  everything; the whole git index is committed, although "its message and hash
  never claim a concurrent writer's files" (`git.rs:49`); across processes a
  commit built from an index read before another's reverts it. `ingest` with
  `dry_run` and `redact` rewrites files ("do not write to disk", `ingest.rs:25`),
  and an ingest that aborts leaves its redactions and loses their report.
  Frontmatter whose YAML does not parse passes as "none found", although a title
  is required "regardless". `content_new` of a bundle beside a flat page is
  shadowed by it; committing a promoted bundle by slug leaves the flat page's
  deletion out.
* "Safe to share across async tasks" (`engine.rs:190`): a nested read with a
  writer waiting stops both for ever (`WedgedOnlyByNesting`). `mount_wiki` does
  not extend `engine.config.wikis`, so a wiki mounted while serving is not
  resolved by URI and its schema changes never remount it (`handlers.rs:617`).
  Wikis mounted later are not watched; the watcher looks for "/wiki/" although
  the default content root is `content` (`watch.rs:178`): such a wiki is heard only
  if it lies under a directory named `wiki`. An event is dropped when 256 wait
  (`:225`), and a window whose update failed is logged and forgotten (`:141`). Overlapping registers overwrite each
  other; `create` with `set_default` leaves the running default alone. Evolving
  a type that a later-sorted file declares too has no effect; evolving the
  template alone returns "unchanged".
* Configuration: `config get` and `list` never show a wiki's own value
  (`ops/config.rs:9`, `:48`); the first key a wiki sets fills the rest of its
  section with built-in values, not the global ones (`config.rs:872`).
  `create --force` "to rename" (`registry.rs:78`) adds a second entry, and
  deleting one of the names deletes the other's directory. `create` run again
  ignores `set_default` and the content root, and makes no repository where the
  directory went meanwhile. `default_wiki` can be set to any name as a key;
  hooks of a removed wiki still name it. A `create` on a directory whose
  `wiki.toml` states a root that is not there makes `content/` and succeeds. `register` with another content root
  over a `wiki.toml` that states none provisions a directory the wiki does not
  serve, and of a taken name reports success without registering.
* Graph and lint: `merge_cached_graphs` is called with the caller's filter, and
  its check on unfiltered graphs brings pages of excluded types back as external
  placeholders (`graph.rs:652`, `ops/graph.rs:60`); `compute_metrics` says it
  matches lint's orphan rule, but lint counts self-links and undeclared fields
  (`graph.rs:101`); Louvain never settles on a triangle and ends at its cap
  (`graph.rs:300`), and its order is that of the index, not of slugs; suggest
  can offer an external placeholder under a local URI, a page linked by id, and
  the page itself when a placeholder has its name; CommonMark links to
  `wiki://other/slug` are indexed as local; ids inside URIs are not resolved;
  stats parses dates as days only, lint wants RFC 3339 (`stats.rs:168`,
  `lint.rs:624`).
* Search: `tags` is a text field, so its facet counts the joined tags of a page
  as one value ("Count of pages per tag", `search.rs:102`); merged tag counts
  are short where a wiki capped its own; `superseded_by` is indexed as stemmed
  text because `base.json` is read first, although edge fields "are always
  keywords" (`index_schema.rs:111`); types added in `wiki.toml` add no fields;
  declaring a field takes its text out of the reach of a plain query.

### adroit, assessments, tuesday
* `--force` (`adroit/src/surface.rs:131`) splices a plan in as a second section
  beside a hand-written one.
* `set_question_budget` claims a gate that is not there (`tools.rs:832`);
  `roadmap.rs` says a default effort of 8 hours where the code has 40; the leak
  scan "covers every authored string" but not a question's roles
  (`quality.rs:269`); `publish` registers its schema plainly and fails when its
  own schema was upgraded, though "a re-publish is always safe" (`publish.rs:40`);
  it publishes the version the response is bound to, not the "current" one, and
  makes a response where there is none; two projects of one name share a slug;
  `project_context` never returns a document although `author.rs:105` describes
  them. Two answers of one respondent at once lose one; a reset overwrites edits.
* GitHub's inclusive `start..end` counts a pull request of the 1st of the next
  month in both; only the first twenty labels are read; a label that comes twice
  divides the hours by two, is kept once in the allocation and added twice to the
  totals (`calculator.rs:282`); an answer of GitHub with neither errors nor data ends
  the pages, and the part read counts as all (`github.rs:310`); an `implements`
  that names a decision twice charges the task twice (`measure.rs:224`); a bounce
  during a report takes away a sign-off the report may or may not have read. amaker's
  percentage is a rounded whole number, 100 from 199 of 200 on (`scorecard.rs:68`). The
  web head takes a repository
  that failed as empty.

## 6. Not modelled, and why

* Cryptography, encodings and wire types: the models take a signature to verify
  exactly under the key that made it, a sealed row to open exactly under its
  data key. BM25, snippets, rendering of every kind, prompts and narratives,
  YAML text: data no property tells apart.
* The ACP protocol of llm-wiki, the adapters of MCP and HTTP beyond the calls
  they make, `export` and `history`, templates and the type overrides of
  `wiki.toml`, `delete_by_type` and the health report of the index.
* pulse: session expiry, population tiers, rotation of keys (no caller uses it),
  the mock transports and the walkthrough example.
* conduit's reference allocation (`item.rs:282`) has the shape, and the race,
  that `AdrDecisions` has with adroit's; items are identities here.
* tuesday's web screens, the books, guides and cross-product tests.
* Loss of power under SQLite, tantivy or git: a crash is the death of a process.

## 7. Plan

Done: the modules of section 2. Open, in order of worth:

1. Proofs of the parts of `pipelines` that are no folds: the order of writes in
   `AssessPublish` and `AssessAuthor`.
2. conduit's `new` with a corpus of references, on the pattern of `AdrDecisions`.
3. `history` and `export` of llm-wiki; the warnings of adroit's check; templates.
4. The composition of `ConduitSessions` with `ConduitRepo` over one tree, and of
   `PulseProtocol` with `PulseRelay` and `PulseCollector` as they are.

## 8. Running

    cd tla
    tlc -workers 2 -config MCConduitDoors.cfg MCConduitDoors
    tlapm ConduitDoorsProofs.tla

A run takes between a few seconds and about four minutes, a proof module up to
ten; each ends without an error.

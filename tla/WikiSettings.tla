---------------------------- MODULE WikiSettings ----------------------------
(***************************************************************************)
(* llm-wiki's configuration on disk, as the admin commands of several      *)
(* processes see it: the global file with the registry of wikis and the    *)
(* keys every wiki inherits (config.rs), each wiki's directory with its    *)
(* own wiki.toml and git hooks (registry.rs), and the commands that create *)
(* a wiki, register, remove or choose one, and set a key globally or for   *)
(* one wiki (ops/config.rs, ops/admin.rs, main.rs).                        *)
(*                                                                         *)
(* No file is locked: a command loads a file, changes its copy and saves   *)
(* it whole, and may die between any two of its steps.                     *)
(*                                                                         *)
(* A section of wiki.toml is there or not; once there it holds every key   *)
(* it has, so a wiki's own keys are a partial function whose domain is a   *)
(* union of sections.  [search.status] is merged key by key instead: each  *)
(* of its keys is a section of its own.  A key's built-in value is 0.      *)
(***************************************************************************)
EXTENDS Naturals, SequencesExt

CONSTANTS
  Shells,       \* the processes that run commands
  Dirs,         \* directories a wiki can live in
  Titles,       \* names a wiki can be registered under
  NoTitle,      \* no name: the default wiki's before there is one
  Roots,        \* the names of content roots
  Commands,     \* the commands that are run
  FirstHomes,   \* what the directories may hold at first
  MaxCommands, MaxDeaths    \* bounds

ASSUME NamesAssumption == NoTitle \notin Titles \cup Dirs /\ Dirs # {}
ASSUME RootsAssumption == "content" \in Roots
ASSUME BoundsGiven == MaxCommands \in Nat /\ MaxDeaths \in Nat

VARIABLES
  registry,   \* the global file: [default, entries, set]
  home,       \* by directory: [there, git, hooks, roots, toml, root, stated, own]
  shell,      \* what each process is doing
  troubled,   \* history: two commands that save the same file overlapped
  twice,      \* history: directories that two names stood for at once
  pointed,    \* history: the default was set as a key, unchecked
  runs        \* bound and history: [commands, deaths]

settingsHistory == <<troubled, twice, pointed, runs>>
settingsVars == <<registry, home, shell, settingsHistory>>

-----------------------------------------------------------------------------
(* Keys *)

WikiKeys   == {"top_k", "page_mode", "strictness", "draft"}
GlobalOnly == {"auto_rebuild"}
SettingKeys == WikiKeys \cup GlobalOnly
BuiltIn    == 0
Unparsed   == 9            \* a text that is no number
Values     == BuiltIn .. Unparsed

\* the keys of a numeric or boolean field; the others take any text
TypedKeys == {"top_k", "draft", "auto_rebuild"}
Parses(c) == c.key \in TypedKeys => c.value # Unparsed

SectionOf(k) == IF k \in {"top_k", "page_mode"} THEN {"top_k", "page_mode"} ELSE {k}

\* config::resolve
Resolved(set, own, k) == IF k \in DOMAIN own THEN own[k] ELSE set[k]

Effective(d, k) == Resolved(registry.set, home[d].own, k)

\* `config get` resolves against an empty wiki.toml
GetShows(k) == Resolved(registry.set, << >>, k)

SetGlobalValue(g, c) ==
  IF c.key = "default_wiki" THEN [g EXCEPT !.default = c.name]
  ELSE [g EXCEPT !.set[c.key] = c.value]

\* mutant: setting a key starts its section anew
SetWikiValueAfresh(own, k, v) ==
  [x \in DOMAIN own \cup SectionOf(k) |->
     IF x = k THEN v ELSE IF x \in SectionOf(k) THEN BuiltIn ELSE own[x]]

SetWikiValue(own, k, v) ==
  [x \in DOMAIN own \cup SectionOf(k) |->
     IF x = k THEN v ELSE IF x \in DOMAIN own THEN own[x] ELSE BuiltIn]

-----------------------------------------------------------------------------
(* The registry and the directories *)

Entry(t, d) == [name |-> t, dir |-> d]
Gap == Entry(NoTitle, NoTitle)

Kept(g) == {i \in DOMAIN g.entries : g.entries[i] # Gap}
Named(g, t) == {i \in DOMAIN g.entries : g.entries[i].name = t}
Housed(g, d) == {i \in DOMAIN g.entries : g.entries[i].dir = d}
IsRegistered(g, t) == Named(g, t) # {}
Place(g, t) == CHOOSE i \in Named(g, t) : TRUE
DirOf(g, t) == g.entries[Place(g, t)].dir

\* registry::register: a name that is there is given the new directory
Entered(g, t, d) ==
  IF IsRegistered(g, t) THEN [g EXCEPT !.entries[Place(g, t)] = Entry(t, d)]
  ELSE [g EXCEPT !.entries = Append(@, Entry(t, d))]

\* what is struck leaves a gap: the order of the others is all that counts
Struck(g, t) == [g EXCEPT !.entries = [i \in DOMAIN @ |-> IF @[i].name = t THEN Gap ELSE @[i]]]

NoHome == [there |-> FALSE, git |-> FALSE, hooks |-> NoTitle, roots |-> {},
           toml |-> FALSE, root |-> "content", stated |-> FALSE, own |-> << >>]

\* the keys a generated wiki.toml sets: strict validation, every status
Provisioned == [k \in {"strictness", "draft"} |-> IF k = "strictness" THEN 1 ELSE 0]

\* ensure_structure: what is missing is made, what is there is left alone
Structure(h, root) ==
  LET made == [h EXCEPT !.there = TRUE, !.roots = @ \cup {root}] IN
  IF h.toml THEN made
  ELSE [made EXCEPT !.toml = TRUE, !.root = root, !.stated = root # "content", !.own = Provisioned]

UserHook == "user"

\* what a directory can hold; a wiki.toml that names no content root means content/
Owns == UNION {[K -> Values] : K \in SUBSET WikiKeys}
HomeStates ==
  {h \in [there : BOOLEAN, git : BOOLEAN, hooks : Titles \cup {NoTitle, UserHook}, roots : SUBSET Roots,
          toml : BOOLEAN, root : Roots, stated : BOOLEAN, own : Owns] : h.stated \/ h.root = "content"}

ASSUME HomesAssumption == FirstHomes \subseteq [Dirs -> HomeStates]

\* install_admission_hooks: a hook the user wrote stays
Hooked(h, t) == IF h.git /\ h.hooks # UserHook THEN [h EXCEPT !.hooks = t] ELSE h

-----------------------------------------------------------------------------
(* Processes *)

EmptyRegistry == [default |-> NoTitle, entries |-> << >>, set |-> [k \in SettingKeys |-> BuiltIn]]

NoCommand == [op |-> "none", name |-> NoTitle, dir |-> CHOOSE d \in Dirs : TRUE, key |-> "none",
              value |-> BuiltIn, force |-> FALSE, flag |-> FALSE, root |-> ""]

Idle == [cmd |-> NoCommand, pc |-> "rest", then |-> "rest", copy |-> EmptyRegistry,
         own |-> << >>, again |-> FALSE, told |-> "none"]

Working == {s \in Shells : shell[s].pc # "rest"}

Tell(s, answer) == shell' = [shell EXCEPT ![s] = [Idle EXCEPT !.told = answer]]
Proceed(s, pc)  == shell' = [shell EXCEPT ![s].pc = pc]

\* a changed copy is held, to be saved next and followed by `then`
Hold(s, g, then) == shell' = [shell EXCEPT ![s].copy = g, ![s].then = then, ![s].pc = "save"]

\* the directory a `set` for one wiki writes in, where it names one yet
Aimed(c) == LET t == IF c.name = NoTitle THEN registry.default ELSE c.name IN
            {DirOf(registry, u) : u \in {t} \cap {x \in Titles : IsRegistered(registry, x)}}

MovesWikis == {"create", "adopt", "remove"}

\* what can be asked: auto_rebuild is a boolean, and only a key is set for no wiki
Askable ==
  {c \in [op : MovesWikis \cup {"default", "setglobal", "setwiki"}, name : Titles \cup {NoTitle}, dir : Dirs,
          key : STRING, value : Values, force : BOOLEAN, flag : BOOLEAN, root : Roots \cup {""}] :
     /\ c.name = NoTitle => c.op \in {"setglobal", "setwiki"}
     /\ c.key = "auto_rebuild" => c.value \in {0, 1, Unparsed}}

ASSUME CommandsAssumption == Commands \subseteq Askable

\* the two commands save the global file, or one moves the wikis the other
\* finds its file by
Meets(c, o) ==
  LET both == {c.op, o.op} IN
  both # {"setwiki"} /\ ("setwiki" \in both => both \cap MovesWikis # {})

\* the wiki.toml another process is changing
Changing(s, d) == shell[s].pc \in {"loadwiki", "savewiki"} /\ shell[s].cmd.dir = d

FirstPc(op) == CASE op = "create" -> "prepare" [] op = "adopt" -> "adopt" [] op = "remove" -> "remove"
                 [] op = "default" -> "default" [] op = "setglobal" -> "setglobal"
                 [] op = "setwiki" -> "resolve"

Begin(s, c) ==
  /\ s \notin Working /\ runs.commands < MaxCommands
  /\ shell' = [shell EXCEPT ![s] = [Idle EXCEPT !.cmd = c, !.pc = FirstPc(c.op)]]
  /\ troubled' = (troubled \/ \E o \in Working : Meets(c, shell[o].cmd))
  /\ runs' = [runs EXCEPT !.commands = @ + 1]
  /\ UNCHANGED <<registry, home, twice, pointed>>

-----------------------------------------------------------------------------
(* Creating and registering a wiki *)

RootAsked(c) == IF c.root = "" THEN "content" ELSE c.root

\* the first entry found for the directory is this wiki's own
Rerun(g, c) ==
  \E i \in Housed(g, c.dir) : g.entries[i].name = c.name /\ \A j \in Housed(g, c.dir) : i <= j

\* the check for a re-run, the structure, git init and the first commit
Prepare(s) ==
  LET c == shell[s].cmd
      rerun == Rerun(registry, c) IN
  /\ shell[s].pc = "prepare"
  /\ IF Housed(registry, c.dir) = {} \/ rerun \/ c.force
     THEN /\ home' = [home EXCEPT ![c.dir] = IF rerun THEN Structure(@, RootAsked(c))
                                             ELSE [Structure(@, RootAsked(c)) EXCEPT !.git = TRUE]]
          /\ shell' = [shell EXCEPT ![s].pc = IF rerun THEN "hooks" ELSE "register", ![s].again = rerun]
     ELSE home' = [home EXCEPT ![c.dir].there = TRUE] /\ Tell(s, "refused")
  /\ UNCHANGED <<registry, settingsHistory>>

\* validate_content_root: no reserved directory, and one that is there
RootAdmitted(h, root) == root \in h.roots /\ root # "schemas"

\* register_existing, up to its call of register
Adopt(s) ==
  LET c == shell[s].cmd
      h == home[c.dir]
      root == IF c.root # "" THEN c.root ELSE IF h.stated THEN h.root ELSE "content"
      admitted == /\ h.there
                  /\ c.root # "" /\ h.stated => c.root = h.root
                  /\ RootAdmitted(h, root) IN
  /\ shell[s].pc = "adopt"
  /\ home' = IF admitted THEN [home EXCEPT ![c.dir] = Structure(@, root)] ELSE home
  /\ IF admitted /\ ~IsRegistered(registry, c.name) THEN Proceed(s, "register")
     ELSE Tell(s, IF admitted THEN "ok" ELSE "refused")
  /\ UNCHANGED <<registry, settingsHistory>>

Register(s) ==
  LET c == shell[s].cmd IN
  /\ shell[s].pc = "register"
  /\ IF IsRegistered(registry, c.name) /\ (c.force => c.op = "adopt") THEN Tell(s, "refused")
     ELSE Hold(s, Entered(registry, c.name, c.dir), IF c.op = "create" THEN "hooks" ELSE "rest")
  /\ UNCHANGED <<registry, home, settingsHistory>>

InstallHooks(s) ==
  LET c == shell[s].cmd IN
  /\ shell[s].pc = "hooks"
  /\ home' = [home EXCEPT ![c.dir] = Hooked(@, c.name)]
  /\ Proceed(s, "rebuild")
  /\ UNCHANGED <<registry, settingsHistory>>

\* a re-run returns before the default is set
AfterProvision(r) == IF r.cmd.flag /\ ~r.again THEN "default" ELSE "rest"

\* provision_admission's second half: catch-up on read is switched on
TurnOnRebuild(s) ==
  LET next == AfterProvision(shell[s]) IN
  /\ shell[s].pc = "rebuild"
  /\ IF registry.set["auto_rebuild"] = BuiltIn
     THEN Hold(s, [registry EXCEPT !.set["auto_rebuild"] = 1], next)
     ELSE IF next = "rest" THEN Tell(s, "ok") ELSE Proceed(s, next)
  /\ UNCHANGED <<registry, home, settingsHistory>>

SetDefaultWiki(s) ==
  LET c == shell[s].cmd IN
  /\ shell[s].pc = "default"
  /\ IF IsRegistered(registry, c.name) THEN Hold(s, [registry EXCEPT !.default = c.name], "rest")
     ELSE Tell(s, "refused")
  /\ UNCHANGED <<registry, home, settingsHistory>>

\* save_global: the whole file, as this process has it
SaveGlobal(s) ==
  LET r == shell[s] IN
  /\ r.pc = "save"
  /\ registry' = r.copy
  /\ IF r.then = "rest" THEN Tell(s, "ok") ELSE Proceed(s, r.then)
  /\ twice' = twice \cup {d \in Dirs : \E i, j \in Housed(r.copy, d) : i # j}
  /\ pointed' = (pointed \/ (r.cmd.op = "setglobal" /\ r.cmd.key = "default_wiki"))
  /\ UNCHANGED <<home, troubled, runs>>

-----------------------------------------------------------------------------
(* Removing one: the directory goes first, then the entry *)

Unregister(s) ==
  LET c == shell[s].cmd IN
  /\ shell[s].pc = "remove"
  /\ IF registry.default = c.name \/ ~IsRegistered(registry, c.name) THEN Tell(s, "refused")
     ELSE shell' = [shell EXCEPT ![s].copy = Struck(registry, c.name), ![s].pc = IF c.flag THEN "erase" ELSE "save",
                                 ![s].cmd.dir = DirOf(registry, c.name)]
  /\ UNCHANGED <<registry, home, settingsHistory>>

Erase(s) ==
  /\ shell[s].pc = "erase"
  /\ home' = [home EXCEPT ![shell[s].cmd.dir] = NoHome]
  /\ Proceed(s, "save")
  /\ UNCHANGED <<registry, settingsHistory>>

-----------------------------------------------------------------------------
(* Setting a key *)

SetGlobal(s) ==
  LET c == shell[s].cmd IN
  /\ shell[s].pc = "setglobal"
  /\ IF c.key \in SettingKeys \cup {"default_wiki"} /\ Parses(c)
     THEN Hold(s, SetGlobalValue(registry, c), "rest")
     ELSE Tell(s, "refused")
  /\ UNCHANGED <<registry, home, settingsHistory>>

Resolve(s) ==
  /\ shell[s].pc = "resolve"
  /\ IF Aimed(shell[s].cmd) = {} THEN Tell(s, "refused") /\ UNCHANGED troubled
     ELSE \E d \in Aimed(shell[s].cmd) :
             /\ shell' = [shell EXCEPT ![s].cmd.dir = d, ![s].pc = "loadwiki"]
             /\ troubled' = (troubled \/ \E o \in Shells : Changing(o, d))
  /\ UNCHANGED <<registry, home, twice, pointed, runs>>

\* global-only keys are refused here
LoadWiki(s) ==
  LET c == shell[s].cmd IN
  /\ shell[s].pc = "loadwiki"
  /\ IF c.key \in WikiKeys /\ Parses(c)
     THEN shell' = [shell EXCEPT ![s].own = SetWikiValue(home[c.dir].own, c.key, c.value), ![s].pc = "savewiki"]
     ELSE Tell(s, "refused")
  /\ UNCHANGED <<registry, home, settingsHistory>>

\* what is saved states its content root
SaveWiki(s) ==
  LET d == shell[s].cmd.dir IN
  /\ shell[s].pc = "savewiki"
  /\ IF home[d].there
     THEN /\ home' = [home EXCEPT ![d].toml = TRUE, ![d].stated = TRUE, ![d].own = shell[s].own]
          /\ Tell(s, "ok")
     ELSE Tell(s, "refused") /\ UNCHANGED home
  /\ UNCHANGED <<registry, settingsHistory>>

-----------------------------------------------------------------------------
ShellDies(s) ==
  /\ s \in Working /\ runs.deaths < MaxDeaths
  /\ shell' = [shell EXCEPT ![s] = Idle]
  /\ runs' = [runs EXCEPT !.deaths = @ + 1]
  /\ UNCHANGED <<registry, home, troubled, twice, pointed>>

InitSettings ==
  /\ registry = EmptyRegistry
  /\ home \in FirstHomes
  /\ shell = [s \in Shells |-> Idle]
  /\ troubled = FALSE /\ twice = {} /\ pointed = FALSE
  /\ runs = [commands |-> 0, deaths |-> 0]

NextSettings ==
  \E s \in Shells :
     \/ \E c \in Commands : Begin(s, c)
     \/ Prepare(s) \/ Adopt(s) \/ Register(s) \/ InstallHooks(s) \/ TurnOnRebuild(s)
     \/ SetDefaultWiki(s) \/ SaveGlobal(s) \/ Unregister(s) \/ Erase(s)
     \/ SetGlobal(s) \/ Resolve(s) \/ LoadWiki(s) \/ SaveWiki(s) \/ ShellDies(s)

SettingsSpec == InitSettings /\ [][NextSettings]_settingsVars

-----------------------------------------------------------------------------
NamesAreUnique ==
  \A i, j \in Kept(registry) : registry.entries[i].name = registry.entries[j].name => i = j

DefaultIsThere == registry.default = NoTitle \/ IsRegistered(registry, registry.default)

\* A removal deletes the directory before it strikes the entry, and asks
\* nothing of a second name of the directory.
EntriesAreHoused ==
  Working = {} /\ runs.deaths = 0
    => \A i \in Kept(registry) :
          home[registry.entries[i].dir].there \/ registry.entries[i].dir \in twice

RegistryIsSound == NamesAreUnique /\ (troubled \/ ((pointed \/ DefaultIsThere) /\ EntriesAreHoused))

\* the step of this process that writes key k where wiki d reads it
Wrote(s, d, k) ==
  LET r == shell[s] IN
  shell'[s] # r /\
  \/ r.pc = "save" /\ r.cmd.op = "setglobal" /\ k = r.cmd.key /\ k \notin DOMAIN home[d].own
  \/ r.pc = "save" /\ r.cmd.op = "create" /\ k = "auto_rebuild"
  \/ r.pc = "savewiki" /\ r.cmd.dir = d /\ k = r.cmd.key
  \/ r.pc = "savewiki" /\ r.cmd.dir = d /\ k \in SectionOf(r.cmd.key) \ DOMAIN home[d].own
       /\ Effective(d, k)' = BuiltIn

OthersKeepTheirs ==
  \A d \in Dirs, k \in SettingKeys :
     home[d].toml /\ home'[d].toml /\ Effective(d, k)' # Effective(d, k)
       => \E s \in Shells : Wrote(s, d, k)

Promised(c, again) ==
  CASE c.op = "create" ->
         /\ Entry(c.name, c.dir) \in Range(registry.entries)
         /\ home[c.dir].toml /\ (home[c.dir].git => home[c.dir].hooks \in {c.name, UserHook})
         /\ registry.set["auto_rebuild"] = 1
         /\ c.flag => again \/ registry.default = c.name
    [] c.op = "adopt"     -> IsRegistered(registry, c.name) /\ home[c.dir].toml
    [] c.op = "remove"    -> ~IsRegistered(registry, c.name) /\ (c.flag => ~home[c.dir].there)
    [] c.op = "default"   -> registry.default = c.name
    [] c.op = "setglobal" -> c.key # "default_wiki" => GetShows(c.key) = c.value
    [] c.op = "setwiki"   -> Effective(c.dir, c.key) = c.value

\* The root a wiki serves exists, where no flag asked for another than its file
\* says; only `adopt` looks whether what the file says is there.
RootIsThere(c) ==
  LET h == home[c.dir] IN
  c.op \in {"create", "adopt"} /\ c.root = "" =>
     h.root \in h.roots \/ (c.op = "create" /\ h.stated /\ h.root # "content")

KeepsPromise ==
  \A s \in Working : shell'[s].pc = "rest" /\ shell'[s].told = "ok"
     => \A c \in {shell[s].cmd}, again \in {shell[s].again} : Promised(c, again)' /\ RootIsThere(c)'

\* Whatever commands are run, and wherever they die: names stay unique, the
\* default is a registered wiki unless it was set as a key, and an entry's
\* directory is there (registry.rs: remove, register, set_default_wiki).  A
\* change of one key moves no other key of any wiki, except that the first key
\* a wiki sets of a section fills the rest of it with built-in values
\* (config.rs: get_or_insert_with).  And a command that reported success left
\* what it promises, a `create` also when it is run again after a death
\* ("Idempotent on every path"), short of the default it was asked to set.
\* All of this until two commands that save the same file overlap.
SettingsHold ==
  [][/\ RegistryIsSound'
     /\ ~troubled' => OthersKeepTheirs /\ KeepsPromise]_settingsVars
=============================================================================

------------------------ MODULE ImplementationRegistry ------------------------
(***************************************************************************)
(* implementation_registry: before a strategy or the engine is imported,   *)
(* ImplementationRegistry walks the static imports of its source files as  *)
(* they are on disk (hashing.py: verify_static_source_closure), requires   *)
(* the walk to reach exactly the declared paths, and compares what it read *)
(* with the hash pinned in registry.py.  Files and distributions may       *)
(* change between two reads.                                               *)
(*                                                                         *)
(* A path is the sequence of names of a module, without ".py"; a package   *)
(* is its "__init__".  A source is [static, imports]: whether it parses    *)
(* and holds no dynamic execution, and its import statements, each         *)
(* [module, names, relative] ("import m" has no names).  A code hash is    *)
(* the function from paths to sources that it fingerprints.  The order in  *)
(* which a walk reads files is left open.                                  *)
(***************************************************************************)
EXTENDS Naturals, Sequences

CONSTANTS
    Package,      \* "quantverify"
    Catalog,      \* _PACKAGE_SOURCE_CATALOG
    Root,         \* the entry point's source of each implementation
    Sources,      \* what a path may hold
    Missing,      \* no file at a path
    Registries,   \* [disk, declared, pinned]: installations at start
    Runtimes, Reviewed,   \* installed versions; _REVIEWED_RUNTIME_COHORTS
    Facilities,   \* modules of dynamic import: importlib, builtins, ...
    MaxChanges,   \* bound of a model
    None

Implementations == DOMAIN Root
Names == Seq(STRING) \ {<<>>}
Statement == [module : Names, names : SUBSET STRING, relative : BOOLEAN]
Source == [static : BOOLEAN, imports : SUBSET Statement]
Refs == [genuine : BOOLEAN, runtime : Runtimes]

VARIABLES
    disk,        \* the source at each path
    runtime,     \* the versions that importlib.metadata reports
    declared, pinned,   \* _STRATEGY_SOURCES, ...; _DAILY_TREND_CODE_HASH, ...
    pc,          \* where the call is
    todo,        \* implementations it still has to verify
    requested,   \* the ref being resolved; None in verify_all
    pending,     \* pending of verify_static_source_closure
    contents,    \* contents; its domain is discovered
    verified,    \* implementations this call has verified
    call,        \* what the call was asked for
    quiet,       \* nothing has changed since the call began
    changes

tables == <<declared, pinned>>
walk   == <<pending, contents>>
steady == <<disk, runtime, tables, call, quiet, changes>>
vars   == <<disk, runtime, tables, pc, todo, requested, walk, verified, call, quiet, changes>>

Init ==
    /\ \E r \in Registries :
         disk = r.disk /\ declared = r.declared /\ pinned = r.pinned
    /\ runtime \in Runtimes
    /\ pc = "idle"
    /\ todo = <<>>
    /\ requested = None
    /\ pending = {} /\ contents = <<>>
    /\ verified = {}
    /\ call = [impls |-> {}, genuine |-> FALSE]
    /\ quiet = TRUE
    /\ changes = 0

-----------------------------------------------------------------------------
(* The closure *)

\* The __init__ files that importing the module at path runs.
Initializers(path) ==
    {Append(SubSeq(path, 1, n), "__init__") : n \in 1..(Len(path) - 1)}

SourcePath(module) ==
    IF module \in Catalog THEN module ELSE Append(module, "__init__")

\* Mutant: every imported name is taken for a module.
NamesAsModules(s) == {Append(s.module, n) : n \in s.names}

\* The imported names that are modules; the others are attributes.
Submodules(s) ==
    {m \in {Append(s.module, n) : n \in s.names} : SourcePath(m) \in Catalog}

\* Mutant: "from package import module" imports the package.
NamedModules(source) == {s.module : s \in source.imports}

ImportedModules(source) ==
    {s.module : s \in source.imports}
        \cup UNION {Submodules(s) : s \in source.imports}

ProjectSources(source) ==
    {SourcePath(m) : m \in {n \in ImportedModules(source) : n[1] = Package}}

Reached(source) ==
    UNION {Initializers(p) \cup {p} : p \in ProjectSources(source)}

\* The catalogue lists every package above its modules, and no name twice, as
\* a module and as a package.
ASSUME CatalogAssumption ==
    /\ Catalog \subseteq Names
    /\ \A p \in Catalog : Initializers(p) \subseteq Catalog /\ Append(p, "__init__") \notin Catalog
    /\ {"strategy", "engine"} \subseteq Implementations
    /\ \A i \in Implementations : Root[i] \in Catalog

ASSUME SourceAssumption ==
    /\ Missing \notin Source
    /\ Sources \subseteq Source
    /\ \A r \in Registries :
          /\ Catalog \subseteq DOMAIN r.disk
          /\ r.disk \in [DOMAIN r.disk -> Source \cup {Missing}]
          /\ \A i \in Implementations : r.pinned[i] \in [DOMAIN r.pinned[i] -> Source]

Admissible(source) ==
    /\ source # Missing
    /\ source.static
    /\ \A s \in source.imports : ~s.relative /\ s.module[1] \notin Facilities

\* contents once the source at p is read.
Read(p) == [x \in DOMAIN contents \cup {p} |-> IF x = p THEN disk[p] ELSE contents[x]]

-----------------------------------------------------------------------------
(* A call *)

Refuse ==
    /\ pc' = "refused"
    /\ todo' = <<>>
    /\ requested' = None
    /\ pending' = {} /\ contents' = <<>>
    /\ verified' = {}

Begin(impls, genuine) ==
    /\ pc \in {"idle", "resolved", "refused"}
    /\ call' = [impls |-> impls, genuine |-> genuine]
    /\ quiet' = TRUE
    /\ UNCHANGED <<disk, runtime, tables, changes>>

Enter(step, impls, ref) ==
    /\ pc' = step
    /\ todo' = impls
    /\ requested' = ref
    /\ verified' = {}
    /\ UNCHANGED walk

\* resolve_strategy, resolve_engine.
ResolveRef(i, ref) ==
    /\ Begin({i}, ref = [genuine |-> TRUE, runtime |-> runtime])
    /\ Enter("check", <<i>>, ref)

\* resolve_versions; the expected versions come out of the expected refs.
ResolveVersions(genuine) ==
    /\ Begin(Implementations, genuine)
    /\ IF genuine /\ runtime \in Reviewed
       THEN Enter("ask", <<"strategy", "engine">>, None)
       ELSE Refuse

VerifyAll ==
    /\ Begin(Implementations, TRUE)
    /\ IF runtime \in Reviewed
       THEN Enter("open", <<"strategy", "engine">>, None)
       ELSE Refuse

\* self.daily_trend_ref, self.reference_engine_ref
Ask ==
    /\ pc = "ask"
    /\ IF runtime \in Reviewed
       THEN /\ requested' = [genuine |-> TRUE, runtime |-> runtime]
            /\ pc' = "check"
            /\ UNCHANGED <<todo, walk, verified>>
       ELSE Refuse
    /\ UNCHANGED steady

Check ==
    /\ pc = "check"
    /\ IF runtime \in Reviewed /\ requested = [genuine |-> TRUE, runtime |-> runtime]
       THEN pc' = "open" /\ UNCHANGED <<todo, requested, walk, verified>>
       ELSE Refuse
    /\ UNCHANGED steady

Open ==
    /\ pc = "open"
    /\ LET root == Root[Head(todo)] IN
       IF Initializers(root) \subseteq declared[Head(todo)]
       THEN /\ pc' = "walk"
            /\ pending' = Initializers(root) \cup {root}
            /\ contents' = <<>>
            /\ UNCHANGED <<todo, requested, verified>>
       ELSE Refuse
    /\ UNCHANGED steady

\* Mutant: the walk does not remember what it has read.
VisitAgain(p) ==
    /\ pc = "walk" /\ p \in pending
    /\ IF /\ p \in declared[Head(todo)]
          /\ Admissible(disk[p])
          /\ Reached(disk[p]) \subseteq declared[Head(todo)]
          /\ ProjectSources(disk[p]) \subseteq Catalog
       THEN /\ contents' = Read(p)
            /\ pending' = (pending \ {p}) \cup Reached(disk[p])
            /\ UNCHANGED <<pc, todo, requested, verified>>
       ELSE Refuse
    /\ UNCHANGED steady

Visit(p) ==
    /\ pc = "walk" /\ p \in pending
    /\ IF /\ p \in declared[Head(todo)]
          /\ Admissible(disk[p])
          /\ Reached(disk[p]) \subseteq declared[Head(todo)]
          /\ ProjectSources(disk[p]) \subseteq Catalog
       THEN /\ contents' = Read(p)
            /\ pending' = (pending \cup Reached(disk[p])) \ DOMAIN contents'
            /\ UNCHANGED <<pc, todo, requested, verified>>
       ELSE Refuse
    /\ UNCHANGED steady

Compare ==
    /\ pc = "walk" /\ pending = {}
    /\ IF /\ DOMAIN contents = declared[Head(todo)]
          /\ contents = pinned[Head(todo)]
       THEN /\ verified' = verified \cup {Head(todo)}
            /\ todo' = Tail(todo)
            /\ pc' = IF Len(todo) = 1 THEN "resolved"
                     ELSE IF requested = None THEN "open" ELSE "ask"
            /\ requested' = None
            /\ UNCHANGED walk
       ELSE Refuse
    /\ UNCHANGED steady

CallStep == Ask \/ Check \/ Open \/ Compare \/ \E p \in pending : Visit(p)

-----------------------------------------------------------------------------
(* The environment *)

Change ==
    /\ changes < MaxChanges
    /\ changes' = changes + 1
    /\ quiet' = FALSE
    /\ UNCHANGED <<tables, pc, todo, requested, walk, verified, call>>

\* Somebody installs another version of a file, or removes it.
Edit(p, source) ==
    /\ Change
    /\ source # disk[p]
    /\ disk' = [disk EXCEPT ![p] = source]
    /\ UNCHANGED runtime

Upgrade(r) == Change /\ runtime' = r /\ r # runtime /\ UNCHANGED disk

Next ==
    \/ \E i \in Implementations, ref \in Refs : ResolveRef(i, ref)
    \/ \E genuine \in BOOLEAN : ResolveVersions(genuine)
    \/ VerifyAll
    \/ CallStep
    \/ \E p \in DOMAIN disk, s \in Sources \cup {Missing} : Edit(p, s)
    \/ \E r \in Runtimes : Upgrade(r)

Spec == Init /\ [][Next]_vars /\ WF_vars(CallStep)

-----------------------------------------------------------------------------
(* Properties *)

\* The files Python runs to load a module: every package above it and the
\* module's own file; "from m import n" also loads m.n when there is one.
Runs(module, files) ==
    LET file(m) == IF Append(m, "__init__") \in files THEN Append(m, "__init__") ELSE m
    IN  {file(SubSeq(module, 1, n)) : n \in 1..Len(module)}

Loads(source, files) ==
    LET exists(m) == m \in files \/ Append(m, "__init__") \in files
        named == UNION {{Append(s.module, n) : n \in s.names} : s \in source.imports}
        all   == {s.module : s \in source.imports} \cup {m \in named : exists(m)}
    IN  UNION {Runs(m, files) : m \in {n \in all : n[1] = Package}}

\* The smallest set of files that holds the root's and what each of them loads.
Loaded(i, code) ==
    LET closed == {S \in SUBSET Catalog :
                     /\ Runs(Root[i], Catalog) \subseteq S
                     /\ \A p \in S \cap DOMAIN code : Loads(code[p], Catalog) \subseteq S}
    IN  {p \in Catalog : \A S \in closed : p \in S}

\* The code hash of a verified implementation covers exactly the project
\* files that Python runs when its entry point is imported, whatever paths the
\* table declares and whatever was edited during the walk.
PinsWhatRuns ==
    \A i \in verified : DOMAIN pinned[i] = Loaded(i, pinned[i])

\* An installation that is what the table pins, and pins all that runs.
Intact(i) ==
    /\ \A p \in DOMAIN pinned[i] : disk[p] = pinned[i][p] /\ Admissible(disk[p])
    /\ \A p \in DOMAIN pinned[i] : Loads(pinned[i][p], Catalog) \subseteq Catalog
    /\ declared[i] = DOMAIN pinned[i]
    /\ declared[i] = Loaded(i, pinned[i])

\* A request is refused only for a cause: with nothing changing under the call,
\* the ref is not the installed one, the versions are not reviewed, or one of
\* the files or the table is not what the hash pins.
RefusalHasCause ==
    pc = "refused" /\ quiet => \/ ~call.genuine
                               \/ runtime \notin Reviewed
                               \/ \E i \in call.impls : ~Intact(i)

\* A walk ends, although packages import their modules and modules their
\* packages, and files change under it.
CallsEnd == pc = "walk" ~> pc \in {"resolved", "refused"}
=============================================================================

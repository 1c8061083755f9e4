--------------------------- MODULE RegistryProofs ---------------------------
(***************************************************************************)
(* ImplementationRegistry, for any catalogue, tables, sources and number   *)
(* of edits: a verified implementation was hashed over exactly the project *)
(* files that importing it runs, and a sound request is not refused.       *)
(* RunIdentity, for any specs: every form in which decimals are hashed     *)
(* identifies the same numbers, and a spec's id the same runs.             *)
(***************************************************************************)
EXTENDS RunPinWorlds, SequenceTheorems, WellFoundedInduction, TLAPS

-----------------------------------------------------------------------------
(* What the walk follows is what Python loads *)

\* A name that the catalogue has: importing it runs the initializers of the
\* source it stands for, and that source.
LEMMA RunsInitializers ==
    ASSUME NEW m \in Names, SourcePath(m) \in Catalog
    PROVE  Runs(m, Catalog) = Initializers(SourcePath(m)) \cup {SourcePath(m)}
  <1> DEFINE up(n) == SubSeq(m, 1, n)
             file(x) == IF Append(x, "__init__") \in Catalog THEN Append(x, "__init__") ELSE x
  <1>1. m \in Seq(STRING) /\ Len(m) \in Nat /\ Len(m) >= 1 /\ up(Len(m)) = m
    BY DEF Names
  <1>2. Runs(m, Catalog) = {file(up(n)) : n \in 1 .. Len(m)}
    BY DEF Runs
  <1>3. Initializers(SourcePath(m)) \subseteq Catalog /\ Append(SourcePath(m), "__init__") \notin Catalog
    BY CatalogAssumption
  <1>4. CASE m \in Catalog
    <2>1. SourcePath(m) = m
      BY <1>4 DEF SourcePath
    <2>2. Initializers(m) = {Append(up(n), "__init__") : n \in 1 .. (Len(m) - 1)}
      BY DEF Initializers
    <2>3. \A n \in 1 .. (Len(m) - 1) : file(up(n)) = Append(up(n), "__init__")
      BY <1>3, <2>1, <2>2
    <2>4. file(up(Len(m))) = m
      BY <1>1, <1>3, <2>1
    <2>5. \A n \in 1 .. Len(m) : n = Len(m) \/ n \in 1 .. (Len(m) - 1)
      <3>1. \A k \in Nat : \A n \in 1 .. k : n = k \/ n \in 1 .. (k - 1)
        OBVIOUS
      <3>2. QED
        BY <1>1, <3>1
    <2>6. Len(m) \in 1 .. Len(m) /\ \A n \in 1 .. (Len(m) - 1) : n \in 1 .. Len(m)
      BY <1>1
    <2> HIDE DEF up, file
    <2>7. Runs(m, Catalog) \subseteq Initializers(m) \cup {m}
      BY <1>2, <2>2, <2>3, <2>4, <2>5
    <2>8. Initializers(m) \cup {m} \subseteq Runs(m, Catalog)
      <3>1. m \in Runs(m, Catalog)
        BY <1>2, <2>4, <2>6
      <3>2. \A n \in 1 .. (Len(m) - 1) : Append(up(n), "__init__") \in Runs(m, Catalog)
        BY <1>2, <2>3, <2>6
      <3>3. QED
        BY <2>2, <3>1, <3>2
    <2>9. QED
      BY <2>1, <2>7, <2>8
  <1>5. CASE m \notin Catalog
    <2>1. SourcePath(m) = Append(m, "__init__")
      BY <1>5 DEF SourcePath
    <2>2. Len(SourcePath(m)) - 1 = Len(m)
      BY <1>1, <2>1
    <2>3. \A n \in 1 .. Len(m) : SubSeq(SourcePath(m), 1, n) = up(n)
      BY <1>1, <2>1
    <2>4. Initializers(SourcePath(m)) = {Append(up(n), "__init__") : n \in 1 .. Len(m)}
      BY <2>2, <2>3 DEF Initializers
    <2>5. \A n \in 1 .. Len(m) : file(up(n)) = Append(up(n), "__init__")
      BY <1>3, <2>4
    <2>6. SourcePath(m) \in Initializers(SourcePath(m))
      <3>1. Len(m) \in 1 .. Len(m) /\ Append(up(Len(m)), "__init__") = SourcePath(m)
        BY <1>1, <2>1
      <3> HIDE DEF up
      <3>2. QED
        BY <2>4, <3>1
    <2> HIDE DEF up, file
    <2>7. QED
      BY <1>2, <2>4, <2>5, <2>6
  <1>6. QED
    BY <1>4, <1>5

\* The names an import statement adds are those that are modules.
LEMMA ImportedAreNamed ==
    ASSUME NEW source \in Source
    PROVE  /\ ImportedModules(source) \subseteq Names
           /\ Loads(source, Catalog)
                = UNION {Runs(m, Catalog) : m \in {n \in ImportedModules(source) : n[1] = Package}}
  <1> DEFINE named == UNION {{Append(s.module, n) : n \in s.names} : s \in source.imports}
             exists(m) == m \in Catalog \/ Append(m, "__init__") \in Catalog
  <1>1. \A s \in source.imports : s.module \in Names /\ s.names \subseteq STRING
    BY DEF Source, Statement
  <1>2. named \subseteq Names
    BY <1>1 DEF Names
  <1>3. \A m : SourcePath(m) \in Catalog <=> exists(m)
    BY DEF SourcePath
  <1>4. UNION {Submodules(s) : s \in source.imports} = {m \in named : exists(m)}
    BY <1>3 DEF Submodules
  <1>5. ImportedModules(source) = {s.module : s \in source.imports} \cup {m \in named : exists(m)}
    BY <1>4 DEF ImportedModules
  <1>6. QED
    BY <1>1, <1>2, <1>5 DEF Loads

\* A source whose project imports the catalogue all has: the paths that the
\* walk adds are the files that Python runs.
LEMMA ReachedIsLoaded ==
    ASSUME NEW source \in Source, ProjectSources(source) \subseteq Catalog
    PROVE  Reached(source) = Loads(source, Catalog)
  <1> DEFINE project == {n \in ImportedModules(source) : n[1] = Package}
  <1>1. \A m \in project : m \in Names /\ SourcePath(m) \in Catalog
    BY ImportedAreNamed DEF ProjectSources
  <1>2. \A m \in project :
          Runs(m, Catalog) = Initializers(SourcePath(m)) \cup {SourcePath(m)}
    BY <1>1, RunsInitializers
  <1>3. Reached(source)
          = UNION {Initializers(SourcePath(m)) \cup {SourcePath(m)} : m \in project}
    BY DEF Reached, ProjectSources
  <1>4. QED
    BY <1>2, <1>3, ImportedAreNamed

\* ... and the catalogue has all that Python runs only then.
LEMMA LoadedIsListed ==
    ASSUME NEW source \in Source, Loads(source, Catalog) \subseteq Catalog
    PROVE  ProjectSources(source) \subseteq Catalog
  <1> SUFFICES ASSUME NEW m \in ImportedModules(source), m[1] = Package
               PROVE  SourcePath(m) \in Catalog
    BY DEF ProjectSources
  <1>1. m \in Seq(STRING) /\ Len(m) \in 1 .. Len(m) /\ SubSeq(m, 1, Len(m)) = m
    BY ImportedAreNamed DEF Names
  <1>2. Runs(m, Catalog) \subseteq Catalog
    BY ImportedAreNamed
  <1>3. m \in Catalog \/ Append(m, "__init__") \in Catalog
    BY <1>1, <1>2 DEF Runs
  <1>4. QED
    BY <1>3 DEF SourcePath

-----------------------------------------------------------------------------
(* The inductive invariant *)

Typed ==
    /\ Catalog \subseteq DOMAIN disk
    /\ disk \in [DOMAIN disk -> Source \cup {Missing}]
    /\ \A i \in Implementations : pinned[i] \in [DOMAIN pinned[i] -> Source]
    /\ call.impls \subseteq Implementations
    /\ todo \in Seq(call.impls)
    /\ pc \in {"ask", "check", "open", "walk"} => todo # <<>>

\* The sources that the walk has found so far, from those of the entry point.
Entry(i) == Initializers(Root[i]) \cup {Root[i]}
Found == pending \cup DOMAIN contents

\* A set of sources that loading the entry point could stay within, as far as
\* they have been read.
Encloses(S) ==
    /\ S \subseteq Catalog
    /\ Entry(Head(todo)) \subseteq S
    /\ \A p \in S \cap DOMAIN contents : Reached(contents[p]) \subseteq S

\* The walk has found what it must, and nothing that it need not have.
WalkInv ==
    pc = "walk" =>
        /\ Found \subseteq Catalog /\ pending \cap DOMAIN contents = {}
        /\ contents \in [DOMAIN contents -> Source]
        /\ Entry(Head(todo)) \subseteq Found
        /\ \A p \in DOMAIN contents :
              ProjectSources(contents[p]) \subseteq Catalog /\ Reached(contents[p]) \subseteq Found
        /\ \A S \in SUBSET Catalog : Encloses(S) => Found \subseteq S

\* What a request needs to succeed, and how far it then is.
Sound ==
    call.genuine /\ quiet /\ runtime \in Reviewed /\ \A i \in call.impls : Intact(i)

SoundInv ==
    Sound =>
        /\ pc # "refused"
        /\ pc = "check" => requested = [genuine |-> TRUE, runtime |-> runtime]
        /\ pc = "walk" =>
              /\ Found \subseteq declared[Head(todo)]
              /\ \A p \in DOMAIN contents : contents[p] = pinned[Head(todo)][p]

-----------------------------------------------------------------------------
(* What the invariant rests on *)

\* Loading an entry point runs what the walk starts from.
LEMMA RootIsEntry ==
    ASSUME NEW i \in Implementations
    PROVE  Runs(Root[i], Catalog) = Entry(i) /\ Entry(i) \subseteq Catalog
  <1>1. Root[i] \in Names /\ SourcePath(Root[i]) = Root[i] /\ Root[i] \in Catalog
    BY CatalogAssumption DEF SourcePath
  <1>2. Initializers(Root[i]) \subseteq Catalog
    BY <1>1, CatalogAssumption
  <1>3. QED
    BY <1>1, <1>2, RunsInitializers DEF Entry

\* A finished walk: what was read is what Python loads of it.
LEMMA FinishedWalk ==
    ASSUME Typed, WalkInv, pc = "walk", pending = {}
    PROVE  DOMAIN contents = Loaded(Head(todo), contents)
  <1> DEFINE i == Head(todo)
             closed == {S \in SUBSET Catalog :
                          /\ Runs(Root[i], Catalog) \subseteq S
                          /\ \A p \in S \cap DOMAIN contents : Loads(contents[p], Catalog) \subseteq S}
  <1>1. i \in Implementations
    BY DEF Typed
  <1>2. Found = DOMAIN contents
    BY DEF Found
  <1>3. \A p \in DOMAIN contents : Reached(contents[p]) = Loads(contents[p], Catalog)
    BY ReachedIsLoaded DEF WalkInv
  <1>4. Entry(i) = Runs(Root[i], Catalog)
    BY <1>1, RootIsEntry
  <1>5. DOMAIN contents \in closed
    BY <1>2, <1>3, <1>4 DEF WalkInv
  <1>6. \A S \in closed : DOMAIN contents \subseteq S
    <2> SUFFICES ASSUME NEW S \in closed  PROVE DOMAIN contents \subseteq S
      OBVIOUS
    <2>1. Encloses(S)
      BY <1>3, <1>4 DEF Encloses
    <2>2. QED
      BY <1>2, <2>1 DEF WalkInv
  <1>7. Loaded(i, contents) = {p \in Catalog : \A S \in closed : p \in S}
    BY DEF Loaded
  <1>8. DOMAIN contents \subseteq Catalog
    BY <1>2 DEF WalkInv
  <1> HIDE DEF closed
  <1>9. QED
    BY <1>5, <1>6, <1>7, <1>8

\* What a hash covers has the entry point's files, and those that its sources
\* load from the catalogue.
LEMMA LoadedIsClosed ==
    ASSUME NEW i \in Implementations, NEW code
    PROVE  /\ Entry(i) \subseteq Loaded(i, code)
           /\ \A p \in Loaded(i, code) \cap DOMAIN code :
                 Loads(code[p], Catalog) \subseteq Catalog =>
                    Loads(code[p], Catalog) \subseteq Loaded(i, code)
  BY RootIsEntry DEF Loaded

\* ... and is no more than any catalogued set of files that has them.
LEMMA LoadedIsLeast ==
    ASSUME NEW i \in Implementations, NEW code, NEW S \in SUBSET Catalog,
           Entry(i) \subseteq S,
           \A p \in S \cap DOMAIN code : Loads(code[p], Catalog) \subseteq S
    PROVE  Loaded(i, code) \subseteq S
  BY RootIsEntry DEF Loaded

-----------------------------------------------------------------------------
(* Typed, step by step *)

\* A call that ends, refused or resolved, has nothing left to walk.
LEMMA RefuseKeeps ==
    ASSUME Typed, Refuse, UNCHANGED steady
    PROVE  Typed' /\ WalkInv' /\ verified' = {}
  BY DEF Typed, WalkInv, Refuse, steady, tables

LEMMA BeginTyped ==
    ASSUME Typed, NEW impls \in SUBSET Implementations, NEW genuine, Begin(impls, genuine),
           \/ Refuse
           \/ \E ref : \E step \in {"ask", "check", "open"}, list \in Seq(impls) :
                 list # <<>> /\ Enter(step, list, ref)
    PROVE  Typed' /\ WalkInv' /\ verified' = {}
  <1>1. UNCHANGED <<disk, pinned>> /\ call'.impls = impls
    BY DEF Begin, tables
  <1>2. /\ todo' \in Seq(impls) /\ verified' = {} /\ pc' # "walk"
        /\ pc' \in {"ask", "check", "open"} => todo' # <<>>
    BY EmptySeq DEF Enter, Refuse
  <1>3. Typed'
    BY <1>1, <1>2 DEF Typed
  <1>4. QED
    BY <1>2, <1>3 DEF WalkInv

\* The requests enter the call the way BeginTyped assumes.
LEMMA RequestsTyped ==
    ASSUME Typed,
           \/ \E i \in Implementations, ref \in Refs : ResolveRef(i, ref)
           \/ \E genuine \in BOOLEAN : ResolveVersions(genuine)
           \/ VerifyAll
    PROVE  Typed' /\ WalkInv' /\ verified' = {}
  <1>1. <<"strategy", "engine">> \in Seq(Implementations) /\ <<"strategy", "engine">> # <<>>
    BY CatalogAssumption
  <1>2. ASSUME NEW i \in Implementations, NEW ref \in Refs, ResolveRef(i, ref)
        PROVE  Typed' /\ WalkInv' /\ verified' = {}
    <2>1. <<i>> \in Seq({i}) /\ <<i>> # <<>> /\ {i} \in SUBSET Implementations
      OBVIOUS
    <2>2. QED
      BY <1>2, <2>1, BeginTyped DEF ResolveRef
  <1>3. ASSUME NEW genuine \in BOOLEAN, ResolveVersions(genuine)
        PROVE  Typed' /\ WalkInv' /\ verified' = {}
    BY <1>1, <1>3, BeginTyped DEF ResolveVersions
  <1>4. ASSUME VerifyAll
        PROVE  Typed' /\ WalkInv' /\ verified' = {}
    BY <1>1, <1>4, BeginTyped DEF VerifyAll
  <1>5. QED
    BY <1>2, <1>3, <1>4

LEMMA OpenKeeps ==
    ASSUME Typed, WalkInv, Open
    PROVE  Typed' /\ WalkInv' /\ verified' \subseteq verified
  <1> DEFINE i == Head(todo)
  <1>1. CASE Refuse
    BY <1>1, RefuseKeeps DEF Open
  <1>2. CASE ~Refuse
    <2>1. /\ pc = "open" /\ pc' = "walk" /\ pending' = Entry(i) /\ contents' = <<>>
          /\ UNCHANGED <<todo, requested, verified>> /\ UNCHANGED steady
      BY <1>2 DEF Open, Entry
    <2>2. Typed'
      BY <2>1 DEF Typed, steady, tables
    <2>3. Entry(i) \subseteq Catalog
      BY RootIsEntry DEF Typed, Open
    <2>4. DOMAIN contents' = {} /\ contents' \in [{} -> Source] /\ Found' = Entry(i)
      BY <2>1 DEF Found
    <2>5. \A S \in SUBSET Catalog : Encloses(S)' => Found' \subseteq S
      BY <2>1, <2>4 DEF Encloses
    <2>6. WalkInv'
      BY <2>1, <2>3, <2>4, <2>5 DEF WalkInv
    <2>7. QED
      BY <2>1, <2>2, <2>6
  <1>3. QED
    BY <1>1, <1>2

\* The walk reads a source it has found, and finds what that source reaches.
LEMMA VisitKeeps ==
    ASSUME Typed, WalkInv, NEW p \in pending, Visit(p)
    PROVE  Typed' /\ WalkInv' /\ verified' \subseteq verified
  <1> DEFINE i == Head(todo)
  <1>1. CASE Refuse
    BY <1>1, RefuseKeeps DEF Visit
  <1>2. CASE ~Refuse
    <2>1. /\ pc = "walk" /\ disk[p] # Missing /\ ProjectSources(disk[p]) \subseteq Catalog
          /\ contents' = Read(p)
          /\ pending' = (pending \cup Reached(disk[p])) \ DOMAIN contents'
          /\ UNCHANGED <<pc, todo, requested, verified>> /\ UNCHANGED steady
      BY <1>2 DEF Visit, Admissible
    <2>2. Typed'
      BY <2>1 DEF Typed, steady, tables
    <2>3. p \in Catalog /\ p \notin DOMAIN contents
      BY <2>1 DEF WalkInv, Found
    <2>4. disk[p] \in Source
      BY <2>1, <2>3 DEF Typed
    <2>5. /\ DOMAIN contents' = DOMAIN contents \cup {p}
          /\ contents'[p] = disk[p]
          /\ \A q \in DOMAIN contents : contents'[q] = contents[q]
      BY <2>1, <2>3 DEF Read
    <2>6. Found' = Found \cup Reached(disk[p])
      BY <2>1, <2>5 DEF Found
    <2>7. Reached(disk[p]) \subseteq Catalog
      BY <2>1, CatalogAssumption DEF Reached
    <2>8. contents' \in [DOMAIN contents' -> Source]
      BY <2>1, <2>4, <2>5 DEF WalkInv, Read
    <2>9. \A q \in DOMAIN contents' :
             ProjectSources(contents'[q]) \subseteq Catalog /\ Reached(contents'[q]) \subseteq Found'
      BY <2>1, <2>5, <2>6 DEF WalkInv
    <2>10. \A S \in SUBSET Catalog : Encloses(S)' => Found' \subseteq S
      <3> SUFFICES ASSUME NEW S \in SUBSET Catalog, Encloses(S)'  PROVE Found' \subseteq S
        OBVIOUS
      <3>1. Encloses(S)
        BY <2>1, <2>5 DEF Encloses
      <3>2. Found \subseteq S
        BY <2>1, <3>1 DEF WalkInv
      <3>3. Reached(disk[p]) \subseteq S
        BY <2>5, <3>2 DEF Encloses, Found
      <3>4. QED
        BY <2>6, <3>2, <3>3
    <2>11. WalkInv'
      BY <2>1, <2>5, <2>6, <2>7, <2>8, <2>9, <2>10 DEF WalkInv
    <2>12. QED
      BY <2>1, <2>2, <2>11
  <1>3. QED
    BY <1>1, <1>2

LEMMA CompareKeeps ==
    ASSUME Typed, WalkInv, Compare
    PROVE  /\ Typed' /\ WalkInv'
           /\ \A i \in verified' \ verified : DOMAIN pinned[i] = Loaded(i, pinned[i])
  <1> DEFINE i == Head(todo)
  <1>1. CASE Refuse
    BY <1>1, RefuseKeeps DEF Compare
  <1>2. CASE ~Refuse
    <2>1. /\ pc = "walk" /\ pending = {} /\ contents = pinned[i]
          /\ verified' = verified \cup {i} /\ todo' = Tail(todo)
          /\ pc' = IF Len(todo) = 1 THEN "resolved" ELSE IF requested = None THEN "open" ELSE "ask"
          /\ UNCHANGED steady
      BY <1>2 DEF Compare
    <2>2. todo \in Seq(call.impls) /\ todo # <<>>
      BY <2>1 DEF Typed
    <2>3. Tail(todo) \in Seq(call.impls) /\ (Len(todo) # 1 => Tail(todo) # <<>>)
      <3>1. Tail(todo) \in Seq(call.impls) /\ Len(Tail(todo)) = Len(todo) - 1
        BY <2>2, HeadTailProperties
      <3>2. Len(todo) \in Nat /\ Len(todo) # 0 /\ Len(<<>>) = 0
        BY <2>2, EmptySeq
      <3>3. Len(todo) # 1 => Len(Tail(todo)) # Len(<<>>)
        BY <3>1, <3>2
      <3>4. QED
        BY <3>1, <3>3, Zenon
    <2>4. Typed'
      BY <2>1, <2>3 DEF Typed, steady, tables
    <2>5. WalkInv'
      BY <2>1 DEF WalkInv
    <2>6. DOMAIN pinned[i] = Loaded(i, pinned[i])
      BY <2>1, FinishedWalk
    <2>7. QED
      BY <2>1, <2>4, <2>5, <2>6
  <1>3. QED
    BY <1>1, <1>2

\* An edit leaves a walk with what it has read.
LEMMA ChangeKeeps ==
    ASSUME Typed, WalkInv,
           \/ \E p \in DOMAIN disk, s \in Sources \cup {Missing} : Edit(p, s)
           \/ \E r \in Runtimes : Upgrade(r)
    PROVE  Typed' /\ WalkInv' /\ verified' \subseteq verified
  <1>1. UNCHANGED <<tables, pc, todo, walk, verified, call>>
    BY DEF Edit, Upgrade, Change
  <1>2. disk' \in [DOMAIN disk -> Source \cup {Missing}]
    BY SourceAssumption DEF Typed, Edit, Upgrade
  <1>3. Typed'
    BY <1>1, <1>2 DEF Typed, tables
  <1>4. WalkInv'
    BY <1>1 DEF WalkInv, Found, Encloses, walk, tables
  <1>5. QED
    BY <1>1, <1>3, <1>4

-----------------------------------------------------------------------------
(* What is verified *)

LEMMA InitHolds ==
    ASSUME Init
    PROVE  Typed /\ WalkInv /\ PinsWhatRuns /\ SoundInv
  <1>1. PICK r \in Registries : disk = r.disk /\ pinned = r.pinned
    BY DEF Init
  <1>2. call.impls = {} /\ todo \in Seq(call.impls)
    BY EmptySeq DEF Init
  <1>3. Typed
    BY <1>1, <1>2, SourceAssumption DEF Typed, Init
  <1>4. QED
    BY <1>3 DEF Init, WalkInv, PinsWhatRuns, SoundInv

LEMMA NextKeeps ==
    ASSUME Typed, WalkInv, [Next]_vars
    PROVE  /\ Typed' /\ WalkInv' /\ pinned' = pinned
           /\ \A i \in verified' \ verified : DOMAIN pinned[i] = Loaded(i, pinned[i])
  <1> DEFINE Kept == /\ Typed' /\ WalkInv' /\ pinned' = pinned
                     /\ \A i \in verified' \ verified : DOMAIN pinned[i] = Loaded(i, pinned[i])
  <1>1. pinned' = pinned
    BY DEF Next, vars, tables, steady, CallStep, ResolveRef, ResolveVersions, VerifyAll, Begin,
           Ask, Check, Open, Compare, Visit, Edit, Upgrade, Change
  <1>2. CASE \/ \E i \in Implementations, ref \in Refs : ResolveRef(i, ref)
             \/ \E genuine \in BOOLEAN : ResolveVersions(genuine)
             \/ VerifyAll
    BY <1>1, <1>2, RequestsTyped
  <1>3. CASE Ask \/ Check
    <2>1. CASE Refuse
      BY <1>1, <1>3, <2>1, RefuseKeeps DEF Ask, Check
    <2>2. CASE ~Refuse
      <3>1. /\ UNCHANGED <<disk, pinned, call, todo, verified>>
            /\ pc \in {"ask", "check"} /\ pc' \in {"check", "open"}
        BY <1>3, <2>2 DEF Ask, Check, steady, tables
      <3>2. QED
        BY <1>1, <3>1 DEF Typed, WalkInv
    <2>3. QED
      BY <2>1, <2>2
  <1>4. CASE Open
    BY <1>1, <1>4, OpenKeeps
  <1>5. CASE Compare
    BY <1>1, <1>5, CompareKeeps
  <1>6. CASE \E p \in pending : Visit(p)
    BY <1>1, <1>6, VisitKeeps
  <1>7. CASE \/ \E p \in DOMAIN disk, s \in Sources \cup {Missing} : Edit(p, s)
             \/ \E r \in Runtimes : Upgrade(r)
    BY <1>1, <1>7, ChangeKeeps
  <1>8. CASE UNCHANGED vars
    BY <1>8 DEF vars, tables, walk, Typed, WalkInv, Found, Encloses
  <1>9. QED
    BY <1>2, <1>3, <1>4, <1>5, <1>6, <1>7, <1>8 DEF Next, CallStep

\* A verified implementation is hashed over exactly the project files that
\* importing its entry point runs, for any catalogue, any tables and any edits.
THEOREM VerifiedPinsWhatRuns == Spec => []PinsWhatRuns
  <1>1. Init => Typed /\ WalkInv /\ PinsWhatRuns
    BY InitHolds
  <1>2. Typed /\ WalkInv /\ PinsWhatRuns /\ [Next]_vars => (Typed /\ WalkInv /\ PinsWhatRuns)'
    <2> SUFFICES ASSUME Typed, WalkInv, PinsWhatRuns, [Next]_vars
                 PROVE  (Typed /\ WalkInv /\ PinsWhatRuns)'
      OBVIOUS
    <2>1. \A i \in verified' : DOMAIN pinned'[i] = Loaded(i, pinned'[i])
      BY NextKeeps DEF PinsWhatRuns
    <2>2. QED
      BY <2>1, NextKeeps DEF PinsWhatRuns
  <1>3. QED
    BY <1>1, <1>2, PTL DEF Spec

-----------------------------------------------------------------------------
(* What is refused *)

\* An intact installation declares the entry point's sources, and what each
\* source it declares reaches.
LEMMA IntactWalks ==
    ASSUME Typed, NEW i \in Implementations, Intact(i)
    PROVE  /\ Entry(i) \subseteq declared[i] /\ declared[i] = DOMAIN pinned[i]
           /\ \A p \in declared[i] :
                 /\ disk[p] = pinned[i][p] /\ disk[p] \in Source /\ Admissible(disk[p])
                 /\ ProjectSources(disk[p]) \subseteq Catalog
                 /\ Reached(disk[p]) = Loads(disk[p], Catalog)
                 /\ Reached(disk[p]) \subseteq declared[i]
  <1>1. declared[i] = DOMAIN pinned[i] /\ declared[i] = Loaded(i, pinned[i])
    BY DEF Intact
  <1>2. Entry(i) \subseteq declared[i]
    BY <1>1, LoadedIsClosed
  <1>3. ASSUME NEW p \in declared[i]
        PROVE  /\ disk[p] = pinned[i][p] /\ disk[p] \in Source /\ Admissible(disk[p])
               /\ Loads(disk[p], Catalog) \subseteq Catalog
    BY <1>1 DEF Intact, Typed
  <1>4. ASSUME NEW p \in declared[i]
        PROVE  /\ ProjectSources(disk[p]) \subseteq Catalog
               /\ Reached(disk[p]) = Loads(disk[p], Catalog)
    BY <1>3, LoadedIsListed, ReachedIsLoaded
  <1>5. ASSUME NEW p \in declared[i]
        PROVE  Loads(disk[p], Catalog) \subseteq declared[i]
    <2>1. p \in Loaded(i, pinned[i]) \cap DOMAIN pinned[i] /\ disk[p] = pinned[i][p]
      BY <1>1, <1>3
    <2>2. Loads(pinned[i][p], Catalog) \subseteq Catalog
      BY <1>3, <2>1
    <2>3. Loads(pinned[i][p], Catalog) \subseteq Loaded(i, pinned[i])
      BY <2>1, <2>2, LoadedIsClosed
    <2>4. QED
      BY <1>1, <2>1, <2>3
  <1>6. QED
    BY <1>1, <1>2, <1>3, <1>4, <1>5

\* A sound request: its walk can be opened, can read what it finds, and ends
\* with what is pinned.
LEMMA SoundWalkEnds ==
    ASSUME Typed, WalkInv, SoundInv, Sound, pc = "walk", pending = {}
    PROVE  DOMAIN contents = declared[Head(todo)] /\ contents = pinned[Head(todo)]
  <1> DEFINE i == Head(todo)
  <1>1. i \in call.impls /\ i \in Implementations /\ Intact(i)
    BY HeadTailProperties DEF Typed, Sound
  <1>2. Found = DOMAIN contents
    BY DEF Found
  <1>3. DOMAIN contents \subseteq declared[i] /\ declared[i] = DOMAIN pinned[i]
    BY <1>1, <1>2, IntactWalks DEF SoundInv
  <1>4. \A p \in DOMAIN contents : contents[p] = pinned[i][p]
    BY DEF SoundInv
  <1>5. \A p \in DOMAIN contents \cap DOMAIN pinned[i] :
           Loads(pinned[i][p], Catalog) \subseteq DOMAIN contents
    BY <1>2, <1>4, ReachedIsLoaded DEF WalkInv
  <1>6. Loaded(i, pinned[i]) \subseteq DOMAIN contents
    BY <1>1, <1>2, <1>5, LoadedIsLeast DEF WalkInv
  <1>7. DOMAIN contents = DOMAIN pinned[i]
    BY <1>1, <1>3, <1>6 DEF Intact
  <1>8. contents \in [DOMAIN contents -> Source] /\ pinned[i] \in [DOMAIN pinned[i] -> Source]
    BY <1>1 DEF WalkInv, Typed
  <1>9. contents = pinned[i]
    BY <1>4, <1>7, <1>8
  <1>10. QED
    BY <1>3, <1>7, <1>9

\* A request goes wrong at its start only for one of the causes.
LEMMA RequestsAreSound ==
    ASSUME SoundInv,
           \/ \E i \in Implementations, ref \in Refs : ResolveRef(i, ref)
           \/ \E genuine \in BOOLEAN : ResolveVersions(genuine)
           \/ VerifyAll
    PROVE  SoundInv'
  <1>1. UNCHANGED runtime
    BY DEF ResolveRef, ResolveVersions, VerifyAll, Begin
  <1>2. ASSUME NEW i \in Implementations, NEW ref \in Refs, ResolveRef(i, ref)
        PROVE  SoundInv'
    <2>1. /\ pc' = "check" /\ requested' = ref
          /\ call'.genuine <=> (ref = [genuine |-> TRUE, runtime |-> runtime])
      BY <1>2 DEF ResolveRef, Begin, Enter
    <2>2. QED
      BY <1>1, <2>1 DEF SoundInv, Sound
  <1>3. ASSUME NEW genuine \in BOOLEAN, ResolveVersions(genuine)
        PROVE  SoundInv'
    <2>1. /\ call'.genuine = genuine
          /\ IF genuine /\ runtime \in Reviewed THEN pc' = "ask" ELSE pc' = "refused"
      BY <1>3 DEF ResolveVersions, Begin, Enter, Refuse
    <2>2. QED
      BY <1>1, <2>1 DEF SoundInv, Sound
  <1>4. ASSUME VerifyAll
        PROVE  SoundInv'
    <2>1. IF runtime \in Reviewed THEN pc' = "open" ELSE pc' = "refused"
      BY <1>4 DEF VerifyAll, Enter, Refuse
    <2>2. QED
      BY <1>1, <2>1 DEF SoundInv, Sound
  <1>5. QED
    BY <1>2, <1>3, <1>4

\* A sound call goes on: none of its steps refuses it.
LEMMA StepsAreSound ==
    ASSUME Typed, WalkInv, SoundInv, CallStep
    PROVE  SoundInv'
  <1> DEFINE i == Head(todo)
  <1>1. UNCHANGED <<disk, runtime, declared, pinned, call, quiet>>
    BY DEF CallStep, Ask, Check, Open, Compare, Visit, steady, tables
  <1>2. Sound' => Sound
    BY <1>1 DEF Sound, Intact
  <1> SUFFICES ASSUME Sound
               PROVE  /\ pc' # "refused"
                      /\ pc' = "check" => requested' = [genuine |-> TRUE, runtime |-> runtime]
                      /\ pc' = "walk" =>
                            /\ Found' \subseteq declared[Head(todo')]
                            /\ \A p \in DOMAIN contents' : contents'[p] = pinned[Head(todo')][p]
    BY <1>1, <1>2 DEF SoundInv
  <1>3. CASE Ask
    BY <1>3 DEF Ask, Sound
  <1>4. CASE Check
    BY <1>4 DEF Check, Sound, SoundInv
  <1>5. ASSUME pc \in {"open", "walk"}
        PROVE  /\ i \in call.impls /\ i \in Implementations
               /\ Entry(i) \subseteq declared[i] /\ declared[i] = DOMAIN pinned[i]
               /\ \A p \in declared[i] :
                     /\ disk[p] = pinned[i][p] /\ Admissible(disk[p])
                     /\ ProjectSources(disk[p]) \subseteq Catalog
                     /\ Reached(disk[p]) \subseteq declared[i]
    <2>1. i \in call.impls /\ i \in Implementations
      BY <1>5, HeadTailProperties DEF Typed
    <2>2. Intact(i)
      BY <2>1 DEF Sound
    <2>3. QED
      BY <2>1, <2>2, IntactWalks
  <1>6. CASE Open
    <2>1. /\ pc' = "walk" /\ pending' = Entry(i) /\ contents' = <<>> /\ todo' = todo
      BY <1>5, <1>6 DEF Open, Entry
    <2>2. QED
      BY <1>5, <1>6, <2>1 DEF Found, Open
  <1>7. CASE \E p \in pending : Visit(p)
    <2>1. PICK p \in pending : Visit(p)
      BY <1>7
    <2>2. pc = "walk" /\ p \in declared[i]
      BY <2>1 DEF Visit, SoundInv, Found
    <2>3. /\ pc' = "walk" /\ todo' = todo /\ contents' = Read(p)
          /\ pending' = (pending \cup Reached(disk[p])) \ DOMAIN contents'
      BY <1>5, <2>1, <2>2 DEF Visit
    <2>4. /\ DOMAIN contents' = DOMAIN contents \cup {p}
          /\ \A q \in DOMAIN contents' : contents'[q] = IF q = p THEN disk[p] ELSE contents[q]
      BY <2>3 DEF Read
    <2>5. Found' \subseteq declared[i]
      BY <1>5, <2>2, <2>3, <2>4 DEF SoundInv, Found
    <2>6. \A q \in DOMAIN contents' : contents'[q] = pinned[i][q]
      BY <1>5, <2>2, <2>4 DEF SoundInv
    <2>7. QED
      BY <2>3, <2>5, <2>6
  <1>8. CASE Compare
    <2>1. pc' # "refused" /\ pc' # "check" /\ pc' # "walk"
      BY <1>8, SoundWalkEnds DEF Compare
    <2>2. QED
      BY <2>1
  <1>9. QED
    BY <1>3, <1>4, <1>6, <1>7, <1>8 DEF CallStep

LEMMA NextSound ==
    ASSUME Typed, WalkInv, SoundInv, [Next]_vars
    PROVE  SoundInv'
  <1>1. CASE \/ \E p \in DOMAIN disk, s \in Sources \cup {Missing} : Edit(p, s)
             \/ \E r \in Runtimes : Upgrade(r)
    <2>1. ~quiet'
      BY <1>1 DEF Edit, Upgrade, Change
    <2>2. QED
      BY <2>1 DEF SoundInv, Sound
  <1>2. CASE UNCHANGED vars
    BY <1>2 DEF vars, tables, walk, SoundInv, Sound, Intact, Found
  <1>3. QED
    BY <1>1, <1>2, RequestsAreSound, StepsAreSound DEF Next

\* A request that is refused, with nothing changing under the call, has one of
\* the causes: no such ref, versions nobody reviewed, a file or a table that is
\* not what the hash pins.
THEOREM RefusalsHaveCauses == Spec => []RefusalHasCause
  <1>1. Init => Typed /\ WalkInv /\ SoundInv
    BY InitHolds
  <1>2. Typed /\ WalkInv /\ SoundInv /\ [Next]_vars => (Typed /\ WalkInv /\ SoundInv)'
    BY NextKeeps, NextSound
  <1>3. SoundInv => RefusalHasCause
    BY DEF SoundInv, Sound, RefusalHasCause
  <1>4. QED
    BY <1>1, <1>2, <1>3, PTL DEF Spec

-----------------------------------------------------------------------------
(* Recursions *)

LEMMA LeastNumber ==
    ASSUME NEW S, S \subseteq Nat, S # {}
    PROVE  \E m \in S : \A k \in S : m <= k
<1> DEFINE R == OpToRel(<, Nat)
<1>1. PICK m \in S : \A k \in S : ~ (<<k, m>> \in R)
  <2>1. IsWellFoundedOn(R, Nat)
    BY NatLessThanWellFounded
  <2> HIDE DEF R
  <2>2. QED
    BY <2>1, WFMin
<1>2. ASSUME NEW k \in S, k < m PROVE FALSE
  <2>1. <<k, m>> \in R
    BY <1>2 DEF OpToRel
  <2>2. QED
    BY <1>1, <2>1
<1>3. QED
  BY <1>2

\* What a recursion computes at x: a value of its own at the base, and what H
\* makes of the value at the next argument elsewhere.
Recurs(base, B, H, down, f, x) == f[x] = IF x \in base THEN B[x] ELSE H[<<x, f[down[x]]>>]

\* Where every call has a smaller argument there is such a function.
LEMMA RecursionExists ==
    ASSUME NEW D, NEW T, NEW base, NEW B \in [D -> T], NEW down \in [D -> D],
           NEW H \in [D \X T -> T], NEW m \in [D -> Nat],
           \A x \in D : x \notin base => m[down[x]] < m[x]
    PROVE  \E f \in [D -> T] : \A x \in D : Recurs(base, B, H, down, f, x)
<1> DEFINE Upto(n, f) == f \in [D -> T] /\ \A x \in D : m[x] <= n => Recurs(base, B, H, down, f, x)
           S == {n \in Nat : ~ \E f : Upto(n, f)}
<1>1. S = {}
  <2>1. SUFFICES ASSUME S # {} PROVE FALSE
    OBVIOUS
  <2>2. PICK n \in S : \A k \in S : n <= k
    <3> S \subseteq Nat
      OBVIOUS
    <3> HIDE DEF S
    <3> QED
      BY <2>1, LeastNumber
  <2>3. \E g \in [D -> T] : n # 0 => Upto(n - 1, g)
    <3>1. CASE n = 0
      BY <3>1
    <3>2. CASE n # 0
      <4>1. n - 1 \in Nat /\ n - 1 \notin S
        BY <2>2, <3>2
      <4>2. QED
        BY <4>1
    <3>3. QED
      BY <3>1, <3>2
  <2>4. PICK g \in [D -> T] : n # 0 => Upto(n - 1, g)
    BY <2>3
  <2> DEFINE h == [x \in D |-> IF x \in base THEN B[x] ELSE H[<<x, g[down[x]]>>]]
  <2>5. h \in [D -> T]
    OBVIOUS
  <2>6. ASSUME NEW x \in D, m[x] <= n PROVE Recurs(base, B, H, down, h, x)
    <3>1. CASE x \in base
      BY <3>1 DEF Recurs
    <3>2. CASE x \notin base
      <4>1. m[down[x]] < m[x] /\ m[x] \in Nat /\ m[down[x]] \in Nat /\ down[x] \in D
        BY <3>2
      <4>2. n # 0 /\ m[down[x]] <= n - 1
        BY <2>2, <2>6, <4>1
      <4>3. Recurs(base, B, H, down, g, down[x])
        BY <2>4, <4>1, <4>2
      <4>4. h[down[x]] = g[down[x]]
        BY <4>1, <4>3 DEF Recurs
      <4>5. h[x] = H[<<x, g[down[x]]>>]
        BY <3>2
      <4> HIDE DEF h
      <4>6. QED
        BY <3>2, <4>4, <4>5 DEF Recurs
    <3>3. QED
      BY <3>1, <3>2
  <2> HIDE DEF h
  <2>7. Upto(n, h)
    BY <2>5, <2>6
  <2>8. QED
    BY <2>2, <2>7
<1>2. \A n \in Nat : \E f : Upto(n, f)
  BY <1>1
<1>3. ASSUME NEW x \in D, NEW a \in Nat, NEW b \in Nat, NEW f, NEW g, Upto(a, f), Upto(b, g),
             m[x] <= a, m[x] <= b
      PROVE  f[x] = g[x]
  <2> DEFINE U == {k \in Nat : \E y \in D : /\ m[y] = k /\ k <= a /\ k <= b /\ f[y] # g[y]}
  <2>1. SUFFICES ASSUME U # {} PROVE FALSE
    <3>1. m[x] \in Nat
      OBVIOUS
    <3>2. QED
      BY <1>3, <3>1
  <2>2. PICK k \in U : \A j \in U : k <= j
    <3> U \subseteq Nat
      OBVIOUS
    <3> HIDE DEF U
    <3> QED
      BY <2>1, LeastNumber
  <2>3. PICK y \in D : m[y] = k /\ k <= a /\ k <= b /\ f[y] # g[y]
    BY <2>2
  <2>4. Recurs(base, B, H, down, f, y) /\ Recurs(base, B, H, down, g, y)
    BY <1>3, <2>3
  <2>5. y \notin base
    BY <2>3, <2>4 DEF Recurs
  <2>6. m[down[y]] \in Nat /\ m[down[y]] < k /\ down[y] \in D
    BY <2>3, <2>5
  <2>7. m[down[y]] \notin U
    BY <2>2, <2>6
  <2>8. f[down[y]] = g[down[y]]
    BY <2>3, <2>6, <2>7
  <2>9. QED
    BY <2>3, <2>4, <2>5, <2>8 DEF Recurs
<1> DEFINE at(x) == CHOOSE f : Upto(m[x], f)
           F == [x \in D |-> at(x)[x]]
<1>4. \A x \in D : Upto(m[x], at(x))
  BY <1>2
<1> HIDE DEF at
<1>5. F \in [D -> T]
  BY <1>4
<1>6. ASSUME NEW x \in D PROVE Recurs(base, B, H, down, F, x)
  <2>1. Recurs(base, B, H, down, at(x), x) /\ F[x] = at(x)[x]
    BY <1>4
  <2>2. CASE x \in base
    BY <2>1, <2>2 DEF Recurs
  <2>3. CASE x \notin base
    <3>1. m[down[x]] < m[x] /\ m[x] \in Nat /\ m[down[x]] \in Nat /\ down[x] \in D
      BY <2>3
    <3>2. Upto(m[x], at(x)) /\ Upto(m[down[x]], at(down[x]))
      BY <1>4, <3>1
    <3>3. at(x)[down[x]] = at(down[x])[down[x]]
      <4> DEFINE y == down[x]
                 f == at(x)
                 g == at(y)
      <4>1. /\ y \in D /\ m[x] \in Nat /\ m[y] \in Nat /\ m[y] <= m[x] /\ m[y] <= m[y]
            /\ Upto(m[x], f) /\ Upto(m[y], g)
        BY <3>1, <3>2
      <4> HIDE DEF Upto, y, f, g
      <4>2. f[y] = g[y]
        BY <1>3, <4>1
      <4>3. QED
        BY <4>2 DEF y, f, g
    <3>4. F[down[x]] = at(down[x])[down[x]]
      BY <3>1
    <3> HIDE DEF F
    <3>5. QED
      BY <2>1, <2>3, <3>3, <3>4 DEF Recurs
  <2>4. QED
    BY <2>2, <2>3
<1>7. QED
  BY <1>5, <1>6

-----------------------------------------------------------------------------
(* Powers of ten and digits *)

LEMMA PowRecurs ==
    /\ Ids!Pow10 \in [Nat -> Nat]
    /\ Ids!Pow10[0] = 1
    /\ \A k \in Nat : Ids!Pow10[k + 1] = 10 * Ids!Pow10[k]
<1> DEFINE base == {0}
           B == [k \in Nat |-> 1]
           down == [k \in Nat |-> IF k = 0 THEN 0 ELSE k - 1]
           H == [p \in Nat \X Nat |-> 10 * p[2]]
           m == [k \in Nat |-> k]
<1>1. PICK f \in [Nat -> Nat] : \A k \in Nat : Recurs(base, B, H, down, f, k)
  <2>1. B \in [Nat -> Nat] /\ down \in [Nat -> Nat] /\ H \in [Nat \X Nat -> Nat] /\ m \in [Nat -> Nat]
    OBVIOUS
  <2>2. \A k \in Nat : k \notin base => m[down[k]] < m[k]
    OBVIOUS
  <2> HIDE DEF base, B, down, H, m
  <2>3. QED
    BY <2>1, <2>2, RecursionExists, ZenonT(30)
<1>2. ASSUME NEW k \in Nat PROVE f[k] = IF k = 0 THEN 1 ELSE 10 * f[k - 1]
  <2>1. Recurs(base, B, H, down, f, k)
    BY <1>1
  <2>2. CASE k = 0
    BY <2>1, <2>2 DEF Recurs
  <2>3. CASE k # 0
    <3>1. k - 1 \in Nat /\ down[k] = k - 1 /\ f[k - 1] \in Nat
      BY <2>3
    <3>2. f[k] = H[<<k, f[k - 1]>>]
      BY <2>1, <2>3, <3>1 DEF Recurs
    <3>3. QED
      BY <2>3, <3>1, <3>2
  <2>4. QED
    BY <2>2, <2>3
<1>3. f = [k \in Nat |-> IF k = 0 THEN 1 ELSE 10 * f[k - 1]]
  BY <1>2
<1>4. Ids!Pow10 = [k \in Nat |-> IF k = 0 THEN 1 ELSE 10 * Ids!Pow10[k - 1]]
  BY <1>3 DEF Ids!Pow10
<1> HIDE DEF base, B, down, H, m
<1>5. \A k \in Nat : Ids!Pow10[k] = IF k = 0 THEN 1 ELSE 10 * Ids!Pow10[k - 1]
  BY <1>4
<1>6. \A k \in Nat : Ids!Pow10[k] \in Nat
  <2> DEFINE S == {k \in Nat : Ids!Pow10[k] \notin Nat}
  <2>1. SUFFICES ASSUME S # {} PROVE FALSE
    OBVIOUS
  <2>2. PICK k \in S : \A j \in S : k <= j
    <3> S \subseteq Nat
      OBVIOUS
    <3> HIDE DEF S
    <3> QED
      BY <2>1, LeastNumber
  <2>3. CASE k = 0
    BY <1>5, <2>2, <2>3
  <2>4. CASE k # 0
    <3>1. k - 1 \in Nat /\ k - 1 \notin S
      BY <2>2, <2>4
    <3>2. Ids!Pow10[k - 1] \in Nat /\ Ids!Pow10[k] = 10 * Ids!Pow10[k - 1]
      BY <1>5, <2>2, <2>4, <3>1
    <3>3. QED
      BY <2>2, <3>2
  <2>5. QED
    BY <2>3, <2>4
<1>7. Ids!Pow10 \in [Nat -> Nat]
  BY <1>4, <1>6
<1>8. \A k \in Nat : Ids!Pow10[k + 1] = 10 * Ids!Pow10[k]
  <2>1. SUFFICES ASSUME NEW k \in Nat PROVE Ids!Pow10[k + 1] = 10 * Ids!Pow10[k]
    OBVIOUS
  <2>2. k + 1 \in Nat /\ k + 1 # 0 /\ (k + 1) - 1 = k
    OBVIOUS
  <2>3. QED
    BY <1>5, <2>2
<1>9. QED
  BY <1>5, <1>7, <1>8

LEMMA PowPositive ==
    ASSUME NEW k \in Nat
    PROVE  Ids!Pow10[k] \in Nat /\ Ids!Pow10[k] # 0
<1> DEFINE S == {j \in Nat : Ids!Pow10[j] = 0}
<1>1. SUFFICES ASSUME S # {} PROVE FALSE
  BY PowRecurs
<1>2. PICK j \in S : \A i \in S : j <= i
  <2> S \subseteq Nat
    OBVIOUS
  <2> HIDE DEF S
  <2> QED
    BY <1>1, LeastNumber
<1>3. j # 0
  BY <1>2, PowRecurs
<1>4. j - 1 \in Nat /\ j - 1 \notin S /\ (j - 1) + 1 = j
  BY <1>2, <1>3
<1>5. Ids!Pow10[j] = 10 * Ids!Pow10[j - 1] /\ Ids!Pow10[j - 1] \in Nat
  BY <1>4, PowRecurs
<1>6. QED
  BY <1>2, <1>4, <1>5

LEMMA PowAdds ==
    ASSUME NEW i \in Nat, NEW j \in Nat
    PROVE  Ids!Pow10[i + j] = Ids!Pow10[i] * Ids!Pow10[j]
<1> DEFINE S == {k \in Nat : Ids!Pow10[k + j] # Ids!Pow10[k] * Ids!Pow10[j]}
<1>1. SUFFICES ASSUME S # {} PROVE FALSE
  OBVIOUS
<1>2. PICK k \in S : \A h \in S : k <= h
  <2> S \subseteq Nat
    OBVIOUS
  <2> HIDE DEF S
  <2> QED
    BY <1>1, LeastNumber
<1>3. Ids!Pow10[j] \in Nat
  BY PowPositive
<1>4. k # 0
  BY <1>2, <1>3, PowRecurs
<1>5. k - 1 \in Nat /\ k - 1 \notin S /\ (k - 1) + 1 = k /\ (k - 1) + j \in Nat /\ ((k - 1) + j) + 1 = k + j
  BY <1>2, <1>4
<1>6. Ids!Pow10[k] = 10 * Ids!Pow10[k - 1] /\ Ids!Pow10[k + j] = 10 * Ids!Pow10[(k - 1) + j]
  BY <1>5, PowRecurs
<1>7. Ids!Pow10[(k - 1) + j] = Ids!Pow10[k - 1] * Ids!Pow10[j] /\ Ids!Pow10[k - 1] \in Nat
  BY <1>5, PowPositive
<1>8. \A a, b \in Nat : 10 * (a * b) = (10 * a) * b
  OBVIOUS
<1>9. QED
  BY <1>2, <1>3, <1>6, <1>7, <1>8

\* A number is the digits up to its last zeros, and these.
LEMMA OneForm ==
    ASSUME NEW a \in Nat, NEW b \in Nat, NEW i \in Nat, NEW j \in Nat,
           a % 10 # 0, b % 10 # 0, a * Ids!Pow10[i] = b * Ids!Pow10[j]
    PROVE  a = b /\ i = j
<1> DEFINE S == {k \in Nat : \E h \in Nat : a * Ids!Pow10[k] = b * Ids!Pow10[h] /\ ~ (a = b /\ k = h)}
<1>1. SUFFICES ASSUME S # {} PROVE FALSE
  OBVIOUS
<1>2. PICK k \in S : \A h \in S : k <= h
  <2> S \subseteq Nat
    OBVIOUS
  <2> HIDE DEF S
  <2> QED
    BY <1>1, LeastNumber
<1>3. PICK h \in Nat : a * Ids!Pow10[k] = b * Ids!Pow10[h] /\ ~ (a = b /\ k = h)
  BY <1>2
<1>4. \A x, y \in Nat : x * (10 * y) = 10 * (x * y) /\ x * y \in Nat
  OBVIOUS
<1>5. \A x \in Nat : (10 * x) % 10 = 0
  OBVIOUS
<1>6. \A n \in Nat : n # 0 => n - 1 \in Nat /\ Ids!Pow10[n] = 10 * Ids!Pow10[n - 1] /\ Ids!Pow10[n - 1] \in Nat
  <2>1. SUFFICES ASSUME NEW n \in Nat, n # 0
                 PROVE  n - 1 \in Nat /\ Ids!Pow10[n] = 10 * Ids!Pow10[n - 1] /\ Ids!Pow10[n - 1] \in Nat
    OBVIOUS
  <2>2. n - 1 \in Nat /\ (n - 1) + 1 = n
    BY <2>1
  <2>3. QED
    BY <2>2, PowRecurs, PowPositive
<1>7. CASE k = 0 /\ h = 0
  BY <1>3, <1>7, PowRecurs
<1>8. CASE k = 0 /\ h # 0
  <2>1. a = b * (10 * Ids!Pow10[h - 1])
    BY <1>3, <1>6, <1>8, PowRecurs
  <2>2. a = 10 * (b * Ids!Pow10[h - 1]) /\ b * Ids!Pow10[h - 1] \in Nat
    <3>1. Ids!Pow10[h - 1] \in Nat
      BY <1>2, <1>6, <1>8
    <3>2. QED
      BY <1>4, <2>1, <3>1
  <2>3. QED
    BY <1>5, <2>2
<1>9. CASE k # 0 /\ h = 0
  <2>1. b = a * (10 * Ids!Pow10[k - 1])
    BY <1>2, <1>3, <1>6, <1>9, PowRecurs
  <2>2. b = 10 * (a * Ids!Pow10[k - 1]) /\ a * Ids!Pow10[k - 1] \in Nat
    <3>1. Ids!Pow10[k - 1] \in Nat
      BY <1>2, <1>6, <1>9
    <3>2. QED
      BY <1>4, <2>1, <3>1
  <2>3. QED
    BY <1>5, <2>2
<1>10. CASE k # 0 /\ h # 0
  <2>1. 10 * (a * Ids!Pow10[k - 1]) = 10 * (b * Ids!Pow10[h - 1])
    <3>1. k - 1 \in Nat /\ Ids!Pow10[k] = 10 * Ids!Pow10[k - 1] /\ Ids!Pow10[k - 1] \in Nat
      BY <1>2, <1>6, <1>10
    <3>2. Ids!Pow10[h] = 10 * Ids!Pow10[h - 1] /\ Ids!Pow10[h - 1] \in Nat
      BY <1>6, <1>10
    <3>3. a * (10 * Ids!Pow10[k - 1]) = b * (10 * Ids!Pow10[h - 1])
      BY <1>3, <3>1, <3>2
    <3>4. QED
      BY <1>4, <3>1, <3>2, <3>3
  <2>2. a * Ids!Pow10[k - 1] \in Nat /\ b * Ids!Pow10[h - 1] \in Nat
    BY <1>2, <1>4, <1>6, <1>10
  <2>3. a * Ids!Pow10[k - 1] = b * Ids!Pow10[h - 1] /\ ~ (a = b /\ k - 1 = h - 1)
    BY <1>2, <1>3, <2>1, <2>2
  <2>4. k - 1 \in S
    BY <1>2, <1>6, <1>10, <2>3
  <2>5. QED
    BY <1>2, <2>4
<1>11. QED
  BY <1>2, <1>7, <1>8, <1>9, <1>10

LEMMA DigitsRecurs ==
    \A n \in Nat : Ids!DigitCount[n] = IF n < 10 THEN 1 ELSE 1 + Ids!DigitCount[n \div 10]
<1> DEFINE base == 0 .. 9
           B == [n \in Nat |-> 1]
           down == [n \in Nat |-> n \div 10]
           H == [p \in Nat \X Nat |-> 1 + p[2]]
           m == [n \in Nat |-> n]
<1>1. PICK f \in [Nat -> Nat] : \A n \in Nat : Recurs(base, B, H, down, f, n)
  <2>1. B \in [Nat -> Nat] /\ down \in [Nat -> Nat] /\ H \in [Nat \X Nat -> Nat] /\ m \in [Nat -> Nat]
    OBVIOUS
  <2>2. \A n \in Nat : n \notin base => m[down[n]] < m[n]
    OBVIOUS
  <2> HIDE DEF base, B, down, H, m
  <2>3. QED
    BY <2>1, <2>2, RecursionExists, ZenonT(30)
<1>2. ASSUME NEW n \in Nat PROVE f[n] = IF n < 10 THEN 1 ELSE 1 + f[n \div 10]
  <2>1. Recurs(base, B, H, down, f, n)
    BY <1>1
  <2>2. CASE n < 10
    BY <2>1, <2>2 DEF Recurs
  <2>3. CASE ~ (n < 10)
    <3>1. n \div 10 \in Nat /\ down[n] = n \div 10 /\ f[n \div 10] \in Nat
      BY <2>3
    <3>2. f[n] = H[<<n, f[n \div 10]>>]
      BY <2>1, <2>3, <3>1 DEF Recurs
    <3>3. QED
      BY <2>3, <3>1, <3>2
  <2>4. QED
    BY <2>2, <2>3
<1>3. f = [n \in Nat |-> IF n < 10 THEN 1 ELSE 1 + f[n \div 10]]
  BY <1>2
<1>4. Ids!DigitCount = [n \in Nat |-> IF n < 10 THEN 1 ELSE 1 + Ids!DigitCount[n \div 10]]
  BY <1>3 DEF Ids!DigitCount
<1> HIDE DEF base, B, down, H, m
<1>5. QED
  BY <1>4

LEMMA DigitsPositive ==
    ASSUME NEW n \in Nat PROVE Ids!DigitCount[n] \in Nat
<1> DEFINE S == {k \in Nat : Ids!DigitCount[k] \notin Nat}
<1>1. SUFFICES ASSUME S # {} PROVE FALSE
  OBVIOUS
<1>2. PICK k \in S : \A j \in S : k <= j
  <2> S \subseteq Nat
    OBVIOUS
  <2> HIDE DEF S
  <2> QED
    BY <1>1, LeastNumber
<1>3. k >= 10
  BY <1>2, DigitsRecurs
<1>4. k \div 10 \in Nat /\ k \div 10 < k
  BY <1>2, <1>3
<1>5. Ids!DigitCount[k] = 1 + Ids!DigitCount[k \div 10] /\ Ids!DigitCount[k \div 10] \in Nat
  BY <1>2, <1>3, <1>4, DigitsRecurs
<1>6. QED
  BY <1>2, <1>5

\* Every zero at the end is a digit more.
LEMMA DigitsOfZeros ==
    ASSUME NEW a \in Nat, a # 0, NEW k \in Nat
    PROVE  Ids!DigitCount[a * Ids!Pow10[k]] = Ids!DigitCount[a] + k
<1> DEFINE S == {j \in Nat : Ids!DigitCount[a * Ids!Pow10[j]] # Ids!DigitCount[a] + j}
<1>1. SUFFICES ASSUME S # {} PROVE FALSE
  OBVIOUS
<1>2. PICK j \in S : \A i \in S : j <= i
  <2> S \subseteq Nat
    OBVIOUS
  <2> HIDE DEF S
  <2> QED
    BY <1>1, LeastNumber
<1>3. j # 0
  BY <1>2, PowRecurs, DigitsPositive
<1>4. j - 1 \in Nat /\ j - 1 \notin S /\ (j - 1) + 1 = j
  BY <1>2, <1>3
<1> DEFINE n == a * Ids!Pow10[j - 1]
<1>5. n \in Nat /\ n # 0 /\ a * Ids!Pow10[j] = 10 * n
  <2>1. Ids!Pow10[j] = 10 * Ids!Pow10[j - 1] /\ Ids!Pow10[j - 1] \in Nat /\ Ids!Pow10[j - 1] # 0
    BY <1>4, PowRecurs, PowPositive
  <2>2. \A x, y \in Nat : x * (10 * y) = 10 * (x * y) /\ x * y \in Nat /\ (x # 0 /\ y # 0 => x * y # 0)
    OBVIOUS
  <2>3. QED
    BY <2>1, <2>2
<1>6. Ids!DigitCount[n] = Ids!DigitCount[a] + (j - 1)
  BY <1>4
<1> HIDE DEF n
<1>7. Ids!DigitCount[10 * n] = 1 + Ids!DigitCount[n]
  <2>1. 10 * n \in Nat /\ ~ (10 * n < 10) /\ (10 * n) \div 10 = n
    BY <1>5
  <2>2. QED
    BY <2>1, DigitsRecurs
<1>8. QED
  BY <1>2, <1>4, <1>5, <1>6, <1>7, DigitsPositive

-----------------------------------------------------------------------------
(* The stripped form *)

LEMMA StrippedRecurs ==
    \A d \in Ids!Decimal :
        Ids!Stripped[d] = IF d.digits % 10 # 0 THEN d
                          ELSE Ids!Stripped[[d EXCEPT !.digits = d.digits \div 10, !.exponent = d.exponent + 1]]
<1> DEFINE D == Ids!Decimal
           shorter(d) == [d EXCEPT !.digits = d.digits \div 10, !.exponent = d.exponent + 1]
           base == {d \in D : d.digits % 10 # 0 \/ d.digits = 0}
           B == [d \in D |-> IF d.digits = 0 THEN Ids!Zero ELSE d]
           down == [d \in D |-> shorter(d)]
           H == [p \in D \X D |-> p[2]]
           m == [d \in D |-> d.digits]
<1>0. \A d \in D : /\ shorter(d) \in D /\ shorter(d).digits = d.digits \div 10
                   /\ d.digits \in Nat /\ d.digits \div 10 \in Nat
                   /\ d.digits % 10 = 0 /\ d.digits # 0 => d.digits \div 10 < d.digits
  <2>1. ASSUME NEW d \in D
        PROVE  /\ d.digits \in Nat /\ d.digits \div 10 \in Nat
               /\ d.digits % 10 = 0 /\ d.digits # 0 => d.digits \div 10 < d.digits
    <3>1. d.digits \in Nat
      BY DEF Ids!Decimal
    <3>2. \A n \in Nat : n \div 10 \in Nat /\ (n % 10 = 0 /\ n # 0 => n \div 10 < n)
      OBVIOUS
    <3>3. QED
      BY <3>1, <3>2
  <2>2. ASSUME NEW d \in D PROVE shorter(d) \in D /\ shorter(d).digits = d.digits \div 10
    <3> DEFINE n == d.digits \div 10
    <3>1. n \in Nat
      BY <2>1
    <3> HIDE DEF n
    <3> DEFINE e == d.exponent + 1
    <3>2. e \in Int
      BY DEF Ids!Decimal
    <3> HIDE DEF e
    <3> DEFINE a == [d EXCEPT !.digits = n]
    <3>3. a \in D /\ a.digits = n
      BY <3>1 DEF Ids!Decimal
    <3> HIDE DEF a
    <3>4. [a EXCEPT !.exponent = e] \in D /\ [a EXCEPT !.exponent = e].digits = n
      BY <3>2, <3>3 DEF Ids!Decimal
    <3>5. QED
      BY <3>4 DEF a, e, n
  <2> HIDE DEF D, shorter
  <2>3. QED
    BY <2>1, <2>2
<1>1. PICK f \in [D -> D] : \A d \in D : Recurs(base, B, H, down, f, d)
  <2> HIDE DEF shorter
  <2>1. B \in [D -> D] /\ down \in [D -> D] /\ m \in [D -> Nat]
    <3>1. Ids!Zero \in D
      BY DEF Ids!Zero, Ids!Decimal
    <3> HIDE DEF D
    <3>2. QED
      BY <1>0, <3>1
  <2>2. H \in [D \X D -> D]
    <3> HIDE DEF D
    <3> QED
      OBVIOUS
  <2>3. \A d \in D : d \notin base => m[down[d]] < m[d]
    <3> HIDE DEF D
    <3> QED
      BY <1>0
  <2> HIDE DEF base, B, down, H, m, D
  <2>4. QED
    BY <2>1, <2>2, <2>3, RecursionExists, ZenonT(30)
<1>2. ASSUME NEW d \in D PROVE f[d] = IF d.digits % 10 # 0 THEN d ELSE f[shorter(d)]
  <2> HIDE DEF D, shorter
  <2>1. Recurs(base, B, H, down, f, d)
    BY <1>1
  <2>2. CASE d.digits % 10 # 0
    <3>1. d.digits # 0
      BY <1>0, <2>2
    <3>2. QED
      BY <2>1, <2>2, <3>1 DEF Recurs
  <2>3. CASE d.digits = 0
    <3>1. shorter(d) \in D /\ shorter(d).digits = 0 /\ ~ (d.digits % 10 # 0)
      BY <1>0, <2>3
    <3>2. Recurs(base, B, H, down, f, shorter(d))
      BY <1>1, <3>1
    <3>3. f[d] = Ids!Zero
      BY <2>1, <2>3 DEF Recurs
    <3>4. f[shorter(d)] = Ids!Zero
      BY <3>1, <3>2 DEF Recurs
    <3>5. QED
      BY <3>1, <3>3, <3>4
  <2>4. CASE ~ (d.digits % 10 # 0) /\ d.digits # 0
    <3>1. shorter(d) \in D /\ down[d] = shorter(d) /\ f[shorter(d)] \in D /\ d \notin base
      BY <1>0, <2>4
    <3>2. f[d] = H[<<d, f[shorter(d)]>>]
      BY <2>1, <3>1 DEF Recurs
    <3>3. QED
      BY <2>4, <3>1, <3>2
  <2>5. QED
    BY <2>2, <2>3, <2>4
<1>3. f = [d \in D |-> IF d.digits % 10 # 0 THEN d ELSE f[shorter(d)]]
  <2> HIDE DEF D, shorter
  <2> QED
    BY <1>2
<1>4. Ids!Stripped = [d \in D |-> IF d.digits % 10 # 0 THEN d ELSE Ids!Stripped[shorter(d)]]
  BY <1>3 DEF Ids!Stripped
<1>5. QED
  BY <1>4

Canonical(s) == s \in Ids!Decimal /\ s.digits % 10 # 0

\* What stripping leaves: the number without its last zeros.
LEMMA StrippedMeans ==
    ASSUME NEW d \in Ids!Decimal, d.digits # 0
    PROVE  LET s == Ids!Stripped[d]
           IN  /\ Canonical(s) /\ s.sign = d.sign
               /\ s.exponent - d.exponent \in Nat
               /\ d.digits = s.digits * Ids!Pow10[s.exponent - d.exponent]
<1> DEFINE Good(c) == LET s == Ids!Stripped[c]
                      IN  /\ Canonical(s) /\ s.sign = c.sign
                          /\ s.exponent - c.exponent \in Nat
                          /\ c.digits = s.digits * Ids!Pow10[s.exponent - c.exponent]
           S == {n \in Nat : \E c \in Ids!Decimal : c.digits = n /\ n # 0 /\ ~Good(c)}
<1>1. SUFFICES ASSUME S # {} PROVE FALSE
  <2>1. d.digits \in Nat
    BY DEF Ids!Decimal
  <2>2. SUFFICES Good(d)
    OBVIOUS
  <2> HIDE DEF Good
  <2>3. QED
    BY <2>1
<1>2. PICK n \in S : \A j \in S : n <= j
  <2> S \subseteq Nat
    OBVIOUS
  <2> HIDE DEF S
  <2> QED
    BY <1>1, LeastNumber
<1>3. PICK c \in Ids!Decimal : c.digits = n /\ n # 0 /\ ~Good(c)
  <2> HIDE DEF Good
  <2> QED
    BY <1>2
<1>4. n \in Nat /\ c.exponent \in Int /\ n # 0
  BY <1>3 DEF Ids!Decimal
<1>5. CASE n % 10 # 0
  <2>1. Ids!Stripped[c] = c
    BY <1>3, <1>5, StrippedRecurs
  <2>2. c.exponent - c.exponent = 0 /\ c.digits * 1 = c.digits
    BY <1>3, <1>4
  <2>3. Good(c)
    BY <1>3, <1>5, <2>1, <2>2, PowRecurs DEF Canonical
  <2>4. QED
    BY <1>3, <2>3
<1>6. CASE n % 10 = 0
  <2> DEFINE h == n \div 10
             e == c.exponent + 1
             b == [c EXCEPT !.digits = h, !.exponent = e]
  <2>1. h \in Nat /\ h < n /\ h # 0 /\ n = 10 * h /\ e \in Int
    BY <1>4, <1>6
  <2> HIDE DEF h, e
  <2>2. b \in Ids!Decimal /\ b.digits = h /\ b.exponent = e /\ b.sign = c.sign
    <3> DEFINE a == [c EXCEPT !.digits = h]
    <3>1. a \in Ids!Decimal /\ a.digits = h /\ a.sign = c.sign
      BY <1>3, <2>1 DEF Ids!Decimal
    <3> HIDE DEF a
    <3>2. LET x == [a EXCEPT !.exponent = e]
          IN  x \in Ids!Decimal /\ x.digits = h /\ x.exponent = e /\ x.sign = c.sign
      BY <2>1, <3>1 DEF Ids!Decimal
    <3>3. QED
      BY <3>2 DEF a
  <2>3. Ids!Stripped[c] = Ids!Stripped[b]
    BY <1>3, <1>6, StrippedRecurs DEF h, e
  <2> HIDE DEF b
  <2>4. Good(b)
    <3>1. h \notin S
      BY <1>2, <2>1
    <3> HIDE DEF Good
    <3>2. QED
      BY <2>1, <2>2, <3>1
  <2> DEFINE s == Ids!Stripped[b]
             k == s.exponent - b.exponent
  <2>5. /\ Canonical(s) /\ s.sign = c.sign /\ k \in Nat
        /\ h = s.digits * Ids!Pow10[k]
    BY <2>2, <2>4
  <2>6. s.digits \in Nat /\ s.exponent \in Int
    BY <2>5 DEF Canonical, Ids!Decimal
  <2>7. s.exponent - c.exponent = k + 1
    BY <1>4, <2>2, <2>6 DEF e
  <2> HIDE DEF k, s
  <2>8. Ids!Pow10[k + 1] = 10 * Ids!Pow10[k] /\ Ids!Pow10[k] \in Nat
    BY <2>5, PowRecurs, PowPositive
  <2>9. \A x, y \in Nat : 10 * (x * y) = x * (10 * y)
    OBVIOUS
  <2>10. n = s.digits * Ids!Pow10[k + 1]
    BY <2>1, <2>5, <2>6, <2>8, <2>9
  <2>11. Ids!Stripped[c] = s
    BY <2>3 DEF s
  <2>12. k + 1 \in Nat
    BY <2>5
  <2>13. Good(c)
    BY <1>3, <2>5, <2>7, <2>10, <2>11, <2>12
  <2>14. QED
    BY <1>3, <2>13
<1>7. QED
  BY <1>5, <1>6

\* The least exponent of two.
LEMMA FloorFacts ==
    ASSUME NEW d \in Ids!Decimal, NEW c \in Ids!Decimal
    PROVE  LET e == Ids!Floor(d, c)
           IN  e \in Int /\ d.exponent - e \in Nat /\ c.exponent - e \in Nat
BY DEF Ids!Floor, Ids!Decimal

\* The units of a number are those of its stripped form.
LEMMA UnitsOfStripped ==
    ASSUME NEW d \in Ids!Decimal, d.digits # 0, NEW e \in Int, d.exponent - e \in Nat
    PROVE  LET s == Ids!Stripped[d]
           IN  /\ s.exponent - e \in Nat
               /\ d.digits * Ids!Pow10[d.exponent - e] = s.digits * Ids!Pow10[s.exponent - e]
<1> DEFINE s == Ids!Stripped[d]
           k == s.exponent - d.exponent
           h == d.exponent - e
<1>1. /\ Canonical(s) /\ k \in Nat /\ d.digits = s.digits * Ids!Pow10[k]
  BY StrippedMeans
<1>2. s.digits \in Nat /\ s.exponent \in Int /\ d.exponent \in Int
  BY <1>1 DEF Canonical, Ids!Decimal
<1>3. s.exponent - e = k + h /\ h \in Nat /\ k + h \in Nat
  BY <1>1, <1>2
<1> HIDE DEF s, k, h
<1>4. Ids!Pow10[k + h] = Ids!Pow10[k] * Ids!Pow10[h] /\ Ids!Pow10[k] \in Nat /\ Ids!Pow10[h] \in Nat
  BY <1>1, <1>3, PowAdds, PowPositive
<1>5. \A x, y, z \in Nat : (x * y) * z = x * (y * z)
  OBVIOUS
<1>6. d.digits * Ids!Pow10[h] = s.digits * Ids!Pow10[k + h]
  BY <1>1, <1>2, <1>4, <1>5
<1>7. QED
  BY <1>3, <1>6 DEF s, h

-----------------------------------------------------------------------------
(* Identities of numbers *)

\* The number of a sign and a natural number of units.
LEMMA SignedUnits ==
    ASSUME NEW s \in {0, 1}, NEW t \in {0, 1}, NEW x \in Nat, NEW y \in Nat
    PROVE  (IF s = 1 THEN -1 ELSE 1) * x = (IF t = 1 THEN -1 ELSE 1) * y
              <=> x = y /\ (s = t \/ x = 0)
<1>1. (-1) * x = -x /\ (-1) * y = -y /\ 1 * x = x /\ 1 * y = y
  OBVIOUS
<1>2. QED
  BY <1>1

LEMMA UnitsFacts ==
    ASSUME NEW d \in Ids!Decimal, NEW e \in Int, d.exponent - e \in Nat
    PROVE  LET x == d.digits * Ids!Pow10[d.exponent - e]
           IN  /\ x \in Nat /\ (x = 0 <=> d.digits = 0)
               /\ Ids!Units(d, e) = (IF d.sign = 1 THEN -1 ELSE 1) * x
<1> DEFINE p == Ids!Pow10[d.exponent - e]
           g == IF d.sign = 1 THEN -1 ELSE 1
<1>1. p \in Nat /\ p # 0 /\ d.digits \in Nat /\ g \in Int
  BY PowPositive DEF Ids!Decimal
<1>2. Ids!Units(d, e) = g * d.digits * p
  BY DEF Ids!Units
<1> HIDE DEF p, g
<1>3. \A x \in Int, y, z \in Nat : x * y * z = x * (y * z) /\ y * z \in Nat /\ (y * z = 0 <=> y = 0 \/ z = 0)
  OBVIOUS
<1>4. QED
  BY <1>1, <1>2, <1>3 DEF p, g

\* Two decimals are one number when both are zero or are stripped to the same.
LEMMA SameMeans ==
    ASSUME NEW d \in Ids!Decimal, NEW c \in Ids!Decimal
    PROVE  Ids!SameNumber(d, c) <=>
              IF d.digits = 0 \/ c.digits = 0 THEN d.digits = c.digits
              ELSE Ids!Stripped[d] = Ids!Stripped[c]
<1> DEFINE e == Ids!Floor(d, c)
           x == d.digits * Ids!Pow10[d.exponent - e]
           y == c.digits * Ids!Pow10[c.exponent - e]
<1>1. e \in Int /\ d.exponent - e \in Nat /\ c.exponent - e \in Nat
  BY FloorFacts
<1>2. /\ x \in Nat /\ (x = 0 <=> d.digits = 0) /\ y \in Nat /\ (y = 0 <=> c.digits = 0)
      /\ Ids!Units(d, e) = (IF d.sign = 1 THEN -1 ELSE 1) * x
      /\ Ids!Units(c, e) = (IF c.sign = 1 THEN -1 ELSE 1) * y
  <2> HIDE DEF e
  <2> QED
    BY <1>1, UnitsFacts
<1>3. Ids!SameNumber(d, c) <=> Ids!Units(d, e) = Ids!Units(c, e)
  BY DEF Ids!SameNumber
<1>4. d.sign \in {0, 1} /\ c.sign \in {0, 1} /\ d.digits \in Nat /\ c.digits \in Nat
  BY DEF Ids!Decimal
<1>5. Ids!SameNumber(d, c) <=> x = y /\ (d.sign = c.sign \/ x = 0)
  <2> HIDE DEF x, y, e
  <2> QED
    BY <1>2, <1>3, <1>4, SignedUnits
<1>6. CASE d.digits = 0 \/ c.digits = 0
  <2> HIDE DEF x, y, e
  <2> QED
    BY <1>2, <1>5, <1>6
<1>7. CASE d.digits # 0 /\ c.digits # 0
  <2> DEFINE s == Ids!Stripped[d]
             t == Ids!Stripped[c]
  <2>1. /\ Canonical(s) /\ Canonical(t) /\ s.sign = d.sign /\ t.sign = c.sign
    BY <1>7, StrippedMeans
  <2>2. /\ s.exponent - e \in Nat /\ x = s.digits * Ids!Pow10[s.exponent - e]
        /\ t.exponent - e \in Nat /\ y = t.digits * Ids!Pow10[t.exponent - e]
    <3> HIDE DEF e
    <3> QED
      BY <1>1, <1>7, UnitsOfStripped
  <2> HIDE DEF s, t, e, x, y
  <2>3. /\ s.digits \in Nat /\ t.digits \in Nat /\ s.exponent \in Int /\ t.exponent \in Int
        /\ s.digits % 10 # 0 /\ t.digits % 10 # 0
    BY <2>1 DEF Canonical, Ids!Decimal
  <2>4. ASSUME x = y, d.sign = c.sign PROVE s = t
    <3>1. s.digits = t.digits /\ s.exponent - e = t.exponent - e
      BY <2>2, <2>3, <2>4, OneForm
    <3>2. s.digits = t.digits /\ s.exponent = t.exponent /\ s.sign = t.sign
      BY <1>1, <2>1, <2>3, <2>4, <3>1
    <3>3. QED
      BY <2>1, <3>2 DEF Canonical, Ids!Decimal
  <2>5. ASSUME s = t PROVE x = y /\ d.sign = c.sign
    BY <2>1, <2>2, <2>5
  <2>6. QED
    BY <1>2, <1>5, <1>7, <2>4, <2>5 DEF s, t
<1>8. QED
  BY <1>6, <1>7

LEMMA StrippedDiffers ==
    ASSUME NEW d \in Ids!Decimal, d.digits # 0
    PROVE  Ids!Stripped[d] \in Ids!Decimal /\ Ids!Stripped[d].digits # 0
<1>1. Canonical(Ids!Stripped[d])
  BY StrippedMeans
<1>2. 0 % 10 = 0
  OBVIOUS
<1>3. QED
  BY <1>1, <1>2 DEF Canonical

\* _scientific_identity_value identifies numbers.
LEMMA NumberMeans ==
    ASSUME NEW d \in Ids!Decimal, NEW c \in Ids!Decimal
    PROVE  Ids!Number(d) = Ids!Number(c) <=> Ids!SameNumber(d, c)
<1>1. Ids!Zero.digits = 0
  BY DEF Ids!Zero
<1>2. d.digits # 0 => Ids!Stripped[d] # Ids!Zero
  BY <1>1, StrippedDiffers
<1>3. c.digits # 0 => Ids!Stripped[c] # Ids!Zero
  BY <1>1, StrippedDiffers
<1>4. QED
  BY <1>2, <1>3, SameMeans DEF Ids!Number

LEMMA TenTimes ==
    ASSUME NEW a \in Nat, NEW k \in Nat, k # 0
    PROVE  (a * Ids!Pow10[k]) % 10 = 0
<1>1. k - 1 \in Nat /\ (k - 1) + 1 = k
  OBVIOUS
<1>2. Ids!Pow10[k] = 10 * Ids!Pow10[k - 1] /\ Ids!Pow10[k - 1] \in Nat
  BY <1>1, PowRecurs, PowPositive
<1>3. \A x \in Nat : a * (10 * x) = 10 * (a * x) /\ a * x \in Nat
  OBVIOUS
<1>4. \A x \in Nat : (10 * x) % 10 = 0
  OBVIOUS
<1>5. QED
  BY <1>2, <1>3, <1>4

\* Written out: the digits, and the exponent that is left.
LEMMA FixedFacts ==
    ASSUME NEW s \in Ids!Decimal
    PROVE  /\ Ids!Fixed(s).sign = s.sign
           /\ s.exponent <= 0 => Ids!Fixed(s) = s
           /\ s.exponent > 0 => /\ Ids!Fixed(s).digits = s.digits * Ids!Pow10[s.exponent]
                                /\ Ids!Fixed(s).exponent = 0
<1>1. CASE s.exponent <= 0
  BY <1>1 DEF Ids!Fixed, Ids!Decimal
<1>2. CASE s.exponent > 0
  <2> DEFINE n == s.digits * Ids!Pow10[s.exponent]
             a == [s EXCEPT !.digits = n]
             b == [a EXCEPT !.exponent = 0]
  <2>1. Ids!Fixed(s) = b
    BY <1>2 DEF Ids!Fixed, Ids!Decimal
  <2> HIDE DEF n
  <2>2. b.digits = n /\ b.exponent = 0 /\ b.sign = s.sign
    BY DEF Ids!Decimal
  <2> HIDE DEF b
  <2>3. QED
    BY <1>2, <2>1, <2>2 DEF n, Ids!Decimal
<1>3. QED
  BY <1>1, <1>2 DEF Ids!Decimal

\* Numbers without last zeros are written out differently.
LEMMA FixedOnce ==
    ASSUME NEW s, NEW t, Canonical(s), Canonical(t), Ids!Fixed(s) = Ids!Fixed(t)
    PROVE  s = t
<1>1. /\ s \in Ids!Decimal /\ t \in Ids!Decimal
      /\ s.digits \in Nat /\ t.digits \in Nat /\ s.exponent \in Int /\ t.exponent \in Int
      /\ s.digits % 10 # 0 /\ t.digits % 10 # 0
  BY DEF Canonical, Ids!Decimal
<1>2. CASE s.exponent <= 0 /\ t.exponent <= 0
  BY <1>1, <1>2, FixedFacts
<1>3. CASE s.exponent <= 0 /\ t.exponent > 0
  <2>1. t.exponent \in Nat /\ t.exponent # 0
    BY <1>1, <1>3
  <2>2. s.digits = t.digits * Ids!Pow10[t.exponent]
    BY <1>1, <1>3, FixedFacts
  <2>3. QED
    BY <1>1, <2>1, <2>2, TenTimes
<1>4. CASE s.exponent > 0 /\ t.exponent <= 0
  <2>1. s.exponent \in Nat /\ s.exponent # 0
    BY <1>1, <1>4
  <2>2. t.digits = s.digits * Ids!Pow10[s.exponent]
    BY <1>1, <1>4, FixedFacts
  <2>3. QED
    BY <1>1, <2>1, <2>2, TenTimes
<1>5. CASE s.exponent > 0 /\ t.exponent > 0
  <2>1. s.exponent \in Nat /\ t.exponent \in Nat
    BY <1>1, <1>5
  <2>2. s.digits * Ids!Pow10[s.exponent] = t.digits * Ids!Pow10[t.exponent] /\ s.sign = t.sign
    BY <1>1, <1>5, FixedFacts
  <2>3. s.digits = t.digits /\ s.exponent = t.exponent
    BY <1>1, <2>1, <2>2, OneForm
  <2>4. QED
    BY <1>1, <2>2, <2>3 DEF Ids!Decimal
<1>6. QED
  BY <1>1, <1>2, <1>3, <1>4, <1>5

\* Zero is not written like another number.
LEMMA FixedNotZero ==
    ASSUME NEW s, Canonical(s) PROVE Ids!Fixed(s) # Ids!Zero
<1>1. s \in Ids!Decimal /\ s.digits \in Nat /\ s.digits # 0 /\ s.exponent \in Int
  BY DEF Canonical, Ids!Decimal
<1>2. Ids!Zero.digits = 0
  BY DEF Ids!Zero
<1>3. CASE s.exponent <= 0
  BY <1>1, <1>2, <1>3, FixedFacts
<1>4. CASE s.exponent > 0
  <2>1. s.exponent \in Nat
    BY <1>1, <1>4
  <2>2. Ids!Pow10[s.exponent] \in Nat /\ Ids!Pow10[s.exponent] # 0
    BY <2>1, PowPositive
  <2>3. \A x, y \in Nat : x # 0 /\ y # 0 => x * y # 0
    OBVIOUS
  <2>4. QED
    BY <1>1, <1>2, <1>4, <2>2, <2>3, FixedFacts
<1>5. QED
  BY <1>1, <1>3, <1>4

\* The text of a number that is not zero.
Written(s) ==
    IF Ids!FixedLength(s) <= MaxFixedCharacters THEN [fixed |-> Ids!Fixed(s)]
    ELSE [mantissa |-> [s EXCEPT !.exponent = 1 - Ids!DigitCount[s.digits]], e |-> Ids!Adjusted(s)]

LEMMA WrittenOnce ==
    ASSUME NEW s, NEW t, Canonical(s), Canonical(t), Written(s) = Written(t)
    PROVE  s = t
<1> DEFINE M(x) == [x EXCEPT !.exponent = 1 - Ids!DigitCount[x.digits]]
           F(x) == [fixed |-> Ids!Fixed(x)]
           L(x) == [mantissa |-> M(x), e |-> Ids!Adjusted(x)]
           short(x) == Ids!FixedLength(x) <= MaxFixedCharacters
<1>1. Written(s) = (IF short(s) THEN F(s) ELSE L(s)) /\ Written(t) = (IF short(t) THEN F(t) ELSE L(t))
  BY DEF Written
<1>2. \A x, y : F(x) = F(y) => Ids!Fixed(x) = Ids!Fixed(y)
  <2> SUFFICES ASSUME NEW x, NEW y, F(x) = F(y) PROVE Ids!Fixed(x) = Ids!Fixed(y)
    OBVIOUS
  <2>1. F(x).fixed = Ids!Fixed(x) /\ F(y).fixed = Ids!Fixed(y)
    OBVIOUS
  <2>2. QED
    BY <2>1
<1>3. \A x, y : F(x) # L(y)
  <2> SUFFICES ASSUME NEW x, NEW y PROVE DOMAIN F(x) # DOMAIN L(y)
    OBVIOUS
  <2> QED
    OBVIOUS
<1>4. \A x, y : L(x) = L(y) => M(x) = M(y) /\ Ids!Adjusted(x) = Ids!Adjusted(y)
  <2> SUFFICES ASSUME NEW x, NEW y, L(x) = L(y) PROVE M(x) = M(y) /\ Ids!Adjusted(x) = Ids!Adjusted(y)
    OBVIOUS
  <2> HIDE DEF M
  <2>1. L(x).mantissa = M(x) /\ L(x).e = Ids!Adjusted(x) /\ L(y).mantissa = M(y) /\ L(y).e = Ids!Adjusted(y)
    OBVIOUS
  <2>2. QED
    BY <2>1
<1>5. CASE short(s) /\ short(t)
  <2> HIDE DEF F, L, short
  <2>1. QED
    BY <1>1, <1>2, <1>5, FixedOnce
<1>6. CASE ~short(s) /\ ~short(t)
  <2>1. M(s) = M(t) /\ Ids!Adjusted(s) = Ids!Adjusted(t)
    <3> HIDE DEF F, L, short, M
    <3> QED
      BY <1>1, <1>4, <1>6
  <2>2. s \in Ids!Decimal /\ t \in Ids!Decimal
    BY DEF Canonical
  <2>3. M(s).digits = s.digits /\ M(s).sign = s.sign /\ M(t).digits = t.digits /\ M(t).sign = t.sign
    BY <2>2 DEF Ids!Decimal
  <2>4. s.digits = t.digits /\ s.sign = t.sign
    BY <2>1, <2>3
  <2>5. s.exponent \in Int /\ t.exponent \in Int /\ s.digits \in Nat /\ Ids!DigitCount[s.digits] \in Nat
    BY <2>2, DigitsPositive DEF Ids!Decimal
  <2>6. s.exponent = t.exponent
    BY <2>1, <2>4, <2>5 DEF Ids!Adjusted
  <2>7. QED
    BY <2>2, <2>4, <2>6 DEF Ids!Decimal
<1>7. QED
  <2> HIDE DEF F, L, short
  <2>1. QED
    BY <1>1, <1>3, <1>5, <1>6

\* canonical_decimal identifies numbers.
LEMMA TextMeans ==
    ASSUME NEW d \in Ids!Decimal, NEW c \in Ids!Decimal
    PROVE  Ids!Text(d) = Ids!Text(c) <=> Ids!SameNumber(d, c)
<1> DEFINE Z == [fixed |-> Ids!Zero]
<1>1. \A x \in {d, c} : Ids!Text(x) = IF x.digits = 0 THEN Z ELSE Written(Ids!Stripped[x])
  BY DEF Ids!Text, Written
<1>2. \A x \in {d, c} : x.digits # 0 => Canonical(Ids!Stripped[x])
  BY StrippedMeans
<1>3. ASSUME NEW s, Canonical(s) PROVE Written(s) # Z
  <2>1. CASE Ids!FixedLength(s) <= MaxFixedCharacters
    <3>1. Written(s).fixed = Ids!Fixed(s) /\ Z.fixed = Ids!Zero
      BY <2>1 DEF Written
    <3>2. QED
      BY <1>3, <3>1, FixedNotZero
  <2>2. CASE ~ (Ids!FixedLength(s) <= MaxFixedCharacters)
    <3>1. "mantissa" \in DOMAIN Written(s) /\ "mantissa" \notin DOMAIN Z
      BY <2>2 DEF Written
    <3>2. QED
      BY <3>1
  <2>3. QED
    BY <2>1, <2>2
<1> HIDE DEF Z
<1>4. CASE d.digits = 0 /\ c.digits = 0
  BY <1>1, <1>4, SameMeans
<1>5. CASE d.digits = 0 /\ c.digits # 0
  BY <1>1, <1>2, <1>3, <1>5, SameMeans
<1>6. CASE d.digits # 0 /\ c.digits = 0
  BY <1>1, <1>2, <1>3, <1>6, SameMeans
<1>7. CASE d.digits # 0 /\ c.digits # 0
  <2>1. Ids!Text(d) = Written(Ids!Stripped[d]) /\ Ids!Text(c) = Written(Ids!Stripped[c])
    BY <1>1, <1>7
  <2>2. Canonical(Ids!Stripped[d]) /\ Canonical(Ids!Stripped[c])
    BY <1>2, <1>7
  <2>3. QED
    BY <1>7, <2>1, <2>2, SameMeans, WrittenOnce
<1>8. QED
  BY <1>4, <1>5, <1>6, <1>7

\* decimal-value-v1 writes a number of the domain in a form that it reads back.
LEMMA ReadsBack ==
    ASSUME MaxDigits \in Nat, MaxAdjusted \in Nat, NEW d \in Ids!Decimal, Ids!InDomain(d)
    PROVE  Ids!Parses(Ids!DecimalValue(d)) /\ Ids!SameNumber(Ids!DecimalValue(d), d)
<1>1. Ids!Zero \in Ids!Decimal /\ Ids!Zero.digits = 0 /\ Ids!Zero.sign = 0 /\ Ids!Zero.exponent = 0
  BY DEF Ids!Zero, Ids!Decimal
<1>2. CASE d.digits = 0
  <2> DEFINE w == Ids!DecimalValue(d)
  <2>1. w = Ids!Zero
    BY <1>2 DEF Ids!DecimalValue
  <2> HIDE DEF w
  <2>2. Ids!DigitCount[0] = 1
    BY DigitsRecurs
  <2>3. Ids!Adjusted(w) = 0
    BY <1>1, <2>1, <2>2 DEF Ids!Adjusted
  <2>4. Ids!DigitCount[w.digits] <= MaxDigits
    BY <1>1, <1>2, <2>1 DEF Ids!InDomain
  <2>5. 0 \in -MaxAdjusted .. MaxAdjusted
    OBVIOUS
  <2>6. Ids!DecimalValue(w) = w
    BY <1>1, <2>1 DEF Ids!DecimalValue
  <2>7. Ids!Parses(w)
    BY <1>1, <2>1, <2>3, <2>4, <2>5, <2>6 DEF Ids!Parses
  <2>8. Ids!SameNumber(w, d)
    BY <1>1, <1>2, <2>1, SameMeans
  <2>9. QED
    BY <2>7, <2>8 DEF w
<1>3. CASE d.digits # 0
  <2> DEFINE s == Ids!Stripped[d]
             k == s.exponent - d.exponent
  <2>1. /\ Canonical(s) /\ s.sign = d.sign /\ k \in Nat
        /\ d.digits = s.digits * Ids!Pow10[k]
    BY <1>3, StrippedMeans
  <2>2. Ids!DecimalValue(d) = s
    BY <1>3 DEF Ids!DecimalValue
  <2>3. /\ s \in Ids!Decimal /\ s.digits \in Nat /\ s.digits # 0 /\ s.digits % 10 # 0
        /\ s.exponent \in Int /\ d.exponent \in Int /\ d.digits \in Nat
    BY <2>1 DEF Canonical, Ids!Decimal
  <2>4. s.exponent = d.exponent + k
    BY <2>3
  <2> HIDE DEF s, k
  <2>5. Ids!Stripped[s] = s
    BY <2>3, StrippedRecurs
  <2>6. Ids!DigitCount[d.digits] = Ids!DigitCount[s.digits] + k
    BY <2>1, <2>3, DigitsOfZeros
  <2>7. Ids!DigitCount[s.digits] \in Nat
    BY <2>3, DigitsPositive
  <2>8. Ids!Adjusted(s) = Ids!Adjusted(d)
    BY <2>1, <2>3, <2>4, <2>6, <2>7 DEF Ids!Adjusted
  <2>9. Ids!Adjusted(d) \in -MaxAdjusted .. MaxAdjusted /\ Ids!DigitCount[d.digits] <= MaxDigits
    BY <1>3 DEF Ids!InDomain
  <2>10. Ids!DigitCount[s.digits] <= MaxDigits
    <3>1. Ids!DigitCount[s.digits] + k <= MaxDigits
      BY <2>6, <2>9
    <3>2. QED
      BY <2>1, <2>7, <3>1
  <2>11. Ids!DecimalValue(s) = s
    BY <2>3, <2>5 DEF Ids!DecimalValue
  <2>12. Ids!Parses(s)
    BY <2>3, <2>8, <2>9, <2>10, <2>11 DEF Ids!Parses
  <2>13. Ids!SameNumber(s, d)
    BY <1>3, <2>3, <2>5, SameMeans DEF s
  <2>14. QED
    BY <2>2, <2>12, <2>13
<1>4. QED
  BY <1>2, <1>3

LEMMA FormsMeans ==
    ASSUME MaxDigits \in Nat, MaxAdjusted \in Nat, NEW amounts, amounts \subseteq Ids!Decimal
    PROVE  Ids!FormsAgree(amounts)
<1>1. ASSUME NEW d \in amounts, NEW c \in amounts
      PROVE  /\ Ids!Number(d) = Ids!Number(c) <=> Ids!SameNumber(d, c)
             /\ Ids!Text(d) = Ids!Text(c) <=> Ids!SameNumber(d, c)
             /\ Ids!InDomain(d) /\ Ids!InDomain(c) =>
                   (Ids!DecimalValue(d) = Ids!DecimalValue(c) <=> Ids!SameNumber(d, c))
             /\ Ids!Parses(d) /\ Ids!Parses(c) /\ Ids!SameNumber(d, c) => d = c
  <2>1. d \in Ids!Decimal /\ c \in Ids!Decimal
    OBVIOUS
  <2>2. Ids!DecimalValue(d) = Ids!Number(d) /\ Ids!DecimalValue(c) = Ids!Number(c)
    BY DEF Ids!DecimalValue, Ids!Number
  <2>3. Ids!Parses(d) => Ids!DecimalValue(d) = d
    BY DEF Ids!Parses
  <2>4. Ids!Parses(c) => Ids!DecimalValue(c) = c
    BY DEF Ids!Parses
  <2>5. QED
    BY <2>1, <2>2, <2>3, <2>4, NumberMeans, TextMeans
<1>2. ASSUME NEW d \in amounts, Ids!InDomain(d)
      PROVE  Ids!Parses(Ids!DecimalValue(d)) /\ Ids!SameNumber(Ids!DecimalValue(d), d)
  BY <1>2, ReadsBack
<1>3. QED
  BY <1>1, <1>2 DEF Ids!FormsAgree

-----------------------------------------------------------------------------
(* Plans *)

Command == [spec : Ids!FixtureRunSpec, runtime : PlannedRuntimes]

\* What was planned is what the command says.
PlansHold ==
    world = "identities" =>
        /\ commands \in [1 .. 2 -> Command]
        /\ next \in Nat \ {0}
        /\ DOMAIN plans \subseteq DOMAIN commands
        /\ \A p \in DOMAIN plans : plans[p] = Ids!PlanOf(commands[p])

LEMMA PlansInvariant == PinsSpec => []PlansHold
<1>1. PinsInit => PlansHold
  <2>1. SUFFICES ASSUME Ids!Init PROVE PlansHold
    BY DEF PinsInit, PlansHold
  <2>2. PICK s \in PlannedSpecs, t \in PlannedSpecs, r \in PlannedRuntimes, q \in PlannedRuntimes :
           commands = <<[spec |-> s, runtime |-> r], [spec |-> t, runtime |-> q]>>
    BY <2>1 DEF Ids!Init
  <2>3. [spec |-> s, runtime |-> r] \in Command /\ [spec |-> t, runtime |-> q] \in Command
    BY <2>2, PlansAssumption DEF Command
  <2>4. commands \in [1 .. 2 -> Command]
    BY <2>2, <2>3
  <2>5. next = 1 /\ plans = <<>>
    BY <2>1 DEF Ids!Init
  <2>6. DOMAIN plans = {}
    BY <2>5
  <2>7. QED
    BY <2>4, <2>5, <2>6 DEF PlansHold
<1>2. PlansHold /\ [PinsNext]_<<world, vars, planVars>> => PlansHold'
  <2>1. SUFFICES ASSUME PlansHold, [PinsNext]_<<world, vars, planVars>>, world' = "identities"
                 PROVE  PlansHold'
    BY DEF PlansHold
  <2>2. CASE Ids!Plan /\ world = "identities"
    <3>1. /\ commands \in [1 .. 2 -> Command] /\ next \in Nat \ {0} /\ next <= 2
          /\ DOMAIN plans \subseteq DOMAIN commands
          /\ \A p \in DOMAIN plans : plans[p] = Ids!PlanOf(commands[p])
          /\ next' = next + 1 /\ commands' = commands
      BY <2>1, <2>2 DEF PlansHold, Ids!Plan
    <3>2. plans' = [p \in DOMAIN plans \cup {next} |->
                        IF p = next THEN Ids!PlanOf(commands[next]) ELSE plans[p]]
      BY <2>2 DEF Ids!Plan
    <3>3. next \in DOMAIN commands
      BY <3>1
    <3>4. QED
      BY <2>2, <3>1, <3>2, <3>3 DEF PlansHold
  <2>3. CASE Ids!Reject /\ world = "identities"
    BY <2>1, <2>3 DEF PlansHold, Ids!Reject
  <2>4. CASE UNCHANGED <<world, vars, planVars>>
    BY <2>1, <2>4 DEF PlansHold, planVars
  <2>5. QED
    BY <2>1, <2>2, <2>3, <2>4 DEF PinsNext, Ids!Next
<1>3. QED
  BY <1>1, <1>2, PTL DEF PinsSpec

\* A run is what its identity says: fixture-run-spec ids are equal exactly when
\* the commands mean the same run (contracts.py, FixtureRunSpec), and every
\* layer that hashes numbers identifies the same ones.
THEOREM SpecIdTheorem == PinsSpec => []SpecIdIsScience
<1>1. PlansHold => SpecIdIsScience
  <2>1. SUFFICES ASSUME PlansHold, world = "identities"
                 PROVE  Ids!SpecIdIsScience /\ Ids!AmountsAreCanonical
    BY DEF SpecIdIsScience
  <2>2. /\ commands \in [1 .. 2 -> Command]
        /\ DOMAIN plans \subseteq DOMAIN commands
        /\ \A p \in DOMAIN plans : plans[p] = Ids!PlanOf(commands[p])
    BY <2>1 DEF PlansHold
  <2>3. \A k \in DOMAIN commands : commands[k].spec \in Ids!FixtureRunSpec
    BY <2>2 DEF Command
  <2>4. Ids!AmountsAreCanonical
    <3> DEFINE amounts == UNION {{commands[k].spec.cash, commands[k].spec.commission,
                                  commands[k].spec.slippage} : k \in DOMAIN commands}
    <3>1. amounts \subseteq Ids!Decimal
      BY <2>3 DEF Ids!FixtureRunSpec
    <3> HIDE DEF amounts
    <3>2. Ids!FormsAgree(amounts)
      BY <3>1, FormsMeans, PlansAssumption
    <3>3. QED
      BY <3>2 DEF Ids!AmountsAreCanonical, amounts
  <2>5. ASSUME NEW p \in DOMAIN plans, NEW r \in DOMAIN plans
        PROVE  LET same == Ids!SameScience(commands[p].spec, commands[r].spec)
               IN  /\ plans[p].fixture_run_spec_id = plans[r].fixture_run_spec_id <=> same
                   /\ plans[p].run_id = plans[r].run_id =>
                         same /\ commands[p].runtime = commands[r].runtime
    <3> DEFINE s == commands[p].spec
               t == commands[r].spec
    <3>1. s \in Ids!FixtureRunSpec /\ t \in Ids!FixtureRunSpec
      BY <2>2, <2>3
    <3>2. plans[p] = Ids!PlanOf(commands[p]) /\ plans[r] = Ids!PlanOf(commands[r])
      BY <2>2
    <3>3. /\ plans[p].fixture_run_spec_id = Ids!FixtureRunSpecId(s)
          /\ plans[r].fixture_run_spec_id = Ids!FixtureRunSpecId(t)
          /\ plans[p].run_id = Ids!RunId(s, commands[p].runtime)
          /\ plans[r].run_id = Ids!RunId(t, commands[r].runtime)
      BY <3>2 DEF Ids!PlanOf
    <3> HIDE DEF s, t
    <3>4. Ids!FixtureRunSpecId(s) = Ids!FixtureRunSpecId(t) <=>
             /\ Ids!Number(s.cash) = Ids!Number(t.cash)
             /\ Ids!Number(s.commission) = Ids!Number(t.commission)
             /\ Ids!Number(s.slippage) = Ids!Number(t.slippage)
             /\ s.start.utc = t.start.utc
      BY DEF Ids!FixtureRunSpecId
    <3>5. /\ s.cash \in Ids!Decimal /\ s.commission \in Ids!Decimal /\ s.slippage \in Ids!Decimal
          /\ t.cash \in Ids!Decimal /\ t.commission \in Ids!Decimal /\ t.slippage \in Ids!Decimal
      BY <3>1 DEF Ids!FixtureRunSpec
    <3>6. Ids!FixtureRunSpecId(s) = Ids!FixtureRunSpecId(t) <=> Ids!SameScience(s, t)
      BY <3>4, <3>5, NumberMeans DEF Ids!SameScience, Ids!SameExperiment
    <3>7. Ids!RunId(s, commands[p].runtime) = Ids!RunId(t, commands[r].runtime) =>
             /\ Ids!FixtureRunSpecId(s) = Ids!FixtureRunSpecId(t)
             /\ commands[p].runtime = commands[r].runtime
      BY DEF Ids!RunId
    <3>8. QED
      BY <3>3, <3>6, <3>7 DEF s, t
  <2>6. Ids!SpecIdIsScience
    BY <2>5 DEF Ids!SpecIdIsScience
  <2>7. QED
    BY <2>4, <2>6
<1>2. QED
  BY <1>1, PlansInvariant, PTL
=============================================================================

------------------------- MODULE CaptureStoreProofs -------------------------
(***************************************************************************)
(* CaptureStore keeps its promises for any number of writers, readers,     *)
(* observations, crashes and failing system calls, on any directory tree:  *)
(* objects are whole, durable and never replaced, readers never dangle, no *)
(* call leaves a mkstemp file behind silently, and it implements           *)
(* ObservationLedger.                                                      *)
(***************************************************************************)
EXTENDS CaptureStore, DurableFSProofs

\* The steps during which the mkstemp file of a call exists.
Holding == {"stage", "link", "compare", "sync", "unlink"}

\* How far _fsync_directory_chain has come: every entry on the way to the
\* object is on disk, except those of directories that are still to be synced.
Climbed(w) ==
    \A n \in Path(Target(w)) \ {Root} :
        Parent[n] \in Up[cursor[w]] \/ n \in durable

CallOK(w) ==
    /\ pc[w] = "idle" => stage[w] = "content"
    /\ pc[w] # "idle" => obs[w] \in Admissible \cap Manifests
    /\ pc[w] \in Holding => /\ temp[w] \in Temps \cap visible
                            /\ Parent[Target(w)] \in visible
    /\ pc[w] = "resync" => temp[w] \in Temps
    /\ pc[w] = "link" => data[temp[w]] = "whole" /\ temp[w] \in flushed
    /\ pc[w] = "compare" => Target(w) \in visible
    /\ pc[w] = "sync" => /\ Target(w) \in visible
                         /\ data[Target(w)] = "whole"
                         /\ Climbed(w)
    /\ pc[w] \in {"unlink", "resync"} /\ ~failed[w] => Intact(Target(w))
    /\ pc[w] # "idle" /\ stage[w] = "manifest" => Intact(ContentOf[obs[w]])

OwnTemps ==
    \A v, w \in Writers :
        pc[v] \in Holding /\ pc[w] \in Holding /\ temp[v] = temp[w] => v = w

ForeignHeld == \A o \in Foreign : Settled(o)

ObjectsComplete ==
    \A o \in Objects \cap visible :
        /\ data[o] = IF o \in Foreign THEN "foreign" ELSE "whole"
        /\ o \in flushed

ManifestsComplete ==
    \A m \in (Manifests \cap visible) \ Foreign : Intact(ContentOf[m])

\* The part of the invariant that speaks of the tree alone.
TreeInv ==
    /\ FSInv
    /\ ForeignHeld
    /\ ObjectsComplete
    /\ ManifestsComplete
    /\ AckedIsDurable

IInv ==
    /\ TypeOK
    /\ TreeInv
    /\ OwnTemps
    /\ \A w \in Writers : CallOK(w)

-----------------------------------------------------------------------------

LEMMA StoreFacts ==
    /\ Contents \subseteq Objects /\ Manifests \subseteq Objects
    /\ Contents \cap Manifests = {}
    /\ \A m \in Manifests : ContentOf[m] \in Contents /\ m \in Objects
    /\ Foreign \subseteq Objects
    /\ None \notin Temps /\ None \notin Manifests
    /\ \A o \in Objects : o \in Nodes \ {Root} /\ Parent[o] \in Dirs
    /\ \A t \in Temps : t \in Nodes \ {Root} /\ Parent[t] \in Dirs
  BY StoreAssumption, NodeFacts, TreeAssumption

LEMMA TargetFacts ==
    ASSUME NEW w \in Writers, TypeOK, obs[w] \in Manifests
    PROVE  Target(w) \in Objects /\ Parent[Target(w)] \in Dirs
  BY StoreFacts DEF Target, TypeOK

\* An object of the store that is visible and settled is intact.
LEMMA SettledIntact ==
    ASSUME TreeInv, NEW o \in Objects, Settled(o), data[o] = "whole"
    PROVE  Intact(o)
  <1>1. o \in visible
    BY ObjectPath, NodeFacts DEF Settled, TreeInv, FSInv, DiskBehind
  <1>2. QED
    BY <1>1 DEF TreeInv, ObjectsComplete, Intact

\* A step that loses nothing and creates no object keeps the tree part.
LEMMA TreeInvQuiet ==
    ASSUME TreeInv, FSInv', Quiet, acked' = acked, acked \subseteq Manifests
    PROVE  TreeInv'
  <1>1. ForeignHeld'
    BY KeepsSettled, StoreFacts DEF TreeInv, ForeignHeld, Quiet, Gentle
  <1>2. ObjectsComplete'
    BY DEF TreeInv, ObjectsComplete, Quiet, NoNewObject, SameObjects
  <1>3. ManifestsComplete'
    BY StoreFacts DEF TreeInv, ManifestsComplete, Quiet, NoNewObject, Gentle,
                      KeepsIntact
  <1>4. AckedIsDurable'
    BY StoreFacts DEF TreeInv, AckedIsDurable, Quiet, Gentle, KeepsIntact
  <1>5. QED
    BY <1>1, <1>2, <1>3, <1>4 DEF TreeInv

-----------------------------------------------------------------------------
(* Writers that a step does not concern *)

SameCall(w) ==
    /\ pc'[w] = pc[w] /\ obs'[w] = obs[w] /\ stage'[w] = stage[w]
    /\ temp'[w] = temp[w] /\ cursor'[w] = cursor[w] /\ failed'[w] = failed[w]

SameTemp(w) ==
    pc[w] \in Holding =>
        /\ temp[w] \in visible'
        /\ data'[temp[w]] = data[temp[w]]
        /\ temp[w] \in flushed => temp[w] \in flushed'

LEMMA OtherCallOK ==
    ASSUME TypeOK, FSInv, Gentle, NEW w \in Writers, CallOK(w), SameCall(w), SameTemp(w)
    PROVE  CallOK(w)'
  <1>1. CASE pc[w] = "idle"
    BY <1>1 DEF CallOK, SameCall, Holding
  <1>2. CASE pc[w] # "idle"
    <2>1. obs[w] \in Admissible \cap Manifests /\ obs[w] \in Manifests
      BY <1>2 DEF CallOK
    <2>2. Target(w)' = Target(w)
      BY DEF Target, SameCall
    <2>3. Target(w) \in Objects /\ Parent[Target(w)] \in Dirs
      BY <2>1, TargetFacts
    <2>4. ContentOf[obs[w]] \in Objects
      BY <2>1, StoreFacts
    <2>5. Climbed(w) => Climbed(w)'
      BY <2>2, <2>3, ObjectPath DEF Climbed, SameCall, Gentle
    <2>6. pc[w] \in Holding => temp[w] \in Temps \cap visible' /\ Parent[Target(w)] \in visible'
      BY <2>3, NodeFacts DEF CallOK, SameTemp, Gentle
    <2>7. /\ Intact(Target(w)) => Intact(Target(w))'
          /\ Intact(ContentOf[obs[w]]) => Intact(ContentOf[obs[w]])'
      BY <2>1, <2>2, <2>3, <2>4 DEF Gentle, KeepsIntact, Intact, Settled, SameCall
    <2>8. Target(w) \in visible => Target(w) \in visible' /\ data'[Target(w)] = data[Target(w)]
      BY <2>3, NodeFacts DEF Gentle
    <2>9. QED
      BY <2>1, <2>2, <2>5, <2>6, <2>7, <2>8
         DEF CallOK, SameCall, SameTemp, Holding
  <1>3. QED
    BY <1>1, <1>2

LEMMA FSUnchanged ==
    ASSUME FSInv, UNCHANGED fsVars
    PROVE  FSInv' /\ Quiet
  <1>1. FSInv'
    BY DEF fsVars, FSInv, FSTypeOK, TreeVisible, DiskBehind, RootDurable
  <1>2. SameObjects /\ NoNewObject /\ durable \ Temps \subseteq durable'
    BY DEF fsVars, SameObjects, NoNewObject
  <1>3. KeepsIntact
    BY <1>2, KeepsIntactWhenSame
  <1>4. QED
    BY <1>1, <1>2, <1>3 DEF fsVars, Quiet, Gentle

LEMMA QuietGentle == Quiet => Gentle
  BY DEF Quiet

\* w moves, every other writer stands still, and no mkstemp file is taken.
Moves(w) ==
    /\ \A v \in Writers \ {w} : SameCall(v) /\ SameTemp(v)
    /\ pc'[w] \in Holding => pc[w] \in Holding /\ temp'[w] = temp[w]

LEMMA Combine ==
    ASSUME IInv, NEW w \in Writers, TypeOK', TreeInv', Gentle, Moves(w),
           CallOK(w)'
    PROVE  IInv'
  <1>1. \A v \in Writers \ {w} : CallOK(v)'
    BY OtherCallOK DEF IInv, TreeInv, Moves
  <1>2. OwnTemps'
    BY DEF IInv, OwnTemps, Moves, SameCall
  <1>3. QED
    BY <1>1, <1>2 DEF IInv

\* The same for a step of w on the program's side only.
LEMMA CombineLocal ==
    ASSUME IInv, NEW w \in Writers, TypeOK', UNCHANGED <<fsVars, acked>>,
           \A v \in Writers \ {w} : SameCall(v),
           pc'[w] \in Holding => pc[w] \in Holding /\ temp'[w] = temp[w],
           CallOK(w)'
    PROVE  IInv'
  <1>1. FSInv' /\ Quiet
    BY FSUnchanged DEF IInv, TreeInv
  <1>2. TreeInv'
    BY <1>1, TreeInvQuiet DEF IInv, TypeOK
  <1>3. \A v \in Writers \ {w} : CallOK(v) => SameTemp(v)
    BY DEF CallOK, SameTemp, fsVars
  <1>4. Moves(w)
    BY <1>3 DEF Moves, IInv
  <1>5. QED
    BY <1>1, <1>2, <1>4, QuietGentle, Combine

LEMMA LeaveOK ==
    ASSUME TypeOK, NEW w \in Writers, Leave(w)
    PROVE  /\ CallOK(w)' /\ pc'[w] = "idle"
           /\ \A v \in Writers \ {w} : SameCall(v)
           /\ pc' \in [Writers -> Steps]
           /\ obs' \in [Writers -> Manifests \cup {None}]
           /\ stage' \in [Writers -> {"content", "manifest"}]
           /\ temp' \in [Writers -> Temps \cup {None}]
           /\ cursor' \in [Writers -> Dirs]
           /\ failed' \in [Writers -> BOOLEAN]
  BY NodeFacts DEF TypeOK, Leave, Goto, CallOK, SameCall, Holding, Steps

LEMMA FaultType ==
    ASSUME TypeOK, Fault
    PROVE  calls' \in Nat /\ faults' \in Nat /\ crashes' \in Nat
  BY DEF TypeOK, Fault

-----------------------------------------------------------------------------
(* Steps that do not touch the file system *)

LEMMA BeginWriteOK ==
    ASSUME IInv, NEW w \in Writers, NEW m \in Manifests, BeginWrite(w, m)
    PROVE  IInv'
  <1>1. TypeOK'
    BY DEF IInv, TypeOK, FSTypeOK, BeginWrite, Goto, Steps, fsVars, readVars
  <1>2. CallOK(w)'
    BY DEF IInv, TypeOK, BeginWrite, Goto, CallOK, Holding
  <1>3. QED
    BY <1>1, <1>2, CombineLocal
       DEF IInv, TypeOK, BeginWrite, Goto, SameCall, Holding, fsVars

LEMMA SetupFailsOK ==
    ASSUME IInv, NEW w \in Writers, SetupFails(w)
    PROVE  IInv'
  <1>1. calls' \in Nat /\ faults' \in Nat /\ crashes' \in Nat
    BY FaultType DEF IInv, TypeOK, SetupFails, budget
  <1>2. TypeOK'
    BY <1>1, LeaveOK DEF IInv, TypeOK, FSTypeOK, SetupFails, fsVars, readVars
  <1>3. QED
    BY <1>2, LeaveOK, CombineLocal DEF IInv, SetupFails, Holding

\* Every step that records an error and heads for the cleanup block.
LEMMA RecordErrorOK ==
    ASSUME IInv, NEW w \in Writers, pc[w] \in Holding, RecordError(w),
           UNCHANGED fsVars,
           calls' \in Nat /\ faults' \in Nat /\ crashes' \in Nat
    PROVE  IInv'
  <1>1. TypeOK'
    BY DEF IInv, TypeOK, FSTypeOK, RecordError, Goto, Steps, fsVars, readVars
  <1>2. CallOK(w)'
    BY DEF IInv, TypeOK, RecordError, Goto, CallOK, Holding, Target, fsVars,
           Intact, Settled
  <1>3. QED
    BY <1>1, <1>2, CombineLocal
       DEF IInv, TypeOK, RecordError, Goto, SameCall, Holding, fsVars

LEMMA ErrorStepsOK ==
    ASSUME IInv, NEW w \in Writers,
           \/ StageFails(w) \/ PublishFails(w) \/ CollisionRaised(w)
           \/ SyncFails(w)
    PROVE  IInv'
  <1>1. RecordError(w) /\ UNCHANGED fsVars /\ pc[w] \in Holding
    BY DEF StageFails, PublishFails, CollisionRaised, SyncFails, Holding
  <1>2. calls' \in Nat /\ faults' \in Nat /\ crashes' \in Nat
    BY FaultType DEF IInv, TypeOK, StageFails, PublishFails, CollisionRaised,
                     SyncFails, budget
  <1>3. QED
    BY <1>1, <1>2, RecordErrorOK

LEMMA MeetExistingOK ==
    ASSUME IInv, NEW w \in Writers, MeetExisting(w)
    PROVE  IInv'
  <1>1. TypeOK'
    BY DEF IInv, TypeOK, FSTypeOK, MeetExisting, Goto, Steps, fsVars, readVars,
           budget
  <1>2. CallOK(w)'
    BY DEF IInv, TypeOK, MeetExisting, Goto, CallOK, Holding, Target, fsVars,
           Intact, Settled
  <1>3. QED
    BY <1>1, <1>2, CombineLocal
       DEF IInv, TypeOK, MeetExisting, Goto, SameCall, Holding, fsVars

\* The chain of syncs starts with everything still to be done.
LEMMA ClimbStart ==
    ASSUME NEW o \in Objects, NEW n \in Path(o) \ {Root}
    PROVE  Parent[n] \in Up[Parent[o]]
  <1>1. o \in Nodes \ {Root} /\ Parent[o] \in Dirs
    BY StoreFacts
  <1>2. Path(o) = {o} \cup Up[Parent[o]]
    BY <1>1, PathParent
  <1>3. QED
    BY <1>1, <1>2, UpMember, UpParent

LEMMA AdoptExistingOK ==
    ASSUME IInv, NEW w \in Writers, AdoptExisting(w)
    PROVE  IInv'
  <1>1. obs[w] \in Manifests /\ Target(w) \in Objects /\ Parent[Target(w)] \in Dirs
    BY TargetFacts DEF IInv, CallOK, AdoptExisting
  <1>2. TypeOK'
    BY <1>1 DEF IInv, TypeOK, FSTypeOK, AdoptExisting, StartSync, Goto, Steps,
                fsVars, readVars, budget
  <1>3. Target(w)' = Target(w) /\ cursor'[w] = Parent[Target(w)]
    BY DEF AdoptExisting, StartSync, Target, IInv, TypeOK
  <1>4. Climbed(w)'
    BY <1>1, <1>3, ClimbStart DEF Climbed, AdoptExisting, fsVars
  <1>5. CallOK(w)'
    BY <1>3, <1>4 DEF IInv, TypeOK, AdoptExisting, StartSync, Goto, CallOK,
                Holding, Target, fsVars, Intact, Settled
  <1>6. QED
    BY <1>2, <1>5, CombineLocal
       DEF IInv, TypeOK, AdoptExisting, StartSync, Goto, SameCall, Holding, fsVars

LEMMA CleanupFailsOK ==
    ASSUME IInv, NEW w \in Writers, CleanupFails(w)
    PROVE  IInv'
  <1>1. temp[w] \in Temps
    BY DEF IInv, CallOK, CleanupFails, Holding
  <1>2. TypeOK'
    BY <1>1, LeaveOK, FaultType DEF IInv, TypeOK, FSTypeOK, CleanupFails,
                                    LeaveDebris, fsVars, readVars
  <1>3. QED
    BY <1>2, LeaveOK, CombineLocal DEF IInv, CleanupFails, LeaveDebris, Holding

LEMMA KillOK ==
    ASSUME IInv, NEW w \in Writers, Kill(w)
    PROVE  IInv'
  <1>1. TypeOK'
    BY LeaveOK DEF IInv, TypeOK, FSTypeOK, Kill, Crash, fsVars, readVars
  <1>2. QED
    BY <1>1, LeaveOK, CombineLocal DEF IInv, Kill, Holding

\* Steps that leave every call alone: rejected writes and the readers.
LEMMA NoCallOK ==
    ASSUME IInv, TypeOK', UNCHANGED <<fsVars, callVars, acked>>
    PROVE  IInv'
  <1>1. FSInv' /\ Quiet
    BY FSUnchanged DEF IInv, TreeInv
  <1>2. TreeInv'
    BY <1>1, TreeInvQuiet DEF IInv, TypeOK
  <1>3. \A v \in Writers : CallOK(v) => SameTemp(v) /\ SameCall(v)
    BY DEF CallOK, SameTemp, SameCall, fsVars, callVars
  <1>4. \A v \in Writers : CallOK(v)'
    BY <1>1, <1>3, QuietGentle, OtherCallOK DEF IInv, TreeInv
  <1>5. OwnTemps'
    BY DEF IInv, OwnTemps, callVars
  <1>6. QED
    BY <1>2, <1>4, <1>5 DEF IInv

LEMMA ReadersOK ==
    ASSUME IInv,
           \/ \E w \in Writers, m \in Manifests : RejectWrite(w, m)
           \/ \E r \in Readers, m \in Manifests :
                ReadManifest(r, m) \/ RefuseManifest(r, m)
           \/ \E r \in Readers : ReadContent(r) \/ ReadFails(r)
    PROVE  IInv'
  <1>1. CASE \E w \in Writers, m \in Manifests : RejectWrite(w, m)
    BY <1>1, NoCallOK DEF IInv, TypeOK, FSTypeOK, RejectWrite, fsVars, callVars, readVars
  <1>2. CASE \E r \in Readers, m \in Manifests : ReadManifest(r, m)
    BY <1>2, NoCallOK DEF IInv, TypeOK, FSTypeOK, ReadManifest, fsVars,
                          callVars, budget
  <1>3. CASE \E r \in Readers, m \in Manifests : RefuseManifest(r, m)
    BY <1>3, NoCallOK DEF IInv, TypeOK, FSTypeOK, RefuseManifest, Refuse,
                          fsVars, callVars, budget
  <1>4. CASE \E r \in Readers : ReadContent(r)
    BY <1>4, NoCallOK DEF IInv, TypeOK, FSTypeOK, ReadContent, fsVars,
                          callVars, budget
  <1>5. CASE \E r \in Readers : ReadFails(r)
    BY <1>5, NoCallOK, FaultType DEF IInv, TypeOK, FSTypeOK, ReadFails, Refuse,
                          fsVars, callVars
  <1>6. QED
    BY <1>1, <1>2, <1>3, <1>4, <1>5

-----------------------------------------------------------------------------
(* Steps that touch the file system *)

\* Steps that change the tree and no call.
LEMMA QuietStepOK ==
    ASSUME IInv, FSInv', Quiet, UNCHANGED <<callVars, acked, debris, readVars, budget>>,
           data' = data, flushed' = flushed, visible \subseteq visible'
    PROVE  IInv'
  <1>1. TreeInv'
    BY TreeInvQuiet DEF IInv, TypeOK
  <1>2. \A v \in Writers : CallOK(v) => SameTemp(v) /\ SameCall(v)
    BY DEF CallOK, SameTemp, SameCall, callVars
  <1>3. \A v \in Writers : CallOK(v)'
    BY <1>2, QuietGentle, OtherCallOK DEF IInv, TreeInv
  <1>4. OwnTemps' /\ TypeOK'
    BY DEF IInv, OwnTemps, TypeOK, FSInv, callVars, readVars, budget
  <1>5. QED
    BY <1>1, <1>3, <1>4 DEF IInv

LEMMA SetupDirectoryOK ==
    ASSUME IInv, NEW w \in Writers, SetupDirectory(w)
    PROVE  IInv'
  <1>1. PICK d \in Up[Parent[Target(w)]] : MakeDirectory(d)
    BY DEF SetupDirectory
  <1>2. d \in Dirs
    BY <1>1 DEF MakeDirectory
  <1>3. FSInv' /\ Quiet
    BY <1>1, <1>2, MakeDirectoryKeeps DEF IInv, TreeInv
  <1>4. QED
    BY <1>1, <1>3, QuietStepOK DEF SetupDirectory, MakeDirectory

LEMMA FlushOK ==
    ASSUME IInv, NEW n \in Nodes, Flush(n)
    PROVE  IInv'
  <1>1. FSInv' /\ Quiet
    BY WritebackKeeps DEF IInv, TreeInv, Flush
  <1>2. QED
    BY <1>1, QuietStepOK DEF Flush, Writeback

LEMMA SetupTempOK ==
    ASSUME IInv, NEW w \in Writers, SetupTemp(w)
    PROVE  IInv'
  <1>1. PICK t \in Temps :
          /\ Parent[t] = Parent[Target(w)]
          /\ CreateFile(t)
          /\ temp' = [temp EXCEPT ![w] = t]
          /\ debris' = debris \ {t}
    BY DEF SetupTemp
  <1>2. FSInv' /\ Quiet
    BY <1>1, CreateFileKeeps DEF IInv, TreeInv
  <1>3. TypeOK'
    BY <1>1, <1>2 DEF IInv, TypeOK, FSInv, SetupTemp, Goto, Steps, readVars, budget
  <1>4. TreeInv'
    BY <1>2, TreeInvQuiet DEF IInv, TypeOK, SetupTemp
  <1>5. \A v \in Writers \ {w} : SameCall(v)
    BY <1>1 DEF SetupTemp, Goto, SameCall, IInv, TypeOK
  <1>6. \A v \in Writers \ {w} : SameTemp(v)
    <2> SUFFICES ASSUME NEW v \in Writers \ {w}, pc[v] \in Holding
                 PROVE  /\ temp[v] \in visible'
                        /\ data'[temp[v]] = data[temp[v]]
                        /\ temp[v] \in flushed => temp[v] \in flushed'
      BY DEF SameTemp
    <2>1. temp[v] \in Temps \cap visible /\ temp[v] # t
      BY <1>1 DEF IInv, CallOK, CreateFile
    <2>2. QED
      BY <1>1, <2>1, NodeFacts DEF CreateFile, IInv, TypeOK, FSTypeOK
  <1>7. OwnTemps'
    <2> SUFFICES ASSUME NEW u \in Writers, NEW v \in Writers, u # v,
                        pc'[u] \in Holding, pc'[v] \in Holding,
                        temp'[u] = temp'[v]
                 PROVE  FALSE
      BY DEF OwnTemps
    <2>1. \A x \in Writers \ {w} : pc[x] \in Holding => temp[x] \in visible
      BY DEF IInv, CallOK
    <2>2. t \notin visible /\ temp'[w] = t
      BY <1>1 DEF CreateFile, IInv, TypeOK
    <2>3. CASE u = w
      BY <1>5, <2>1, <2>2, <2>3 DEF SameCall
    <2>4. CASE v = w
      BY <1>5, <2>1, <2>2, <2>4 DEF SameCall
    <2>5. CASE u # w /\ v # w
      BY <1>5, <2>5 DEF SameCall, IInv, OwnTemps
    <2>6. QED
      BY <2>3, <2>4, <2>5
  <1>8. CallOK(w)'
    <2>1. obs[w] \in Manifests /\ Target(w) \in Objects
      BY TargetFacts DEF IInv, CallOK, SetupTemp
    <2>2. Target(w)' = Target(w) /\ pc'[w] = "stage" /\ temp'[w] = t
      BY <1>1 DEF SetupTemp, Goto, Target, IInv, TypeOK
    <2>3. t \in visible' /\ Parent[Target(w)] \in visible'
      BY <1>1 DEF CreateFile
    <2>4. Intact(ContentOf[obs[w]]) => Intact(ContentOf[obs[w]])'
      BY <1>2, <2>1, StoreFacts DEF Quiet, Gentle, KeepsIntact, SetupTemp, Intact, Settled
    <2>5. QED
      BY <2>2, <2>3, <2>4 DEF IInv, CallOK, SetupTemp, Holding
  <1>9. \A v \in Writers \ {w} : CallOK(v)'
    BY <1>2, <1>5, <1>6, QuietGentle, OtherCallOK DEF IInv, TreeInv
  <1>10. QED
    BY <1>3, <1>4, <1>7, <1>8, <1>9 DEF IInv

\* A step that touches only the mkstemp file of w leaves the others alone.
LEMMA OwnTempOnly ==
    ASSUME IInv, NEW w \in Writers, pc[w] \in Holding,
           \/ WriteAndSync(temp[w])
           \/ Remove(temp[w])
           \/ \E o \in Objects : Link(temp[w], o)
    PROVE  \A v \in Writers \ {w} : SameTemp(v)
  <1> SUFFICES ASSUME NEW v \in Writers \ {w}, pc[v] \in Holding
               PROVE  /\ temp[v] \in visible'
                      /\ data'[temp[v]] = data[temp[v]]
                      /\ temp[v] \in flushed => temp[v] \in flushed'
    BY DEF SameTemp
  <1>1. temp[v] \in Temps \cap visible /\ temp[v] # temp[w]
    BY DEF IInv, CallOK, OwnTemps
  <1>2. temp[w] \in Temps
    BY DEF IInv, CallOK
  <1>3. QED
    BY <1>1, <1>2, NodeFacts
       DEF WriteAndSync, Remove, Link, IInv, TypeOK, FSTypeOK

LEMMA StageBytesOK ==
    ASSUME IInv, NEW w \in Writers, StageBytes(w)
    PROVE  IInv'
  <1>1. temp[w] \in Temps \cap visible /\ pc[w] \in Holding
    BY DEF IInv, CallOK, StageBytes, Holding
  <1>2. FSInv' /\ Quiet /\ data'[temp[w]] = "whole" /\ temp[w] \in flushed'
    BY <1>1, WriteAndSyncKeeps DEF IInv, TreeInv, StageBytes
  <1>3. TypeOK'
    BY <1>2 DEF IInv, TypeOK, FSInv, StageBytes, Goto, Steps, readVars, budget
  <1>4. TreeInv'
    BY <1>2, TreeInvQuiet DEF IInv, TypeOK, StageBytes
  <1>5. Moves(w)
    BY <1>1, OwnTempOnly
       DEF Moves, StageBytes, Goto, SameCall, IInv, TypeOK
  <1>6. CallOK(w)'
    <2>1. obs[w] \in Manifests
      BY DEF IInv, CallOK, StageBytes
    <2>2. Intact(ContentOf[obs[w]]) => Intact(ContentOf[obs[w]])'
      BY <1>2, <2>1, StoreFacts DEF Quiet, Gentle, KeepsIntact, StageBytes, Intact, Settled
    <2>3. QED
      BY <1>1, <1>2, <2>2
         DEF IInv, TypeOK, CallOK, StageBytes, Goto, WriteAndSync, Target, Holding
  <1>7. QED
    BY <1>2, <1>3, <1>4, <1>5, <1>6, QuietGentle, Combine

LEMMA UnlinkTempOK ==
    ASSUME IInv, NEW w \in Writers, UnlinkTemp(w)
    PROVE  IInv'
  <1>1. temp[w] \in Temps /\ pc[w] \in Holding /\ obs[w] \in Manifests
    BY DEF IInv, CallOK, UnlinkTemp, Holding
  <1>2. FSInv' /\ Quiet
    BY <1>1, RemoveKeeps DEF IInv, TreeInv, UnlinkTemp
  <1>3. Target(w) \in Objects /\ Parent[Target(w)] \in Dirs
    BY <1>1, TargetFacts DEF IInv
  <1>4. TypeOK'
    BY <1>2, <1>3 DEF IInv, TypeOK, FSInv, UnlinkTemp, StartSync, Goto, Steps,
                      readVars, budget
  <1>5. TreeInv'
    BY <1>2, TreeInvQuiet DEF IInv, TypeOK, UnlinkTemp
  <1>6. Moves(w)
    BY <1>1, OwnTempOnly
       DEF Moves, UnlinkTemp, StartSync, Goto, SameCall, IInv, TypeOK, Holding
  <1>7. CallOK(w)'
    <2>1. Target(w)' = Target(w) /\ obs'[w] = obs[w]
      BY DEF UnlinkTemp, Target
    <2>2. /\ Intact(ContentOf[obs[w]]) => Intact(ContentOf[obs[w]])'
          /\ Intact(Target(w)) => Intact(Target(w))'
      BY <1>1, <1>2, <1>3, <2>1, StoreFacts
         DEF Quiet, Gentle, KeepsIntact, Intact, Settled
    <2>3. QED
      BY <1>1, <2>1, <2>2
         DEF IInv, TypeOK, CallOK, UnlinkTemp, StartSync, Goto, Holding
  <1>8. QED
    BY <1>2, <1>4, <1>5, <1>6, <1>7, QuietGentle, Combine

LEMMA PublishOK ==
    ASSUME IInv, NEW w \in Writers, Publish(w)
    PROVE  IInv'
  <1> DEFINE o == Target(w)
  <1>1. /\ temp[w] \in Temps /\ pc[w] \in Holding /\ obs[w] \in Manifests
        /\ Parent[o] \in visible /\ data[temp[w]] = "whole" /\ temp[w] \in flushed
    BY DEF IInv, CallOK, Publish, Holding
  <1>2. o \in Objects /\ Parent[o] \in Dirs /\ Link(temp[w], o)
    BY <1>1, TargetFacts DEF IInv, Publish
  <1>3. /\ FSInv' /\ Gentle
        /\ visible' = visible \cup {o}
        /\ data'[o] = "whole" /\ o \in flushed'
        /\ \A x \in Objects \ {o} : data'[x] = data[x]
        /\ \A x \in Objects \ {o} : x \in flushed' <=> x \in flushed
    BY <1>1, <1>2, LinkKeeps DEF IInv, TreeInv
  <1>4. TypeOK'
    BY <1>2, <1>3 DEF IInv, TypeOK, FSInv, Publish, StartSync, Goto, Steps,
                      readVars, budget
  <1>5. o \notin Foreign
    <2>1. o \notin visible
      BY <1>2 DEF Link
    <2>2. QED
      BY <2>1, <1>2, ObjectPath, NodeFacts
         DEF IInv, TreeInv, ForeignHeld, Settled, FSInv, DiskBehind
  <1>6. TreeInv'
    <2>1. ForeignHeld'
      BY <1>3, KeepsSettled, StoreFacts DEF IInv, TreeInv, ForeignHeld, Gentle
    <2>2. ObjectsComplete'
      BY <1>3, <1>5 DEF IInv, TreeInv, ObjectsComplete
    <2>3. ManifestsComplete'
      <3> SUFFICES ASSUME NEW m \in (Manifests \cap visible') \ Foreign
                   PROVE  Intact(ContentOf[m])'
        BY DEF ManifestsComplete
      <3>1. Intact(ContentOf[m]) => Intact(ContentOf[m])'
        BY <1>3, StoreFacts DEF Gentle, KeepsIntact
      <3>2. CASE m = o
        <4>1. stage[w] = "manifest" /\ m = obs[w]
          BY <3>2, <1>1, StoreFacts DEF Target, IInv, TypeOK
        <4>2. QED
          BY <4>1, <3>1 DEF IInv, CallOK, Publish
      <3>3. CASE m # o
        BY <3>1, <3>3, <1>3 DEF IInv, TreeInv, ManifestsComplete
      <3>4. QED
        BY <3>2, <3>3
    <2>4. AckedIsDurable'
      BY <1>3, StoreFacts DEF IInv, TypeOK, TreeInv, AckedIsDurable, Gentle, KeepsIntact,
                          Publish
    <2>5. QED
      BY <1>3, <2>1, <2>2, <2>3, <2>4 DEF TreeInv
  <1>7. Moves(w)
    BY <1>1, <1>2, OwnTempOnly
       DEF Moves, Publish, StartSync, Goto, SameCall, IInv, TypeOK, Holding
  <1>8. CallOK(w)'
    <2>1. Target(w)' = o /\ obs'[w] = obs[w] /\ cursor'[w] = Parent[o]
      BY DEF Publish, StartSync, Target, IInv, TypeOK
    <2>2. Climbed(w)'
      BY <1>2, <2>1, ClimbStart DEF Climbed
    <2>3. Intact(ContentOf[obs[w]]) => Intact(ContentOf[obs[w]])'
      BY <1>1, <1>3, <2>1, StoreFacts DEF Gentle, KeepsIntact, Intact, Settled
    <2>4. temp[w] \in visible'
      BY <1>1, <1>3 DEF IInv, CallOK
    <2>5. QED
      BY <1>1, <1>3, <2>1, <2>2, <2>3, <2>4
         DEF IInv, TypeOK, CallOK, Publish, StartSync, Goto, Holding
  <1>9. QED
    BY <1>3, <1>4, <1>6, <1>7, <1>8, Combine

-----------------------------------------------------------------------------
(* The chain of directory syncs *)

\* A directory sync by w, whatever w does next.
LEMMA SyncCommon ==
    ASSUME IInv, NEW w \in Writers, NEW d \in Dirs, SyncDirectory(d),
           \A v \in Writers \ {w} : SameCall(v),
           pc'[w] \in Holding => pc[w] \in Holding /\ temp'[w] = temp[w]
    PROVE  FSInv' /\ Quiet /\ Moves(w)
  <1>1. FSInv' /\ Quiet
    BY SyncDirectoryKeeps DEF IInv, TreeInv
  <1>2. \A v \in Writers : CallOK(v) => SameTemp(v)
    BY DEF CallOK, SameTemp, SyncDirectory
  <1>3. QED
    BY <1>1, <1>2 DEF Moves, IInv

LEMMA SyncStepOK ==
    ASSUME IInv, NEW w \in Writers, SyncStep(w) \/ ResyncStep(w)
    PROVE  IInv'
  <1>1. /\ Climb(w) /\ cursor[w] \in Dirs \ {Root} /\ obs[w] \in Manifests
        /\ pc[w] \in {"sync", "resync"}
    BY DEF SyncStep, ResyncStep, Climb, IInv, TypeOK, CallOK
  <1>2. Parent[cursor[w]] \in Dirs /\ Up[cursor[w]] = {cursor[w]} \cup Up[Parent[cursor[w]]]
    BY <1>1, UpStep
  <1>3. \A v \in Writers \ {w} : SameCall(v)
    BY <1>1 DEF Climb, SameCall, IInv, TypeOK
  <1>4. FSInv' /\ Quiet /\ Moves(w)
    BY <1>1, <1>3, SyncCommon DEF Climb
  <1>5. TypeOK'
    BY <1>1, <1>2, <1>4 DEF IInv, TypeOK, FSInv, Climb, readVars, budget
  <1>6. TreeInv'
    BY <1>1, <1>4, TreeInvQuiet DEF IInv, TypeOK, Climb
  <1>7. CallOK(w)'
    <2>1. Target(w) \in Objects /\ Target(w)' = Target(w) /\ obs'[w] = obs[w]
          /\ cursor'[w] = Parent[cursor[w]] /\ pc'[w] = pc[w]
      BY <1>1, TargetFacts DEF IInv, Climb, Target, TypeOK
    <2>2. ASSUME pc[w] = "sync" PROVE Climbed(w)'
      <3> SUFFICES ASSUME NEW n \in Path(Target(w)) \ {Root}
                   PROVE  Parent[n] \in Up[cursor'[w]] \/ n \in durable'
        BY <2>1 DEF Climbed
      <3>1. n \in Nodes /\ n \notin Temps /\ n \in visible
        BY <2>1, <2>2, ObjectPath DEF IInv, CallOK, TreeInv, FSInv, TreeVisible
      <3>2. Parent[n] \in Up[cursor[w]] \/ n \in durable
        BY <2>2 DEF IInv, CallOK, Climbed
      <3>3. CASE Parent[n] = cursor[w]
        BY <1>1, <3>1, <3>3 DEF Climb, SyncDirectory, Children
      <3>4. CASE Parent[n] # cursor[w]
        BY <1>2, <1>4, <2>1, <3>1, <3>2, <3>4 DEF Quiet, Gentle
      <3>5. QED
        BY <3>3, <3>4
    <2>3. /\ Intact(ContentOf[obs[w]]) => Intact(ContentOf[obs[w]])'
          /\ Intact(Target(w)) => Intact(Target(w))'
      BY <1>1, <1>4, <2>1, StoreFacts
         DEF Quiet, Gentle, KeepsIntact, Intact, Settled
    <2>4. QED
      BY <1>1, <2>1, <2>2, <2>3
         DEF IInv, CallOK, Climb, SyncDirectory, Holding
  <1>8. QED
    BY <1>4, <1>5, <1>6, <1>7, QuietGentle, Combine

\* After the root is synced the object is found again after a power loss.
LEMMA SyncedIsIntact ==
    ASSUME IInv, NEW w \in Writers, SyncDirectory(Root), cursor[w] = Root,
           pc[w] = "sync", Target(w)' = Target(w)
    PROVE  Intact(Target(w))'
  <1>1. obs[w] \in Manifests /\ Target(w) \in Objects
    BY TargetFacts DEF IInv, CallOK
  <1>2. ASSUME NEW n \in Path(Target(w)) PROVE n \in durable'
    <2>1. n \in Nodes /\ n \notin Temps /\ n \in visible
      BY <1>1, ObjectPath DEF IInv, CallOK, TreeInv, FSInv, TreeVisible
    <2>2. CASE n = Root
      BY <2>2, NodeFacts DEF SyncDirectory, Children, IInv, TreeInv, FSInv, RootDurable
    <2>3. CASE n # Root /\ n \in durable
      BY <2>1, <2>3 DEF SyncDirectory
    <2>4. CASE n # Root /\ n \notin durable
      <3>1. Parent[n] \in Up[Root]
        BY <2>4 DEF IInv, CallOK, Climbed
      <3>2. QED
        BY <2>1, <2>4, <3>1, UpRoot DEF SyncDirectory, Children
    <2>5. QED
      BY <2>2, <2>3, <2>4
  <1>3. Target(w) \in visible /\ data[Target(w)] = "whole"
    BY DEF IInv, CallOK
  <1>4. Target(w) \in flushed
    BY <1>1, <1>3 DEF IInv, TreeInv, ObjectsComplete
  <1>5. QED
    BY <1>2, <1>3, <1>4 DEF Intact, Settled, SyncDirectory

LEMMA SyncRootOK ==
    ASSUME IInv, NEW w \in Writers, SyncRoot(w)
    PROVE  IInv'
  <1>1. obs[w] \in Manifests /\ Target(w) \in Objects
    BY TargetFacts DEF IInv, CallOK, SyncRoot
  <1>2. FSInv' /\ Quiet /\ Moves(w)
    BY SyncCommon, NodeFacts DEF SyncRoot, Goto, SameCall, Holding, IInv, TypeOK
  <1>3. TypeOK'
    BY <1>2 DEF IInv, TypeOK, FSInv, SyncRoot, Goto, Steps, readVars, budget
  <1>4. TreeInv'
    BY <1>2, TreeInvQuiet DEF IInv, TypeOK, SyncRoot
  <1>5. CallOK(w)'
    <2>1. Target(w)' = Target(w) /\ obs'[w] = obs[w]
      BY DEF SyncRoot, Target
    <2>2. Intact(Target(w))'
      BY <2>1, SyncedIsIntact DEF SyncRoot
    <2>3. Intact(ContentOf[obs[w]]) => Intact(ContentOf[obs[w]])'
      BY <1>1, <1>2, <2>1, StoreFacts DEF Quiet, Gentle, KeepsIntact, Intact, Settled
    <2>4. QED
      BY <2>1, <2>2, <2>3
         DEF IInv, TypeOK, CallOK, SyncRoot, SyncDirectory, Goto, Holding
  <1>6. QED
    BY <1>2, <1>3, <1>4, <1>5, QuietGentle, Combine

-----------------------------------------------------------------------------
(* The end of a call *)

\* The last directory sync of a call, common to its three outcomes.
LEMMA LastSync ==
    ASSUME IInv, NEW w \in Writers, SyncDirectory(Root),
           \A v \in Writers \ {w} : SameCall(v), pc'[w] \notin Holding
    PROVE  FSInv' /\ Quiet /\ Moves(w)
  BY SyncCommon, NodeFacts

LEMMA RaiseErrorOK ==
    ASSUME IInv, NEW w \in Writers, RaiseError(w)
    PROVE  IInv'
  <1>1. FSInv' /\ Quiet /\ Moves(w)
    BY LastSync, LeaveOK DEF IInv, RaiseError, Holding
  <1>2. TypeOK'
    BY <1>1, LeaveOK DEF IInv, TypeOK, FSInv, RaiseError, readVars, budget
  <1>3. TreeInv'
    BY <1>1, TreeInvQuiet DEF IInv, TypeOK, RaiseError
  <1>4. QED
    BY <1>1, <1>2, <1>3, LeaveOK, QuietGentle, Combine DEF IInv, RaiseError

LEMMA ContentDoneOK ==
    ASSUME IInv, NEW w \in Writers, ContentDone(w)
    PROVE  IInv'
  <1>1. obs[w] \in Admissible \cap Manifests /\ Target(w) = ContentOf[obs[w]]
        /\ Intact(Target(w))
    BY DEF IInv, CallOK, ContentDone, Target
  <1>2. FSInv' /\ Quiet /\ Moves(w)
    BY LastSync DEF IInv, TypeOK, ContentDone, Goto, SameCall, Holding
  <1>3. TypeOK'
    BY <1>2 DEF IInv, TypeOK, FSInv, ContentDone, Goto, Steps, readVars, budget
  <1>4. TreeInv'
    BY <1>2, TreeInvQuiet DEF IInv, TypeOK, ContentDone
  <1>5. CallOK(w)'
    <2>1. Intact(ContentOf[obs[w]])'
      BY <1>1, <1>2, StoreFacts DEF Quiet, Gentle, KeepsIntact, ContentDone,
                                   Intact, Settled
    <2>2. QED
      BY <1>1, <2>1 DEF IInv, TypeOK, CallOK, ContentDone, Goto, Holding
  <1>6. QED
    BY <1>2, <1>3, <1>4, <1>5, QuietGentle, Combine

LEMMA ReturnStoredOK ==
    ASSUME IInv, NEW w \in Writers, ReturnStored(w)
    PROVE  IInv'
  <1>1. /\ obs[w] \in Manifests /\ Target(w) = obs[w]
        /\ Intact(obs[w]) /\ Intact(ContentOf[obs[w]])
    BY DEF IInv, TypeOK, CallOK, ReturnStored, Target
  <1>2. FSInv' /\ Quiet /\ Moves(w)
    BY LastSync, LeaveOK DEF IInv, ReturnStored, Holding
  <1>3. TypeOK'
    BY <1>1, <1>2, LeaveOK DEF IInv, TypeOK, FSInv, ReturnStored, readVars, budget
  <1>4. TreeInv'
    <2>1. ForeignHeld'
      BY <1>2, KeepsSettled, StoreFacts DEF IInv, TreeInv, ForeignHeld, Quiet, Gentle
    <2>2. ObjectsComplete'
      BY <1>2 DEF IInv, TreeInv, ObjectsComplete, Quiet, NoNewObject, SameObjects
    <2>3. ManifestsComplete'
      BY <1>2, StoreFacts DEF IInv, TreeInv, ManifestsComplete, Quiet,
                              NoNewObject, Gentle, KeepsIntact
    <2>4. AckedIsDurable'
      <3> SUFFICES ASSUME NEW m \in acked \cup {obs[w]}
                   PROVE  Intact(m)' /\ Intact(ContentOf[m])'
        BY DEF AckedIsDurable, ReturnStored
      <3>1. m \in Manifests /\ Intact(m) /\ Intact(ContentOf[m])
        BY <1>1 DEF IInv, TypeOK, TreeInv, AckedIsDurable
      <3>2. QED
        BY <1>2, <3>1, StoreFacts DEF Quiet, Gentle, KeepsIntact
    <2>5. QED
      BY <1>2, <2>1, <2>2, <2>3, <2>4 DEF TreeInv
  <1>5. QED
    BY <1>2, <1>3, <1>4, LeaveOK, QuietGentle, Combine DEF IInv, ReturnStored

LEMMA PowerLossOK ==
    ASSUME IInv, PowerLoss
    PROVE  IInv'
  <1>1. /\ FSInv' /\ KeepsIntact /\ NoNewObject
        /\ \A o \in Objects \cap visible' : Settled(o) /\ Settled(o)'
        /\ \A o \in Objects \cap visible' :
             o \in flushed => data'[o] = data[o] /\ o \in flushed'
        /\ \A o \in Objects : Settled(o) => o \in visible' /\ Settled(o)'
    BY LosePowerKeeps DEF IInv, TreeInv, PowerLoss
  <1>2. TypeOK'
    BY <1>1, NodeFacts DEF IInv, TypeOK, FSInv, PowerLoss, Crash, Steps
  <1>3. TreeInv'
    <2>1. ForeignHeld'
      BY <1>1, StoreFacts DEF IInv, TreeInv, ForeignHeld
    <2>2. ObjectsComplete'
      BY <1>1 DEF IInv, TreeInv, ObjectsComplete, NoNewObject
    <2>3. ManifestsComplete'
      BY <1>1, StoreFacts DEF IInv, TreeInv, ManifestsComplete, NoNewObject, KeepsIntact
    <2>4. AckedIsDurable'
      BY <1>1, StoreFacts DEF IInv, TypeOK, TreeInv, AckedIsDurable, KeepsIntact, PowerLoss
    <2>5. QED
      BY <1>1, <2>1, <2>2, <2>3, <2>4 DEF TreeInv
  <1>4. OwnTemps' /\ \A v \in Writers : CallOK(v)'
    BY DEF PowerLoss, OwnTemps, CallOK, Holding
  <1>5. QED
    BY <1>2, <1>3, <1>4 DEF IInv

-----------------------------------------------------------------------------
(* The theorems *)

LEMMA InitIInv == RootPreexists /\ Init => IInv
  <1> SUFFICES ASSUME RootPreexists, Init PROVE IInv
    OBVIOUS
  <1> DEFINE old == UNION {Path(o) : o \in Foreign}
  <1>1. visible = {Root} \cup old /\ durable = visible
        /\ data = [f \in Files |-> IF f \in Foreign THEN "foreign" ELSE "partial"]
        /\ flushed = Foreign
    BY DEF Init, FSInit
  <1>2. old \subseteq Nodes
    BY ObjectPath, StoreFacts
  <1>3. \A n \in old : Path(n) \subseteq old
    BY PathClosed, StoreFacts
  <1>4. Path(Root) = {Root}
    BY UpRoot, NodeFacts DEF Path
  <1>5. \A o \in Objects \cap old : o \in Foreign
    <2> SUFFICES ASSUME NEW o \in Objects, NEW f \in Foreign, o \in Path(f)
                 PROVE  o = f
      OBVIOUS
    <2>1. QED
      BY StoreFacts, PathMember, NodeFacts
  <1>6. FSInv
    <2>1. FSTypeOK
      BY <1>1, <1>2, NodeFacts, StoreFacts DEF FSTypeOK, Bytes
    <2>2. TreeVisible /\ DiskBehind /\ RootDurable
      BY <1>1, <1>3, <1>4 DEF TreeVisible, DiskBehind, RootDurable
    <2>3. QED
      BY <2>1, <2>2 DEF FSInv
  <1>7. ForeignHeld
    BY <1>1 DEF ForeignHeld, Settled
  <1>8. ObjectsComplete
    <2> SUFFICES ASSUME NEW o \in Objects \cap visible
                 PROVE  data[o] = (IF o \in Foreign THEN "foreign" ELSE "whole") /\ o \in flushed
      BY DEF ObjectsComplete
    <2>1. o \in Foreign
      BY <1>1, <1>5, NodeFacts
    <2>2. QED
      BY <1>1, <2>1, NodeFacts
  <1>9. ManifestsComplete
    BY <1>1, <1>5, StoreFacts, NodeFacts DEF ManifestsComplete
  <1>10. TypeOK /\ AckedIsDurable /\ OwnTemps /\ \A w \in Writers : CallOK(w)
    BY <1>6, NodeFacts DEF Init, FSInv, TypeOK, AckedIsDurable, OwnTemps, CallOK,
                           Holding, Steps
  <1>11. QED
    BY <1>6, <1>7, <1>8, <1>9, <1>10 DEF IInv, TreeInv

LEMMA AdvanceOK ==
    ASSUME IInv, NEW w \in Writers, Advance(w)
    PROVE  IInv'
  BY SetupDirectoryOK, SetupTempOK, SetupFailsOK, StageBytesOK, ErrorStepsOK,
     PublishOK, MeetExistingOK, AdoptExistingOK, SyncStepOK, SyncRootOK,
     UnlinkTempOK, RaiseErrorOK, ContentDoneOK, ReturnStoredOK, CleanupFailsOK
  DEF Advance

LEMMA StepIInv == IInv /\ [Next]_vars => IInv'
  <1> SUFFICES ASSUME IInv, [Next]_vars PROVE IInv'
    OBVIOUS
  <1>1. CASE UNCHANGED vars
    BY <1>1, NoCallOK
       DEF vars, IInv, TypeOK, FSTypeOK, fsVars, callVars, readVars, budget
  <1>2. CASE \E w \in Writers, m \in Manifests : BeginWrite(w, m)
    BY <1>2, BeginWriteOK
  <1>3. CASE \E w \in Writers : Advance(w) \/ Kill(w)
    BY <1>3, AdvanceOK, KillOK
  <1>4. CASE PowerLoss
    BY <1>4, PowerLossOK
  <1>5. CASE \E n \in Nodes : Flush(n)
    BY <1>5, FlushOK
  <1>6. CASE ~ (\E w \in Writers, m \in Manifests : BeginWrite(w, m))
             /\ ~ (\E w \in Writers : Advance(w) \/ Kill(w))
             /\ ~ PowerLoss /\ ~ (\E n \in Nodes : Flush(n)) /\ Next
    BY <1>6, ReadersOK DEF Next
  <1>7. QED
    BY <1>1, <1>2, <1>3, <1>4, <1>5, <1>6

THEOREM StoreInvariant == RootPreexists /\ Spec => []IInv
  BY InitIInv, StepIInv, PTL DEF Spec

\* What write() returned for is never lost: see AckedIsDurable.
THEOREM Durability == RootPreexists /\ Spec => []AckedIsDurable
  BY StoreInvariant, PTL DEF IInv, TreeInv

\* Every variable keeps its type.
THEOREM TypeCorrect == RootPreexists /\ Spec => []TypeOK
  BY StoreInvariant, PTL DEF IInv

\* No manifest on disk or in sight names content that is not on disk.
THEOREM ContentFirst == RootPreexists /\ Spec => []NeverDangling
  <1>1. IInv => NeverDangling
    BY StoreFacts, NodeFacts
       DEF IInv, TreeInv, FSInv, DiskBehind, ManifestsComplete, NeverDangling
  <1>2. QED
    BY <1>1, StoreInvariant, PTL

\* No canonical path ever shows half an object.
THEOREM AtomicPublication == RootPreexists /\ Spec => []NeverTorn
  <1>1. IInv => NeverTorn
    BY DEF IInv, TreeInv, ObjectsComplete, NeverTorn
  <1>2. QED
    BY <1>1, StoreInvariant, PTL

-----------------------------------------------------------------------------
(* What follows from the invariant *)

\* A step publishes one object, acknowledges one observation, loses power, or
\* leaves the objects and the acknowledgements as they are.
LEMMA StepKinds ==
    ASSUME IInv, [Next]_vars
    PROVE  \/ Quiet /\ acked' = acked
           \/ Quiet /\ \E w \in Writers : ReturnStored(w)
           \/ Gentle /\ acked' = acked /\ \E w \in Writers : Publish(w)
           \/ PowerLoss
  <1>1. CASE UNCHANGED <<fsVars, acked>>
    BY <1>1, FSUnchanged DEF IInv, TreeInv
  <1>2. ASSUME NEW w \in Writers, SetupDirectory(w) PROVE Quiet /\ acked' = acked
    <2>1. PICK d \in Dirs : MakeDirectory(d)
      BY <1>2 DEF SetupDirectory, MakeDirectory
    <2>2. QED
      BY <1>2, <2>1, MakeDirectoryKeeps DEF SetupDirectory, IInv, TreeInv
  <1>3. ASSUME NEW w \in Writers, SetupTemp(w) PROVE Quiet /\ acked' = acked
    <2>1. PICK t \in Temps : CreateFile(t)
      BY <1>3 DEF SetupTemp
    <2>2. QED
      BY <1>3, <2>1, CreateFileKeeps DEF SetupTemp, IInv, TreeInv
  <1>4. ASSUME NEW w \in Writers, StageBytes(w) PROVE Quiet /\ acked' = acked
    BY <1>4, WriteAndSyncKeeps DEF StageBytes, IInv, TreeInv, CallOK, Holding
  <1>5. ASSUME NEW w \in Writers, UnlinkTemp(w) PROVE Quiet /\ acked' = acked
    BY <1>5, RemoveKeeps DEF UnlinkTemp, IInv, TreeInv, CallOK, Holding
  <1>6. ASSUME NEW w \in Writers,
               SyncStep(w) \/ ResyncStep(w) \/ SyncRoot(w) \/ RaiseError(w)
               \/ ContentDone(w) \/ ReturnStored(w)
        PROVE  Quiet
    <2>1. PICK d \in Dirs : SyncDirectory(d)
      BY <1>6, NodeFacts DEF SyncStep, ResyncStep, Climb, SyncRoot, RaiseError,
                             ContentDone, ReturnStored, IInv, TypeOK
    <2>2. QED
      BY <2>1, SyncDirectoryKeeps DEF IInv, TreeInv
  <1>7. ASSUME NEW w \in Writers,
               SyncStep(w) \/ ResyncStep(w) \/ SyncRoot(w) \/ RaiseError(w)
               \/ ContentDone(w)
        PROVE  acked' = acked
    BY <1>7 DEF SyncStep, ResyncStep, Climb, SyncRoot, RaiseError, ContentDone
  <1>8. ASSUME NEW w \in Writers, Publish(w) PROVE Gentle /\ acked' = acked
    <2>1. obs[w] \in Manifests /\ Target(w) \in Objects
      BY <1>8, TargetFacts DEF IInv, CallOK, Publish
    <2>2. QED
      BY <1>8, <2>1, LinkKeeps DEF IInv, TreeInv, CallOK, Publish, Holding
  <1>9. ASSUME NEW n \in Nodes, Flush(n) PROVE Quiet /\ acked' = acked
    BY <1>9, WritebackKeeps DEF Flush, IInv, TreeInv
  <1>10. ASSUME NEW w \in Writers,
                \/ SetupFails(w) \/ StageFails(w) \/ MeetExisting(w)
                \/ PublishFails(w) \/ AdoptExisting(w) \/ CollisionRaised(w)
                \/ SyncFails(w) \/ CleanupFails(w) \/ Kill(w)
                \/ \E m \in Manifests : BeginWrite(w, m) \/ RejectWrite(w, m)
         PROVE  UNCHANGED <<fsVars, acked>>
    BY <1>10 DEF SetupFails, StageFails, MeetExisting, PublishFails,
                 AdoptExisting, CollisionRaised, SyncFails, CleanupFails, Kill,
                 BeginWrite, RejectWrite, RecordError, LeaveDebris
  <1>11. ASSUME NEW r \in Readers,
                \/ ReadContent(r) \/ ReadFails(r)
                \/ \E m \in Manifests : ReadManifest(r, m) \/ RefuseManifest(r, m)
         PROVE  UNCHANGED <<fsVars, acked>>
    BY <1>11 DEF ReadContent, ReadFails, ReadManifest, RefuseManifest
  <1>12. CASE UNCHANGED vars
    BY <1>1, <1>12 DEF vars
  <1>13. CASE Next
    BY <1>1, <1>2, <1>3, <1>4, <1>5, <1>6, <1>7, <1>8, <1>9, <1>10, <1>11, <1>13
       DEF Next, Advance
  <1>14. QED
    BY <1>12, <1>13

-----------------------------------------------------------------------------

\* Canonical bytes are never replaced; only a power loss removes an object.
THEOREM NoOverwrite == RootPreexists /\ Spec => NeverOverwritten
  <1>1. ASSUME IInv, [Next]_vars
        PROVE  [\A o \in Objects \cap visible :
                  IF o \in visible' THEN data'[o] = data[o] ELSE PowerLoss]_vars
    <2>1. CASE PowerLoss
      <3>1. ASSUME NEW o \in Objects \cap visible, o \in visible'
            PROVE  data'[o] = data[o]
        BY <1>1, <2>1, <3>1, LosePowerKeeps
           DEF PowerLoss, IInv, TreeInv, ObjectsComplete
      <3>2. QED
        BY <2>1, <3>1
    <2>2. CASE Gentle
      BY <2>2, NodeFacts DEF Gentle
    <2>3. QED
      BY <1>1, <2>1, <2>2, StepKinds, QuietGentle
  <1>2. QED
    BY <1>1, StoreInvariant, PTL DEF Spec, NeverOverwritten

\* A reader between its two reads holds a manifest whose content is on disk.
ReadersInv ==
    \A r \in Readers :
        /\ replay[r] # None => Intact(ContentOf[replay[r]])
        /\ verdict[r] # "dangling"

THEOREM ReplayTheorem == RootPreexists /\ Spec => []ReplayResolves
  <1>1. Init => ReadersInv
    BY DEF Init, ReadersInv
  <1>2. ASSUME IInv, ReadersInv, [Next]_vars
        PROVE  ReadersInv'
    <2>1. \A o \in Objects : Intact(o) => Intact(o)'
      <3>1. KeepsIntact
        BY <1>2, StepKinds, QuietGentle, LosePowerKeeps
           DEF Gentle, PowerLoss, IInv, TreeInv
      <3>2. QED
        BY <3>1 DEF KeepsIntact
    <2>2. CASE UNCHANGED readVars
      BY <1>2, <2>1, <2>2, StoreFacts DEF ReadersInv, readVars, IInv, TypeOK,
                                          Intact, Settled
    <2>3. CASE PowerLoss
      BY <2>3 DEF PowerLoss, ReadersInv
    <2>4. CASE \E r \in Readers, m \in Manifests : ReadManifest(r, m)
      <3>1. PICK r \in Readers, m \in Manifests : ReadManifest(r, m)
        BY <2>4
      <3>2. m \notin Foreign
        BY <1>2, <3>1, StoreFacts DEF ReadManifest, IInv, TreeInv, ObjectsComplete
      <3>3. Intact(ContentOf[m])
        BY <1>2, <3>1, <3>2 DEF ReadManifest, IInv, TreeInv, ManifestsComplete
      <3>4. \A x \in Readers : Intact(ContentOf[replay[x]]) =>
                                 Intact(ContentOf[replay[x]])'
                                 \/ replay'[x] # replay[x]
        BY <3>1 DEF ReadManifest, fsVars, Intact, Settled
      <3>5. QED
        BY <1>2, <3>1, <3>3, <3>4
           DEF ReadManifest, fsVars, ReadersInv, IInv, TypeOK, Intact, Settled
    <2>5. CASE \E r \in Readers, m \in Manifests : RefuseManifest(r, m)
      BY <1>2, <2>5 DEF RefuseManifest, Refuse, ReadersInv, IInv, TypeOK, fsVars,
                        Intact, Settled
    <2>6. CASE \E r \in Readers : ReadContent(r)
      <3>1. PICK r \in Readers : ReadContent(r)
        BY <2>6
      <3>2. replay[r] \in Manifests /\ Intact(ContentOf[replay[r]])
        BY <1>2, <3>1 DEF ReadContent, ReadersInv, IInv, TypeOK
      <3>3. ContentOf[replay[r]] \in visible
        BY <1>2, <3>2, StoreFacts, ObjectPath, NodeFacts
           DEF Intact, Settled, IInv, TreeInv, FSInv, DiskBehind
      <3>4. verdict' = [verdict EXCEPT ![r] = "verified"]
        BY <3>1, <3>2, <3>3 DEF ReadContent, Intact
      <3>5. QED
        BY <1>2, <3>1, <3>4 DEF ReadContent, fsVars, ReadersInv, IInv, TypeOK,
                                Intact, Settled
    <2>7. CASE \E r \in Readers : ReadFails(r)
      BY <1>2, <2>7 DEF ReadFails, Refuse, ReadersInv, IInv, TypeOK, fsVars,
                        Intact, Settled
    <2>8. ASSUME NEW w \in Writers,
                 Advance(w) \/ Kill(w)
                 \/ \E m \in Manifests : BeginWrite(w, m) \/ RejectWrite(w, m)
          PROVE  UNCHANGED readVars
      BY <2>8 DEF Advance, SetupDirectory, SetupTemp, SetupFails, StageBytes,
           StageFails, Publish, MeetExisting, PublishFails, AdoptExisting,
           CollisionRaised, SyncStep, SyncRoot, SyncFails, UnlinkTemp,
           ResyncStep, Climb, RaiseError, ContentDone, ReturnStored,
           CleanupFails, LeaveDebris, RecordError, Kill, BeginWrite, RejectWrite
    <2>9. CASE \E n \in Nodes : Flush(n)
      BY <2>2, <2>9 DEF Flush
    <2>10. CASE UNCHANGED vars
      BY <2>2, <2>10 DEF vars
    <2>11. QED
      BY <1>2, <2>2, <2>3, <2>4, <2>5, <2>6, <2>7, <2>8, <2>9, <2>10 DEF Next
  <1>3. ReadersInv => ReplayResolves
    BY DEF ReadersInv, ReplayResolves
  <1>4. QED
    BY <1>1, <1>2, <1>3, StoreInvariant, PTL DEF Spec

-----------------------------------------------------------------------------
(* Refinement *)

Stored == {o \in Objects \cap visible : data[o] = "whole"}

LEMMA StoredIs == IInv => Stored = (Objects \cap visible) \ Foreign
  BY DEF Stored, IInv, TreeInv, ObjectsComplete

\* A publication is one of the two storing steps of the ledger.
LEMMA PublishRefines ==
    ASSUME IInv, NEW w \in Writers, Publish(w)
    PROVE  \E m \in Manifests :
             /\ m \in Admissible /\ UNCHANGED acked
             /\ \/ Stored' = Stored \cup {ContentOf[m]}
                \/ ContentOf[m] \in Stored /\ Stored' = Stored \cup {m}
  <1> DEFINE m == obs[w]
  <1> DEFINE o == Target(w)
  <1>1. /\ m \in Admissible \cap Manifests /\ o \in Objects
        /\ temp[w] \in Temps /\ data[temp[w]] = "whole" /\ temp[w] \in flushed
        /\ Parent[o] \in visible /\ Link(temp[w], o)
    BY TargetFacts DEF IInv, CallOK, Publish, Holding
  <1>2. /\ visible' = visible \cup {o}
        /\ data'[o] = "whole"
        /\ \A x \in Objects \ {o} : data'[x] = data[x]
    BY <1>1, LinkKeeps DEF IInv, TreeInv
  <1>3. Stored' = Stored \cup {o}
    BY <1>1, <1>2 DEF Stored
  <1>4. CASE stage[w] = "content"
    BY <1>1, <1>3, <1>4 DEF Target, Publish
  <1>5. CASE stage[w] # "content"
    <2>1. o = m /\ stage[w] = "manifest"
      BY <1>5 DEF Target, IInv, TypeOK
    <2>2. Intact(ContentOf[m]) /\ ContentOf[m] \in Objects
      BY <1>1, <2>1, StoreFacts DEF IInv, CallOK, Publish
    <2>3. ContentOf[m] \in Stored
      BY <2>2, ObjectPath, NodeFacts
         DEF Stored, Intact, Settled, IInv, TreeInv, FSInv, DiskBehind
    <2>4. QED
      BY <1>1, <1>3, <2>1, <2>3 DEF Publish
  <1>6. QED
    BY <1>4, <1>5

\* CaptureStore implements the ledger.
THEOREM Refinement == RootPreexists /\ Spec => LedgerSpec
  <1>1. Init => Ledger!Init
    BY NodeFacts DEF Init, FSInit, Ledger!Init
  <1>2. ASSUME IInv, IInv', [Next]_vars
        PROVE  [Ledger!Next]_(Ledger!ledgerVars)
    <2>1. CASE Quiet /\ acked' = acked
      <3>1. Stored' = Stored
        BY <2>1, NodeFacts DEF Stored, Quiet, Gentle, NoNewObject, SameObjects
      <3>2. QED
        BY <2>1, <3>1 DEF Stored, Ledger!ledgerVars
    <2>2. CASE Quiet /\ \E w \in Writers : ReturnStored(w)
      <3>1. PICK w \in Writers : ReturnStored(w)
        BY <2>2
      <3>2. Stored' = Stored
        BY <2>2, NodeFacts DEF Stored, Quiet, Gentle, NoNewObject, SameObjects
      <3>3. obs[w] \in Manifests /\ Intact(obs[w])
        BY <1>2, <3>1 DEF IInv, TypeOK, CallOK, ReturnStored, Target
      <3>4. obs[w] \in Stored
        BY <1>2, <3>3, StoreFacts, ObjectPath, NodeFacts
           DEF Stored, Intact, Settled, IInv, TreeInv, FSInv, DiskBehind
      <3>5. Ledger!Acknowledge(obs[w])
        BY <3>1, <3>2, <3>4 DEF Stored, Ledger!Acknowledge, ReturnStored
      <3>6. QED
        BY <3>3, <3>5 DEF Ledger!Next
    <2>3. CASE \E w \in Writers : Publish(w)
      <3>1. \E m \in Manifests : Ledger!StoreContent(m) \/ Ledger!StoreManifest(m)
        BY <1>2, <2>3, PublishRefines
           DEF Stored, Ledger!StoreContent, Ledger!StoreManifest
      <3>2. QED
        BY <3>1 DEF Ledger!Next
    <2>4. CASE PowerLoss
      <3>1. /\ KeepsIntact /\ NoNewObject
            /\ \A o \in Objects \cap visible' : Settled(o) /\ Settled(o)'
            /\ \A o \in Objects : Settled(o) => o \in visible' /\ Settled(o)'
        BY <1>2, <2>4, LosePowerKeeps DEF IInv, TreeInv, PowerLoss
      <3>2. Stored' \subseteq Stored
        BY <1>2, <3>1 DEF Stored, NoNewObject, IInv, TreeInv, ObjectsComplete
      <3>3. ASSUME NEW o \in Objects, Intact(o) PROVE o \in Stored'
        BY <3>1, <3>3 DEF KeepsIntact, Intact, Stored
      <3>4. \A m \in acked : m \in Stored'
        BY <1>2, <3>3, StoreFacts DEF IInv, TypeOK, TreeInv, AckedIsDurable
      <3>5. \A m \in Stored' \cap Manifests : ContentOf[m] \in Stored'
        <4> SUFFICES ASSUME NEW m \in Stored' \cap Manifests
                     PROVE  ContentOf[m] \in Stored'
          OBVIOUS
        <4>1. m \in (Manifests \cap visible) \ Foreign
          BY <1>2, <3>2, StoredIs
        <4>2. QED
          BY <1>2, <3>3, <4>1, StoreFacts DEF IInv, TreeInv, ManifestsComplete
      <3>6. Ledger!Lose
        BY <2>4, <3>2, <3>4, <3>5 DEF Stored, Ledger!Lose, PowerLoss
      <3>7. QED
        BY <3>6 DEF Ledger!Next
    <2>5. QED
      BY <1>2, <2>1, <2>2, <2>3, <2>4, StepKinds
  <1>3. QED
    BY <1>1, <1>2, StoreInvariant, PTL DEF Spec, LedgerSpec, Ledger!Spec

-----------------------------------------------------------------------------
(* mkstemp files *)

\* A visible mkstemp file is debris or belongs to a call that will unlink it;
\* one that is only on disk may also belong to a call that has unlinked it and
\* has yet to sync its directory.
DebrisInv ==
    \A t \in Temps :
        /\ t \in visible =>
             t \in debris \/ \E w \in Writers : pc[w] \in Holding /\ temp[w] = t
        /\ t \in durable =>
             \/ t \in debris
             \/ \E w \in Writers : pc[w] \in Holding /\ temp[w] = t
             \/ \E w \in Writers : /\ pc[w] = "resync" /\ temp[w] = t
                                   /\ cursor[w] = Parent[t]

\* The mkstemp file of a call lies in the directory of its object.
TempPlace ==
    \A w \in Writers :
        pc[w] \in Holding => Parent[temp[w]] = Parent[Target(w)]

LEMMA TempPlaceStep ==
    ASSUME IInv, TempPlace, [Next]_vars
    PROVE  TempPlace'
  <1>1. CASE UNCHANGED callVars
    BY <1>1 DEF TempPlace, callVars, Target
  <1>2. ASSUME NEW w \in Writers,
               Advance(w) \/ Kill(w) \/ \E m \in Manifests : BeginWrite(w, m)
        PROVE  TempPlace'
    <2>1. \A v \in Writers \ {w} : SameCall(v)
      BY <1>2 DEF IInv, TypeOK, SameCall, Goto, Leave, StartSync, RecordError,
           LeaveDebris, callVars, Advance, SetupDirectory, SetupTemp,
           SetupFails, StageBytes, StageFails, Publish, MeetExisting,
           PublishFails, AdoptExisting, CollisionRaised, SyncStep, SyncRoot,
           SyncFails, UnlinkTemp, ResyncStep, Climb, RaiseError, ContentDone,
           ReturnStored, CleanupFails, Kill, BeginWrite
    <2>2. CASE SetupTemp(w)
      BY <2>1, <2>2 DEF SetupTemp, TempPlace, SameCall, Target, IInv, TypeOK
    <2>3. CASE ~SetupTemp(w)
      <3>1. pc'[w] \in Holding =>
              pc[w] \in Holding /\ temp'[w] = temp[w] /\ Target(w)' = Target(w)
        BY <1>2, <2>3 DEF IInv, TypeOK, Holding, Target, Goto, Leave, StartSync,
           RecordError, LeaveDebris, callVars, Advance, SetupDirectory,
           SetupFails, StageBytes, StageFails, Publish, MeetExisting,
           PublishFails, AdoptExisting, CollisionRaised, SyncStep, SyncRoot,
           SyncFails, UnlinkTemp, ResyncStep, Climb, RaiseError, ContentDone,
           ReturnStored, CleanupFails, Kill, BeginWrite
      <3>2. QED
        BY <2>1, <3>1 DEF TempPlace, SameCall, Target
    <2>4. QED
      BY <2>2, <2>3
  <1>3. CASE PowerLoss
    BY <1>3 DEF PowerLoss, TempPlace, Holding
  <1>4. CASE UNCHANGED vars
    BY <1>1, <1>4 DEF vars
  <1>5. QED
    BY <1>1, <1>2, <1>3, <1>4
       DEF Next, RejectWrite, ReadManifest, RefuseManifest, ReadContent,
           ReadFails, Flush

\* Claims(v, t): v answers for the mkstemp file t until t is off the disk.
Claims(v, t) ==
    /\ temp[v] = t
    /\ \/ pc[v] \in Holding
       \/ pc[v] = "resync" /\ cursor[v] = Parent[t]

\* Steps after which every file still has whoever answered for it, or is
\* recorded as debris.
LEMMA DebrisKept ==
    ASSUME DebrisInv, debris \subseteq debris',
           \A v \in Writers : pc[v] \in Holding =>
              temp[v] \in debris' \/ (pc'[v] \in Holding /\ temp'[v] = temp[v]),
           \A v \in Writers, t \in Temps : Claims(v, t) => t \in debris' \/ Claims(v, t)',
           visible' \cap Temps \subseteq visible,
           durable' \cap Temps \subseteq durable \cup visible
    PROVE  DebrisInv'
  BY DEF DebrisInv, Claims

LEMMA DebrisUnlink ==
    ASSUME IInv, TempPlace, DebrisInv, NEW w \in Writers, UnlinkTemp(w)
    PROVE  DebrisInv'
  <1>1. temp[w] \in Temps /\ Parent[temp[w]] = Parent[Target(w)] /\ pc[w] \in Holding
    BY DEF IInv, CallOK, TempPlace, UnlinkTemp, Holding
  <1>2. /\ pc'[w] = "resync" /\ cursor'[w] = Parent[temp[w]] /\ temp' = temp
        /\ visible' = visible \ {temp[w]} /\ durable' = durable /\ debris' = debris
        /\ \A v \in Writers \ {w} : pc'[v] = pc[v] /\ cursor'[v] = cursor[v]
    BY <1>1 DEF IInv, TypeOK, UnlinkTemp, StartSync, Goto, Remove
  <1>3. \A v \in Writers, t \in Temps : Claims(v, t) => Claims(v, t)'
    BY <1>1, <1>2 DEF Claims, Holding
  <1>4. QED
    BY <1>1, <1>2, <1>3 DEF DebrisInv, Claims, Holding

LEMMA DebrisSetup ==
    ASSUME IInv, DebrisInv, NEW w \in Writers, SetupTemp(w)
    PROVE  DebrisInv'
  <1>1. PICK t \in Temps :
          /\ visible' = visible \cup {t} /\ durable' = durable
          /\ temp' = [temp EXCEPT ![w] = t] /\ debris' = debris \ {t}
    BY DEF SetupTemp, CreateFile
  <1>2. pc[w] = "setup" /\ pc'[w] \in Holding /\ temp'[w] = t
    BY <1>1 DEF SetupTemp, Goto, IInv, TypeOK, Holding
  <1>3. \A v \in Writers \ {w} : SameCall(v)
    BY <1>1 DEF SetupTemp, Goto, SameCall, IInv, TypeOK
  <1>4. \A v \in Writers, x \in Temps \ {t} : Claims(v, x) => Claims(v, x)'
    BY <1>2, <1>3 DEF Claims, SameCall, Holding
  <1>5. ASSUME NEW x \in Temps \ {t}
        PROVE  /\ x \in visible' =>
                    x \in debris' \/ \E v \in Writers : pc'[v] \in Holding /\ temp'[v] = x
               /\ x \in durable' => x \in debris' \/ \E v \in Writers : Claims(v, x)'
    <2>1. \A v \in Writers : pc[v] \in Holding /\ temp[v] = x
                               => pc'[v] \in Holding /\ temp'[v] = x
      BY <1>2, <1>3 DEF SameCall, Holding
    <2>2. x \in visible => x \in debris \/ \E v \in Writers : pc[v] \in Holding /\ temp[v] = x
      BY DEF DebrisInv
    <2>3. x \in durable => x \in debris \/ \E v \in Writers : Claims(v, x)
      BY DEF DebrisInv, Claims
    <2>4. QED
      BY <1>1, <1>4, <2>1, <2>2, <2>3
  <1>6. QED
    BY <1>2, <1>5 DEF DebrisInv, Claims

\* A sync by a call that has unlinked its file.
LEMMA DebrisSync ==
    ASSUME IInv, DebrisInv, NEW w \in Writers, pc[w] = "resync",
           SyncDirectory(cursor[w]), debris' = debris,
           \A v \in Writers \ {w} : SameCall(v)
    PROVE  DebrisInv'
  <1>1. \A v \in Writers \ {w}, t \in Temps : Claims(v, t) => Claims(v, t)'
    BY DEF Claims, SameCall
  <1>2. \A v \in Writers : pc[v] \in Holding => pc'[v] \in Holding /\ temp'[v] = temp[v]
    BY DEF SameCall, Holding
  <1>3. ASSUME NEW t \in Temps, t \in visible
        PROVE  t \in debris' \/ \E v \in Writers : pc'[v] \in Holding /\ temp'[v] = t
    BY <1>2, <1>3 DEF DebrisInv
  <1>4. ASSUME NEW t \in Temps, t \in durable'
        PROVE  t \in debris' \/ \E v \in Writers : Claims(v, t)'
    <2>1. CASE t \in visible
      BY <1>3, <2>1 DEF Claims
    <2>2. CASE t \notin visible
      <3>1. t \in durable /\ Parent[t] # cursor[w]
        BY <1>4, <2>2, StoreFacts DEF SyncDirectory, Children
      <3>2. t \in debris \/ \E v \in Writers : Claims(v, t)
        BY <3>1 DEF DebrisInv, Claims
      <3>3. ~Claims(w, t)
        BY <3>1 DEF Claims, Holding
      <3>4. QED
        BY <1>1, <3>2, <3>3
    <2>3. QED
      BY <2>1, <2>2
  <1>5. QED
    BY <1>3, <1>4 DEF DebrisInv, Claims, SyncDirectory

LEMMA DebrisStep ==
    ASSUME IInv, TempPlace, DebrisInv, [Next]_vars
    PROVE  DebrisInv'
  <1>1. CASE UNCHANGED <<visible, durable, callVars, debris>>
    BY <1>1 DEF DebrisInv, callVars
  <1>2. ASSUME NEW w \in Writers,
               SyncStep(w) \/ SyncRoot(w) \/ SyncFails(w) \/ StageBytes(w)
               \/ StageFails(w) \/ Publish(w) \/ MeetExisting(w)
               \/ PublishFails(w) \/ AdoptExisting(w) \/ CollisionRaised(w)
        PROVE  DebrisInv'
    <2>1. /\ pc[w] \in Holding /\ pc'[w] \in Holding /\ temp' = temp
          /\ debris' = debris /\ \A v \in Writers \ {w} : SameCall(v)
      BY <1>2 DEF IInv, TypeOK, SameCall, Holding, Goto, StartSync, RecordError,
           SyncStep, Climb, SyncRoot, SyncFails, StageBytes, StageFails,
           Publish, MeetExisting, PublishFails, AdoptExisting, CollisionRaised
    <2>2. /\ visible' \cap Temps \subseteq visible
          /\ durable' \cap Temps \subseteq durable \cup visible
      <3>1. CASE UNCHANGED <<visible, durable>>
        BY <3>1
      <3>2. CASE \E d \in Dirs : SyncDirectory(d)
        BY <3>2 DEF SyncDirectory
      <3>3. CASE Publish(w)
        <4>1. Target(w) \in Objects
          BY <3>3, TargetFacts DEF Publish, IInv, CallOK
        <4>2. QED
          BY <3>3, <4>1, NodeFacts DEF Publish, Link
      <3>4. QED
        BY <1>2, <3>1, <3>2, <3>3, NodeFacts
           DEF SyncStep, Climb, SyncRoot, SyncFails, StageBytes, WriteAndSync,
               StageFails, MeetExisting, PublishFails, AdoptExisting,
               CollisionRaised, fsVars, IInv, TypeOK
    <2>3. \A v \in Writers, t \in Temps : Claims(v, t) => Claims(v, t)'
      BY <2>1 DEF Claims, SameCall
    <2>4. QED
      BY <2>1, <2>2, <2>3, DebrisKept DEF SameCall
  <1>3. ASSUME NEW w \in Writers,
               ResyncStep(w) \/ RaiseError(w) \/ ContentDone(w) \/ ReturnStored(w)
        PROVE  DebrisInv'
    <2>1. pc[w] = "resync" /\ SyncDirectory(cursor[w]) /\ debris' = debris
      BY <1>3 DEF ResyncStep, Climb, RaiseError, ContentDone, ReturnStored
    <2>2. \A v \in Writers \ {w} : SameCall(v)
      BY <1>3, LeaveOK DEF IInv, TypeOK, SameCall, Goto, ResyncStep, Climb, RaiseError,
                  ContentDone, ReturnStored
    <2>3. QED
      BY <2>1, <2>2, DebrisSync
  <1>4. ASSUME NEW w \in Writers, CleanupFails(w) \/ Kill(w)
        PROVE  DebrisInv'
    <2>1. /\ Leave(w) /\ UNCHANGED fsVars /\ debris \subseteq debris'
          /\ temp[w] \in Temps => temp[w] \in debris'
      BY <1>4 DEF CleanupFails, LeaveDebris, Kill
    <2>2. \A v \in Writers \ {w} : SameCall(v)
      BY <2>1, LeaveOK DEF IInv
    <2>3. \A v \in Writers, t \in Temps : Claims(v, t) => t \in debris' \/ Claims(v, t)'
      BY <2>1, <2>2 DEF Claims, SameCall
    <2>4. \A v \in Writers : pc[v] \in Holding =>
             temp[v] \in debris' \/ (pc'[v] \in Holding /\ temp'[v] = temp[v])
      BY <2>1, <2>2 DEF SameCall, IInv, CallOK
    <2>5. QED
      BY <2>1, <2>3, <2>4, DebrisKept DEF fsVars
  <1>5. ASSUME NEW w \in Writers,
               SetupFails(w) \/ SetupDirectory(w)
               \/ \E m \in Manifests : BeginWrite(w, m)
        PROVE  DebrisInv'
    <2>1. /\ visible' \cap Temps = visible \cap Temps /\ durable' = durable
          /\ debris' = debris /\ pc[w] \in {"setup", "idle"}
      BY <1>5, NodeFacts DEF SetupFails, SetupDirectory, MakeDirectory, BeginWrite, fsVars
    <2>2. \A v \in Writers \ {w} : SameCall(v)
      BY <1>5, LeaveOK DEF IInv, TypeOK, SameCall, Goto, SetupFails, SetupDirectory,
                           BeginWrite, callVars
    <2>3. \A v \in Writers, t \in Temps : Claims(v, t) => Claims(v, t)'
      BY <2>1, <2>2 DEF Claims, SameCall, Holding
    <2>4. \A v \in Writers : pc[v] \in Holding => pc'[v] \in Holding /\ temp'[v] = temp[v]
      BY <2>1, <2>2 DEF SameCall, Holding
    <2>5. QED
      BY <2>1, <2>3, <2>4, DebrisKept
  <1>6. CASE PowerLoss
    <2>1. /\ visible' \subseteq durable /\ durable' = visible'
          /\ debris' = debris \cup ({temp[v] : v \in Writers} \cap Temps)
      BY <1>6 DEF PowerLoss, LosePower
    <2>2. QED
      BY <2>1 DEF DebrisInv
  <1>7. CASE \E n \in Nodes : Flush(n)
    <2>1. /\ UNCHANGED <<visible, callVars, debris>>
          /\ durable' \cap Temps \subseteq durable \cup visible
      BY <1>7 DEF Flush, Writeback
    <2>2. QED
      BY <2>1 DEF DebrisInv, callVars
  <1>8. CASE UNCHANGED vars
    BY <1>1, <1>8 DEF vars, fsVars
  <1>9. QED
    BY <1>1, <1>2, <1>3, <1>4, <1>5, <1>6, <1>7, <1>8, DebrisUnlink, DebrisSetup
       DEF Next, Advance, RejectWrite, ReadManifest, RefuseManifest,
           ReadContent, ReadFails, fsVars

\* A call that returned, or raised with its cleanup done, left no mkstemp file
\* in the tree or on the disk.
THEOREM CleanCalls == RootPreexists /\ Spec => []NoSilentDebris
  <1>1. Init => TempPlace /\ DebrisInv
    BY NodeFacts, StoreFacts, ObjectPath
       DEF Init, FSInit, TempPlace, DebrisInv, Holding
  <1>2. DebrisInv => NoSilentDebris
    BY DEF DebrisInv, NoSilentDebris, Holding
  <1>3. QED
    BY <1>1, <1>2, TempPlaceStep, DebrisStep, StoreInvariant, PTL DEF Spec
=============================================================================

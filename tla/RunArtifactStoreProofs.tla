----------------------- MODULE RunArtifactStoreProofs -----------------------
(***************************************************************************)
(* RunArtifactStore for any number of writers, readers, runs, kills, power *)
(* losses and failing system calls, on any directory tree: what it keeps   *)
(* through a loss of power, and what it keeps while the machine stays up.  *)
(* At the end, what SnapshotWriterProofs says of the other writer.         *)
(***************************************************************************)
EXTENDS WriterWorlds, DurableFSProofs

\* The steps during which the mkstemp file of a call exists.
Holding == {"stage", "link", "compare", "unlink"}

\* A reader can verify o.
Present(o) == o \in visible /\ data[o] = "whole"

CallOK(w) ==
    /\ pc[w] = "idle" => stage[w] = "artifact"
    /\ pc[w] # "idle" => run[w] \in Admissible \cap Manifests
    /\ pc[w] \in Holding => /\ temp[w] \in Temps \cap visible
                            /\ Parent[Target(w)] \in visible
    /\ pc[w] = "link" => data[temp[w]] = "whole" /\ temp[w] \in flushed
    /\ pc[w] = "compare" => Target(w) \in visible
    /\ pc[w] = "unlink" /\ ~failed[w] => Present(Target(w))
    /\ pc[w] # "idle" /\ stage[w] = "manifest" => Present(ArtifactOf[run[w]])

OwnTemps ==
    \A v, w \in Writers :
        pc[v] \in Holding /\ pc[w] \in Holding /\ temp[v] = temp[w] => v = w

ForeignHeld == \A o \in Foreign : Settled(o)

\* An object is complete on the disk by the time it has a name.
ObjectsComplete ==
    \A o \in Objects \cap visible :
        /\ data[o] = IF o \in Foreign THEN "foreign" ELSE "whole"
        /\ o \in flushed

\* What a loss of power may undo: a manifest stands beside its artifact, and
\* acknowledged runs are there.
LedgerHeld ==
    losses = 0 =>
        /\ \A m \in (Manifests \cap visible) \ Foreign : Present(ArtifactOf[m])
        /\ \A m \in acked : Present(m)

\* The part of the invariant that speaks of the tree alone.
TreeInv == FSInv /\ ForeignHeld /\ ObjectsComplete /\ LedgerHeld

IInv ==
    /\ TypeOK
    /\ TreeInv
    /\ OwnTemps
    /\ \A w \in Writers : CallOK(w)

-----------------------------------------------------------------------------

LEMMA StoreFacts ==
    /\ Artifacts \subseteq Objects /\ Manifests \subseteq Objects
    /\ Artifacts \cap Manifests = {}
    /\ \A m \in Manifests : ArtifactOf[m] \in Artifacts /\ ArtifactOf[m] \in Objects
    /\ Foreign \subseteq Objects
    /\ None \notin Temps /\ None \notin Manifests
    /\ \A o \in Objects : o \in Nodes \ {Root} /\ Parent[o] \in Dirs
  BY RunStoreAssumption, NodeFacts, TreeAssumption

LEMMA TargetFacts ==
    ASSUME NEW w \in Writers, TypeOK, run[w] \in Manifests
    PROVE  Target(w) \in Objects /\ Parent[Target(w)] \in Dirs
  BY StoreFacts DEF Target, TypeOK

LEMMA GentlePresent ==
    ASSUME Gentle, NEW o \in Objects, Present(o)
    PROVE  Present(o)'
  BY NodeFacts DEF Gentle, Present

LEMMA QuietGentle == Quiet => Gentle
  BY DEF Quiet

\* A step that loses nothing and creates no object keeps the tree part.
LEMMA TreeInvQuiet ==
    ASSUME TreeInv, FSInv', Quiet, UNCHANGED <<acked, losses>>, acked \subseteq Manifests
    PROVE  TreeInv'
  <1>1. ForeignHeld'
    BY KeepsSettled, StoreFacts DEF TreeInv, ForeignHeld, Quiet, Gentle
  <1>2. ObjectsComplete'
    BY DEF TreeInv, ObjectsComplete, Quiet, NoNewObject, SameObjects
  <1>3. LedgerHeld'
    BY StoreFacts, GentlePresent DEF TreeInv, LedgerHeld, Quiet, NoNewObject
  <1>4. QED
    BY <1>1, <1>2, <1>3 DEF TreeInv

LEMMA FSUnchanged ==
    ASSUME FSInv, UNCHANGED fsVars
    PROVE  FSInv' /\ Quiet
  <1>1. FSInv'
    BY DEF fsVars, FSInv, FSTypeOK, TreeVisible, DiskBehind, RootDurable
  <1>2. SameObjects /\ NoNewObject /\ durable \ Temps \subseteq durable'
    BY DEF fsVars, SameObjects, NoNewObject
  <1>3. KeepsIntact
    BY <1>2, KeepsIntactWhenSame
  <1>4. QED
    BY <1>1, <1>2, <1>3 DEF fsVars, Quiet, Gentle

-----------------------------------------------------------------------------
(* Writers that a step does not concern *)

SameCall(w) ==
    /\ pc'[w] = pc[w] /\ run'[w] = run[w] /\ stage'[w] = stage[w]
    /\ temp'[w] = temp[w] /\ failed'[w] = failed[w]

SameTemp(w) ==
    pc[w] \in Holding =>
        /\ temp[w] \in visible'
        /\ data'[temp[w]] = data[temp[w]]
        /\ temp[w] \in flushed => temp[w] \in flushed'

LEMMA OtherCallOK ==
    ASSUME TypeOK, Gentle, NEW w \in Writers, CallOK(w), SameCall(w), SameTemp(w)
    PROVE  CallOK(w)'
  <1>1. CASE pc[w] = "idle"
    BY <1>1 DEF CallOK, SameCall, Holding
  <1>2. CASE pc[w] # "idle"
    <2>1. run[w] \in Admissible \cap Manifests
      BY <1>2 DEF CallOK
    <2>2. Target(w)' = Target(w)
      BY DEF Target, SameCall
    <2>3. Target(w) \in Objects /\ Parent[Target(w)] \in Dirs /\ ArtifactOf[run[w]] \in Objects
      BY <2>1, TargetFacts, StoreFacts
    <2>4. Target(w) \in visible => Target(w) \in visible'
      BY <2>3, NodeFacts DEF Gentle
    <2>5. Parent[Target(w)] \in visible => Parent[Target(w)] \in visible'
      BY <2>3, NodeFacts DEF Gentle
    <2>6. /\ Present(Target(w)) => Present(Target(w))'
          /\ Present(ArtifactOf[run[w]]) => Present(ArtifactOf[run[w]])'
      BY <2>2, <2>3, GentlePresent DEF Present, SameCall
    <2>7. QED
      BY <2>1, <2>2, <2>4, <2>5, <2>6 DEF CallOK, SameCall, SameTemp, Holding
  <1>3. QED
    BY <1>1, <1>2

\* w moves, every other writer stands still, and no mkstemp file is taken.
Moves(w) ==
    /\ \A v \in Writers \ {w} : SameCall(v) /\ SameTemp(v)
    /\ pc'[w] \in Holding => pc[w] \in Holding /\ temp'[w] = temp[w]

LEMMA Combine ==
    ASSUME IInv, NEW w \in Writers, TypeOK', TreeInv', Gentle, Moves(w), CallOK(w)'
    PROVE  IInv'
  <1>1. \A v \in Writers \ {w} : CallOK(v)'
    BY OtherCallOK DEF IInv, Moves
  <1>2. OwnTemps'
    BY DEF IInv, OwnTemps, Moves, SameCall
  <1>3. QED
    BY <1>1, <1>2 DEF IInv

\* The same for a step of w on the program's side only.
LEMMA CombineLocal ==
    ASSUME IInv, NEW w \in Writers, TypeOK', UNCHANGED <<fsVars, acked, losses>>,
           \A v \in Writers \ {w} : SameCall(v),
           pc'[w] \in Holding => pc[w] \in Holding /\ temp'[w] = temp[w],
           CallOK(w)'
    PROVE  IInv'
  <1>1. FSInv' /\ Quiet
    BY FSUnchanged DEF IInv, TreeInv
  <1>2. TreeInv'
    BY <1>1, TreeInvQuiet DEF IInv, TypeOK
  <1>3. \A v \in Writers : CallOK(v) => SameTemp(v)
    BY DEF CallOK, SameTemp, fsVars
  <1>4. Moves(w)
    BY <1>3 DEF Moves, IInv
  <1>5. QED
    BY <1>1, <1>2, <1>4, QuietGentle, Combine

LEMMA LeaveOK ==
    ASSUME TypeOK, NEW w \in Writers, Leave(w)
    PROVE  /\ CallOK(w)' /\ pc'[w] = "idle"
           /\ \A v \in Writers \ {w} : SameCall(v)
           /\ pc' \in [Writers -> {"idle", "setup", "stage", "link", "compare", "unlink"}]
           /\ run' \in [Writers -> Manifests \cup {None}]
           /\ stage' \in [Writers -> {"artifact", "manifest"}]
           /\ temp' \in [Writers -> Temps \cup {None}]
           /\ failed' \in [Writers -> BOOLEAN]
  BY DEF TypeOK, Leave, Goto, CallOK, SameCall, Holding

LEMMA FaultType ==
    ASSUME TypeOK, Fault \/ UNCHANGED budget
    PROVE  /\ calls' \in Nat /\ faults' \in Nat /\ kills' \in Nat /\ losses' \in Nat
           /\ losses' = losses
  BY DEF TypeOK, Fault, budget

-----------------------------------------------------------------------------
(* Steps that do not touch the file system *)

LEMMA BeginWriteOK ==
    ASSUME IInv, NEW w \in Writers, NEW m \in Manifests, BeginWrite(w, m)
    PROVE  IInv'
  <1>1. TypeOK'
    BY DEF IInv, TypeOK, FSTypeOK, BeginWrite, Goto, fsVars, readVars
  <1>2. CallOK(w)'
    BY DEF IInv, TypeOK, BeginWrite, Goto, CallOK, Holding
  <1>3. QED
    BY <1>1, <1>2, CombineLocal
       DEF IInv, TypeOK, BeginWrite, Goto, SameCall, Holding, fsVars

\* The ways a call ends without a further system call: setup or unlink raise,
\* or the process is killed.
LEMMA LeavesOK ==
    ASSUME IInv, NEW w \in Writers, SetupFails(w) \/ UnlinkFails(w) \/ Kill(w)
    PROVE  IInv'
  <1>1. /\ Leave(w) /\ UNCHANGED <<fsVars, acked, readVars, losses>>
        /\ debris' \subseteq Temps
        /\ calls' \in Nat /\ faults' \in Nat /\ kills' \in Nat /\ losses' \in Nat
    <2>1. CASE SetupFails(w)
      BY <2>1, FaultType DEF IInv, TypeOK, SetupFails, budget
    <2>2. CASE UnlinkFails(w)
      BY <2>2, FaultType DEF IInv, TypeOK, CallOK, UnlinkFails, Holding
    <2>3. CASE Kill(w)
      BY <2>3 DEF IInv, TypeOK, Kill
    <2>4. QED
      BY <2>1, <2>2, <2>3
  <1>2. TypeOK'
    BY <1>1, LeaveOK DEF IInv, TypeOK, FSTypeOK, fsVars, readVars
  <1>3. QED
    BY <1>1, <1>2, LeaveOK, CombineLocal DEF IInv, Holding

\* Every exception on the way to the finally block.
LEMMA RaisesOK ==
    ASSUME IInv, NEW w \in Writers, CollisionRaised(w) \/ StageOrPublishFails(w)
    PROVE  IInv'
  <1>1. /\ Raise(w) /\ UNCHANGED fsVars /\ pc[w] \in Holding
        /\ calls' \in Nat /\ faults' \in Nat /\ kills' \in Nat /\ losses' \in Nat
        /\ losses' = losses
    BY FaultType DEF CollisionRaised, StageOrPublishFails, Holding, IInv
  <1>2. TypeOK'
    BY <1>1 DEF IInv, TypeOK, FSTypeOK, Raise, Goto, fsVars, readVars
  <1>3. CallOK(w)'
    BY <1>1 DEF IInv, TypeOK, Raise, Goto, CallOK, Holding, Target, fsVars, Present
  <1>4. QED
    BY <1>1, <1>2, <1>3, CombineLocal
       DEF IInv, TypeOK, Raise, Goto, SameCall, Holding

LEMMA ExistingOK ==
    ASSUME IInv, NEW w \in Writers, MeetExisting(w) \/ AdoptExisting(w)
    PROVE  IInv'
  <1>1. /\ pc[w] \in Holding /\ UNCHANGED <<fsVars, run, stage, temp, failed, acked, debris, readVars, budget>>
        /\ \/ pc[w] = "link" /\ Target(w) \in visible /\ Goto(w, "compare")
           \/ pc[w] = "compare" /\ data[Target(w)] = "whole" /\ Goto(w, "unlink")
    BY DEF MeetExisting, AdoptExisting, Holding
  <1>2. TypeOK'
    BY <1>1 DEF IInv, TypeOK, FSTypeOK, Goto, fsVars, readVars, budget
  <1>3. CallOK(w)'
    BY <1>1 DEF IInv, TypeOK, Goto, CallOK, Holding, Target, fsVars, Present
  <1>4. QED
    BY <1>1, <1>2, <1>3, CombineLocal
       DEF IInv, TypeOK, Goto, SameCall, Holding, fsVars, budget

\* Steps that leave every call alone.
LEMMA NoCallOK ==
    ASSUME IInv, TypeOK', FSInv', Quiet, UNCHANGED <<callVars, acked, losses>>,
           data' = data, flushed' = flushed, visible \subseteq visible'
    PROVE  IInv'
  <1>1. TreeInv'
    BY TreeInvQuiet DEF IInv, TypeOK
  <1>2. \A v \in Writers : CallOK(v) => SameTemp(v) /\ SameCall(v)
    BY DEF CallOK, SameTemp, SameCall, callVars
  <1>3. \A v \in Writers : CallOK(v)'
    BY <1>2, QuietGentle, OtherCallOK DEF IInv
  <1>4. OwnTemps'
    BY DEF IInv, OwnTemps, callVars
  <1>5. QED
    BY <1>1, <1>3, <1>4 DEF IInv

LEMMA ReadersOK ==
    ASSUME IInv,
           \/ \E w \in Writers, m \in Manifests : RejectWrite(w, m)
           \/ \E r \in Readers, m \in Manifests :
                ReadManifest(r, m) \/ RefuseManifest(r, m)
           \/ \E r \in Readers : ReadArtifact(r) \/ ReadFails(r)
    PROVE  IInv'
  <1>1. UNCHANGED <<fsVars, callVars, acked, debris, losses>>
    BY DEF RejectWrite, ReadManifest, RefuseManifest, ReadArtifact, ReadFails, Fault, budget
  <1>2. FSInv' /\ Quiet
    BY <1>1, FSUnchanged DEF IInv, TreeInv
  <1>3. /\ replay' \in [Readers -> Manifests \cup {None}]
        /\ verdict' \in [Readers -> {"none", "verified", "refused", "dangling"}]
        /\ calls' \in Nat /\ faults' \in Nat /\ kills' \in Nat /\ losses' \in Nat
    <2>1. ASSUME NEW r \in Readers, ReadArtifact(r)
          PROVE  verdict' \in [Readers -> {"none", "verified", "refused", "dangling"}]
      BY <2>1 DEF IInv, TypeOK, ReadArtifact
    <2>2. QED
      BY <2>1 DEF IInv, TypeOK, RejectWrite, ReadManifest, RefuseManifest, ReadArtifact,
                  ReadFails, Fault, budget, readVars
  <1>4. TypeOK'
    BY <1>1, <1>2, <1>3 DEF IInv, TypeOK, FSInv, callVars
  <1>5. QED
    BY <1>1, <1>2, <1>4, NoCallOK DEF fsVars

-----------------------------------------------------------------------------
(* Steps that touch the file system *)

LEMMA TreeStepOK ==
    ASSUME IInv, \/ \E w \in Writers : SetupDirectory(w)
                 \/ \E n \in Nodes : Flush(n)
    PROVE  IInv'
  <1>1. UNCHANGED <<callVars, acked, debris, readVars, budget>>
    BY DEF SetupDirectory, Flush
  <1>2. \/ \E d \in Dirs : MakeDirectory(d)
        \/ \E n \in Nodes : Writeback(n)
    BY DEF SetupDirectory, MakeDirectory, Flush
  <1>3. FSInv' /\ Quiet
    BY <1>2, MakeDirectoryKeeps, WritebackKeeps DEF IInv, TreeInv
  <1>4. TypeOK'
    BY <1>1, <1>3 DEF IInv, TypeOK, FSInv, callVars, readVars, budget
  <1>5. QED
    BY <1>1, <1>2, <1>3, <1>4, NoCallOK DEF MakeDirectory, Writeback, budget

LEMMA SetupTempOK ==
    ASSUME IInv, NEW w \in Writers, SetupTemp(w)
    PROVE  IInv'
  <1>1. PICK t \in Temps :
          /\ Parent[t] = Parent[Target(w)]
          /\ CreateFile(t)
          /\ temp' = [temp EXCEPT ![w] = t]
          /\ debris' = debris \ {t}
    BY DEF SetupTemp
  <1>2. FSInv' /\ Quiet
    BY <1>1, CreateFileKeeps DEF IInv, TreeInv
  <1>3. TypeOK'
    BY <1>1, <1>2 DEF IInv, TypeOK, FSInv, SetupTemp, Goto, readVars, budget
  <1>4. TreeInv'
    BY <1>2, TreeInvQuiet DEF IInv, TypeOK, SetupTemp, budget
  <1>5. \A v \in Writers \ {w} : SameCall(v)
    BY <1>1 DEF SetupTemp, Goto, SameCall, IInv, TypeOK
  <1>6. \A v \in Writers \ {w} : SameTemp(v)
    <2> SUFFICES ASSUME NEW v \in Writers \ {w}, pc[v] \in Holding
                 PROVE  /\ temp[v] \in visible'
                        /\ data'[temp[v]] = data[temp[v]]
                        /\ temp[v] \in flushed => temp[v] \in flushed'
      BY DEF SameTemp
    <2>1. temp[v] \in Temps \cap visible /\ temp[v] # t
      BY <1>1 DEF IInv, CallOK, CreateFile
    <2>2. QED
      BY <1>1, <2>1, NodeFacts DEF CreateFile, IInv, TypeOK, FSTypeOK
  <1>7. OwnTemps'
    <2> SUFFICES ASSUME NEW u \in Writers, NEW v \in Writers, u # v,
                        pc'[u] \in Holding, pc'[v] \in Holding,
                        temp'[u] = temp'[v]
                 PROVE  FALSE
      BY DEF OwnTemps
    <2>1. \A x \in Writers \ {w} : pc[x] \in Holding => temp[x] \in visible
      BY DEF IInv, CallOK
    <2>2. t \notin visible /\ temp'[w] = t
      BY <1>1 DEF CreateFile, IInv, TypeOK
    <2>3. CASE u = w
      BY <1>5, <2>1, <2>2, <2>3 DEF SameCall
    <2>4. CASE v = w
      BY <1>5, <2>1, <2>2, <2>4 DEF SameCall
    <2>5. CASE u # w /\ v # w
      BY <1>5, <2>5 DEF SameCall, IInv, OwnTemps
    <2>6. QED
      BY <2>3, <2>4, <2>5
  <1>8. CallOK(w)'
    <2>1. run[w] \in Manifests /\ Target(w) \in Objects
      BY TargetFacts DEF IInv, CallOK, SetupTemp
    <2>2. Target(w)' = Target(w) /\ pc'[w] = "stage" /\ temp'[w] = t /\ run' = run
      BY <1>1 DEF SetupTemp, Goto, Target, IInv, TypeOK
    <2>3. t \in visible' /\ Parent[Target(w)] \in visible'
      BY <1>1 DEF CreateFile
    <2>4. Present(ArtifactOf[run[w]]) => Present(ArtifactOf[run[w]])'
      BY <1>2, <2>1, <2>2, QuietGentle, GentlePresent, StoreFacts DEF Present
    <2>5. QED
      BY <2>2, <2>3, <2>4 DEF IInv, CallOK, SetupTemp, Holding
  <1>9. \A v \in Writers \ {w} : CallOK(v)'
    BY <1>2, <1>5, <1>6, QuietGentle, OtherCallOK DEF IInv
  <1>10. QED
    BY <1>3, <1>4, <1>7, <1>8, <1>9 DEF IInv

\* A step that touches only the mkstemp file of w leaves the others alone.
LEMMA OwnTempOnly ==
    ASSUME IInv, NEW w \in Writers, pc[w] \in Holding,
           \/ WriteAndSync(temp[w])
           \/ Remove(temp[w])
           \/ \E o \in Objects : Link(temp[w], o)
    PROVE  \A v \in Writers \ {w} : SameTemp(v)
  <1> SUFFICES ASSUME NEW v \in Writers \ {w}, pc[v] \in Holding
               PROVE  /\ temp[v] \in visible'
                      /\ data'[temp[v]] = data[temp[v]]
                      /\ temp[v] \in flushed => temp[v] \in flushed'
    BY DEF SameTemp
  <1>1. temp[v] \in Temps \cap visible /\ temp[v] # temp[w]
    BY DEF IInv, CallOK, OwnTemps
  <1>2. temp[w] \in Temps
    BY DEF IInv, CallOK
  <1>3. QED
    BY <1>1, <1>2, NodeFacts
       DEF WriteAndSync, Remove, Link, IInv, TypeOK, FSTypeOK

LEMMA StageBytesOK ==
    ASSUME IInv, NEW w \in Writers, StageBytes(w)
    PROVE  IInv'
  <1>1. temp[w] \in Temps \cap visible /\ pc[w] \in Holding
    BY DEF IInv, CallOK, StageBytes, Holding
  <1>2. FSInv' /\ Quiet /\ data'[temp[w]] = "whole" /\ temp[w] \in flushed'
    BY <1>1, WriteAndSyncKeeps DEF IInv, TreeInv, StageBytes
  <1>3. TypeOK'
    BY <1>2 DEF IInv, TypeOK, FSInv, StageBytes, Goto, readVars, budget
  <1>4. TreeInv'
    BY <1>2, TreeInvQuiet DEF IInv, TypeOK, StageBytes, budget
  <1>5. Moves(w)
    BY <1>1, OwnTempOnly DEF Moves, StageBytes, Goto, SameCall, IInv, TypeOK
  <1>6. CallOK(w)'
    <2>1. Present(ArtifactOf[run[w]]) => Present(ArtifactOf[run[w]])'
      BY <1>2, StoreFacts, QuietGentle, GentlePresent
         DEF IInv, CallOK, StageBytes, Present
    <2>2. QED
      BY <1>1, <1>2, <2>1
         DEF IInv, TypeOK, CallOK, StageBytes, Goto, WriteAndSync, Target, Holding
  <1>7. QED
    BY <1>2, <1>3, <1>4, <1>5, <1>6, QuietGentle, Combine

\* The finally block unlinks the file: the error goes on, ...
LEMMA RaiseErrorOK ==
    ASSUME IInv, NEW w \in Writers, RaiseError(w)
    PROVE  IInv'
  <1>1. temp[w] \in Temps /\ pc[w] \in Holding
    BY DEF IInv, CallOK, RaiseError, Holding
  <1>2. FSInv' /\ Quiet
    BY <1>1, RemoveKeeps DEF IInv, TreeInv, RaiseError
  <1>3. TypeOK'
    BY <1>2, LeaveOK DEF IInv, TypeOK, FSInv, RaiseError, readVars, budget
  <1>4. TreeInv'
    BY <1>2, TreeInvQuiet DEF IInv, TypeOK, RaiseError, budget
  <1>5. Moves(w) /\ CallOK(w)'
    BY <1>1, LeaveOK, OwnTempOnly DEF Moves, RaiseError, IInv, Holding
  <1>6. QED
    BY <1>2, <1>3, <1>4, <1>5, QuietGentle, Combine

\* ... the manifest is next, ...
LEMMA ArtifactDoneOK ==
    ASSUME IInv, NEW w \in Writers, ArtifactDone(w)
    PROVE  IInv'
  <1>1. /\ temp[w] \in Temps /\ pc[w] \in Holding /\ run[w] \in Admissible \cap Manifests
        /\ Present(ArtifactOf[run[w]])
    BY DEF IInv, CallOK, ArtifactDone, Holding, Target
  <1>2. FSInv' /\ Quiet
    BY <1>1, RemoveKeeps DEF IInv, TreeInv, ArtifactDone
  <1>3. TypeOK'
    BY <1>2 DEF IInv, TypeOK, FSInv, ArtifactDone, Goto, readVars, budget
  <1>4. TreeInv'
    BY <1>2, TreeInvQuiet DEF IInv, TypeOK, ArtifactDone, budget
  <1>5. Moves(w)
    BY <1>1, OwnTempOnly DEF Moves, ArtifactDone, Goto, SameCall, IInv, TypeOK, Holding
  <1>6. CallOK(w)'
    <2>1. Present(ArtifactOf[run[w]])'
      BY <1>1, <1>2, StoreFacts, QuietGentle, GentlePresent DEF ArtifactDone, Present
    <2>2. QED
      BY <1>1, <2>1 DEF IInv, TypeOK, CallOK, ArtifactDone, Goto, Holding
  <1>7. QED
    BY <1>2, <1>3, <1>4, <1>5, <1>6, QuietGentle, Combine

\* ... or the run is acknowledged: its manifest and its artifact are there.
LEMMA ReturnStoredOK ==
    ASSUME IInv, NEW w \in Writers, ReturnStored(w)
    PROVE  IInv' /\ Present(run[w])
  <1>1. /\ temp[w] \in Temps /\ pc[w] \in Holding /\ run[w] \in Manifests
        /\ Present(run[w])
    BY DEF IInv, CallOK, ReturnStored, Holding, Target
  <1>2. FSInv' /\ Quiet
    BY <1>1, RemoveKeeps DEF IInv, TreeInv, ReturnStored
  <1>3. TypeOK'
    BY <1>1, <1>2, LeaveOK DEF IInv, TypeOK, FSInv, ReturnStored, readVars, budget
  <1>4. TreeInv'
    <2>1. ForeignHeld'
      BY <1>2, KeepsSettled, StoreFacts DEF IInv, TreeInv, ForeignHeld, Quiet, Gentle
    <2>2. ObjectsComplete'
      BY <1>2 DEF IInv, TreeInv, ObjectsComplete, Quiet, NoNewObject, SameObjects
    <2>3. \A o \in Objects : Present(o) => Present(o)'
      BY <1>2, QuietGentle, GentlePresent
    <2>4. LedgerHeld'
      BY <1>1, <1>2, <2>3, StoreFacts
         DEF IInv, TypeOK, TreeInv, LedgerHeld, Quiet, NoNewObject, ReturnStored, budget
    <2>5. QED
      BY <1>2, <2>1, <2>2, <2>4 DEF TreeInv
  <1>5. Moves(w) /\ CallOK(w)'
    BY <1>1, LeaveOK, OwnTempOnly DEF Moves, ReturnStored, IInv, Holding
  <1>6. QED
    BY <1>1, <1>2, <1>3, <1>4, <1>5, QuietGentle, Combine

\* os.link gives complete, synced bytes a name that nobody has; a manifest is
\* named when its artifact is there.
LEMMA PublishOK ==
    ASSUME IInv, NEW w \in Writers, Publish(w)
    PROVE  IInv' /\ Gentle
  <1> DEFINE o == Target(w)
  <1>1. /\ temp[w] \in Temps /\ pc[w] \in Holding /\ run[w] \in Manifests
        /\ Parent[o] \in visible /\ data[temp[w]] = "whole" /\ temp[w] \in flushed
    BY DEF IInv, CallOK, Publish, Holding
  <1>2. o \in Objects /\ Link(temp[w], o)
    BY <1>1, TargetFacts DEF IInv, Publish
  <1>3. /\ FSInv' /\ Gentle
        /\ visible' = visible \cup {o}
        /\ data'[o] = "whole" /\ o \in flushed'
        /\ \A x \in Objects \ {o} : data'[x] = data[x]
        /\ \A x \in Objects \ {o} : x \in flushed' <=> x \in flushed
    BY <1>1, <1>2, LinkKeeps DEF IInv, TreeInv
  <1>4. TypeOK'
    BY <1>3 DEF IInv, TypeOK, FSInv, Publish, Goto, readVars, budget
  <1>5. o \notin Foreign
    <2>1. o \notin visible
      BY <1>2 DEF Link
    <2>2. QED
      BY <2>1, <1>2, ObjectPath, NodeFacts
         DEF IInv, TreeInv, ForeignHeld, Settled, FSInv, DiskBehind
  <1>6. \A x \in Objects : Present(x) => Present(x)'
    BY <1>3, GentlePresent
  <1>7. TreeInv'
    <2>1. ForeignHeld'
      BY <1>3, KeepsSettled, StoreFacts DEF IInv, TreeInv, ForeignHeld, Gentle
    <2>2. ObjectsComplete'
      BY <1>3, <1>5 DEF IInv, TreeInv, ObjectsComplete
    <2>3. o \in Manifests => o = run[w] /\ Present(ArtifactOf[run[w]])
      BY <1>1, StoreFacts DEF Target, IInv, TypeOK, CallOK, Publish
    <2>4. LedgerHeld'
      BY <1>3, <1>6, <2>3, StoreFacts
         DEF IInv, TypeOK, TreeInv, LedgerHeld, Publish, budget
    <2>5. QED
      BY <1>3, <2>1, <2>2, <2>4 DEF TreeInv
  <1>8. Moves(w)
    BY <1>1, <1>2, OwnTempOnly DEF Moves, Publish, Goto, SameCall, IInv, TypeOK, Holding
  <1>9. CallOK(w)'
    <2>1. Target(w)' = o /\ run' = run /\ pc'[w] = "unlink"
      BY DEF Publish, Goto, Target, IInv, TypeOK
    <2>2. Present(o)' /\ temp[w] \in visible' /\ Parent[o] \in visible'
      BY <1>1, <1>3, <2>1 DEF IInv, CallOK, Present
    <2>3. Present(ArtifactOf[run[w]]) => Present(ArtifactOf[run[w]])'
      BY <1>1, <1>6, <2>1, StoreFacts DEF Present
    <2>4. QED
      BY <1>1, <2>1, <2>2, <2>3 DEF IInv, TypeOK, CallOK, Publish, Holding
  <1>10. QED
    BY <1>3, <1>4, <1>7, <1>8, <1>9, Combine

\* What is named when power returns is complete; that a manifest has its
\* artifact is no longer claimed.
LEMMA PowerLossOK ==
    ASSUME IInv, PowerLoss
    PROVE  IInv' /\ \A o \in Objects \cap visible' : data'[o] = data[o]
  <1>1. /\ FSInv' /\ NoNewObject
        /\ \A o \in Objects \cap visible' :
             o \in flushed => data'[o] = data[o] /\ o \in flushed'
        /\ \A o \in Objects : Settled(o) => o \in visible' /\ Settled(o)'
    BY LosePowerKeeps DEF IInv, TreeInv, PowerLoss
  <1>2. losses' # 0 /\ losses' \in Nat
    BY DEF IInv, TypeOK, PowerLoss
  <1>3. \A o \in Objects \cap visible' : o \in visible /\ data'[o] = data[o] /\ o \in flushed'
    BY <1>1 DEF NoNewObject, IInv, TreeInv, ObjectsComplete
  <1>4. TreeInv'
    BY <1>1, <1>2, <1>3, StoreFacts
       DEF IInv, TreeInv, ForeignHeld, ObjectsComplete, LedgerHeld
  <1>5. TypeOK'
    BY <1>1, <1>2 DEF IInv, TypeOK, FSInv, PowerLoss
  <1>6. OwnTemps' /\ \A w \in Writers : CallOK(w)'
    BY DEF PowerLoss, OwnTemps, CallOK, Holding
  <1>7. QED
    BY <1>3, <1>4, <1>5, <1>6 DEF IInv

-----------------------------------------------------------------------------
(* The invariant *)

LEMMA InitOK ==
    ASSUME Init
    PROVE  IInv
  <1>1. /\ visible = {Root} \cup UNION {Path(o) : o \in Foreign} /\ durable = visible
        /\ data = [f \in Files |-> IF f \in Foreign THEN "foreign" ELSE "partial"]
        /\ flushed = Foreign
    BY DEF Init, FSInit
  <1>2. \A o \in Foreign : o \in Objects /\ Path(o) \subseteq {o} \cup Dirs /\ o \in Path(o)
    BY StoreFacts, PathMember, NodeFacts
  <1>3. visible \subseteq Nodes /\ visible \cap Objects = Foreign
    BY <1>1, <1>2, NodeFacts
  <1>4. FSTypeOK
    BY <1>1, <1>3, StoreFacts, NodeFacts DEF FSTypeOK, Bytes
  <1>5. TreeVisible
    <2> SUFFICES ASSUME NEW n \in visible  PROVE Path(n) \subseteq visible
      BY DEF TreeVisible
    <2>1. CASE n = Root
      BY <1>1, <2>1, UpRoot, NodeFacts DEF Path
    <2>2. ASSUME NEW o \in Foreign, n \in Path(o)
          PROVE  Path(n) \subseteq visible
      <3>1. Path(n) \subseteq Path(o)
        BY <1>2, <2>2, PathClosed, NodeFacts
      <3>2. QED
        BY <1>1, <3>1
    <2>3. QED
      BY <1>1, <2>1, <2>2
  <1>6. FSInv /\ ForeignHeld /\ ObjectsComplete
    BY <1>1, <1>3, <1>4, <1>5, StoreFacts, NodeFacts
       DEF FSInv, DiskBehind, RootDurable, ForeignHeld, Settled, ObjectsComplete
  <1>7. LedgerHeld
    BY <1>3, StoreFacts DEF LedgerHeld, Init
  <1>8. TypeOK
    BY <1>4 DEF TypeOK, Init
  <1>9. OwnTemps /\ \A w \in Writers : CallOK(w)
    BY DEF Init, OwnTemps, CallOK, Holding
  <1>10. QED
    BY <1>6, <1>7, <1>8, <1>9 DEF IInv, TreeInv

LEMMA NextOK ==
    ASSUME IInv, [Next]_vars
    PROVE  IInv'
  <1>1. CASE UNCHANGED vars
    <2>1. FSInv' /\ Quiet
      BY <1>1, FSUnchanged DEF IInv, TreeInv, vars
    <2>2. TypeOK'
      BY <1>1, <2>1 DEF IInv, TypeOK, FSInv, vars, callVars, readVars, budget
    <2>3. QED
      BY <1>1, <2>1, <2>2, NoCallOK DEF vars, fsVars, budget
  <1>2. ASSUME NEW w \in Writers, Advance(w)
        PROVE  IInv'
    BY <1>2, TreeStepOK, SetupTempOK, LeavesOK, StageBytesOK, RaisesOK, PublishOK, ExistingOK,
       RaiseErrorOK, ArtifactDoneOK, ReturnStoredOK DEF Advance
  <1>3. QED
    BY <1>1, <1>2, BeginWriteOK, ReadersOK, LeavesOK, PowerLossOK, TreeStepOK DEF Next

LEMMA Invariant == Spec => []IInv
  BY InitOK, NextOK, PTL DEF Spec

\* The variables of the run store keep their types.
THEOREM TypeCorrect == Spec => []TypeOK
  BY Invariant, PTL DEF IInv

\* Nobody ever sees, under a canonical name, anything but the complete bytes:
\* not with other writers, not after kills, failing calls or losses of power.
THEOREM RunsAreNeverTorn == Spec => []NeverTorn
  <1>1. IInv => NeverTorn
    BY DEF IInv, TreeInv, ObjectsComplete, NeverTorn
  <1>2. QED
    BY <1>1, Invariant, PTL

-----------------------------------------------------------------------------
(* What a step may do to the objects *)

\* Every step but a loss of power loses nothing; every step but the link and a
\* loss of power leaves the objects as they are.
LEMMA StepKinds ==
    ASSUME IInv, [Next]_vars
    PROVE  \/ Quiet /\ UNCHANGED acked
           \/ Quiet /\ \E w \in Writers : ReturnStored(w)
           \/ Gentle /\ \E w \in Writers : Publish(w)
           \/ PowerLoss
  <1>1. CASE UNCHANGED vars
    BY <1>1, FSUnchanged DEF IInv, TreeInv, vars
  <1>2. ASSUME NEW w \in Writers, Advance(w)
        PROVE  \/ Quiet /\ UNCHANGED acked
               \/ Quiet /\ ReturnStored(w)
               \/ Gentle /\ Publish(w)
    <2>1. CASE SetupDirectory(w)
      BY <2>1, MakeDirectoryKeeps DEF IInv, TreeInv, SetupDirectory, MakeDirectory
    <2>2. CASE SetupTemp(w)
      BY <2>2, CreateFileKeeps DEF IInv, TreeInv, SetupTemp
    <2>3. CASE StageBytes(w)
      BY <2>3, WriteAndSyncKeeps DEF IInv, TreeInv, CallOK, Holding, StageBytes
    <2>4. CASE Publish(w)
      BY <2>4, PublishOK
    <2>5. CASE RaiseError(w) \/ ArtifactDone(w) \/ ReturnStored(w)
      <3>1. temp[w] \in Temps /\ Remove(temp[w])
        BY <2>5 DEF IInv, CallOK, Holding, RaiseError, ArtifactDone, ReturnStored
      <3>2. QED
        BY <2>5, <3>1, RemoveKeeps DEF IInv, TreeInv, RaiseError, ArtifactDone
    <2>6. CASE UNCHANGED <<fsVars, acked>>
      BY <2>6, FSUnchanged DEF IInv, TreeInv
    <2>7. QED
      BY <1>2, <2>1, <2>2, <2>3, <2>4, <2>5, <2>6
         DEF Advance, SetupFails, StageOrPublishFails, MeetExisting, AdoptExisting,
             CollisionRaised, UnlinkFails, Raise
  <1>3. CASE \E n \in Nodes : Flush(n)
    BY <1>3, WritebackKeeps DEF IInv, TreeInv, Flush
  <1>4. CASE UNCHANGED <<fsVars, acked>>
    BY <1>4, FSUnchanged DEF IInv, TreeInv
  <1>5. QED
    BY <1>1, <1>2, <1>3, <1>4
       DEF Next, BeginWrite, RejectWrite, ReadManifest, RefuseManifest, ReadArtifact,
           ReadFails, Kill

\* Canonical bytes are never replaced, and only a loss of power removes them.
THEOREM RunsAreNeverOverwritten == Spec => NeverOverwritten
  <1>1. IInv /\ [Next]_vars =>
          [\A o \in Objects \cap visible :
             IF o \in visible' THEN data'[o] = data[o] ELSE PowerLoss]_vars
    <2> SUFFICES ASSUME IInv, [Next]_vars, NEW o \in Objects, o \in visible
                 PROVE  IF o \in visible' THEN data'[o] = data[o] ELSE PowerLoss
      OBVIOUS
    <2>1. CASE Gentle
      BY <2>1, NodeFacts DEF Gentle
    <2>2. CASE PowerLoss
      BY <2>2, PowerLossOK
    <2>3. QED
      BY <2>1, <2>2, StepKinds, QuietGentle
  <1>2. QED
    BY <1>1, Invariant, PTL DEF Spec, NeverOverwritten

-----------------------------------------------------------------------------
(* The ledger *)

Stored == {o \in Objects \cap visible : data[o] = "whole"}

\* While the machine stays up the run store keeps the ledger of the capture
\* store: an artifact for the sake of an accepted run, a manifest beside its
\* artifact, an acknowledgement of what is stored, and nothing lost.
THEOREM RunStoreKeepsLedger == Spec => LedgerSpec
  <1>1. Init => Ledger!Init
    <2> SUFFICES ASSUME Init  PROVE Ledger!Init
      OBVIOUS
    <2>1. \A o \in Objects \cap visible : data[o] = "foreign" \/ data[o] = "partial"
      BY StoreFacts, NodeFacts DEF Init, FSInit
    <2>2. QED
      BY <2>1 DEF Init, Ledger!Init
  <1>2. IInv /\ [Next]_vars =>
          [losses' = 0 => [Ledger!Next]_(Ledger!ledgerVars)]_vars
    <2> SUFFICES ASSUME IInv, [Next]_vars, losses' = 0
                 PROVE  [Ledger!Next]_(Ledger!ledgerVars)
      OBVIOUS
    <2>1. CASE Quiet /\ UNCHANGED acked
      <3>1. Stored' = Stored
        BY <2>1, NodeFacts DEF Stored, Quiet, Gentle, NoNewObject, SameObjects
      <3>2. QED
        BY <2>1, <3>1 DEF Stored, Ledger!ledgerVars
    <2>2. ASSUME NEW w \in Writers, Quiet, ReturnStored(w)
          PROVE  Ledger!Next
      <3>1. Stored' = Stored
        BY <2>2, NodeFacts DEF Stored, Quiet, Gentle, NoNewObject, SameObjects
      <3>2. run[w] \in Manifests /\ run[w] \in Stored
        BY <2>2, ReturnStoredOK, StoreFacts DEF IInv, CallOK, ReturnStored, Present, Stored
      <3>3. Ledger!Acknowledge(run[w])
        BY <2>2, <3>1, <3>2 DEF Ledger!Acknowledge, ReturnStored, Stored
      <3>4. QED
        BY <3>2, <3>3 DEF Ledger!Next
    <2>3. ASSUME NEW w \in Writers, Gentle, Publish(w)
          PROVE  Ledger!Next
      <3>1. /\ run[w] \in Admissible \cap Manifests /\ Target(w) \in Objects
            /\ temp[w] \in Temps /\ data[temp[w]] = "whole" /\ Link(temp[w], Target(w))
        BY <2>3, TargetFacts DEF IInv, CallOK, Publish, Holding
      <3>2. Stored' = Stored \cup {Target(w)}
        BY <3>1, NodeFacts DEF IInv, TypeOK, FSTypeOK, Stored, Link
      <3>3. acked' = acked
        BY <2>3 DEF Publish
      <3>4. /\ run[w] \in Admissible /\ acked' = acked
            /\ \/ Stored' = Stored \cup {ArtifactOf[run[w]]}
               \/ ArtifactOf[run[w]] \in Stored /\ Stored' = Stored \cup {run[w]}
        BY <2>3, <3>1, <3>2, <3>3, StoreFacts
           DEF Target, IInv, TypeOK, CallOK, Publish, Present, Stored
      <3>5. \E m \in Manifests : Ledger!StoreContent(m) \/ Ledger!StoreManifest(m)
        BY <3>1, <3>4 DEF Ledger!StoreContent, Ledger!StoreManifest, Stored
      <3>6. QED
        BY <3>5 DEF Ledger!Next
    <2>4. ~PowerLoss
      BY DEF PowerLoss, IInv, TypeOK
    <2>5. QED
      BY <2>1, <2>2, <2>3, <2>4, StepKinds
  <1>3. QED
    BY <1>1, <1>2, Invariant, PTL DEF Spec, LedgerSpec

-----------------------------------------------------------------------------
(* Readers *)

\* A reader that has verified a manifest will find its artifact.
ReadInv ==
    losses = 0 => \A r \in Readers :
        /\ verdict[r] # "dangling"
        /\ replay[r] # None => Present(ArtifactOf[replay[r]])

LEMMA ReadInvStep ==
    ASSUME IInv, ReadInv, [Next]_vars
    PROVE  ReadInv'
  <1> SUFFICES ASSUME losses' = 0, NEW r \in Readers
               PROVE  /\ verdict'[r] # "dangling"
                      /\ replay'[r] # None => Present(ArtifactOf[replay[r]])'
    BY DEF ReadInv
  <1>1. ~PowerLoss
    BY DEF PowerLoss, IInv, TypeOK
  <1>2. losses = 0
    BY <1>1 DEF IInv, TypeOK, Next, vars, budget, BeginWrite, RejectWrite, Advance,
       SetupDirectory, SetupTemp, SetupFails, StageBytes, StageOrPublishFails, Publish,
       MeetExisting, AdoptExisting, CollisionRaised, RaiseError, ArtifactDone, ReturnStored,
       UnlinkFails, ReadManifest, RefuseManifest, ReadArtifact, ReadFails, Kill, Flush, Fault
  <1>3. \A o \in Objects : Present(o) => Present(o)'
    BY <1>1, StepKinds, QuietGentle, GentlePresent
  <1>4. CASE UNCHANGED readVars
    BY <1>2, <1>3, <1>4, StoreFacts DEF ReadInv, readVars, IInv, TypeOK, Present
  <1>5. ASSUME NEW q \in Readers, NEW m \in Manifests, ReadManifest(q, m)
        PROVE  /\ verdict'[r] # "dangling"
               /\ replay'[r] # None => Present(ArtifactOf[replay[r]])'
    <2>1. Present(ArtifactOf[m])
      BY <1>2, <1>5, StoreFacts DEF IInv, TreeInv, ObjectsComplete, LedgerHeld, ReadManifest
    <2>2. QED
      BY <1>2, <1>5, <2>1 DEF ReadInv, ReadManifest, IInv, TypeOK, Present, fsVars
  <1>6. ASSUME NEW q \in Readers,
               \/ ReadArtifact(q) \/ ReadFails(q)
               \/ \E m \in Manifests : RefuseManifest(q, m)
        PROVE  /\ verdict'[r] # "dangling"
               /\ replay'[r] # None => Present(ArtifactOf[replay[r]])'
    BY <1>2, <1>6 DEF ReadInv, ReadArtifact, ReadFails, RefuseManifest, IInv, TypeOK,
       Present, fsVars
  <1>7. QED
    BY <1>1, <1>4, <1>5, <1>6
       DEF Next, vars, BeginWrite, RejectWrite, Advance, SetupDirectory, SetupTemp, SetupFails,
           StageBytes, StageOrPublishFails, Publish, MeetExisting, AdoptExisting,
           CollisionRaised, Raise, RaiseError, ArtifactDone, ReturnStored, UnlinkFails, Kill, Flush

\* While the machine stays up, an inspection that verified a manifest finds its
\* artifact.
THEOREM InspectionsResolve == Spec => []ReplayResolves
  <1>1. Init => ReadInv
    BY DEF Init, ReadInv
  <1>2. ReadInv => ReplayResolves
    BY DEF ReadInv, ReplayResolves
  <1>3. QED
    BY <1>1, <1>2, ReadInvStep, Invariant, PTL DEF Spec

-----------------------------------------------------------------------------
(* mkstemp files *)

DebrisInv ==
    losses = 0 => \A t \in Temps \cap visible :
        t \in debris \/ \E w \in Writers : pc[w] \in Holding /\ temp[w] = t

\* Steps after which every file still has whoever answered for it, or is
\* recorded as debris.
LEMMA DebrisKept ==
    ASSUME DebrisInv, losses' = losses, debris \subseteq debris',
           \A v \in Writers : pc[v] \in Holding =>
              \/ temp[v] \in debris' \/ temp[v] \notin visible'
              \/ pc'[v] \in Holding /\ temp'[v] = temp[v],
           visible' \cap Temps \subseteq visible
    PROVE  DebrisInv'
  BY DEF DebrisInv

LEMMA DebrisSetup ==
    ASSUME IInv, DebrisInv, NEW w \in Writers, SetupTemp(w)
    PROVE  DebrisInv'
  <1>1. PICK t \in Temps :
          /\ visible' = visible \cup {t}
          /\ temp' = [temp EXCEPT ![w] = t] /\ debris' = debris \ {t}
    BY DEF SetupTemp, CreateFile
  <1>2. pc[w] = "setup" /\ pc'[w] \in Holding /\ temp'[w] = t /\ losses' = losses
    BY <1>1 DEF SetupTemp, Goto, IInv, TypeOK, Holding, budget
  <1>3. \A v \in Writers \ {w} : SameCall(v)
    BY <1>1 DEF SetupTemp, Goto, SameCall, IInv, TypeOK
  <1>4. \A v \in Writers : pc[v] \in Holding => pc'[v] \in Holding /\ temp'[v] = temp[v]
    BY <1>2, <1>3 DEF SameCall, Holding
  <1>5. QED
    BY <1>1, <1>2, <1>4 DEF DebrisInv

\* The finally block unlinks the file, a failing unlink or a kill leaves it, and
\* the other steps of a call leave it where it is.
LEMMA DebrisCall ==
    ASSUME IInv, DebrisInv, NEW w \in Writers,
           \/ Advance(w) /\ ~SetupTemp(w)
           \/ Kill(w)
           \/ \E m \in Manifests : BeginWrite(w, m)
    PROVE  DebrisInv'
  <1>1. /\ losses' = losses /\ debris \subseteq debris'
        /\ \A v \in Writers \ {w} : SameCall(v)
    BY DEF Advance, SetupDirectory, SetupFails, StageBytes, StageOrPublishFails, Publish,
       MeetExisting, AdoptExisting, CollisionRaised, RaiseError, ArtifactDone, ReturnStored,
       UnlinkFails, Kill, BeginWrite, Leave, Goto, Raise, Fault, budget, callVars, SameCall,
       IInv, TypeOK
  <1>2. pc[w] \in Holding => temp[w] \in Temps
    BY DEF IInv, CallOK
  <1>3. pc[w] \in Holding =>
          \/ temp[w] \in debris' \/ temp[w] \notin visible'
          \/ pc'[w] \in Holding /\ temp'[w] = temp[w]
    BY <1>2 DEF Advance, SetupDirectory, SetupFails, StageBytes, StageOrPublishFails, Publish,
       MeetExisting, AdoptExisting, CollisionRaised, RaiseError, ArtifactDone, ReturnStored,
       UnlinkFails, Kill, BeginWrite, Goto, Raise, Remove, callVars, Holding, IInv, TypeOK
  <1>4. visible' \cap Temps \subseteq visible
    <2>1. CASE Publish(w)
      <3>1. Target(w) \in Objects
        BY <2>1, TargetFacts DEF IInv, CallOK, Publish
      <3>2. QED
        BY <2>1, <3>1, NodeFacts DEF Publish, Link
    <2>2. CASE ~Publish(w)
      BY <2>2, NodeFacts DEF Advance, SetupDirectory, MakeDirectory, SetupFails, StageBytes,
         WriteAndSync, StageOrPublishFails, MeetExisting, AdoptExisting, CollisionRaised,
         RaiseError, ArtifactDone, ReturnStored, Remove, UnlinkFails, Kill, BeginWrite, fsVars
    <2>3. QED
      BY <2>1, <2>2
  <1>5. QED
    BY <1>1, <1>3, <1>4, DebrisKept DEF SameCall

LEMMA DebrisStep ==
    ASSUME IInv, DebrisInv, [Next]_vars
    PROVE  DebrisInv'
  <1>1. CASE PowerLoss
    BY <1>1 DEF PowerLoss, IInv, TypeOK, DebrisInv
  <1>2. CASE UNCHANGED <<visible, callVars, debris, losses>>
    BY <1>2 DEF DebrisInv, callVars
  <1>3. QED
    BY <1>1, <1>2, DebrisSetup, DebrisCall
       DEF Next, vars, fsVars, budget, RejectWrite, ReadManifest, RefuseManifest, ReadArtifact,
           ReadFails, Fault, Flush, Writeback, Advance

\* While the machine stays up, a visible mkstemp file belongs to a call under
\* way, or to one that was killed or could not unlink it.
THEOREM RunDebrisIsKnown == Spec => []NoSilentDebris
  <1>1. Init => DebrisInv
    BY PathMember, StoreFacts, NodeFacts DEF Init, FSInit, DebrisInv
  <1>2. DebrisInv => NoSilentDebris
    BY DEF DebrisInv, NoSilentDebris, Holding
  <1>3. QED
    BY <1>1, <1>2, DebrisStep, Invariant, PTL DEF Spec

-----------------------------------------------------------------------------
(* Both writers *)

Snapshots == INSTANCE SnapshotWriterProofs WITH
    Contents <- Responses, MaxCalls <- MaxSnapshotCalls,
    pc <- step, stage <- part, acked <- stored,
    calls <- writes, faults <- errors, kills <- ends

\* The two instances of SnapshotWriter, of which one comes with its proofs, are
\* the same.
LEMMA SameWriter ==
    /\ Snap!Spec => Snapshots!Spec
    /\ [](Snapshots!TypeOK /\ Snapshots!ManifestNamesContent /\ Snapshots!AckedReadsBack)
          => [](Snap!TypeOK /\ Snap!ManifestNamesContent /\ Snap!AckedReadsBack)
    /\ Snapshots!WholeIsFinal => Snap!WholeIsFinal
  <1>1. Snap!Init => Snapshots!Init
    BY DEF Snap!Init, Snap!Observations, Snap!ContentPath, Snap!ManifestPath,
           Snap!Paths, Snapshots!Init, Snapshots!Observations, Snapshots!ContentPath,
           Snapshots!ManifestPath, Snapshots!Paths
  <1>2. [Snap!Next]_(Snap!vars) => [Snapshots!Next]_(Snapshots!vars)
    BY DEF Snap!Observations, Snap!ContentPath, Snap!ManifestPath, Snap!Paths,
           Snap!callVars, Snap!budget, Snap!vars, Snap!Target, Snap!Payload, Snap!Goto,
           Snap!Leave, Snap!Fault, Snap!Proceed, Snap!BeginWrite, Snap!OpenExclusive,
           Snap!MeetExisting, Snap!Fill, Snap!AdoptExisting, Snap!CollisionRaised,
           Snap!CallFails, Snap!Kill, Snap!Next, Snapshots!Observations,
           Snapshots!ContentPath, Snapshots!ManifestPath, Snapshots!Paths,
           Snapshots!callVars, Snapshots!budget, Snapshots!vars, Snapshots!Target,
           Snapshots!Payload, Snapshots!Goto, Snapshots!Leave, Snapshots!Fault,
           Snapshots!Proceed, Snapshots!BeginWrite, Snapshots!OpenExclusive,
           Snapshots!MeetExisting, Snapshots!Fill, Snapshots!AdoptExisting,
           Snapshots!CollisionRaised, Snapshots!CallFails, Snapshots!Kill,
           Snapshots!Next
  <1>3. Snapshots!TypeOK /\ Snapshots!ManifestNamesContent /\ Snapshots!AckedReadsBack
        => Snap!TypeOK /\ Snap!ManifestNamesContent /\ Snap!AckedReadsBack
    BY DEF Snap!TypeOK, Snap!ManifestNamesContent, Snap!AckedReadsBack,
           Snap!Observations, Snap!ContentPath, Snap!ManifestPath, Snap!Paths,
           Snapshots!TypeOK, Snapshots!ManifestNamesContent, Snapshots!AckedReadsBack,
           Snapshots!Observations, Snapshots!ContentPath, Snapshots!ManifestPath,
           Snapshots!Paths
  <1>4. [\A p \in Snapshots!Paths : file[p] \notin {Absent, Partial} => file'[p] = file[p]]_(Snapshots!vars)
        => [\A p \in Snap!Paths : file[p] \notin {Absent, Partial} => file'[p] = file[p]]_(Snap!vars)
    BY DEF Snap!Observations, Snap!ContentPath, Snap!ManifestPath, Snap!Paths,
           Snap!callVars, Snap!budget, Snap!vars, Snapshots!Observations,
           Snapshots!ContentPath, Snapshots!ManifestPath, Snapshots!Paths,
           Snapshots!callVars, Snapshots!budget, Snapshots!vars
  <1>5. QED
    BY <1>1, <1>2, <1>3, <1>4, PTL DEF Snap!Spec, Snapshots!Spec, Snap!WholeIsFinal,
                                      Snapshots!WholeIsFinal

\* In either world the other writer does as it may: nothing.
LEMMA WritersApart == WorldsSpec => Spec /\ Snap!Spec
  <1>1. WorldsInit => Init /\ Snap!Init
    BY DEF WorldsInit
  <1>2. [WorldsNext]_<<world, vars, snapVars>> => [Next]_vars /\ [Snap!Next]_(Snap!vars)
    BY DEF WorldsNext, snapVars, Snap!vars, Snap!callVars, Snap!budget
  <1>3. QED
    BY <1>1, <1>2, PTL DEF WorldsSpec, Spec, Snap!Spec

\* A snapshot manifest, even half written, stands beside the complete content
\* it names, an acknowledged snapshot reads back, and a complete file is final:
\* write_akshare_daily(), for any number of writers, failures and kills.
THEOREM SnapshotsTheorem == WorldsSpec => SnapshotsAreKept
  <1>1. Snap!Spec => [](Snap!TypeOK /\ Snap!ManifestNamesContent /\ Snap!AckedReadsBack)
    BY ResponseAssumption, SameWriter, Snapshots!SnapshotsHold
       DEF Snap!SnapshotAssumption, Snapshots!SnapshotAssumption,
           Snap!Observations, Snapshots!Observations
  <1>2. Snap!Spec => Snap!WholeIsFinal
    BY ResponseAssumption, SameWriter, Snapshots!SnapshotsAreFinal
       DEF Snap!SnapshotAssumption, Snapshots!SnapshotAssumption,
           Snap!Observations, Snapshots!Observations
  <1>3. Spec => []TypeOK
    BY TypeCorrect
  <1>4. QED
    BY <1>1, <1>2, <1>3, WritersApart, PTL DEF SnapshotsAreKept
=============================================================================

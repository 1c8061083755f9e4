------------------------ MODULE SnapshotWriterProofs ------------------------
(***************************************************************************)
(* SnapshotWriter for any number of writers, responses, instants, modes,   *)
(* kills and failing system calls.                                         *)
(***************************************************************************)
EXTENDS SnapshotWriter, TLAPS

CallOK(w) ==
    /\ pc[w] = "idle" => stage[w] = "content"
    /\ pc[w] # "idle" => obs[w] \in Observations
    /\ pc[w] = "fill" => file[Target(w)] = Partial
    /\ pc[w] # "idle" /\ stage[w] = "manifest" => file[ContentPath(obs[w])] = obs[w].content

\* The file that a writer is filling is its own: it created it.
OneFiller ==
    \A v, w \in Writers :
        pc[v] = "fill" /\ pc[w] = "fill" /\ Target(v) = Target(w) => v = w

IInv ==
    /\ TypeOK
    /\ OneFiller
    /\ \A w \in Writers : CallOK(w)
    /\ ManifestNamesContent
    /\ AckedReadsBack

-----------------------------------------------------------------------------

LEMMA PathFacts ==
    ASSUME NEW o \in Observations, NEW p \in Observations
    PROVE  /\ ContentPath(o) \in Paths /\ ManifestPath(o) \in Paths
           /\ ContentPath(o) # ManifestPath(p)
           /\ ContentPath(o) = ContentPath(p) <=> o.content = p.content
           /\ ManifestPath(o) = ManifestPath(p) => o.content = p.content
  <1>1. ContentPath(o) \in Paths /\ ManifestPath(o) \in Paths
    BY DEF Paths
  <1>2. DOMAIN ContentPath(o) = {"content"} /\ DOMAIN ManifestPath(p) = {"content", "at"}
    BY DEF ContentPath, ManifestPath
  <1>3. "at" \notin {"content"}
    OBVIOUS
  <1>4. ContentPath(o) # ManifestPath(p)
    BY <1>2, <1>3
  <1>5. ContentPath(o).content = o.content /\ ContentPath(p).content = p.content
    BY DEF ContentPath
  <1>6. ManifestPath(o).content = o.content /\ ManifestPath(p).content = p.content
    BY DEF ManifestPath
  <1>7. o.content = p.content => ContentPath(o) = ContentPath(p)
    BY DEF ContentPath
  <1>8. QED
    BY <1>1, <1>4, <1>5, <1>6, <1>7

LEMMA EveryPath ==
    ASSUME NEW p \in Paths
    PROVE  \E o \in Observations : p = ContentPath(o) \/ p = ManifestPath(o)
  BY DEF Paths

LEMMA TargetFacts ==
    ASSUME SnapshotAssumption, NEW w \in Writers, TypeOK, obs[w] \in Observations
    PROVE  /\ Target(w) \in Paths
           /\ stage[w] = "content" => Target(w) = ContentPath(obs[w]) /\ Payload(w) = obs[w].content
           /\ stage[w] = "manifest" => Target(w) = ManifestPath(obs[w]) /\ Payload(w) = obs[w]
           /\ stage[w] \in {"content", "manifest"}
           /\ Payload(w) \notin {Absent, Partial}
  <1>1. obs[w].content \in Contents
    BY DEF Observations
  <1>2. stage[w] \in {"content", "manifest"}
    BY DEF TypeOK
  <1>3. QED
    BY <1>1, <1>2, PathFacts DEF Target, Payload, SnapshotAssumption

\* The file at an observation's path, when it is complete, is its own.
LEMMA Complete ==
    ASSUME SnapshotAssumption, TypeOK, NEW w \in Writers, obs[w] \in Observations,
           file[Target(w)] = Payload(w)
    PROVE  file[Target(w)] \notin {Absent, Partial}
  BY TargetFacts

-----------------------------------------------------------------------------
(* One path changes, or none *)

\* w moves, every other writer stands still.
OthersStay(w) ==
    \A v \in Writers \ {w} : pc'[v] = pc[v] /\ obs'[v] = obs[v] /\ stage'[v] = stage[v]

\* What a step may do to the files: create one, empty, or complete its own.
Creates(w) == file[Target(w)] = Absent /\ file' = [file EXCEPT ![Target(w)] = Partial]
Completes(w) == file[Target(w)] = Partial /\ file' = [file EXCEPT ![Target(w)] = Payload(w)]
FileStep(w) == UNCHANGED file \/ Creates(w) \/ Completes(w)

\* A step of w keeps the types of the files, ...
LEMMA FileTypes ==
    ASSUME SnapshotAssumption, TypeOK, NEW w \in Writers, obs[w] \in Observations, FileStep(w)
    PROVE  /\ DOMAIN file' = Paths
           /\ \A o \in Observations :
                /\ file'[ContentPath(o)] \in {Absent, Partial, o.content}
                /\ file'[ManifestPath(o)] \in {Absent, Partial} \cup
                     {p \in Observations : ManifestPath(p) = ManifestPath(o)}
  <1>1. DOMAIN file' = Paths /\ \A q \in Paths :
          file'[q] = file[q] \/ (q = Target(w) /\ file'[q] \in {Partial, Payload(w)})
    BY TargetFacts DEF TypeOK, FileStep, Creates, Completes
  <1>2. SUFFICES ASSUME NEW o \in Observations
                 PROVE  /\ file'[ContentPath(o)] \in {Absent, Partial, o.content}
                        /\ file'[ManifestPath(o)] \in {Absent, Partial} \cup
                             {p \in Observations : ManifestPath(p) = ManifestPath(o)}
    BY <1>1
  <1>3. ContentPath(o) \in Paths /\ ManifestPath(o) \in Paths
    BY PathFacts
  <1>4. ContentPath(o) = Target(w) => Payload(w) = o.content
    BY TargetFacts, PathFacts
  <1>5. ManifestPath(o) = Target(w) =>
          Payload(w) \in Observations /\ ManifestPath(Payload(w)) = ManifestPath(o)
    BY TargetFacts, PathFacts
  <1>6. QED
    BY <1>1, <1>3, <1>4, <1>5 DEF TypeOK

\* ... and every complete file as it is.
LEMMA WholeKept ==
    ASSUME SnapshotAssumption, TypeOK, NEW w \in Writers, obs[w] \in Observations, FileStep(w),
           NEW p \in Paths, file[p] \notin {Absent, Partial}
    PROVE  file'[p] = file[p]
  BY TargetFacts DEF TypeOK, FileStep, Creates, Completes

LEMMA ContentKept ==
    ASSUME SnapshotAssumption, TypeOK, NEW w \in Writers, obs[w] \in Observations, FileStep(w),
           NEW o \in Observations, file[ContentPath(o)] = o.content
    PROVE  file'[ContentPath(o)] = o.content
  <1>1. o.content \notin {Absent, Partial}
    BY DEF SnapshotAssumption, Observations
  <1>2. QED
    BY <1>1, WholeKept, PathFacts

\* A manifest file appears only when a writer has put the content beside it.
LEMMA NamesKept ==
    ASSUME SnapshotAssumption, IInv, NEW w \in Writers, pc[w] # "idle", FileStep(w)
    PROVE  ManifestNamesContent'
  <1>1. obs[w] \in Observations
    BY DEF IInv, CallOK
  <1>2. SUFFICES ASSUME NEW o \in Observations, file'[ManifestPath(o)] # Absent
                 PROVE  file[ContentPath(o)] = o.content
    BY <1>1, ContentKept DEF ManifestNamesContent, IInv
  <1>3. CASE file[ManifestPath(o)] # Absent
    BY <1>3 DEF IInv, ManifestNamesContent
  <1>4. CASE file[ManifestPath(o)] = Absent
    <2>1. ManifestPath(o) = Target(w)
      BY <1>1, <1>2, <1>4, TargetFacts, PathFacts DEF IInv, TypeOK, FileStep, Creates, Completes
    <2>2. stage[w] = "manifest" /\ ManifestPath(o) = ManifestPath(obs[w])
      BY <1>1, <2>1, TargetFacts, PathFacts DEF IInv
    <2>3. o.content = obs[w].content /\ ContentPath(o) = ContentPath(obs[w])
      BY <1>1, <2>2, PathFacts
    <2>4. QED
      BY <1>1, <2>2, <2>3 DEF IInv, CallOK
  <1>5. QED
    BY <1>3, <1>4

\* The calls that do not move keep what holds of them.
LEMMA OthersOK ==
    ASSUME SnapshotAssumption, IInv, NEW w \in Writers, pc[w] # "idle", FileStep(w), OthersStay(w),
           Completes(w) => pc[w] = "fill",
           NEW v \in Writers \ {w}
    PROVE  CallOK(v)'
  <1>1. obs[w] \in Observations /\ CallOK(v)
    BY DEF IInv, CallOK
  <1>2. CASE pc[v] = "idle"
    BY <1>1, <1>2 DEF CallOK, OthersStay
  <1>3. CASE pc[v] # "idle"
    <2>1. obs[v] \in Observations /\ Target(v)' = Target(v)
      BY <1>1, <1>3 DEF CallOK, OthersStay, Target
    <2>2. file[ContentPath(obs[v])] = obs[v].content => file'[ContentPath(obs[v])] = obs[v].content
      BY <1>1, <2>1, ContentKept DEF IInv
    <2>3. pc[v] = "fill" => file'[Target(v)] = Partial
      <3>1. ASSUME pc[v] = "fill"  PROVE Completes(w) => Target(w) # Target(v)
        BY <3>1 DEF IInv, OneFiller
      <3>2. Target(v) \in Paths /\ Target(w) \in Paths /\ DOMAIN file = Paths
        BY <1>1, <2>1, TargetFacts DEF IInv, TypeOK
      <3>3. QED
        BY <1>1, <3>1, <3>2 DEF CallOK, FileStep, Creates, Completes
    <2>4. QED
      BY <1>1, <1>3, <2>1, <2>2, <2>3 DEF CallOK, OthersStay
  <1>4. QED
    BY <1>2, <1>3

LEMMA AckedKept ==
    ASSUME SnapshotAssumption, IInv, NEW w \in Writers, pc[w] # "idle", FileStep(w)
    PROVE  \A o \in acked : file'[ManifestPath(o)] = o /\ file'[ContentPath(o)] = o.content
  <1> SUFFICES ASSUME NEW o \in acked
               PROVE  file'[ManifestPath(o)] = o /\ file'[ContentPath(o)] = o.content
    OBVIOUS
  <1>1. o \in Observations /\ obs[w] \in Observations
    BY DEF IInv, TypeOK, CallOK
  <1>2. file[ManifestPath(o)] = o /\ file[ContentPath(o)] = o.content
    BY DEF IInv, AckedReadsBack
  <1>3. o \notin {Absent, Partial}
    BY <1>1 DEF SnapshotAssumption
  <1>4. QED
    BY <1>1, <1>2, <1>3, WholeKept, ContentKept, PathFacts DEF IInv

-----------------------------------------------------------------------------
(* The steps of a call *)

Steps == {"idle", "open", "fill", "compare"}

\* The part of TypeOK that is not about the files.
CallTypes ==
    /\ pc \in [Writers -> Steps]
    /\ obs \in [Writers -> Observations \cup {None}]
    /\ stage \in [Writers -> {"content", "manifest"}]
    /\ acked \subseteq Observations /\ refused \subseteq Observations
    /\ calls \in 0..MaxCalls /\ faults \in 0..MaxFaults /\ kills \in 0..MaxKills

LEMMA Combine ==
    ASSUME SnapshotAssumption, IInv, NEW w \in Writers, pc[w] # "idle", FileStep(w),
           OthersStay(w), CallTypes', Completes(w) => pc[w] = "fill", CallOK(w)',
           pc'[w] = "fill" => file[Target(w)] = Absent /\ Target(w)' = Target(w),
           acked' # acked =>
              /\ acked' = acked \cup {obs[w]}
              /\ file'[ManifestPath(obs[w])] = obs[w]
              /\ file'[ContentPath(obs[w])] = obs[w].content
    PROVE  IInv'
  <1>1. obs[w] \in Observations /\ Absent # Partial
    BY DEF IInv, CallOK, SnapshotAssumption
  <1>2. TypeOK'
    BY <1>1, FileTypes DEF IInv, TypeOK, CallTypes, Steps
  <1>3. \A v \in Writers : CallOK(v)'
    BY OthersOK
  <1>4. OneFiller'
    <2>1. \A v \in Writers \ {w} : pc'[v] = pc[v] /\ Target(v)' = Target(v)
      BY DEF OthersStay, Target
    <2>2. \A v \in Writers : pc[v] = "fill" => file[Target(v)] = Partial
      BY DEF IInv, CallOK
    <2>3. \A v \in Writers \ {w} :
             pc'[v] = "fill" /\ pc'[w] = "fill" => Target(v)' # Target(w)'
      BY <1>1, <2>1, <2>2
    <2>4. \A u, v \in Writers \ {w} :
             pc'[u] = "fill" /\ pc'[v] = "fill" /\ Target(u)' = Target(v)' => u = v
      BY <2>1 DEF IInv, OneFiller
    <2>5. QED
      BY <2>3, <2>4 DEF OneFiller
  <1>5. ManifestNamesContent'
    BY NamesKept
  <1>6. AckedReadsBack'
    BY AckedKept DEF AckedReadsBack
  <1>7. QED
    BY <1>2, <1>3, <1>4, <1>5, <1>6 DEF IInv

LEMMA BeginWriteOK ==
    ASSUME SnapshotAssumption, IInv, NEW w \in Writers, NEW o \in Observations, BeginWrite(w, o)
    PROVE  IInv'
  <1>1. OthersStay(w) /\ pc'[w] = "open" /\ obs'[w] = o /\ stage'[w] = "content"
    BY DEF IInv, TypeOK, CallOK, BeginWrite, Goto, OthersStay
  <1>2. TypeOK'
    BY DEF IInv, TypeOK, BeginWrite, Goto, SnapshotAssumption
  <1>3. \A v \in Writers \ {w} : Target(v)' = Target(v)
    BY <1>1 DEF OthersStay, Target
  <1>4. \A v \in Writers : CallOK(v)'
    BY <1>1, <1>3 DEF IInv, CallOK, OthersStay, BeginWrite
  <1>5. OneFiller'
    BY <1>1, <1>3 DEF IInv, OneFiller, OthersStay
  <1>6. ManifestNamesContent' /\ AckedReadsBack'
    BY DEF IInv, ManifestNamesContent, AckedReadsBack, BeginWrite
  <1>7. QED
    BY <1>2, <1>4, <1>5, <1>6 DEF IInv

\* A call ends without touching a file.
LEMMA LeavesOK ==
    ASSUME SnapshotAssumption, IInv, NEW w \in Writers,
           CollisionRaised(w) \/ CallFails(w) \/ Kill(w)
    PROVE  IInv'
  <1>1. /\ pc[w] # "idle" /\ Leave(w) /\ UNCHANGED <<file, acked>>
        /\ refused' \subseteq Observations
        /\ calls' \in 0..MaxCalls /\ faults' \in 0..MaxFaults /\ kills' \in 0..MaxKills
    BY DEF CollisionRaised, CallFails, Kill, Fault, IInv, TypeOK, CallOK, budget, SnapshotAssumption
  <1>2. OthersStay(w) /\ CallTypes' /\ pc'[w] = "idle" /\ stage'[w] = "content"
    BY <1>1 DEF Leave, Goto, IInv, TypeOK, OthersStay, CallTypes, Steps
  <1>3. CallOK(w)' /\ FileStep(w)
    BY <1>1, <1>2 DEF CallOK, FileStep
  <1>4. ~Completes(w)
    <2>1. obs[w] \in Observations
      BY <1>1 DEF IInv, CallOK
    <2>2. Payload(w) # Partial /\ Target(w) \in Paths /\ DOMAIN file = Paths
      BY <2>1, TargetFacts DEF IInv, TypeOK
    <2>3. QED
      BY <1>1, <2>2 DEF Completes
  <1>5. QED
    BY <1>1, <1>2, <1>3, <1>4, Combine

LEMMA OpensOK ==
    ASSUME SnapshotAssumption, IInv, NEW w \in Writers, OpenExclusive(w) \/ MeetExisting(w)
    PROVE  IInv'
  <1>1. /\ pc[w] = "open" /\ UNCHANGED <<obs, stage, acked, refused, budget>>
        /\ \/ Creates(w) /\ Goto(w, "fill")
           \/ UNCHANGED file /\ file[Target(w)] # Absent /\ Goto(w, "compare")
    BY DEF OpenExclusive, MeetExisting, Creates
  <1>2. obs[w] \in Observations
    BY <1>1 DEF IInv, CallOK
  <1>3. OthersStay(w) /\ CallTypes'
    BY <1>1 DEF Goto, IInv, TypeOK, OthersStay, CallTypes, Steps, budget
  <1>4. Target(w)' = Target(w) /\ Target(w) \in Paths /\ DOMAIN file = Paths
    BY <1>1, <1>2, TargetFacts DEF IInv, TypeOK, Target
  <1>5. FileStep(w) /\ ~Completes(w)
    BY <1>1, <1>2, <1>4, TargetFacts DEF FileStep, Creates, Completes, IInv
  <1>6. file[ContentPath(obs[w])] = obs[w].content => file'[ContentPath(obs[w])] = obs[w].content
    BY <1>2, <1>5, ContentKept DEF IInv
  <1>7. pc'[w] = "fill" => file[Target(w)] = Absent /\ file'[Target(w)] = Partial
    BY <1>1, <1>4 DEF Goto, Creates, IInv, TypeOK
  <1>8. CallOK(w)'
    BY <1>1, <1>2, <1>4, <1>6, <1>7 DEF CallOK, Goto, IInv, TypeOK
  <1>9. QED
    BY <1>1, <1>3, <1>4, <1>5, <1>7, <1>8, Combine

\* The file of a stage is in place, complete: the manifest is next, or the call
\* returns with both files as it means them.
LEMMA ProceedOK ==
    ASSUME SnapshotAssumption, IInv, NEW w \in Writers, Fill(w) \/ AdoptExisting(w)
    PROVE  IInv'
  <1>1. /\ Proceed(w) /\ UNCHANGED <<refused, budget>> /\ pc[w] \in {"fill", "compare"}
        /\ obs[w] \in Observations
    BY DEF Fill, AdoptExisting, IInv, CallOK
  <1>2. /\ Target(w) \in Paths /\ DOMAIN file = Paths
        /\ \/ pc[w] = "fill" /\ Completes(w)
           \/ UNCHANGED file /\ file[Target(w)] = Payload(w)
    <2>1. Target(w) \in Paths /\ DOMAIN file = Paths
      BY <1>1, TargetFacts DEF IInv, TypeOK
    <2>2. pc[w] = "fill" => file[Target(w)] = Partial
      BY DEF IInv, CallOK
    <2>3. QED
      BY <2>1, <2>2 DEF Fill, AdoptExisting, Completes
  <1>3. FileStep(w) /\ file'[Target(w)] = Payload(w)
    BY <1>2 DEF FileStep, Completes
  <1>4. Completes(w) => pc[w] = "fill"
    BY <1>1, <1>2, TargetFacts DEF Completes, IInv
  <1>5. stage[w] = "content" => file'[ContentPath(obs[w])] = obs[w].content
    BY <1>1, <1>3, TargetFacts DEF IInv
  <1>6. stage[w] = "manifest" =>
          file'[ManifestPath(obs[w])] = obs[w] /\ file'[ContentPath(obs[w])] = obs[w].content
    BY <1>1, <1>3, TargetFacts, ContentKept DEF IInv, CallOK
  <1>7. OthersStay(w) /\ CallTypes'
    BY <1>1 DEF Proceed, Leave, Goto, IInv, TypeOK, OthersStay, CallTypes, Steps, budget
  <1>8. pc'[w] # "fill" /\ CallOK(w)'
    BY <1>1, <1>5, <1>6 DEF Proceed, Leave, Goto, CallOK, IInv, TypeOK
  <1>9. acked' # acked => stage[w] = "manifest" /\ acked' = acked \cup {obs[w]}
    BY <1>1 DEF Proceed, IInv, TypeOK
  <1>10. QED
    BY <1>1, <1>3, <1>4, <1>6, <1>7, <1>8, <1>9, Combine

-----------------------------------------------------------------------------
(* The invariant *)

LEMMA InitOK ==
    ASSUME SnapshotAssumption, Init
    PROVE  IInv
  <1>1. \A o \in Observations : ContentPath(o) \in Paths /\ ManifestPath(o) \in Paths
    BY PathFacts
  <1>2. QED
    BY <1>1 DEF Init, SnapshotAssumption, IInv, TypeOK, OneFiller, CallOK, ManifestNamesContent,
                AckedReadsBack

LEMMA NextOK ==
    ASSUME SnapshotAssumption, IInv, [Next]_vars
    PROVE  IInv'
  <1>1. CASE UNCHANGED vars
    BY <1>1 DEF vars, callVars, budget, IInv, TypeOK, OneFiller, CallOK, Target,
                ManifestNamesContent, AckedReadsBack
  <1>2. QED
    BY <1>1, BeginWriteOK, OpensOK, ProceedOK, LeavesOK DEF Next

LEMMA Invariant ==
    ASSUME SnapshotAssumption
    PROVE  Spec => []IInv
  <1>1. Init => IInv
    BY InitOK
  <1>2. IInv /\ [Next]_vars => IInv'
    BY NextOK
  <1>3. QED
    BY <1>1, <1>2, PTL DEF Spec

\* Types, and what is acknowledged: a manifest file, even half written, stands
\* beside the complete content it names, and a call that returned left both of
\* its files as it meant them.
THEOREM SnapshotsHold ==
    ASSUME SnapshotAssumption
    PROVE  Spec => [](TypeOK /\ ManifestNamesContent /\ AckedReadsBack)
  <1>1. IInv => TypeOK /\ ManifestNamesContent /\ AckedReadsBack
    BY DEF IInv
  <1>2. QED
    BY <1>1, Invariant, PTL

\* A file that has once been complete is never written again.
THEOREM SnapshotsAreFinal ==
    ASSUME SnapshotAssumption
    PROVE  Spec => WholeIsFinal
  <1>1. IInv /\ [Next]_vars =>
          [\A p \in Paths : file[p] \notin {Absent, Partial} => file'[p] = file[p]]_vars
    <2> SUFFICES ASSUME IInv, [Next]_vars,
                        NEW p \in Paths, file[p] \notin {Absent, Partial}
                 PROVE  file'[p] = file[p]
      OBVIOUS
    <2>1. CASE UNCHANGED file
      BY <2>1
    <2>2. ASSUME NEW w \in Writers, OpenExclusive(w) \/ Fill(w)
          PROVE  file'[p] = file[p]
      <3>1. obs[w] \in Observations /\ FileStep(w)
        BY <2>2 DEF IInv, CallOK, OpenExclusive, Fill, FileStep, Creates, Completes
      <3>2. QED
        BY <3>1, WholeKept DEF IInv
    <2>3. QED
      BY <2>1, <2>2 DEF Next, vars, BeginWrite, MeetExisting, AdoptExisting, CollisionRaised,
                        CallFails, Kill
  <1>2. QED
    BY <1>1, Invariant, PTL DEF Spec, WholeIsFinal
=============================================================================

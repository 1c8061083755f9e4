---------------------------- MODULE WriterWorlds ----------------------------
(* The two writers of canonical objects beside the capture store, each in a  *)
(* world of its own: the run artifact store, or the raw snapshot writer.     *)
(* Only one of them takes steps in a behavior, the other stays as it began.  *)
EXTENDS RunArtifactStore

CONSTANTS Responses, Instants, Modes, MaxSnapshotCalls, Absent, Partial

VARIABLES world, file, step, obs, part, stored, refused, writes, errors, ends

snapVars == <<file, step, obs, part, stored, refused, writes, errors, ends>>

Snap == INSTANCE SnapshotWriter WITH
    Contents <- Responses, MaxCalls <- MaxSnapshotCalls,
    pc <- step, stage <- part, acked <- stored,
    calls <- writes, faults <- errors, kills <- ends

ASSUME ResponseAssumption == Snap!SnapshotAssumption

WorldsInit == world \in {"artifacts", "snapshots"} /\ Init /\ Snap!Init
WorldsNext ==
    /\ UNCHANGED world
    /\ \/ world = "artifacts" /\ Next /\ UNCHANGED snapVars
       \/ world = "snapshots" /\ Snap!Next /\ UNCHANGED vars
WorldsSpec == WorldsInit /\ [][WorldsNext]_<<world, vars, snapVars>>
-----------------------------------------------------------------------------

\* The snapshot writer's manifests stand beside the content they describe, what
\* it acknowledged is what its paths hold, and a complete file is never written
\* again, whoever writes, fails or is killed meanwhile (SnapshotWriter).  The
\* variables of both writers keep their types.
SnapshotsAreKept ==
    /\ [](TypeOK /\ Snap!TypeOK /\ Snap!ManifestNamesContent /\ Snap!AckedReadsBack)
    /\ Snap!WholeIsFinal
=============================================================================

-------------------------- MODULE RunArtifactStore --------------------------
(***************************************************************************)
(* artifacts/store.py: write_reference_result publishes the bytes of a     *)
(* ReferenceResult and then a manifest of the run that produced it;        *)
(* inspect_reference_result reads them back.  The publication resembles    *)
(* that of CaptureStore without its directory syncs, and with a cleanup    *)
(* that is a bare `finally: unlink'.                                       *)
(*                                                                         *)
(* A manifest object stands for one observation of a run: experiment_id,   *)
(* run_id, runtime, engine, dataset, artifact and created_at determine its *)
(* bytes and so its path.  ArtifactOf is the result it names.              *)
(***************************************************************************)
EXTENDS DurableFS, Naturals, FiniteSets

CONSTANTS
    Writers, Readers,
    Artifacts, Manifests, ArtifactOf,
    Admissible,   \* runs whose metadata passes the models' validation
    Foreign,      \* canonical paths that hold somebody else's bytes
    MaxCalls, MaxFaults, MaxKills, MaxPowerLosses,   \* bounds of a model
    None

ASSUME RunStoreAssumption ==
    /\ Objects = Artifacts \cup Manifests
    /\ Artifacts \cap Manifests = {}
    /\ ArtifactOf \in [Manifests -> Artifacts]
    /\ Foreign \subseteq Objects
    /\ None \notin Manifests \cup Temps

VARIABLES
    pc,      \* where each writer is inside write_reference_result
    run,     \* the observation it stores
    stage,   \* the object _write_immutable is publishing
    temp,    \* temporary_path
    failed,  \* an exception is propagating through the finally block
    acked,   \* observations for which a call returned
    debris,  \* mkstemp files of calls that were killed or failed to unlink
    replay,  \* the manifest each reader has verified and not yet resolved
    verdict, \* how each reader's last inspection ended
    calls, faults, kills, losses

callVars == <<pc, run, stage, temp, failed>>
readVars == <<replay, verdict>>
budget   == <<calls, faults, kills, losses>>
vars == <<fsVars, callVars, acked, debris, readVars, budget>>

TypeOK ==
    /\ FSTypeOK
    /\ pc \in [Writers -> {"idle", "setup", "stage", "link", "compare", "unlink"}]
    /\ run \in [Writers -> Manifests \cup {None}]
    /\ stage \in [Writers -> {"artifact", "manifest"}]
    /\ temp \in [Writers -> Temps \cup {None}]
    /\ failed \in [Writers -> BOOLEAN]
    /\ acked \subseteq Manifests
    /\ debris \subseteq Temps
    /\ replay \in [Readers -> Manifests \cup {None}]
    /\ verdict \in [Readers -> {"none", "verified", "refused", "dangling"}]
    /\ calls \in Nat /\ faults \in Nat /\ kills \in Nat /\ losses \in Nat

Init ==
    /\ FSInit({Root} \cup UNION {Path(o) : o \in Foreign}, Foreign)
    /\ pc = [w \in Writers |-> "idle"]
    /\ run = [w \in Writers |-> None]
    /\ stage = [w \in Writers |-> "artifact"]
    /\ temp = [w \in Writers |-> None]
    /\ failed = [w \in Writers |-> FALSE]
    /\ replay = [r \in Readers |-> None]
    /\ verdict = [r \in Readers |-> "none"]
    /\ acked = {}
    /\ debris = {}
    /\ calls = 0 /\ faults = 0 /\ kills = 0 /\ losses = 0

-----------------------------------------------------------------------------

\* Mutant: the manifest goes first.
ManifestFirst(w) == IF stage[w] = "artifact" THEN run[w] ELSE ArtifactOf[run[w]]

\* The path that _write_immutable is publishing for w.
Target(w) == IF stage[w] = "artifact" THEN ArtifactOf[run[w]] ELSE run[w]

Goto(w, step) == pc' = [pc EXCEPT ![w] = step]

\* The call of w ends, by return or by exception.
Leave(w) ==
    /\ Goto(w, "idle")
    /\ run' = [run EXCEPT ![w] = None]
    /\ stage' = [stage EXCEPT ![w] = "artifact"]
    /\ temp' = [temp EXCEPT ![w] = None]
    /\ failed' = [failed EXCEPT ![w] = FALSE]

\* Some system call raises OSError.
Fault ==
    /\ faults < MaxFaults
    /\ faults' = faults + 1
    /\ UNCHANGED <<calls, kills, losses>>

\* An exception enters the finally block.
Raise(w) ==
    /\ Goto(w, "unlink")
    /\ failed' = [failed EXCEPT ![w] = TRUE]
    /\ UNCHANGED <<run, stage, temp, acked, debris, readVars>>

-----------------------------------------------------------------------------
(* write_reference_result *)

\* Mutant: the run is validated only when its manifest is built.
BeginUnchecked(w, m) ==
    /\ pc[w] = "idle"
    /\ calls < MaxCalls
    /\ Goto(w, "setup")
    /\ run' = [run EXCEPT ![w] = m]
    /\ calls' = calls + 1
    /\ UNCHANGED <<fsVars, stage, temp, failed, acked, debris, readVars,
                   faults, kills, losses>>

\* created_at, the result and every piece of metadata are validated, and both
\* paths computed, before the first write.
BeginWrite(w, m) ==
    /\ pc[w] = "idle"
    /\ calls < MaxCalls
    /\ m \in Admissible
    /\ Goto(w, "setup")
    /\ run' = [run EXCEPT ![w] = m]
    /\ calls' = calls + 1
    /\ UNCHANGED <<fsVars, stage, temp, failed, acked, debris, readVars,
                   faults, kills, losses>>

RejectWrite(w, m) ==
    /\ pc[w] = "idle"
    /\ calls < MaxCalls
    /\ m \notin Admissible
    /\ calls' = calls + 1
    /\ UNCHANGED <<fsVars, callVars, acked, debris, readVars, faults, kills,
                   losses>>

SetupDirectory(w) ==
    /\ pc[w] = "setup"
    /\ \E d \in Up[Parent[Target(w)]] : MakeDirectory(d)
    /\ UNCHANGED <<callVars, acked, debris, readVars, budget>>

SetupTemp(w) ==
    /\ pc[w] = "setup"
    /\ \E t \in Temps :
         /\ Parent[t] = Parent[Target(w)]
         /\ CreateFile(t)
         /\ temp' = [temp EXCEPT ![w] = t]
         /\ debris' = debris \ {t}
    /\ Goto(w, "stage")
    /\ UNCHANGED <<run, stage, failed, acked, readVars, budget>>

\* Mutant: mkstemp is inside the try block, whose finally has no file to unlink.
SetupFailsUnclean(w) ==
    /\ pc[w] = "setup"
    /\ Fault
    /\ Leave(w)
    /\ debris' = debris \cup {temp[w]}
    /\ UNCHANGED <<fsVars, acked, readVars>>

\* mkdir or mkstemp raises before the try block: nothing to unlink.
SetupFails(w) ==
    /\ pc[w] = "setup"
    /\ \/ Fault
       \/ /\ {t \in Temps : Parent[t] = Parent[Target(w)]} \subseteq visible
          /\ UNCHANGED budget
    /\ Leave(w)
    /\ UNCHANGED <<fsVars, acked, debris, readVars>>

\* Mutant: the bytes are left in the page cache.
StageUnsynced(w) ==
    /\ pc[w] = "stage"
    /\ WriteBytes(temp[w])
    /\ Goto(w, "link")
    /\ UNCHANGED <<run, stage, temp, failed, acked, debris, readVars, budget>>

StageBytes(w) ==
    /\ pc[w] = "stage"
    /\ WriteAndSync(temp[w])
    /\ Goto(w, "link")
    /\ UNCHANGED <<run, stage, temp, failed, acked, debris, readVars, budget>>

\* Mutant: os.replace instead of os.link.
PublishReplacing(w) ==
    /\ pc[w] = "link"
    /\ visible' = visible \cup {Target(w)}
    /\ data' = [data EXCEPT ![Target(w)] = data[temp[w]]]
    /\ flushed' = flushed \cup {Target(w)}
    /\ Goto(w, "unlink")
    /\ UNCHANGED <<durable, run, stage, temp, failed, acked, debris, readVars,
                   budget>>

Publish(w) ==
    /\ pc[w] = "link"
    /\ Link(temp[w], Target(w))
    /\ Goto(w, "unlink")
    /\ UNCHANGED <<run, stage, temp, failed, acked, debris, readVars, budget>>

MeetExisting(w) ==
    /\ pc[w] = "link"
    /\ Target(w) \in visible
    /\ Goto(w, "compare")
    /\ UNCHANGED <<fsVars, run, stage, temp, failed, acked, debris, readVars,
                   budget>>

\* path.read_bytes() == content: nothing more to publish.
AdoptExisting(w) ==
    /\ pc[w] = "compare"
    /\ data[Target(w)] = "whole"
    /\ Goto(w, "unlink")
    /\ UNCHANGED <<fsVars, run, stage, temp, failed, acked, debris, readVars,
                   budget>>

\* Other bytes raise ReproducibilityError; a read that fails raises OSError.
CollisionRaised(w) ==
    /\ pc[w] = "compare"
    /\ \/ data[Target(w)] # "whole" /\ UNCHANGED budget
       \/ Fault
    /\ Raise(w)
    /\ UNCHANGED fsVars

\* The staging or the link raises OSError.
StageOrPublishFails(w) ==
    /\ pc[w] \in {"stage", "link"}
    /\ Fault
    /\ Raise(w)
    /\ UNCHANGED fsVars

\* Mutant: the file is unlinked on success only.
UnlinkOnSuccessOnly(w) ==
    /\ pc[w] = "unlink"
    /\ failed[w]
    /\ Leave(w)
    /\ UNCHANGED <<fsVars, acked, debris, readVars, budget>>

\* finally: unlink, then the exception goes on to the caller ...
RaiseError(w) ==
    /\ pc[w] = "unlink"
    /\ failed[w]
    /\ Remove(temp[w])
    /\ Leave(w)
    /\ UNCHANGED <<acked, debris, readVars, budget>>

\* ... or the artifact is published and the manifest comes next ...
ArtifactDone(w) ==
    /\ pc[w] = "unlink"
    /\ ~failed[w]
    /\ stage[w] = "artifact"
    /\ Remove(temp[w])
    /\ Goto(w, "setup")
    /\ stage' = [stage EXCEPT ![w] = "manifest"]
    /\ temp' = [temp EXCEPT ![w] = None]
    /\ UNCHANGED <<run, failed, acked, debris, readVars, budget>>

\* ... or both are and the call returns a StoredRunArtifact.
ReturnStored(w) ==
    /\ pc[w] = "unlink"
    /\ ~failed[w]
    /\ stage[w] = "manifest"
    /\ Remove(temp[w])
    /\ acked' = acked \cup {run[w]}
    /\ Leave(w)
    /\ UNCHANGED <<debris, readVars, budget>>

\* The unlink itself raises, and replaces any exception under way.
UnlinkFails(w) ==
    /\ pc[w] = "unlink"
    /\ Fault
    /\ Leave(w)
    /\ debris' = debris \cup {temp[w]}
    /\ UNCHANGED <<fsVars, acked, readVars>>

-----------------------------------------------------------------------------
(* inspect_reference_result *)

ReadManifest(r, m) ==
    /\ replay[r] = None
    /\ m \in visible
    /\ data[m] = "whole"
    /\ replay' = [replay EXCEPT ![r] = m]
    /\ verdict' = [verdict EXCEPT ![r] = "none"]
    /\ UNCHANGED <<fsVars, callVars, acked, debris, budget>>

RefuseManifest(r, m) ==
    /\ replay[r] = None
    /\ m \notin visible \/ data[m] # "whole"
    /\ verdict' = [verdict EXCEPT ![r] = "refused"]
    /\ UNCHANGED <<fsVars, callVars, acked, debris, replay, budget>>

ReadArtifact(r) ==
    /\ replay[r] # None
    /\ replay' = [replay EXCEPT ![r] = None]
    /\ LET a == ArtifactOf[replay[r]] IN
         verdict' = [verdict EXCEPT ![r] =
            IF a \in visible /\ data[a] = "whole" THEN "verified" ELSE "dangling"]
    /\ UNCHANGED <<fsVars, callVars, acked, debris, budget>>

\* read_bytes of either file raises.
ReadFails(r) ==
    /\ Fault
    /\ replay' = [replay EXCEPT ![r] = None]
    /\ verdict' = [verdict EXCEPT ![r] = "refused"]
    /\ UNCHANGED <<fsVars, callVars, acked, debris>>

-----------------------------------------------------------------------------

Kill(w) ==
    /\ pc[w] # "idle"
    /\ kills < MaxKills
    /\ kills' = kills + 1
    /\ Leave(w)
    /\ debris' = debris \cup ({temp[w]} \cap Temps)
    /\ UNCHANGED <<fsVars, acked, readVars, calls, faults, losses>>

PowerLoss ==
    /\ losses < MaxPowerLosses
    /\ losses' = losses + 1
    /\ LosePower
    /\ pc' = [w \in Writers |-> "idle"]
    /\ run' = [w \in Writers |-> None]
    /\ stage' = [w \in Writers |-> "artifact"]
    /\ temp' = [w \in Writers |-> None]
    /\ failed' = [w \in Writers |-> FALSE]
    /\ replay' = [r \in Readers |-> None]
    /\ verdict' = [r \in Readers |-> "none"]
    /\ debris' = debris \cup ({temp[w] : w \in Writers} \cap Temps)
    /\ UNCHANGED <<acked, calls, faults, kills>>

\* An entry reaches the disk unasked; it matters only if power can be lost.
Flush(n) ==
    /\ losses < MaxPowerLosses
    /\ Writeback(n)
    /\ UNCHANGED <<callVars, acked, debris, readVars, budget>>

Advance(w) ==
    \/ SetupDirectory(w) \/ SetupTemp(w) \/ SetupFails(w)
    \/ StageBytes(w) \/ StageOrPublishFails(w)
    \/ Publish(w) \/ MeetExisting(w) \/ AdoptExisting(w) \/ CollisionRaised(w)
    \/ RaiseError(w) \/ ArtifactDone(w) \/ ReturnStored(w) \/ UnlinkFails(w)

Next ==
    \/ \E w \in Writers, m \in Manifests : BeginWrite(w, m) \/ RejectWrite(w, m)
    \/ \E w \in Writers : Advance(w)
    \/ \E r \in Readers, m \in Manifests :
         ReadManifest(r, m) \/ RefuseManifest(r, m)
    \/ \E r \in Readers : ReadArtifact(r) \/ ReadFails(r)
    \/ \E w \in Writers : Kill(w)
    \/ PowerLoss
    \/ \E n \in Nodes : Flush(n)

Spec == Init /\ [][Next]_vars

-----------------------------------------------------------------------------
(* Properties *)

\* ADR-0008: a killed process may leave its mkstemp file and never a part of a
\* formal artifact.  So does a loss of power: the bytes are on disk before the
\* link that names them.
NeverTorn ==
    \A o \in Objects \cap visible :
        data[o] = IF o \in Foreign THEN "foreign" ELSE "whole"

\* Canonical bytes are never replaced, and only a loss of power removes them.
NeverOverwritten ==
    [][\A o \in Objects \cap visible :
         IF o \in visible' THEN data'[o] = data[o] ELSE PowerLoss]_vars

\* As long as the machine stays up, an inspection that verified a manifest
\* finds its artifact, whatever writers were killed or failed meanwhile.
ReplayResolves == losses = 0 => \A r \in Readers : verdict[r] # "dangling"

\* A visible mkstemp file belongs to a call under way, or to one that was
\* killed or could not unlink it.  A loss of power may bring an unlinked file
\* back, since the unlink is not synced either.
NoSilentDebris ==
    losses = 0 =>
        \A t \in Temps \cap visible :
            t \in debris \/ \E w \in Writers : pc[w] # "idle" /\ temp[w] = t

Ledger == INSTANCE ObservationLedger WITH
            Contents <- Artifacts,
            ContentOf <- ArtifactOf,
            stored <- {o \in Objects \cap visible : data[o] = "whole"}

\* While the machine stays up the store keeps the same ledger as CaptureStore;
\* without directory syncs a loss of power may take even acknowledged runs.
LedgerSpec ==
    /\ Ledger!Init
    /\ [][losses' = 0 => [Ledger!Next]_(Ledger!ledgerVars)]_vars
=============================================================================

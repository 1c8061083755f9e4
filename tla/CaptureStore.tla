---------------------------- MODULE CaptureStore ----------------------------
(***************************************************************************)
(* data/store.py: CaptureStore.write publishes the bytes of a provider     *)
(* response and then the manifest of one observation of it;                *)
(* CaptureStore.load_verified reads them back.  Any number of processes    *)
(* call both on one directory tree, may be killed between two system       *)
(* calls, see any system call fail, and lose power.                        *)
(*                                                                         *)
(* An observation is identified with its manifest object: same content,    *)
(* request, captured_at and stored_at give the same manifest bytes and     *)
(* path.  ContentOf is the content object it names.  Hashes are            *)
(* collision-free: an object's path determines its "whole" bytes.          *)
(***************************************************************************)
EXTENDS DurableFS, Naturals, FiniteSets

CONSTANTS
    Writers, Readers,
    Contents, Manifests, ContentOf,
    Admissible,    \* observations that pass the validation before publication
    Foreign,       \* canonical paths that hold somebody else's bytes
    RootPreexists, \* the root directory was on disk before the first write
    MaxCalls, MaxFaults, MaxCrashes,    \* bounds of a model, Infinity has none
    None

ASSUME StoreAssumption ==
    /\ Objects = Contents \cup Manifests
    /\ Contents \cap Manifests = {}
    /\ ContentOf \in [Manifests -> Contents]
    /\ Foreign \subseteq Objects
    /\ RootPreexists \in BOOLEAN
    /\ None \notin Manifests \cup Temps
    /\ MaxCalls \in Nat /\ MaxFaults \in Nat /\ MaxCrashes \in Nat

VARIABLES
    pc,      \* where each writer is inside write()
    obs,     \* the observation it is storing
    stage,   \* the object _write_immutable is publishing for it
    temp,    \* temporary_path
    cursor,  \* the directory _fsync_directory_chain syncs next
    failed,  \* primary_error is set
    acked,   \* observations for which some write() returned
    debris,  \* mkstemp files of calls that were killed or raised in cleanup
    replay,  \* the manifest each reader has verified and not yet resolved
    verdict, \* how each reader's last load_verified ended
    calls, faults, crashes

callVars == <<pc, obs, stage, temp, cursor, failed>>
readVars == <<replay, verdict>>
budget   == <<calls, faults, crashes>>
vars == <<fsVars, callVars, acked, debris, readVars, budget>>

Steps == {"idle", "setup", "stage", "link", "compare", "sync", "unlink",
          "resync"}

TypeOK ==
    /\ FSTypeOK
    /\ pc \in [Writers -> Steps]
    /\ obs \in [Writers -> Manifests \cup {None}]
    /\ stage \in [Writers -> {"content", "manifest"}]
    /\ temp \in [Writers -> Temps \cup {None}]
    /\ cursor \in [Writers -> Dirs]
    /\ failed \in [Writers -> BOOLEAN]
    /\ acked \subseteq Manifests
    /\ debris \subseteq Temps
    /\ replay \in [Readers -> Manifests \cup {None}]
    /\ verdict \in [Readers -> {"none", "verified", "refused", "dangling"}]
    /\ calls \in Nat /\ faults \in Nat /\ crashes \in Nat

Init ==
    /\ LET old == UNION {Path(o) : o \in Foreign} IN
         FSInit(IF RootPreexists THEN {Root} \cup old ELSE old, Foreign)
    /\ pc = [w \in Writers |-> "idle"]
    /\ obs = [w \in Writers |-> None]
    /\ stage = [w \in Writers |-> "content"]
    /\ temp = [w \in Writers |-> None]
    /\ cursor = [w \in Writers |-> Root]
    /\ failed = [w \in Writers |-> FALSE]
    /\ acked = {}
    /\ debris = {}
    /\ replay = [r \in Readers |-> None]
    /\ verdict = [r \in Readers |-> "none"]
    /\ calls = 0 /\ faults = 0 /\ crashes = 0

-----------------------------------------------------------------------------
(* Local steps of a call *)

\* Mutant: the manifest is published before the content.
ManifestFirst(w) ==
    IF stage[w] = "content" THEN obs[w] ELSE ContentOf[obs[w]]

\* The canonical path that _write_immutable is publishing for w.
Target(w) == IF stage[w] = "content" THEN ContentOf[obs[w]] ELSE obs[w]

Goto(w, step) == pc' = [pc EXCEPT ![w] = step]

\* write() leaves w, by return or by exception.
Leave(w) ==
    /\ Goto(w, "idle")
    /\ obs' = [obs EXCEPT ![w] = None]
    /\ stage' = [stage EXCEPT ![w] = "content"]
    /\ temp' = [temp EXCEPT ![w] = None]
    /\ cursor' = [cursor EXCEPT ![w] = Root]
    /\ failed' = [failed EXCEPT ![w] = FALSE]

\* Some system call raises OSError.
Fault ==
    /\ faults < MaxFaults
    /\ faults' = faults + 1
    /\ UNCHANGED <<calls, crashes>>

\* primary_error is recorded and the cleanup block runs.
RecordError(w) ==
    /\ Goto(w, "unlink")
    /\ failed' = [failed EXCEPT ![w] = TRUE]
    /\ UNCHANGED <<obs, stage, temp, cursor, acked, debris, readVars>>

\* The cleanup block raises: the call ends and its mkstemp file may remain.
LeaveDebris(w) ==
    /\ Leave(w)
    /\ debris' = debris \cup {temp[w]}
    /\ UNCHANGED <<acked, readVars>>

-----------------------------------------------------------------------------
(* CaptureStore.write *)

\* Mutant: the observation is validated after the content is published.
BeginUnchecked(w, m) ==
    /\ pc[w] = "idle"
    /\ calls < MaxCalls
    /\ Goto(w, "setup")
    /\ obs' = [obs EXCEPT ![w] = m]
    /\ calls' = calls + 1
    /\ UNCHANGED <<fsVars, stage, temp, cursor, failed, acked, debris,
                   readVars, faults, crashes>>

\* Mutant: content that is already there is not published, nor synced, again.
BeginSkipping(w, m) ==
    /\ pc[w] = "idle"
    /\ calls < MaxCalls
    /\ m \in Admissible
    /\ Goto(w, "setup")
    /\ obs' = [obs EXCEPT ![w] = m]
    /\ stage' = [stage EXCEPT ![w] =
                   IF ContentOf[m] \in visible THEN "manifest" ELSE "content"]
    /\ calls' = calls + 1
    /\ UNCHANGED <<fsVars, temp, cursor, failed, acked, debris, readVars,
                   faults, crashes>>

\* Everything up to the comment "All validation ... succeed": the observation
\* is accepted, and only then does the call touch the file system.
BeginWrite(w, m) ==
    /\ pc[w] = "idle"
    /\ calls < MaxCalls
    /\ m \in Admissible
    /\ Goto(w, "setup")
    /\ obs' = [obs EXCEPT ![w] = m]
    /\ calls' = calls + 1
    /\ UNCHANGED <<fsVars, stage, temp, cursor, failed, acked, debris,
                   readVars, faults, crashes>>

RejectWrite(w, m) ==
    /\ pc[w] = "idle"
    /\ calls < MaxCalls
    /\ m \notin Admissible
    /\ calls' = calls + 1
    /\ UNCHANGED <<fsVars, callVars, acked, debris, readVars, faults, crashes>>

\* One directory made by path.parent.mkdir(parents=True, exist_ok=True).
SetupDirectory(w) ==
    /\ pc[w] = "setup"
    /\ \E d \in Up[Parent[Target(w)]] : MakeDirectory(d)
    /\ UNCHANGED <<callVars, acked, debris, readVars, budget>>

SetupTemp(w) ==
    /\ pc[w] = "setup"
    /\ \E t \in Temps :
         /\ Parent[t] = Parent[Target(w)]
         /\ CreateFile(t)
         /\ temp' = [temp EXCEPT ![w] = t]
         /\ debris' = debris \ {t}
    /\ Goto(w, "stage")
    /\ UNCHANGED <<obs, stage, cursor, failed, acked, readVars, budget>>

\* Mutant: a setup error goes through a cleanup that has no file to remove.
SetupFailsUnclean(w) ==
    /\ pc[w] = "setup"
    /\ Fault
    /\ LeaveDebris(w)
    /\ UNCHANGED fsVars

\* mkdir or mkstemp raises, mkstemp also when every name is taken; there is
\* nothing to clean up and the call raises at once.
SetupFails(w) ==
    /\ pc[w] = "setup"
    /\ \/ Fault
       \/ /\ {t \in Temps : Parent[t] = Parent[Target(w)]} \subseteq visible
          /\ UNCHANGED budget
    /\ Leave(w)
    /\ UNCHANGED <<fsVars, acked, debris, readVars>>

\* Mutant: the bytes are not fsynced before the link.
StageUnsynced(w) ==
    /\ pc[w] = "stage"
    /\ WriteBytes(temp[w])
    /\ Goto(w, "link")
    /\ UNCHANGED <<obs, stage, temp, cursor, failed, acked, debris, readVars,
                   budget>>

\* fdopen, write, flush and fsync of the mkstemp file.
StageBytes(w) ==
    /\ pc[w] = "stage"
    /\ WriteAndSync(temp[w])
    /\ Goto(w, "link")
    /\ UNCHANGED <<obs, stage, temp, cursor, failed, acked, debris, readVars,
                   budget>>

StageFails(w) ==
    /\ pc[w] = "stage"
    /\ Fault
    /\ RecordError(w)
    /\ UNCHANGED fsVars

\* _fsync_directory_chain starts at the directory of the object.
StartSync(w, step) ==
    /\ Goto(w, step)
    /\ cursor' = [cursor EXCEPT ![w] = Parent[Target(w)]]

\* Mutant: os.replace instead of os.link.
PublishReplacing(w) ==
    /\ pc[w] = "link"
    /\ visible' = visible \cup {Target(w)}
    /\ data' = [data EXCEPT ![Target(w)] = data[temp[w]]]
    /\ flushed' = flushed \cup {Target(w)}
    /\ StartSync(w, "sync")
    /\ UNCHANGED <<durable, obs, stage, temp, failed, acked, debris, readVars,
                   budget>>

Publish(w) ==
    /\ pc[w] = "link"
    /\ Link(temp[w], Target(w))
    /\ StartSync(w, "sync")
    /\ UNCHANGED <<obs, stage, temp, failed, acked, debris, readVars, budget>>

\* os.link raises FileExistsError.
MeetExisting(w) ==
    /\ pc[w] = "link"
    /\ Target(w) \in visible
    /\ Goto(w, "compare")
    /\ UNCHANGED <<fsVars, obs, stage, temp, cursor, failed, acked, debris,
                   readVars, budget>>

PublishFails(w) ==
    /\ pc[w] = "link"
    /\ Fault
    /\ RecordError(w)
    /\ UNCHANGED fsVars

\* Mutant: every existing object is a collision.
AdoptNothing(w) ==
    /\ pc[w] = "compare"
    /\ data[Target(w)] = "whole"
    /\ RecordError(w)
    /\ UNCHANGED <<fsVars, budget>>

\* _existing_regular_file_matches: the identical object is adopted ...
AdoptExisting(w) ==
    /\ pc[w] = "compare"
    /\ data[Target(w)] = "whole"
    /\ StartSync(w, "sync")
    /\ UNCHANGED <<fsVars, obs, stage, temp, failed, acked, debris, readVars,
                   budget>>

\* ... and any other, or one that cannot be read, is a collision.
CollisionRaised(w) ==
    /\ pc[w] = "compare"
    /\ \/ data[Target(w)] # "whole" /\ UNCHANGED budget
       \/ Fault
    /\ RecordError(w)
    /\ UNCHANGED fsVars

\* Mutant: the directories between the object's and the root are skipped.
ClimbSkipping(w) ==
    /\ cursor[w] # Root
    /\ SyncDirectory(cursor[w])
    /\ cursor' = [cursor EXCEPT ![w] = Root]
    /\ UNCHANGED <<pc, obs, stage, temp, failed, acked, debris, readVars,
                   budget>>

\* One round of the loop of _fsync_directory_chain that is not the last.
Climb(w) ==
    /\ cursor[w] # Root
    /\ SyncDirectory(cursor[w])
    /\ cursor' = [cursor EXCEPT ![w] = Parent[cursor[w]]]
    /\ UNCHANGED <<pc, obs, stage, temp, failed, acked, debris, readVars,
                   budget>>

SyncStep(w) ==
    /\ pc[w] = "sync"
    /\ Climb(w)

SyncRoot(w) ==
    /\ pc[w] = "sync"
    /\ cursor[w] = Root
    /\ SyncDirectory(Root)
    /\ Goto(w, "unlink")
    /\ UNCHANGED <<obs, stage, temp, cursor, failed, acked, debris, readVars,
                   budget>>

SyncFails(w) ==
    /\ pc[w] = "sync"
    /\ Fault
    /\ RecordError(w)
    /\ UNCHANGED fsVars

-----------------------------------------------------------------------------
(* The cleanup block of _write_immutable, on every path out of it *)

\* Mutant: after the unlink only the root is synced.
UnlinkUnsynced(w) ==
    /\ pc[w] = "unlink"
    /\ Remove(temp[w])
    /\ Goto(w, "resync")
    /\ cursor' = [cursor EXCEPT ![w] = Root]
    /\ UNCHANGED <<obs, stage, temp, failed, acked, debris, readVars, budget>>

UnlinkTemp(w) ==
    /\ pc[w] = "unlink"
    /\ Remove(temp[w])
    /\ StartSync(w, "resync")
    /\ UNCHANGED <<obs, stage, temp, failed, acked, debris, readVars, budget>>

ResyncStep(w) ==
    /\ pc[w] = "resync"
    /\ Climb(w)

\* The last directory is synced and there was an error: the call raises it.
RaiseError(w) ==
    /\ pc[w] = "resync"
    /\ cursor[w] = Root
    /\ failed[w]
    /\ SyncDirectory(Root)
    /\ Leave(w)
    /\ UNCHANGED <<acked, debris, readVars, budget>>

\* The content is published: write() goes on to the manifest.
ContentDone(w) ==
    /\ pc[w] = "resync"
    /\ cursor[w] = Root
    /\ ~failed[w]
    /\ stage[w] = "content"
    /\ SyncDirectory(Root)
    /\ Goto(w, "setup")
    /\ stage' = [stage EXCEPT ![w] = "manifest"]
    /\ temp' = [temp EXCEPT ![w] = None]
    /\ UNCHANGED <<obs, cursor, failed, acked, debris, readVars, budget>>

\* The manifest is published: write() returns the StoredCapture.
ReturnStored(w) ==
    /\ pc[w] = "resync"
    /\ cursor[w] = Root
    /\ ~failed[w]
    /\ stage[w] = "manifest"
    /\ SyncDirectory(Root)
    /\ acked' = acked \cup {obs[w]}
    /\ Leave(w)
    /\ UNCHANGED <<debris, readVars, budget>>

\* unlink or a directory sync after it raises: cleanup_error.
CleanupFails(w) ==
    /\ pc[w] \in {"unlink", "resync"}
    /\ Fault
    /\ LeaveDebris(w)
    /\ UNCHANGED fsVars

-----------------------------------------------------------------------------
(* CaptureStore.load_verified *)

Refuse(r) ==
    /\ replay' = [replay EXCEPT ![r] = None]
    /\ verdict' = [verdict EXCEPT ![r] = "refused"]

ReadManifest(r, m) ==
    /\ replay[r] = None
    /\ m \in visible
    /\ data[m] = "whole"
    /\ replay' = [replay EXCEPT ![r] = m]
    /\ verdict' = [verdict EXCEPT ![r] = "none"]
    /\ UNCHANGED <<fsVars, callVars, acked, debris, budget>>

\* The manifest is absent, or its bytes do not have the hash its path names.
RefuseManifest(r, m) ==
    /\ replay[r] = None
    /\ m \notin visible \/ data[m] # "whole"
    /\ Refuse(r)
    /\ UNCHANGED <<fsVars, callVars, acked, debris, budget>>

ReadContent(r) ==
    /\ replay[r] # None
    /\ replay' = [replay EXCEPT ![r] = None]
    /\ LET c == ContentOf[replay[r]] IN
         verdict' = [verdict EXCEPT ![r] =
            IF c \in visible /\ data[c] = "whole" THEN "verified" ELSE "dangling"]
    /\ UNCHANGED <<fsVars, callVars, acked, debris, budget>>

\* An open or a read, of either file, raises, and load_verified with it.
ReadFails(r) ==
    /\ Fault
    /\ Refuse(r)
    /\ UNCHANGED <<fsVars, callVars, acked, debris>>

-----------------------------------------------------------------------------
(* Crashes *)

Crash ==
    /\ crashes < MaxCrashes
    /\ crashes' = crashes + 1
    /\ UNCHANGED <<calls, faults>>

Kill(w) ==
    /\ pc[w] # "idle"
    /\ Crash
    /\ Leave(w)
    /\ debris' = debris \cup ({temp[w]} \cap Temps)
    /\ UNCHANGED <<fsVars, acked, readVars>>

PowerLoss ==
    /\ Crash
    /\ LosePower
    /\ pc' = [w \in Writers |-> "idle"]
    /\ obs' = [w \in Writers |-> None]
    /\ stage' = [w \in Writers |-> "content"]
    /\ temp' = [w \in Writers |-> None]
    /\ cursor' = [w \in Writers |-> Root]
    /\ failed' = [w \in Writers |-> FALSE]
    /\ debris' = debris \cup ({temp[w] : w \in Writers} \cap Temps)
    /\ replay' = [r \in Readers |-> None]
    /\ verdict' = [r \in Readers |-> "none"]
    /\ UNCHANGED acked

Flush(n) ==
    /\ Writeback(n)
    /\ UNCHANGED <<callVars, acked, debris, readVars, budget>>

-----------------------------------------------------------------------------

\* The steps that the interpreter takes by itself once write() is called.
Advance(w) ==
    \/ SetupDirectory(w) \/ SetupTemp(w) \/ SetupFails(w)
    \/ StageBytes(w) \/ StageFails(w)
    \/ Publish(w) \/ MeetExisting(w) \/ PublishFails(w)
    \/ AdoptExisting(w) \/ CollisionRaised(w)
    \/ SyncStep(w) \/ SyncRoot(w) \/ SyncFails(w)
    \/ UnlinkTemp(w) \/ ResyncStep(w) \/ RaiseError(w) \/ ContentDone(w)
    \/ ReturnStored(w) \/ CleanupFails(w)

Next ==
    \/ \E w \in Writers, m \in Manifests : BeginWrite(w, m) \/ RejectWrite(w, m)
    \/ \E w \in Writers : Advance(w)
    \/ \E r \in Readers, m \in Manifests :
         ReadManifest(r, m) \/ RefuseManifest(r, m)
    \/ \E r \in Readers : ReadContent(r) \/ ReadFails(r)
    \/ \E w \in Writers : Kill(w)
    \/ PowerLoss
    \/ \E n \in Nodes : Flush(n)

Spec == Init /\ [][Next]_vars

\* A thread inside write() is scheduled until it returns or is killed.
FairSpec == Spec /\ \A w \in Writers : WF_vars(Advance(w))

-----------------------------------------------------------------------------
(* Properties *)

\* An observation for which write() returned is on disk, with its content and
\* every directory above them, whatever power losses, kills and failing system
\* calls came before or come later.
AckedIsDurable == \A m \in acked : Intact(m) /\ Intact(ContentOf[m])

\* Content comes before manifest on the disk and not only in the program: a
\* manifest of the store that any process sees, or that the disk holds, names
\* content that is wholly on disk.
NeverDangling ==
    \A m \in Manifests \ Foreign :
        m \in visible \cup durable => Intact(ContentOf[m])

\* A canonical path holds the complete bytes its hash names, or the foreign
\* bytes it always held: no reader meets half an object, in any interleaving
\* and after any crash.
NeverTorn ==
    \A o \in Objects \cap visible :
        data[o] = IF o \in Foreign THEN "foreign" ELSE "whole"

\* No step replaces the bytes of a canonical object, and only a loss of power
\* makes one disappear.
NeverOverwritten ==
    [][\A o \in Objects \cap visible :
         IF o \in visible' THEN data'[o] = data[o] ELSE PowerLoss]_vars

\* A load_verified that has verified a manifest finds the content it names,
\* even when the manifest was read while its writer was still running.
ReplayResolves == \A r \in Readers : verdict[r] # "dangling"

\* A mkstemp file outlives the call that made it, in the tree or on the disk,
\* only if that call was killed or raised in its cleanup block: a call that
\* returned, or raised a publication error, left nothing.
NoSilentDebris ==
    \A t \in Temps \cap (visible \cup durable) :
        t \in debris \/ \E w \in Writers : pc[w] # "idle" /\ temp[w] = t

\* A call that starts once nothing fails any more, on paths that nobody else
\* holds, is acknowledged: whatever earlier calls left, unsynced objects and
\* mkstemp files included, does not stand in the way of a retry.
RetrySucceeds ==
    \A w \in Writers, m \in Admissible :
        (/\ pc[w] = "setup" /\ obs[w] = m /\ stage[w] = "content"
         /\ faults = MaxFaults /\ crashes = MaxCrashes
         /\ {m, ContentOf[m]} \cap Foreign = {})
        ~> m \in acked

\* The store as its callers see it.
Ledger == INSTANCE ObservationLedger WITH
            stored <- {o \in Objects \cap visible : data[o] = "whole"}

LedgerSpec == Ledger!Spec
=============================================================================

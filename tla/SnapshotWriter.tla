--------------------------- MODULE SnapshotWriter ---------------------------
(***************************************************************************)
(* data/snapshots.py: RawSnapshotWriter.write_akshare_daily, the older of  *)
(* the two raw stores.  It opens the canonical path itself in mode "xb",   *)
(* fills it in place, and compares bytes when the path is taken; there is  *)
(* no staging file and no cleanup, so a file that is being filled, or      *)
(* whose writer died, is seen half written by everybody else.              *)
(*                                                                         *)
(* An observation is [content, at, mode]: the canonical response, its      *)
(* captured_at and its adjustment_mode.  The content path is named by the  *)
(* content alone, the manifest path by content and captured_at.  A call    *)
(* refused before the first mkdir (naive captured_at, records that are not *)
(* finite or have keys that are not strings) changes nothing.              *)
(***************************************************************************)
EXTENDS Naturals

CONSTANTS
    Writers, Contents, Instants, Modes,
    MaxCalls, MaxFaults, MaxKills,    \* bounds of a model
    Absent, Partial, None

Observations == [content : Contents, at : Instants, mode : Modes]
ContentPath(o) == [content |-> o.content]
ManifestPath(o) == [content |-> o.content, at |-> o.at]
Paths == {ContentPath(o) : o \in Observations}
            \cup {ManifestPath(o) : o \in Observations}

\* No bytes stand for no file or for half a file; what the proofs need of the
\* constants.
SnapshotAssumption ==
    /\ Absent # Partial
    /\ {Absent, Partial} \cap (Contents \cup Observations) = {}
    /\ None \notin Observations
    /\ MaxCalls \in Nat /\ MaxFaults \in Nat /\ MaxKills \in Nat

VARIABLES
    file,     \* the bytes found at each path
    pc,       \* where each writer is inside write_akshare_daily
    obs,      \* the observation it stores
    stage,    \* which of its two files it is writing
    acked,    \* observations for which a call returned
    refused,  \* observations for which the content was called a collision
    calls, faults, kills

callVars == <<pc, obs, stage>>
budget   == <<calls, faults, kills>>
vars == <<file, callVars, acked, refused, budget>>

\* What each path may hold: raw files hold contents and manifests observations.
TypeOK ==
    /\ \A o \in Observations :
         /\ file[ContentPath(o)] \in {Absent, Partial, o.content}
         /\ file[ManifestPath(o)] \in {Absent, Partial} \cup
              {p \in Observations : ManifestPath(p) = ManifestPath(o)}
    /\ DOMAIN file = Paths
    /\ pc \in [Writers -> {"idle", "open", "fill", "compare"}]
    /\ obs \in [Writers -> Observations \cup {None}]
    /\ stage \in [Writers -> {"content", "manifest"}]
    /\ acked \subseteq Observations
    /\ refused \subseteq Observations
    /\ calls \in 0..MaxCalls /\ faults \in 0..MaxFaults /\ kills \in 0..MaxKills

Init ==
    /\ file = [p \in Paths |-> Absent]
    /\ pc = [w \in Writers |-> "idle"]
    /\ obs = [w \in Writers |-> None]
    /\ stage = [w \in Writers |-> "content"]
    /\ acked = {}
    /\ refused = {}
    /\ calls = 0 /\ faults = 0 /\ kills = 0

-----------------------------------------------------------------------------

\* Mutant: the manifest is written before the content.
ManifestFirst(w) ==
    IF stage[w] = "content" THEN ManifestPath(obs[w]) ELSE ContentPath(obs[w])

Target(w) ==
    IF stage[w] = "content" THEN ContentPath(obs[w]) ELSE ManifestPath(obs[w])

\* Mutant: the raw response is dumped into both files.
RawBytes(w) == obs[w].content

Payload(w) == IF stage[w] = "content" THEN obs[w].content ELSE obs[w]

Goto(w, step) == pc' = [pc EXCEPT ![w] = step]

Leave(w) ==
    /\ Goto(w, "idle")
    /\ obs' = [obs EXCEPT ![w] = None]
    /\ stage' = [stage EXCEPT ![w] = "content"]

Fault ==
    /\ faults < MaxFaults
    /\ faults' = faults + 1
    /\ UNCHANGED <<calls, kills>>

\* The file of this stage is in place: on to the manifest, or return.
Proceed(w) ==
    IF stage[w] = "content"
    THEN /\ Goto(w, "open")
         /\ stage' = [stage EXCEPT ![w] = "manifest"]
         /\ UNCHANGED <<obs, acked>>
    ELSE /\ acked' = acked \cup {obs[w]}
         /\ Leave(w)

-----------------------------------------------------------------------------

BeginWrite(w, o) ==
    /\ pc[w] = "idle"
    /\ calls < MaxCalls
    /\ Goto(w, "open")
    /\ obs' = [obs EXCEPT ![w] = o]
    /\ calls' = calls + 1
    /\ UNCHANGED <<file, stage, acked, refused, faults, kills>>

\* Mutant: open(path, "wb").
OpenTruncating(w) ==
    /\ pc[w] = "open"
    /\ file' = [file EXCEPT ![Target(w)] = Partial]
    /\ Goto(w, "fill")
    /\ UNCHANGED <<obs, stage, acked, refused, budget>>

\* open(path, "xb") creates the file, empty.
OpenExclusive(w) ==
    /\ pc[w] = "open"
    /\ file[Target(w)] = Absent
    /\ file' = [file EXCEPT ![Target(w)] = Partial]
    /\ Goto(w, "fill")
    /\ UNCHANGED <<obs, stage, acked, refused, budget>>

\* ... or raises FileExistsError.
MeetExisting(w) ==
    /\ pc[w] = "open"
    /\ file[Target(w)] # Absent
    /\ Goto(w, "compare")
    /\ UNCHANGED <<file, obs, stage, acked, refused, budget>>

Fill(w) ==
    /\ pc[w] = "fill"
    /\ file' = [file EXCEPT ![Target(w)] = Payload(w)]
    /\ Proceed(w)
    /\ UNCHANGED <<refused, budget>>

\* Mutant: an existing path is taken for the same bytes.
AdoptAnything(w) ==
    /\ pc[w] = "compare"
    /\ Proceed(w)
    /\ UNCHANGED <<file, refused, budget>>

AdoptExisting(w) ==
    /\ pc[w] = "compare"
    /\ file[Target(w)] = Payload(w)
    /\ Proceed(w)
    /\ UNCHANGED <<file, refused, budget>>

\* ReproducibilityError: "snapshot collision" or "snapshot manifest collision".
CollisionRaised(w) ==
    /\ pc[w] = "compare"
    /\ file[Target(w)] # Payload(w)
    /\ refused' = IF stage[w] = "content" THEN refused \cup {obs[w]} ELSE refused
    /\ Leave(w)
    /\ UNCHANGED <<file, acked, budget>>

\* mkdir, open, write, close or read raises OSError; nothing is cleaned up.
CallFails(w) ==
    /\ pc[w] # "idle"
    /\ Fault
    /\ Leave(w)
    /\ UNCHANGED <<file, acked, refused>>

Kill(w) ==
    /\ pc[w] # "idle"
    /\ kills < MaxKills
    /\ kills' = kills + 1
    /\ Leave(w)
    /\ UNCHANGED <<file, acked, refused, calls, faults>>

Next == \E w \in Writers :
    \/ \E o \in Observations : BeginWrite(w, o)
    \/ OpenExclusive(w) \/ MeetExisting(w) \/ Fill(w)
    \/ AdoptExisting(w) \/ CollisionRaised(w) \/ CallFails(w) \/ Kill(w)

Spec == Init /\ [][Next]_vars

-----------------------------------------------------------------------------
(* Properties *)

\* A manifest file, even half written, stands beside the complete content it
\* describes, whichever writer put that there and however it ended.
ManifestNamesContent ==
    \A o \in Observations :
        file[ManifestPath(o)] # Absent => file[ContentPath(o)] = o.content

\* A call that returned left its own provenance on disk: two observations that
\* share a manifest path (same response, same captured_at, another
\* adjustment_mode) are never both acknowledged.
AckedReadsBack ==
    \A o \in acked : /\ file[ManifestPath(o)] = o
                     /\ file[ContentPath(o)] = o.content

\* "Without silently overwriting history": complete files are final.
WholeIsFinal ==
    [][\A p \in Paths : file[p] \notin {Absent, Partial} => file'[p] = file[p]]_vars

\* docs/adr/0005: the same content can be reused, and only other content under
\* the same hash is an error.  Nobody but the writers uses these paths, so a
\* content path never holds anything but (a part of) its own content.
IdenticalContentReused == refused = {}
=============================================================================

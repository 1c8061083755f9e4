-------------------------- MODULE ObservationLedger --------------------------
(***************************************************************************)
(* What CaptureStore promises, with nothing of how it does it: a growing   *)
(* set of immutable objects, a manifest only beside its content, and an    *)
(* acknowledgement that no crash takes back.  Rules 1 and 4 of ADR-0007    *)
(* and the durability order of ADR-0013.                                   *)
(***************************************************************************)
CONSTANTS Contents, Manifests, ContentOf, Admissible

VARIABLES
    stored,  \* objects a reader can verify
    acked    \* observations acknowledged to a caller

ledgerVars == <<stored, acked>>

Init ==
    /\ stored = {}
    /\ acked = {}

\* Content is stored for the sake of an observation that was accepted.
StoreContent(m) ==
    /\ m \in Admissible
    /\ stored' = stored \cup {ContentOf[m]}
    /\ UNCHANGED acked

StoreManifest(m) ==
    /\ m \in Admissible
    /\ ContentOf[m] \in stored
    /\ stored' = stored \cup {m}
    /\ UNCHANGED acked

Acknowledge(m) ==
    /\ m \in stored
    /\ acked' = acked \cup {m}
    /\ UNCHANGED stored

\* A crash takes objects that nobody was promised and no manifest names.
Lose ==
    /\ stored' \subseteq stored
    /\ \A m \in acked : m \in stored'
    /\ \A m \in stored' \cap Manifests : ContentOf[m] \in stored'
    /\ UNCHANGED acked

Next ==
    \/ \E m \in Manifests : StoreContent(m) \/ StoreManifest(m) \/ Acknowledge(m)
    \/ Lose

Spec == Init /\ [][Next]_ledgerVars
=============================================================================

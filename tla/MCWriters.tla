------------------------------ MODULE MCWriters ------------------------------
(* WriterWorlds for TLC: a tree with one directory for artifacts and one for *)
(* run manifests, and runs of one result; two responses at one instant, in   *)
(* two adjustment modes.                                                     *)
EXTENDS WriterWorlds, TLC

CONSTANTS root, artifacts, manifests, a1, m1, m2, m3, m4, ta1, ta2, tm1, tm2,
          w1, w2, r1, c1, c2, t1, raw, adjusted

TreeDirs == {root, artifacts, manifests}
TreeParent ==
    [n \in Nodes \ {root} |->
        CASE n \in {artifacts, manifests} -> root
          [] n \in Artifacts \cup {ta1, ta2} -> artifacts
          [] OTHER -> manifests]
SameResult == [m \in Manifests |-> a1]

\* Writers, the mkstemp names of a directory, two runs, the responses and the
\* adjustment modes are interchangeable.
Symmetric ==
    Permutations({w1, w2}) \cup Permutations({ta1, ta2})
        \cup Permutations({tm1, tm2}) \cup Permutations({m1, m2})
        \cup Permutations({c1, c2}) \cup Permutations({raw, adjusted})
=============================================================================

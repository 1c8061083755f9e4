--------------------------- MODULE MCCaptureStore ---------------------------
(***************************************************************************)
(* Instances of CaptureStore for TLC.  In the flat tree content and        *)
(* manifests have one directory each under the root; in the deep tree      *)
(* content has two levels, so that a chain of syncs has a middle.          *)
(***************************************************************************)
EXTENDS CaptureStore, TLC

CONSTANTS root, captures, shard, manifests, c1, c2, m1, m2, m3,
          tc1, tc2, tc3, tm1, tm2, tm3, w1, w2, r1

\* The parent of each entry, content and its mkstemp files in directory d.
Tree(d, nodes) ==
    [n \in nodes |->
        CASE n \in {captures, manifests} -> root
          [] n = shard -> captures
          [] n \in {c1, c2, tc1, tc2, tc3} -> d
          [] OTHER -> manifests]

FlatDirs == {root, captures, manifests}
DeepDirs == FlatDirs \cup {shard}

OneContent == m1 :> c1
SharedContent == (m1 :> c1) @@ (m2 :> c1)
TwoContents == (m1 :> c1) @@ (m2 :> c2) @@ (m3 :> c2)

FlatParent == Tree(captures, Nodes \ {root})
DeepParent == Tree(shard, Nodes \ {root})

\* Writers are interchangeable, and so are the mkstemp names of a directory,
\* and two observations of one content.
Symmetric ==
    Permutations({w1, w2}) \cup Permutations({tc1, tc2})
        \cup Permutations({tm1, tm2})
SharedSymmetric == Symmetric \cup Permutations({m1, m2})
=============================================================================

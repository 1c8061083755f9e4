-------------------------- MODULE MCSnapshotWriter --------------------------
(* Instances of SnapshotWriter for TLC: two processes, one or two responses, *)
(* fetched at one or two instants, in two adjustment modes.                  *)
EXTENDS SnapshotWriter, TLC

CONSTANTS w1, w2, c1, c2, t1, t2, raw, adjusted

Symmetric == Permutations({w1, w2}) \cup Permutations({c1, c2})
                \cup Permutations({raw, adjusted})
=============================================================================

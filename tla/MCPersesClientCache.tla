------------------------ MODULE MCPersesClientCache ------------------------
(* Small instances of PersesClientCache for TLC. *)
EXTENDS PersesClientCache, TLC

\* Two specs may share a shape: they differ in what the fingerprint leaves
\* out, such as certificate references, and only the generation tells them
\* apart.
MCShape == [s \in Specs |-> "tls"]
MCSymmetry == Permutations(Callers) \cup Permutations(Instances) \cup Permutations(Specs)
=============================================================================

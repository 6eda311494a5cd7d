--------------------------- MODULE MCArtifactStore ---------------------------
(* Small instances of ArtifactStore.                                        *)
EXTENDS ArtifactStore, TLC

Symmetry == Permutations(Procs) \cup Permutations(Binaries)

=============================================================================

------------------------- MODULE MCArchiveMigration -------------------------
(* Small instances of ArchiveMigration for TLC. *)
EXTENDS ArchiveMigration, TLC

\* Apps, objects and buckets are interchangeable.
Interchangeable == Permutations(Apps) \cup Permutations(Objects) \cup Permutations(Buckets)
=============================================================================

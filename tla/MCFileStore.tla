---------------------------- MODULE MCFileStore ----------------------------
(* Instances of FileStore for TLC. *)
EXTENDS FileStore, TLC

\* Services that may all be closed, or none, differ only in their names.
ServiceSymmetry == Permutations(Services)
=============================================================================

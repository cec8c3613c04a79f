--------------------------- MODULE MCAuditReaders ----------------------------
(* Small instances of AuditReaders for TLC. *)
EXTENDS AuditReaders, TLC

\* The page's requests are interchangeable.
Symmetry == Permutations(Polls)
=============================================================================

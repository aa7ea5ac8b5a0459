------------------------------ MODULE MCAudit ------------------------------
(* Instances of Audit for TLC.                                             *)
EXTENDS Audit

\* A session whose second receipt the witness has signed too.
FailedValidation == <<"session.start", "validation.failed", "session.end", "checkpoint">>

Symmetry == Permutations(Sessions)
=============================================================================

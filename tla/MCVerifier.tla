----------------------------- MODULE MCVerifier -----------------------------
(* Instances of Verifier for TLC.                                          *)
EXTENDS Verifier, TLC

\* An epoch that is always valid; and a rotation between two cycles, of an
\* epoch that ends at time 0 and one that begins at time 1.
Always == {[issued_at |-> 0, expires_at |-> MaxTime]}
Rotation == {[issued_at |-> 0, expires_at |-> 0], [issued_at |-> 1, expires_at |-> MaxTime]}

\* The manifest of a session that was admitted under either epoch.
AlwaysBound == [actions : Always, witnesses : Always]
RotationBound == [actions : Always, witnesses : Rotation]

Symmetry == Permutations(Assemblers)
=============================================================================

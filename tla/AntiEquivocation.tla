-------------------------- MODULE AntiEquivocation --------------------------
(***************************************************************************)
(* What an L1 witness promises to the readers of its signatures            *)
(* (src/witness/witness.py): under one guard key it commits to at most one *)
(* subject digest, it never signs before the commitment is recorded, and a *)
(* digest refused with EquivocationError is kept as evidence next to the   *)
(* digest it contradicts.  Nothing is said here of processes, locks,       *)
(* transactions or crashes: GuardKeyStore implements this module.          *)
(***************************************************************************)
CONSTANTS
    Keys,       \* guard keys: (source_url, observed_timestamp) pairs
    Digests,    \* subject digests
    NoDigest    \* the absence of a recorded digest, and so not among Digests

VARIABLES
    recorded,   \* the digest each guard key is committed to, or NoDigest
    issued,     \* the digests signed under each guard key
    evidence    \* the refused requests, with the digest they contradict

vars == <<recorded, issued, evidence>>

Evidence == [key : Keys, previous : Digests, attempted : Digests]

TypeOK ==
    /\ recorded \in [Keys -> Digests \cup {NoDigest}]
    /\ issued \in [Keys -> SUBSET Digests]
    /\ evidence \subseteq Evidence

Init ==
    /\ recorded = [k \in Keys |-> NoDigest]
    /\ issued = [k \in Keys |-> {}]
    /\ evidence = {}

\* Mutant of Record: the last digest presented under k wins.
RecordLast(k, d) ==
    /\ recorded' = [recorded EXCEPT ![k] = d]
    /\ UNCHANGED <<issued, evidence>>

\* The witness commits to the first digest presented under k.
Record(k, d) ==
    /\ recorded[k] = NoDigest
    /\ recorded' = [recorded EXCEPT ![k] = d]
    /\ UNCHANGED <<issued, evidence>>

\* The witness signs (or signs again) the digest it is committed to.
Issue(k, d) ==
    /\ recorded[k] = d
    /\ issued' = [issued EXCEPT ![k] = @ \cup {d}]
    /\ UNCHANGED <<recorded, evidence>>

\* The witness refuses any other digest, and keeps the evidence.
Refuse(k, d) ==
    /\ recorded[k] \notin {NoDigest, d}
    /\ evidence' = evidence \cup
         {[key |-> k, previous |-> recorded[k], attempted |-> d]}
    /\ UNCHANGED <<recorded, issued>>

Next ==
    \E k \in Keys, d \in Digests :
        Record(k, d) \/ Issue(k, d) \/ Refuse(k, d)

Spec == Init /\ [][Next]_vars
=============================================================================

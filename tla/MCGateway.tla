----------------------------- MODULE MCGateway -----------------------------
(***************************************************************************)
(* Instances of Gateway for TLC.                                           *)
(***************************************************************************)
EXTENDS Gateway

Snap(n, f, d, k) == [id |-> n, form |-> f, asOf |-> d, canonical |-> k]

\* Two snapshots of one date, of which one passes, and one for every way
\* in which a snapshot can fail a cycle; the last passes with a z-score of
\* Infinity, which JCS has no form for.
MCSnapshots == {
    Snap(1, "passed", "d1", TRUE),
    Snap(2, "failed", "d1", TRUE),
    Snap(3, "passed", Undated, TRUE),
    Snap(4, "failed", "d1", FALSE),
    Snap(5, "passed", Unkeyable, TRUE),
    Snap(6, "malformed", Undated, TRUE),
    Snap(7, "undecodable", Undated, TRUE),
    Snap(8, "raises", Undated, TRUE),
    Snap(9, "passed", "d1", FALSE)}

\* A snapshot that fails validation over a number that JCS has no form for.
NotCanonical == {Snap(1, "failed", "d1", FALSE)}

\* Two snapshots without a date, and so without a passing verdict.
UndatedFailures == {Snap(1, "failed", Undated, TRUE), Snap(2, "failed", Undated, TRUE)}

\* Bytes that are no text.
NotText == {Snap(1, "undecodable", Undated, TRUE)}

\* The failures that do not complete: each of the three sets is enough.
Failing == NotText \cup {[s EXCEPT !.id = 3] : s \in NotCanonical}
                   \cup {[s EXCEPT !.id = @ + 3] : s \in UndatedFailures}
=============================================================================

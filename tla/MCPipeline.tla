----------------------------- MODULE MCPipeline -----------------------------
(* Instances of Pipeline for TLC.                                          *)
EXTENDS Pipeline

Snap(n, f, d, k) == [id |-> n, form |-> f, asOf |-> d, canonical |-> k]

\* Two snapshots of one date, one of them with a verdict that JCS refuses,
\* and one for each way to end before the store.
MCSnapshots == {
    Snap(1, "passed", "d1", TRUE),
    Snap(2, "failed", "d1", FALSE),
    Snap(3, "failed", "unkeyable", TRUE),
    Snap(4, "undecodable", "undated", TRUE),
    Snap(5, "malformed", "undated", TRUE)}

MCKeys == Dated \cup {"unkeyable"}
MCDigests == [timestamp : MCKeys, bytes : Bodies, passed : BOOLEAN]
=============================================================================

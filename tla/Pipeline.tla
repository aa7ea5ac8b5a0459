------------------------------ MODULE Pipeline ------------------------------
(***************************************************************************)
(* The gateway over the store itself: the cycles of Gateway, whose calls   *)
(* of sign_subject (src/witness/gateway.py, witness.py) are the calls of   *)
(* GuardKeyStore.  A connection is opened for each call, so every cycle is *)
(* a process of the store, in whatever process it runs; it runs once, and  *)
(* one that dies is not started again.                                     *)
(*                                                                         *)
(* Gateway has the promise of AntiEquivocation in the store's place: one   *)
(* step for record_or_check and one for the signature.  Here it is seen    *)
(* what that hides: stale reads, the lock, what raises in the middle.      *)
(***************************************************************************)
EXTENDS GuardKeyStore

CONSTANTS
    Bodies, NoBody, Failures, Dates     \* see Observer and Gateway

VARIABLES
    at,         \* pc of Gateway
    chain, prevRoot, seq, signature, exception, output,
    fetching, attempts, waited, observed

Dated == Dates \cup {"unknown"}

\* The gateway, with the store as its witness.
G == INSTANCE Gateway WITH
    Callers <- Procs, NoSubject <- NoDigest, pc <- at,
    recorded <- [t \in Dated |-> guardKeys[t].digest],
    issued <- [t \in Dated |-> {d \in Digests : signed[t][d] > 0}],
    evidence <- {conflicts[i] : i \in DOMAIN conflicts}

\* Guard keys are timestamps, and a subject stands for its digest.
ASSUME PipelineAssumption ==
    /\ Bodies \subseteq G!Snapshot /\ NoBody \notin Bodies
    /\ Dates \cap {G!Undated, G!Unkeyable, G!Unknown} = {}
    /\ Malformed = {G!Unkeyable}
    /\ Keys = Dated \cup Malformed
    /\ Digests = [timestamp : Keys, bytes : Bodies, passed : BOOLEAN]

fetchVars == <<fetching, attempts, waited, observed>>
cycleVars == <<at, chain, prevRoot, seq, signature, exception, output, fetchVars>>
pipelineVars == <<vars, cycleVars>>

PipelineInit == Init /\ G!Init

-----------------------------------------------------------------------------
(* Steps of a cycle.                                                       *)

\* What a cycle does away from the store.
Start(c) == UNCHANGED vars /\ (G!Start(c) \/ G!StartUnbound(c))
Work(c) ==
    /\ UNCHANGED vars
    /\ \/ G!FetchAttempt(c) \/ G!FetchRaises(c)
       \/ G!Request(c) \/ G!Unavailable(c) \/ G!Respond(c)
       \/ G!Undecodable(c) \/ G!ValidatorException(c)
       \/ G!Verdict(c) \/ G!VerdictRefused(c) \/ G!Observation(c) \/ G!Finalize(c)

\* The cycle stays where it is, or leaves run_cycle with an exception.
Stay == UNCHANGED cycleVars
Leave(c, what) ==
    G!Raise(c, what) /\ UNCHANGED <<chain, prevRoot, seq, signature, output, fetchVars>>

\* sign_subject is called, and raises if the timestamp is not for a key.
SignSubject(c) ==
    LET s == G!Subject(observed[c])
    IN  /\ G!Judged(c)
        /\ Request(c, s.timestamp, s)
        /\ IF s.timestamp \in Malformed THEN Leave(c, "GuardKeyError") ELSE Stay

Look(c) == (Select(c) \/ Write(c)) /\ Stay

\* Mutant of Fail: the gateway has IntegrityError retried, with the same row.
FailRetried(c) ==
    \/ InsertRetried(c) /\ Stay
    \/ (Locked(c) \/ CommitLocked(c)) /\ Leave(c, "sqlite3.Error")

\* IntegrityError or OperationalError.
Fail(c) ==
    (InsertRefused(c) \/ Locked(c) \/ CommitLocked(c)) /\ Leave(c, "sqlite3.Error")

\* record_or_check returns, or raises EquivocationError.
Settle(c) ==
    /\ Commit(c)
    /\ IF row[c] \in {NoDigest, request[c].digest}
       THEN /\ G!Goto(c, "issue")
            /\ UNCHANGED <<chain, prevRoot, seq, signature, exception, output, fetchVars>>
       ELSE Leave(c, "EquivocationError")

\* Mutant of Obtain: the gateway keeps the subject of another call.
ObtainStale(c) ==
    /\ Sign(c)
    /\ \E d \in {request[p].digest : p \in Procs} : signature' = [signature EXCEPT ![c] = d]
    /\ G!Goto(c, "verdict")
    /\ UNCHANGED <<chain, prevRoot, seq, exception, output, fetchVars>>

\* sign_subject returns the signature.
Obtain(c) ==
    /\ Sign(c)
    /\ signature' = [signature EXCEPT ![c] = request[c].digest]
    /\ G!Goto(c, "verdict")
    /\ UNCHANGED <<chain, prevRoot, seq, exception, output, fetchVars>>

\* The process dies, with its call.
Die(c) == at[c] \in G!Running /\ Crash(c) /\ G!Goto(c, "crashed")
          /\ UNCHANGED <<chain, prevRoot, seq, signature, exception, output, fetchVars>>

RunCycle(c) ==
    Work(c) \/ SignSubject(c) \/ Look(c) \/ Fail(c) \/ Settle(c) \/ Obtain(c)

PipelineNext == \E c \in Procs : Start(c) \/ RunCycle(c) \/ Die(c)

PipelineSpec == PipelineInit /\ [][PipelineNext]_pipelineVars
FairPipelineSpec == PipelineSpec /\ \A c \in Procs : WF_pipelineVars(RunCycle(c))

-----------------------------------------------------------------------------
(* Properties.                                                             *)

\* The subject of a cycle is what its call is about, as long as it lasts.
SubjectOf(c) == G!Subject(observed[c])
CallsFit ==
    \A c \in Procs :
        /\ pc[c] \in {"select", "write", "commit", "sign"} =>
              /\ request[c] = [key |-> SubjectOf(c).timestamp, digest |-> SubjectOf(c)]
              /\ at[c] = IF pc[c] = "sign" THEN "issue" ELSE "validate"
        /\ at[c] = "issue" => pc[c] = "sign"
        /\ at[c] = "crashed" <=> pc[c] = "down"

\* The gateway over the store does what Gateway says it does over the
\* promise, so that all that holds of Gateway holds of the two together.
KeepsToGateway == G!Spec

\* A cycle that EquivocationError ended has left the evidence for it: the
\* subject it presented, and the one that was signed or recorded in its
\* place, for the same timestamp; and nobody ever signs the refused one.
EquivocationIsProved ==
    \A c \in Procs : exception[c] = "EquivocationError" =>
        LET s == G!Subject(observed[c])
        IN  /\ \E i \in DOMAIN conflicts :
                  conflicts[i] = [key |-> s.timestamp, previous |-> Recorded(s.timestamp),
                                  attempted |-> s]
            /\ \A d \in Procs : signature[d] # s

\* The sign_count of a timestamp counts the cycles that have its signature or
\* are about to, and at most those that died besides, whatever the others
\* raised: a row that no signature covers is the work of a crash.
Presented(c, t) == observed[c] # NoBody /\ SubjectOf(c).timestamp = t
Holders(t) == {c \in Procs : Presented(c, t) /\ (signature[c] # NoDigest \/ at[c] = "issue")}
Lost(t) == {c \in Procs : Presented(c, t) /\ at[c] = "crashed"}
SignCountIsExplained ==
    \A t \in Dated :
        /\ Cardinality(Holders(t)) <= guardKeys[t].count
        /\ guardKeys[t].count <= Cardinality(Holders(t) \cup Lost(t))

(* Liveness, under the fairness of FairPipelineSpec.                       *)

\* Every cycle ends, whatever the others do at the store.
EveryCycleEnds ==
    \A c \in Procs : at[c] = "fetch" ~> at[c] \in {"returned", "raised", "crashed"}
=============================================================================

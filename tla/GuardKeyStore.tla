---------------------------- MODULE GuardKeyStore ----------------------------
(***************************************************************************)
(* The anti-equivocation store of the L1 witness, and the witness that     *)
(* signs behind it (src/witness/witness.py: GuardKeyStore.record_or_check  *)
(* and L1Witness.sign_subject), as several processes that open one SQLite  *)
(* file.                                                                   *)
(*                                                                         *)
(* _connect opens a connection per call, so each call is                   *)
(*   SELECT   in autocommit mode: its read lock is gone when it returns;   *)
(*   INSERT or UPDATE, which opens the transaction and takes the write     *)
(*            lock of the file, waiting for it up to the busy timeout;     *)
(*   COMMIT   which makes the write durable and releases the lock, once no *)
(*            other process is reading the file;                           *)
(* and sign_subject signs after record_or_check has returned.  A process   *)
(* may stop at any point: what it had not committed is rolled back.        *)
(***************************************************************************)
EXTENDS Naturals, Sequences, FiniteSets

CONSTANTS
    Procs,          \* the processes that hold an L1Witness over the file
    Keys,           \* guard keys
    Malformed,      \* the guard keys with a '|' in one of their fields
    Digests,        \* subject digests
    NoDigest,       \* "no row for this key"
    NoProc,         \* "the write lock is free"
    MaxRequests,    \* bound: sign requests in a behaviour
    MaxCrashes      \* bound: process crashes in a behaviour

ASSUME StoreAssumption ==
    /\ Keys # {} /\ Malformed \subseteq Keys
    /\ Digests # {}
    /\ NoDigest \notin Digests
    /\ NoProc \notin Procs
    /\ MaxRequests \in Nat
    /\ MaxCrashes \in Nat

VARIABLES
    guardKeys,  \* table guard_keys, committed: key -> digest and sign_count
    conflicts,  \* table conflicts, committed, in the order of id
    writer,     \* the process that holds the write lock of the file
    pc,         \* where each process is
    request,    \* the (guard key, digest) each process was last asked to sign
    row,        \* the digest the SELECT of each process returned
    outcome,    \* how the last sign_subject of each process ended
    signed,     \* signatures handed out: key -> digest -> how many
    requests,   \* sign requests so far
    crashes     \* crashes so far

tables == <<guardKeys, conflicts>>
vars == <<guardKeys, conflicts, writer, pc, request, row, outcome, signed,
          requests, crashes>>

PCs == {"idle", "select", "write", "commit", "sign", "down"}
Outcomes == {"none", "malformed", "first", "idempotent", "equivocation",
             "integrity", "locked"}
Conflict == [key : Keys, previous : Digests, attempted : Digests]

TypeOK ==
    /\ guardKeys \in [Keys -> [digest : Digests \cup {NoDigest}, count : Nat]]
    /\ conflicts \in Seq(Conflict)
    /\ writer \in Procs \cup {NoProc}
    /\ pc \in [Procs -> PCs]
    /\ request \in [Procs -> [key : Keys, digest : Digests]]
    /\ row \in [Procs -> Digests \cup {NoDigest}]
    /\ outcome \in [Procs -> Outcomes]
    /\ signed \in [Keys -> [Digests -> Nat]]
    /\ requests \in 0..MaxRequests
    /\ crashes \in 0..MaxCrashes

\* The tables are empty; what a process was last asked for is irrelevant
\* until its first request.
Init ==
    /\ guardKeys = [k \in Keys |-> [digest |-> NoDigest, count |-> 0]]
    /\ conflicts = <<>>
    /\ writer = NoProc
    /\ pc = [p \in Procs |-> "idle"]
    /\ request = [p \in Procs |-> [key |-> CHOOSE k \in Keys : TRUE,
                                   digest |-> CHOOSE d \in Digests : TRUE]]
    /\ row = [p \in Procs |-> NoDigest]
    /\ outcome = [p \in Procs |-> "none"]
    /\ signed = [k \in Keys |-> [d \in Digests |-> 0]]
    /\ requests = 0
    /\ crashes = 0

-----------------------------------------------------------------------------
(* One call of sign_subject.                                               *)

Recorded(k) == guardKeys[k].digest

\* The call of p ends with outcome o, and its connection is closed.
End(p, o) ==
    /\ pc' = [pc EXCEPT ![p] = "idle"]
    /\ outcome' = [outcome EXCEPT ![p] = o]

\* sign_subject digests the subject and calls record_or_check, whose
\* to_canonical raises ValueError for a malformed key before any connection.
Request(p, k, d) ==
    /\ pc[p] = "idle"
    /\ requests < MaxRequests
    /\ requests' = requests + 1
    /\ request' = [request EXCEPT ![p] = [key |-> k, digest |-> d]]
    /\ \/ /\ k \in Malformed
          /\ End(p, "malformed")
       \/ /\ k \notin Malformed
          /\ pc' = [pc EXCEPT ![p] = "select"]
          /\ outcome' = [outcome EXCEPT ![p] = "none"]
    /\ UNCHANGED <<tables, writer, row, signed, crashes>>

\* Mutant of Select: the second column, sign_count, is taken for the digest.
SelectWrongColumn(p) ==
    /\ pc[p] = "select"
    /\ row' = [row EXCEPT ![p] = guardKeys[request[p].key].count]
    /\ pc' = [pc EXCEPT ![p] = "write"]
    /\ UNCHANGED <<tables, writer, request, outcome, signed, requests, crashes>>

Select(p) ==
    /\ pc[p] = "select"
    /\ row' = [row EXCEPT ![p] = Recorded(request[p].key)]
    /\ pc' = [pc EXCEPT ![p] = "write"]
    /\ UNCHANGED <<tables, writer, request, outcome, signed, requests, crashes>>

\* Mutant of Write: INSERT OR REPLACE, so that PRIMARY KEY refuses nothing.
WriteOrReplace(p) ==
    /\ pc[p] = "write"
    /\ writer = NoProc
    /\ writer' = p
    /\ pc' = [pc EXCEPT ![p] = "commit"]
    /\ UNCHANGED <<tables, request, row, outcome, signed, requests, crashes>>

\* The INSERT or UPDATE of p takes the write lock.  Which of the three
\* statements it is was decided by the row p read.
Write(p) ==
    /\ pc[p] = "write"
    /\ writer = NoProc
    /\ row[p] = NoDigest => Recorded(request[p].key) = NoDigest
    /\ writer' = p
    /\ pc' = [pc EXCEPT ![p] = "commit"]
    /\ UNCHANGED <<tables, request, row, outcome, signed, requests, crashes>>

\* Mutant of InsertRefused: the call retries the INSERT instead of raising.
InsertRetried(p) ==
    /\ pc[p] = "write"
    /\ writer = NoProc
    /\ row[p] = NoDigest
    /\ Recorded(request[p].key) # NoDigest
    /\ UNCHANGED vars

\* p read no row, and the key has one by the time it inserts: PRIMARY KEY
\* refuses, and sqlite3.IntegrityError leaves sign_subject.
InsertRefused(p) ==
    /\ pc[p] = "write"
    /\ writer = NoProc
    /\ row[p] = NoDigest
    /\ Recorded(request[p].key) # NoDigest
    /\ End(p, "integrity")
    /\ UNCHANGED <<tables, writer, request, row, signed, requests, crashes>>

\* Another process kept the write lock past the busy timeout:
\* sqlite3.OperationalError leaves sign_subject.
Locked(p) ==
    /\ pc[p] \in {"select", "write"}
    /\ writer \notin {NoProc, p}
    /\ End(p, "locked")
    /\ UNCHANGED <<tables, writer, request, row, signed, requests, crashes>>

\* Mutant of CommitFirst: commit() is forgotten, and close rolls back.
CommitFirstForgotten(p) ==
    /\ row[p] = NoDigest
    /\ pc' = [pc EXCEPT ![p] = "sign"]
    /\ outcome' = [outcome EXCEPT ![p] = "first"]
    /\ UNCHANGED tables

CommitFirst(p) ==
    /\ row[p] = NoDigest
    /\ guardKeys' = [guardKeys EXCEPT ![request[p].key] =
                        [digest |-> request[p].digest, count |-> 1]]
    /\ pc' = [pc EXCEPT ![p] = "sign"]
    /\ outcome' = [outcome EXCEPT ![p] = "first"]
    /\ UNCHANGED conflicts

\* Mutant of CommitIdempotent: a re-sign leaves the row as it was.
CommitIdempotentUncounted(p) ==
    /\ row[p] = request[p].digest
    /\ pc' = [pc EXCEPT ![p] = "sign"]
    /\ outcome' = [outcome EXCEPT ![p] = "idempotent"]
    /\ UNCHANGED tables

CommitIdempotent(p) ==
    /\ row[p] = request[p].digest
    /\ guardKeys' = [guardKeys EXCEPT ![request[p].key].count = @ + 1]
    /\ pc' = [pc EXCEPT ![p] = "sign"]
    /\ outcome' = [outcome EXCEPT ![p] = "idempotent"]
    /\ UNCHANGED conflicts

\* Mutants of CommitConflict: the conflict is written, and the call returns
\* instead of raising; EquivocationError is raised before commit().
CommitConflictReturns(p) ==
    /\ row[p] \notin {NoDigest, request[p].digest}
    /\ conflicts' = Append(conflicts, [key |-> request[p].key,
                                       previous |-> row[p],
                                       attempted |-> request[p].digest])
    /\ pc' = [pc EXCEPT ![p] = "sign"]
    /\ outcome' = [outcome EXCEPT ![p] = "equivocation"]
    /\ UNCHANGED guardKeys

CommitConflictLost(p) ==
    /\ row[p] \notin {NoDigest, request[p].digest}
    /\ End(p, "equivocation")
    /\ UNCHANGED tables

CommitConflict(p) ==
    /\ row[p] \notin {NoDigest, request[p].digest}
    /\ conflicts' = Append(conflicts, [key |-> request[p].key,
                                       previous |-> row[p],
                                       attempted |-> request[p].digest])
    /\ End(p, "equivocation")
    /\ UNCHANGED guardKeys

Commit(p) ==
    /\ pc[p] = "commit"
    /\ CommitFirst(p) \/ CommitIdempotent(p) \/ CommitConflict(p)
    /\ writer' = NoProc
    /\ UNCHANGED <<request, row, signed, requests, crashes>>

\* Another process was reading past the busy timeout: it is commit() that
\* raises sqlite3.OperationalError, and close rolls the statement back.
CommitLocked(p) ==
    /\ pc[p] = "commit"
    /\ \E q \in Procs \ {p} : pc[q] = "select"
    /\ End(p, "locked")
    /\ writer' = NoProc
    /\ UNCHANGED <<tables, request, row, signed, requests, crashes>>

\* record_or_check has returned: the witness signs.
Sign(p) ==
    /\ pc[p] = "sign"
    /\ signed' = [signed EXCEPT ![request[p].key][request[p].digest] = @ + 1]
    /\ pc' = [pc EXCEPT ![p] = "idle"]
    /\ UNCHANGED <<tables, writer, request, row, outcome, requests, crashes>>

\* Mutant of Crash: the lock is a marker in the file that survives its owner.
CrashKeepsLock(p) ==
    /\ pc[p] # "down"
    /\ crashes < MaxCrashes
    /\ crashes' = crashes + 1
    /\ pc' = [pc EXCEPT ![p] = "down"]
    /\ outcome' = [outcome EXCEPT ![p] = "none"]
    /\ UNCHANGED <<tables, writer, request, row, signed, requests>>

\* The process dies: its lock dies with it, its open transaction rolls back.
Crash(p) ==
    /\ pc[p] # "down"
    /\ crashes < MaxCrashes
    /\ crashes' = crashes + 1
    /\ pc' = [pc EXCEPT ![p] = "down"]
    /\ outcome' = [outcome EXCEPT ![p] = "none"]
    /\ writer' = IF writer = p THEN NoProc ELSE writer
    /\ UNCHANGED <<tables, request, row, signed, requests>>

\* A new process opens the file; CREATE TABLE IF NOT EXISTS keeps the rows.
Restart(p) ==
    /\ pc[p] = "down"
    /\ pc' = [pc EXCEPT ![p] = "idle"]
    /\ UNCHANGED <<tables, writer, request, row, outcome, signed, requests,
                   crashes>>

\* What a call does once it has started.
Step(p) ==
    \/ Select(p) \/ Write(p) \/ InsertRefused(p) \/ Locked(p)
    \/ Commit(p) \/ CommitLocked(p) \/ Sign(p)

Next ==
    \E p \in Procs :
        \/ \E k \in Keys, d \in Digests : Request(p, k, d)
        \/ Step(p)
        \/ Crash(p)
        \/ Restart(p)

Spec == Init /\ [][Next]_vars

\* A call that has started keeps running; requests, crashes and restarts
\* are never owed.
FairSpec == Spec /\ \A p \in Procs : WF_vars(Step(p))

-----------------------------------------------------------------------------
(* Safety.                                                                 *)

\* A signature that exists is covered by a committed row of the same digest,
\* whatever crashed since: the witness records before it signs
\* (sign_subject), and never changes what it recorded.
RecordBeforeSign ==
    \A k \in Keys, d \in Digests : signed[k][d] > 0 => Recorded(k) = d

\* No guard key has signatures over two digests: what a reader of the
\* witness's signatures relies on (EquivocationError, "MUST refuse").
NoEquivocation ==
    \A k \in Keys : \A d, e \in Digests :
        signed[k][d] > 0 /\ signed[k][e] > 0 => d = e

\* sign_count never understates the signatures handed out or about to be,
\* though concurrent re-signs each read the row before they update it.
InFlight(k) == {p \in Procs : pc[p] = "sign" /\ request[p].key = k}
SignCountCovers ==
    \A k \in Keys, d \in Digests :
        Recorded(k) = d =>
            signed[k][d] + Cardinality(InFlight(k)) <= guardKeys[k].count

\* Each conflict-evidence row names the digest that is really recorded for
\* its key, and an attempted digest that really differs, though the row the
\* evidence quotes was read outside the transaction that writes it.
ConflictsFaithful ==
    \A i \in 1..Len(conflicts) :
        /\ conflicts[i].previous = Recorded(conflicts[i].key)
        /\ conflicts[i].attempted # conflicts[i].previous

\* A caller that caught EquivocationError finds its evidence in the table,
\* and nobody ever got a signature over the digest it was refused.
HasEvidence(k, d) ==
    \E i \in 1..Len(conflicts) :
        conflicts[i].key = k /\ conflicts[i].attempted = d
RefusalLeavesEvidence ==
    \A p \in Procs : outcome[p] = "equivocation" =>
        /\ HasEvidence(request[p].key, request[p].digest)
        /\ signed[request[p].key][request[p].digest] = 0

\* No step replaces or deletes a recorded digest, lowers a sign_count, or
\* rewrites a conflict row: the tables only grow, across crashes too.
TablesOnlyGrow ==
    [][/\ \A k \in Keys : Recorded(k) # NoDigest =>
              /\ guardKeys'[k].digest = Recorded(k)
              /\ guardKeys'[k].count >= guardKeys[k].count
       /\ Len(conflicts') >= Len(conflicts)
       /\ \A i \in 1..Len(conflicts) : conflicts'[i] = conflicts[i]]_vars

(* The witness as its readers see it.                                      *)
Promise == INSTANCE AntiEquivocation WITH
    recorded <- [k \in Keys |-> guardKeys[k].digest],
    issued   <- [k \in Keys |-> {d \in Digests : signed[k][d] > 0}],
    evidence <- {conflicts[i] : i \in 1..Len(conflicts)}

\* The store implements the promise of AntiEquivocation.
KeepsPromise == Promise!Spec

(* Liveness, under the fairness of FairSpec.                               *)

\* A call that has started returns, raises, or dies with its process, for
\* every interleaving with the other holders of the file.
EveryCallEnds ==
    \A p \in Procs : pc[p] = "select" ~> pc[p] \in {"idle", "down"}

\* The write lock never outlives the call that took it, crash or not.
LockIsReleased ==
    \A p \in Procs : writer = p ~> writer # p

-----------------------------------------------------------------------------
(* What witness.py says and the code does not do when two processes meet   *)
(* on a fresh key.                                                         *)

\* witness.py:116-117: "A second sign request with a different digest raises
\* EquivocationError and writes a conflict-evidence row."
DifferentDigestLeavesEvidence ==
    \A p \in Procs :
        outcome[p] = "integrity" /\ Recorded(request[p].key) # request[p].digest
            => HasEvidence(request[p].key, request[p].digest)
=============================================================================

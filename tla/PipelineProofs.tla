--------------------------- MODULE PipelineProofs ---------------------------
(***************************************************************************)
(* Theorems about Pipeline, for any set of cycles, snapshots and dates.    *)
(*                                                                         *)
(* The argument.  What ties the two halves together is the subject of a    *)
(* cycle: while its call is at the store, the call is about that subject,  *)
(* and nothing else moves the cycle (CallsFit, JudgedInv).  With this and  *)
(* the store's own StoreInv, a call's steps are steps of GuardKeyStore;    *)
(* its commits and signatures are those of the promise Gateway was written *)
(* over; and an error that leaves it is one that Gateway allows: the lock  *)
(* is another cycle's, or the row has come since the SELECT.               *)
(* SignCountInv adds the bookkeeping of the cycles behind each sign_count. *)
(***************************************************************************)
EXTENDS Pipeline, GuardKeyStoreProofs

-----------------------------------------------------------------------------
(* The inductive invariant.                                                *)

\* The snapshot of a cycle that has come to its validation is one of Bodies.
ShapeInv ==
    /\ DOMAIN at = Procs /\ DOMAIN exception = Procs /\ DOMAIN signature = Procs
    /\ DOMAIN fetching = Procs /\ DOMAIN observed = Procs
    /\ \A c \in Procs :
          /\ fetching[c] = "fetched" => observed[c] \in Bodies
          /\ at[c] \in {"validate", "issue", "verdict", "observe"} => observed[c] \in Bodies

\* What a call at the store is about has a verdict and a key.
InCall(c) == pc[c] \in {"select", "write", "commit"}
JudgedInv ==
    \A c \in Procs : InCall(c) \/ pc[c] = "sign" =>
        /\ observed[c].form \in {"passed", "failed"}
        /\ SubjectOf(c).timestamp \notin Malformed

\* A cycle that EquivocationError ended makes no other call.
ExceptionInv ==
    \A c \in Procs : exception[c] = "EquivocationError" =>
        /\ at[c] = "raised" /\ outcome[c] = "equivocation"
        /\ request[c] = [key |-> SubjectOf(c).timestamp, digest |-> SubjectOf(c)]

\* A signature that a cycle has is one the witness has given.
SignatureInv ==
    \A c \in Procs : signature[c] # NoDigest =>
        /\ signature[c] \in Digests
        /\ signed[signature[c].timestamp][signature[c]] > 0

PipelineInv ==
    StoreInv /\ CallsFit /\ ShapeInv /\ JudgedInv /\ ExceptionInv /\ SignatureInv

LEMMA KeyOfSubject ==
    ASSUME NEW snapshot \in Bodies
    PROVE  LET s == G!Subject(snapshot)
           IN  /\ s.timestamp \in Keys /\ s \in Digests
               /\ s.timestamp \in Malformed <=> snapshot.asOf = G!Unkeyable
               /\ s.timestamp \notin Malformed => s.timestamp \in Dated
<1> DEFINE s == G!Subject(snapshot)
<1>1. snapshot \in G!Snapshot /\ snapshot.asOf \in Dates \cup {G!Undated, G!Unkeyable}
  BY PipelineAssumption DEF G!Snapshot
<1>2. s.timestamp = IF snapshot.asOf = G!Undated THEN G!Unknown ELSE snapshot.asOf
  BY DEF G!Subject, G!UpstreamTimestamp
<1>3. G!Unknown \in Dated /\ Dates \subseteq Dated /\ G!Unkeyable \notin Dated /\ G!Undated # G!Unkeyable
  BY PipelineAssumption DEF Dated, G!Unknown, G!Unkeyable, G!Undated
<1>4. s.timestamp \in Keys
  BY <1>1, <1>2, <1>3, PipelineAssumption
<1>5. s \in Digests
  BY <1>4, PipelineAssumption DEF G!Subject
<1> QED BY <1>1, <1>2, <1>3, <1>4, <1>5, PipelineAssumption

PromisedRecords == [t \in Dated |-> guardKeys[t].digest]
PromisedIssues == [t \in Dated |-> {d \in Digests : signed[t][d] > 0}]
PromisedEvidence == {conflicts[i] : i \in DOMAIN conflicts}

LEMMA WitnessStutters ==
    ASSUME UNCHANGED <<tables, signed>>
    PROVE  UNCHANGED G!witnessVars
BY DEF tables, G!witnessVars

LEMMA FirstIsPromised ==
    ASSUME StoreInv, NEW c \in Procs, Commit(c), CommitFirst(c), request[c].key \in Dated
    PROVE  G!Witness!Record(request[c].key, request[c].digest)
<1> DEFINE k == request[c].key
           d == request[c].digest
<1>1. k \in Keys /\ Dated \subseteq Keys
  BY PipelineAssumption DEF StoreInv, TypeOK
<1>2. /\ Recorded(k) = NoDigest /\ guardKeys'[k].digest = d
      /\ \A j \in Keys \ {k} : guardKeys'[j] = guardKeys[j]
  BY <1>1, FirstRecords DEF StoreInv, Recorded
<1>3. UNCHANGED <<signed, conflicts>>
  BY DEF Commit, CommitFirst
<1>4. PromisedRecords[k] = NoDigest /\ PromisedRecords' = [PromisedRecords EXCEPT ![k] = d]
  BY <1>1, <1>2 DEF PromisedRecords, Recorded
<1>5. UNCHANGED <<PromisedIssues, PromisedEvidence>>
  BY <1>3 DEF PromisedIssues, PromisedEvidence
<1> QED BY <1>4, <1>5 DEF G!Witness!Record, PromisedRecords, PromisedIssues, PromisedEvidence

\* A repeated commit changes no digest.
LEMMA IdempotentIsPromised ==
    ASSUME StoreInv, NEW c \in Procs, Commit(c), CommitIdempotent(c)
    PROVE  UNCHANGED G!witnessVars
<1>1. \A t \in Dated : guardKeys'[t].digest = guardKeys[t].digest
  BY IdempotentKeeps, PipelineAssumption DEF StoreInv, Recorded
<1>2. UNCHANGED <<signed, conflicts>>
  BY DEF Commit, CommitIdempotent
<1> QED BY <1>1, <1>2 DEF G!witnessVars

LEMMA ConflictIsPromised ==
    ASSUME StoreInv, NEW c \in Procs, Commit(c), CommitConflict(c), request[c].key \in Dated
    PROVE  G!Witness!Refuse(request[c].key, request[c].digest)
<1> DEFINE k == request[c].key
           d == request[c].digest
           e == [key |-> k, previous |-> row[c], attempted |-> d]
           n == Len(conflicts)
<1>1. k \in Keys /\ d \in Digests
  BY DEF StoreInv, TypeOK
<1>2. /\ row[c] = Recorded(k) /\ Recorded(k) \notin {NoDigest, d}
      /\ UNCHANGED <<guardKeys, signed>>
  BY DEF Commit, CommitConflict, StoreInv, RowInv
<1>3. e \in Conflict /\ conflicts \in Seq(Conflict)
  BY <1>1 DEF CommitConflict, Conflict, StoreInv, TypeOK
<1>4. conflicts' = Append(conflicts, e)
  BY DEF CommitConflict
<1>5. e = [key |-> k, previous |-> PromisedRecords[k], attempted |-> d]
  BY <1>2 DEF PromisedRecords, Recorded
<1>6. PromisedRecords[k] \notin {NoDigest, d}
  BY <1>2 DEF PromisedRecords, Recorded
<1> HIDE DEF e
<1>7. PromisedEvidence' = PromisedEvidence \cup {e}
  <2>1. /\ n \in Nat /\ DOMAIN conflicts = 1 .. n /\ DOMAIN conflicts' = 1 .. n + 1
        /\ conflicts'[n + 1] = e
        /\ \A i \in 1 .. n : conflicts'[i] = conflicts[i]
    BY <1>3, <1>4, AppendProperties
  <2>2. 1 .. n + 1 = (1 .. n) \cup {n + 1}
    BY <2>1
  <2> QED BY <2>1, <2>2 DEF PromisedEvidence
<1>8. UNCHANGED <<PromisedRecords, PromisedIssues>>
  BY <1>2 DEF PromisedRecords, PromisedIssues
<1> QED BY <1>5, <1>6, <1>7, <1>8
        DEF G!Witness!Refuse, PromisedRecords, PromisedIssues, PromisedEvidence

LEMMA SignIsPromised ==
    ASSUME StoreInv, NEW c \in Procs, Sign(c), request[c].key \in Dated
    PROVE  G!Witness!Issue(request[c].key, request[c].digest)
<1> DEFINE k == request[c].key
           d == request[c].digest
<1>1. /\ k \in Keys /\ d \in Digests /\ Dated \subseteq Keys
      /\ signed \in [Keys -> [Digests -> Nat]]
      /\ UNCHANGED tables
      /\ Recorded(k) = d
  BY PipelineAssumption DEF Sign, StoreInv, TypeOK, SignInv
<1>2. signed' = [signed EXCEPT ![k] = [signed[k] EXCEPT ![d] = @ + 1]]
  BY DEF Sign
<1>3. PromisedIssues' = [PromisedIssues EXCEPT ![k] = @ \cup {d}]
  <2>1. ASSUME NEW t \in Dated
        PROVE  {g \in Digests : signed'[t][g] > 0}
                 = IF t = k THEN {g \in Digests : signed[t][g] > 0} \cup {d}
                            ELSE {g \in Digests : signed[t][g] > 0}
    <3>1. \A g \in Digests : signed[t][g] \in Nat
      BY <1>1
    <3>2. t # k => signed'[t] = signed[t]
      BY <1>1, <1>2
    <3>3. t = k => \A g \in Digests :
             signed'[t][g] = IF g = d THEN signed[t][g] + 1 ELSE signed[t][g]
      BY <1>1, <1>2
    <3> QED BY <1>1, <3>1, <3>2, <3>3
  <2> QED BY <1>1, <2>1 DEF PromisedIssues
<1>4. PromisedRecords[k] = d /\ UNCHANGED <<PromisedRecords, PromisedEvidence>>
  BY <1>1 DEF PromisedRecords, PromisedEvidence, Recorded, tables
<1> QED BY <1>3, <1>4 DEF G!Witness!Issue, PromisedRecords, PromisedIssues, PromisedEvidence

-----------------------------------------------------------------------------
(* Every step is one of the store, and one of the gateway, or a stutter.   *)

\* The snapshot and the subject of a cycle that is at the store.
LEMMA AtStore ==
    ASSUME PipelineInv, NEW c \in Procs, InCall(c) \/ pc[c] = "sign"
    PROVE  /\ observed[c] \in Bodies
           /\ request[c].key = SubjectOf(c).timestamp /\ request[c].digest = SubjectOf(c)
           /\ InCall(c) => G!Judged(c) /\ observed[c].asOf # G!Unkeyable /\ request[c].key \in Dated
           /\ pc[c] = "sign" => at[c] = "issue"
<1>1. /\ request[c] = [key |-> SubjectOf(c).timestamp, digest |-> SubjectOf(c)]
      /\ at[c] = IF pc[c] = "sign" THEN "issue" ELSE "validate"
  BY DEF PipelineInv, CallsFit, InCall
<1>2. observed[c] \in Bodies
  BY <1>1 DEF PipelineInv, ShapeInv
<1>3. InCall(c) => G!Judged(c) /\ observed[c].asOf # G!Unkeyable /\ request[c].key \in Dated
  BY <1>1, <1>2, KeyOfSubject DEF PipelineInv, JudgedInv, InCall, G!Judged, SubjectOf
<1> QED BY <1>1, <1>2, <1>3

LEMMA StoreSteps ==
    ASSUME PipelineInv, [PipelineNext]_pipelineVars
    PROVE  [Next]_vars
<1>1. ASSUME NEW c \in Procs, SignSubject(c)
      PROVE  Next
  <2>1. observed[c] \in Bodies
    BY <1>1 DEF SignSubject, G!Judged, PipelineInv, ShapeInv
  <2> QED BY <1>1, <2>1, KeyOfSubject DEF SignSubject, Next
<1>2. ASSUME NEW c \in Procs, Look(c) \/ Fail(c) \/ Settle(c) \/ Obtain(c) \/ Die(c)
      PROVE  Next
  BY <1>2 DEF Look, Fail, Settle, Obtain, Die, Next, Step
<1>3. ASSUME NEW c \in Procs, Start(c) \/ Work(c)
      PROVE  UNCHANGED vars
  BY <1>3 DEF Start, Work
<1> QED BY <1>1, <1>2, <1>3 DEF PipelineNext, RunCycle, pipelineVars

LEMMA GatewaySteps ==
    ASSUME PipelineInv, [PipelineNext]_pipelineVars
    PROVE  [G!Next]_G!vars
<1> USE DEF G!receiptVars, G!observerVars, G!Cycles, fetchVars
<1>1. ASSUME NEW c \in Procs, Start(c)
      PROVE  G!Next
  BY <1>1 DEF Start, G!Next
<1>2. ASSUME NEW c \in Procs, Work(c)
      PROVE  G!Next
  <2>1. G!RunCycle(c)
    BY <1>2 DEF Work, G!RunCycle
  <2> QED BY <2>1 DEF G!Next
<1>3. ASSUME NEW c \in Procs, SignSubject(c)
      PROVE  G!Next \/ UNCHANGED G!vars
  <2>1. observed[c] \in Bodies /\ G!Judged(c)
    BY <1>3 DEF SignSubject, G!Judged, PipelineInv, ShapeInv
  <2>2. UNCHANGED G!witnessVars
    <3>1. UNCHANGED <<tables, signed>>
      BY <1>3 DEF SignSubject, Request
    <3> QED BY <3>1, WitnessStutters
  <2>3. CASE G!Subject(observed[c]).timestamp \in Malformed
    <3>1. observed[c].asOf = G!Unkeyable
      BY <2>1, <2>3, KeyOfSubject
    <3>2. Leave(c, "GuardKeyError")
      BY <1>3, <2>3 DEF SignSubject
    <3>3. G!GuardKeyRefused(c)
      BY <2>1, <2>2, <3>1, <3>2 DEF G!GuardKeyRefused, Leave
    <3> QED BY <3>3 DEF G!Next, G!RunCycle
  <2>4. CASE G!Subject(observed[c]).timestamp \notin Malformed
    <3>1. Stay
      BY <1>3, <2>4 DEF SignSubject
    <3> QED BY <2>2, <3>1 DEF Stay, cycleVars, fetchVars, G!vars, G!cycleVars
  <2> QED BY <2>3, <2>4
<1>4. ASSUME NEW c \in Procs, Look(c)
      PROVE  UNCHANGED G!vars
  <2>1. UNCHANGED <<tables, signed>> /\ Stay
    BY <1>4 DEF Look, Select, Write
  <2> QED BY <2>1, WitnessStutters DEF Stay, cycleVars, fetchVars, G!vars, G!cycleVars
<1>5. ASSUME NEW c \in Procs, Fail(c)
      PROVE  G!Next
  <2>1. UNCHANGED <<tables, signed>> /\ Leave(c, "sqlite3.Error") /\ InCall(c)
    BY <1>5 DEF Fail, InsertRefused, Locked, CommitLocked, InCall
  <2>2. /\ G!Judged(c) /\ observed[c].asOf # G!Unkeyable
        /\ request[c].key = G!Subject(observed[c]).timestamp /\ request[c].key \in Dated
    BY <2>1, AtStore DEF SubjectOf
  <2>3. G!StoreError(c)
    <3>1. \/ \E d \in Procs \ {c} : G!Judged(d)
          \/ [t \in Dated |-> guardKeys[t].digest][G!Subject(observed[c]).timestamp] # NoDigest
      <4>1. CASE InsertRefused(c)
        BY <2>2, <4>1 DEF InsertRefused, Recorded
      <4>2. CASE Locked(c)
        <5>1. PICK d \in Procs \ {c} : writer = d
          BY <4>2 DEF Locked, PipelineInv, StoreInv, TypeOK
        <5>2. pc[d] = "commit"
          BY <5>1 DEF PipelineInv, StoreInv, LockInv
        <5>3. G!Judged(d)
          BY <5>2, AtStore DEF InCall
        <5> QED BY <5>3
      <4>3. CASE CommitLocked(c)
        <5>1. PICK d \in Procs \ {c} : pc[d] = "select"
          BY <4>3 DEF CommitLocked
        <5>2. G!Judged(d)
          BY <5>1, AtStore DEF InCall
        <5> QED BY <5>2
      <4> QED BY <1>5, <4>1, <4>2, <4>3 DEF Fail
    <3> QED BY <2>1, <2>2, <3>1, WitnessStutters DEF G!StoreError, G!Cycles, Leave
  <2> QED BY <2>3 DEF G!Next, G!RunCycle
<1>6. ASSUME NEW c \in Procs, Settle(c)
      PROVE  G!Next
  <2>1. Commit(c) /\ InCall(c)
    BY <1>6 DEF Settle, Commit, InCall
  <2>2. /\ G!Judged(c) /\ observed[c].asOf # G!Unkeyable /\ request[c].key \in Dated
        /\ request[c].key = G!Subject(observed[c]).timestamp
        /\ request[c].digest = G!Subject(observed[c])
    BY <2>1, AtStore DEF SubjectOf
  <2>3. CASE CommitFirst(c)
    <3>1. /\ G!Goto(c, "issue")
          /\ UNCHANGED <<chain, prevRoot, seq, signature, exception, output, fetchVars>>
      BY <1>6, <2>3 DEF Settle, CommitFirst
    <3>2. G!Witness!Record(G!Subject(observed[c]).timestamp, G!Subject(observed[c]))
      BY <2>1, <2>2, <2>3, FirstIsPromised DEF PipelineInv, G!Witness!Record
    <3>3. G!Commit(c)
      BY <2>2, <3>1, <3>2 DEF G!Commit
    <3> QED BY <3>3 DEF G!Next, G!RunCycle
  <2>4. CASE CommitIdempotent(c)
    <3>1. /\ G!Goto(c, "issue")
          /\ UNCHANGED <<chain, prevRoot, seq, signature, exception, output, fetchVars>>
      BY <1>6, <2>4 DEF Settle, CommitIdempotent
    <3>2. UNCHANGED G!witnessVars
      BY <2>1, <2>4, IdempotentIsPromised DEF PipelineInv
    <3>3. guardKeys[request[c].key].digest = request[c].digest
      <4>1. request[c].digest \in Digests
        BY DEF PipelineInv, StoreInv, TypeOK
      <4> QED BY <2>1, <2>4, <4>1, StoreAssumption
              DEF CommitIdempotent, PipelineInv, StoreInv, RowInv, Recorded, Commit
    <3>4. G!Commit(c)
      BY <2>2, <3>1, <3>2, <3>3 DEF G!Commit
    <3> QED BY <3>4 DEF G!Next, G!RunCycle
  <2>5. CASE CommitConflict(c)
    <3>1. Leave(c, "EquivocationError")
      BY <1>6, <2>5 DEF Settle, CommitConflict
    <3>2. G!Witness!Refuse(G!Subject(observed[c]).timestamp, G!Subject(observed[c]))
      BY <2>1, <2>2, <2>5, ConflictIsPromised DEF PipelineInv, G!Witness!Refuse
    <3>3. G!Equivocation(c)
      BY <2>2, <3>1, <3>2 DEF G!Equivocation, Leave
    <3> QED BY <3>3 DEF G!Next, G!RunCycle
  <2> QED BY <2>1, <2>3, <2>4, <2>5 DEF Commit
<1>7. ASSUME NEW c \in Procs, Obtain(c)
      PROVE  G!Next
  <2>1. Sign(c) /\ pc[c] = "sign"
    BY <1>7 DEF Obtain, Sign
  <2>2. /\ at[c] = "issue"
        /\ request[c].key = G!Subject(observed[c]).timestamp
        /\ request[c].digest = G!Subject(observed[c])
        /\ request[c].key \in Dated
    <3>1. at[c] = "issue" /\ observed[c] \in Bodies
          /\ request[c].key = SubjectOf(c).timestamp /\ request[c].digest = SubjectOf(c)
      BY <2>1, AtStore
    <3>2. SubjectOf(c).timestamp \notin Malformed
      BY <2>1 DEF PipelineInv, JudgedInv
    <3> QED BY <3>1, <3>2, KeyOfSubject DEF SubjectOf
  <2>3. G!Witness!Issue(G!Subject(observed[c]).timestamp, G!Subject(observed[c]))
    BY <2>1, <2>2, SignIsPromised DEF PipelineInv, G!Witness!Issue
  <2>4. G!Issue(c)
    BY <1>7, <2>2, <2>3 DEF G!Issue, Obtain
  <2> QED BY <2>4 DEF G!Next, G!RunCycle
<1>8. ASSUME NEW c \in Procs, Die(c)
      PROVE  G!Next
  <2>1. UNCHANGED <<tables, signed>>
    BY <1>8 DEF Die, Crash
  <2>2. G!Crash(c)
    BY <1>8, <2>1, WitnessStutters DEF Die, G!Crash
  <2> QED BY <2>2 DEF G!Next
<1>9. CASE UNCHANGED pipelineVars
  <2>1. UNCHANGED <<tables, signed>> /\ Stay
    BY <1>9 DEF pipelineVars, vars, tables, Stay
  <2> QED BY <2>1, WitnessStutters DEF Stay, cycleVars, fetchVars, G!vars, G!cycleVars
<1> QED BY <1>1, <1>2, <1>3, <1>4, <1>5, <1>6, <1>7, <1>8, <1>9
        DEF PipelineNext, RunCycle, G!Cycles

-----------------------------------------------------------------------------
(* PipelineInv is inductive.                                               *)

\* A cycle that is at work away from the store has no call there.
LEMMA WorkIsElsewhere ==
    ASSUME PipelineInv, NEW c \in Procs, Work(c)
    PROVE  /\ at[c] \in {"fetch", "request", "validate", "verdict", "observe", "finalize"}
           /\ at[c] = "validate" => ~ G!Judged(c)
           /\ ~ InCall(c) /\ pc[c] # "sign" /\ pc[c] # "down"
<1>1. /\ at[c] \in {"fetch", "request", "validate", "verdict", "observe", "finalize"}
      /\ at[c] = "validate" => ~ G!Judged(c)
  BY DEF Work, G!FetchAttempt, G!FetchRaises, G!Request, G!Unavailable, G!Respond,
         G!Undecodable, G!ValidatorException, G!Verdict, G!VerdictRefused, G!Observation,
         G!Finalize, G!Judged
<1> QED BY <1>1, AtStore DEF PipelineInv, CallsFit, InCall

\* What a step of work does to its cycle, and to no other.
Domains ==
    /\ DOMAIN at = Procs /\ DOMAIN exception = Procs /\ DOMAIN signature = Procs
    /\ DOMAIN fetching = Procs /\ DOMAIN observed = Procs
Kept(d) ==
    /\ at'[d] = at[d] /\ exception'[d] = exception[d] /\ signature'[d] = signature[d]
    /\ fetching'[d] = fetching[d] /\ observed'[d] = observed[d]
LEMMA WorkMoves ==
    ASSUME PipelineInv, NEW c \in Procs, Work(c)
    PROVE  /\ Domains' /\ UNCHANGED <<vars, signature>>
           /\ \A d \in Procs \ {c} : Kept(d)
           /\ at'[c] \in {"fetch", "request", "validate", "observe", "finalize",
                          "returned", "raised"}
           /\ fetching'[c] = "fetched" => observed'[c] \in Bodies
           /\ at'[c] \in {"validate", "observe"} => observed'[c] \in Bodies
           /\ exception'[c] # "EquivocationError" \/ exception'[c] = exception[c]
<1> USE DEF G!Goto, G!Raise, G!receiptVars, G!observerVars, G!cycleVars, Domains, Kept
<1>0. UNCHANGED vars /\ Domains
  BY DEF Work, PipelineInv, ShapeInv
<1>1. CASE G!FetchAttempt(c)
  <2>1. /\ UNCHANGED <<at, exception, signature>> /\ at[c] = "fetch"
        /\ G!ObserverStep(c)
    BY <1>1 DEF G!FetchAttempt
  <2>2. /\ DOMAIN fetching' = Procs /\ DOMAIN observed' = Procs
        /\ \A d \in Procs \ {c} : fetching'[d] = fetching[d] /\ observed'[d] = observed[d]
        /\ fetching'[c] = "fetched" => observed'[c] \in Bodies
    <3>1. ASSUME NEW b \in Bodies, G!AttemptOk(c, b)
          PROVE  /\ fetching' = [fetching EXCEPT ![c] = "fetched"]
                 /\ observed' = [observed EXCEPT ![c] = b]
      BY <1>0, <3>1 DEF G!AttemptOk
    <3>2. ASSUME NEW f \in Failures, G!AttemptFails(c, f)
          PROVE  /\ \E w \in {"yes", "exhausted"} : fetching' = [fetching EXCEPT ![c] = w]
                 /\ observed' = observed
      BY <1>0, <3>2 DEF G!AttemptFails
    <3> QED BY <1>0, <2>1, <3>1, <3>2 DEF G!ObserverStep
  <2> QED BY <1>0, <2>1, <2>2
<1>2. CASE G!Request(c) \/ G!Unavailable(c) \/ G!Respond(c)
  <2>1. fetching[c] = "fetched" => observed[c] \in Bodies
    BY DEF PipelineInv, ShapeInv
  <2> QED BY <1>0, <1>2, <2>1 DEF G!Request, G!Unavailable, G!Respond
<1>3. CASE G!Undecodable(c) \/ G!ValidatorException(c) \/ G!VerdictRefused(c)
  <2>1. fetching[c] = "fetched" => observed[c] \in Bodies
    BY DEF PipelineInv, ShapeInv
  <2> QED BY <1>0, <1>3, <2>1 DEF G!Undecodable, G!ValidatorException, G!VerdictRefused
<1>4. CASE G!Verdict(c) \/ G!Observation(c) \/ G!Finalize(c)
  <2>1. /\ fetching[c] = "fetched" => observed[c] \in Bodies
        /\ at[c] = "verdict" => observed[c] \in Bodies
    BY DEF PipelineInv, ShapeInv
  <2> QED BY <1>0, <1>4, <2>1 DEF G!Verdict, G!Observation, G!Finalize
<1>5. CASE G!FetchRaises(c)
  BY <1>0, <1>5 DEF G!FetchRaises, G!AttemptRaises
<1> QED BY <1>1, <1>2, <1>3, <1>4, <1>5 DEF Work

\* The invariant, cycle by cycle.
Fits(c) ==
    /\ InCall(c) \/ pc[c] = "sign" =>
          /\ request[c] = [key |-> SubjectOf(c).timestamp, digest |-> SubjectOf(c)]
          /\ at[c] = IF pc[c] = "sign" THEN "issue" ELSE "validate"
          /\ observed[c].form \in {"passed", "failed"}
          /\ SubjectOf(c).timestamp \notin Malformed
    /\ at[c] = "issue" => pc[c] = "sign"
    /\ at[c] = "crashed" <=> pc[c] = "down"
    /\ fetching[c] = "fetched" => observed[c] \in Bodies
    /\ at[c] \in {"validate", "issue", "verdict", "observe"} => observed[c] \in Bodies
    /\ exception[c] = "EquivocationError" =>
          /\ at[c] = "raised" /\ outcome[c] = "equivocation"
          /\ request[c] = [key |-> SubjectOf(c).timestamp, digest |-> SubjectOf(c)]
    /\ signature[c] # NoDigest =>
          /\ signature[c] \in Digests
          /\ signed[signature[c].timestamp][signature[c]] > 0

AllFit == \A c \in Procs : Fits(c)

LEMMA CycleByCycle == PipelineInv <=> StoreInv /\ Domains /\ AllFit
<1> USE DEF AllFit
<1>1. ASSUME PipelineInv PROVE Domains /\ AllFit
  BY <1>1 DEF PipelineInv, CallsFit, ShapeInv, JudgedInv, ExceptionInv, SignatureInv,
              Domains, Fits, InCall
<1>2. ASSUME StoreInv, Domains, AllFit PROVE PipelineInv
  BY <1>2 DEF PipelineInv, CallsFit, ShapeInv, JudgedInv, ExceptionInv, SignatureInv,
              Domains, Fits, InCall
<1> QED BY <1>1, <1>2 DEF PipelineInv

\* A signature that was given stays given.
LEMMA SignedStays ==
    ASSUME StoreInv, [Next]_vars, NEW d \in Digests, NEW k, signed[k][d] > 0, k \in Keys
    PROVE  signed'[k][d] > 0
<1>1. signed \in [Keys -> [Digests -> Nat]] /\ request \in [Procs -> [key : Keys, digest : Digests]]
  BY DEF StoreInv, TypeOK
<1>2. ASSUME NEW p \in Procs, Sign(p)
      PROVE  signed'[k][d] > 0
  BY <1>1, <1>2 DEF Sign
<1>3. CASE UNCHANGED signed
  BY <1>3
<1> QED BY <1>2, <1>3
        DEF Next, vars, Step, Request, Select, Write, InsertRefused, Locked, Commit,
            CommitLocked, Crash, Restart

\* A step of one cycle leaves the others as they fit.
LEMMA OthersFit ==
    ASSUME PipelineInv, [Next]_vars, NEW d \in Procs, Kept(d),
           pc'[d] = pc[d], request'[d] = request[d], outcome'[d] = outcome[d]
    PROVE  Fits(d)'
<1>1. Fits(d) /\ StoreInv
  BY CycleByCycle DEF AllFit
<1>2. SubjectOf(d)' = SubjectOf(d)
  BY DEF Kept, SubjectOf
<1>3. signature[d] # NoDigest => signed'[signature[d].timestamp][signature[d]] > 0
  <2>1. ASSUME signature[d] # NoDigest
        PROVE  /\ signature[d] \in Digests /\ signature[d].timestamp \in Keys
               /\ signed[signature[d].timestamp][signature[d]] > 0
    BY <1>1, <2>1, PipelineAssumption DEF Fits
  <2> QED BY <1>1, <2>1, SignedStays
<1> QED BY <1>1, <1>2, <1>3 DEF Fits, Kept, InCall

\* What the other cycles keep whatever c does.
Untouched(c) ==
    /\ Domains'
    /\ \A d \in Procs \ {c} : /\ Kept(d) /\ pc'[d] = pc[d]
                             /\ request'[d] = request[d] /\ outcome'[d] = outcome[d]

LEMMA StartFits ==
    ASSUME PipelineInv, NEW c \in Procs, Start(c)
    PROVE  Untouched(c) /\ Fits(c)'
<1>1. Domains /\ Fits(c) /\ at[c] = "idle" /\ UNCHANGED vars
  BY CycleByCycle DEF AllFit, Start, G!Start, G!StartUnbound
<1>2. /\ Domains' /\ UNCHANGED <<signature, observed>>
      /\ \A d \in Procs \ {c} : Kept(d)
      /\ at'[c] \in {"fetch", "raised"}
      /\ fetching'[c] = fetching[c] \/ fetching'[c] = "yes"
      /\ exception'[c] = exception[c] \/ exception'[c] = "ValueError"
  BY <1>1 DEF Start, G!Start, G!StartUnbound, G!Fetch, G!Goto, G!Raise, G!receiptVars,
              G!observerVars, Domains, Kept
<1>3. SubjectOf(c)' = SubjectOf(c)
  BY <1>2 DEF SubjectOf
<1> QED BY <1>1, <1>2, <1>3 DEF Fits, Untouched, InCall, vars

LEMMA WorkFits ==
    ASSUME PipelineInv, NEW c \in Procs, Work(c)
    PROVE  Untouched(c) /\ Fits(c)'
<1>1. /\ Domains' /\ UNCHANGED <<vars, signature>>
      /\ \A d \in Procs \ {c} : Kept(d)
      /\ at'[c] \in {"fetch", "request", "validate", "observe", "finalize",
                     "returned", "raised"}
      /\ fetching'[c] = "fetched" => observed'[c] \in Bodies
      /\ at'[c] \in {"validate", "observe"} => observed'[c] \in Bodies
      /\ exception'[c] # "EquivocationError" \/ exception'[c] = exception[c]
  BY WorkMoves
<1>2. Fits(c) /\ ~ InCall(c) /\ pc[c] # "sign" /\ pc[c] # "down" /\ at[c] # "raised"
  BY WorkIsElsewhere, CycleByCycle DEF AllFit
<1> QED BY <1>1, <1>2 DEF Fits, Untouched, InCall, vars

\* sign_subject is called for a snapshot that has a verdict, and goes on with
\* one that has a key.
LEMMA SignSubjectFits ==
    ASSUME PipelineInv, NEW c \in Procs, SignSubject(c)
    PROVE  Untouched(c) /\ Fits(c)'
<1> DEFINE s == G!Subject(observed[c])
<1>1. /\ Domains /\ Fits(c) /\ StoreInv
      /\ at[c] = "validate" /\ observed[c].form \in {"passed", "failed"}
      /\ Request(c, s.timestamp, s)
      /\ IF s.timestamp \in Malformed THEN Leave(c, "GuardKeyError") ELSE Stay
  BY CycleByCycle DEF AllFit, SignSubject, G!Judged
<1>2. /\ pc' = [pc EXCEPT ![c] = IF s.timestamp \in Malformed THEN "idle" ELSE "select"]
      /\ request' = [request EXCEPT ![c] = [key |-> s.timestamp, digest |-> s]]
      /\ \E o \in Outcomes : outcome' = [outcome EXCEPT ![c] = o]
      /\ UNCHANGED signed
  BY <1>1 DEF Request, End, Outcomes
<1>3. /\ DOMAIN pc = Procs /\ DOMAIN request = Procs /\ DOMAIN outcome = Procs
  BY <1>1 DEF StoreInv, TypeOK
<1>4. CASE s.timestamp \in Malformed
  <2>1. /\ at' = [at EXCEPT ![c] = "raised"]
        /\ exception' = [exception EXCEPT ![c] = "GuardKeyError"]
        /\ UNCHANGED <<signature, fetching, observed>>
    BY <1>1, <1>4 DEF Leave, G!Raise, G!Goto, fetchVars
  <2>2. SubjectOf(c)' = SubjectOf(c)
    BY <2>1 DEF SubjectOf
  <2> QED BY <1>1, <1>2, <1>3, <1>4, <2>1, <2>2 DEF Fits, Untouched, InCall, Domains, Kept
<1>5. CASE s.timestamp \notin Malformed
  <2>1. UNCHANGED <<at, exception, signature, fetching, observed>>
    BY <1>1, <1>5 DEF Stay, cycleVars, fetchVars
  <2>2. SubjectOf(c)' = SubjectOf(c) /\ SubjectOf(c) = s
    BY <2>1 DEF SubjectOf
  <2> QED BY <1>1, <1>2, <1>3, <1>5, <2>1, <2>2 DEF Fits, Untouched, InCall, Domains, Kept
<1> QED BY <1>4, <1>5

LEMMA LookFits ==
    ASSUME PipelineInv, NEW c \in Procs, Look(c)
    PROVE  Untouched(c) /\ Fits(c)'
<1>1. /\ Domains /\ Fits(c) /\ StoreInv /\ InCall(c)
      /\ \E w \in {"write", "commit"} : pc' = [pc EXCEPT ![c] = w]
      /\ UNCHANGED <<request, outcome, signed>>
      /\ UNCHANGED <<at, exception, signature, fetching, observed>>
  BY CycleByCycle DEF AllFit, Look, Select, Write, InCall, Stay, cycleVars, fetchVars
<1>2. DOMAIN pc = Procs
  BY <1>1 DEF StoreInv, TypeOK
<1>3. SubjectOf(c)' = SubjectOf(c)
  BY <1>1 DEF SubjectOf
<1> QED BY <1>1, <1>2, <1>3 DEF Fits, Untouched, InCall, Domains, Kept

LEMMA FailFits ==
    ASSUME PipelineInv, NEW c \in Procs, Fail(c)
    PROVE  Untouched(c) /\ Fits(c)'
<1>1. /\ Domains /\ Fits(c) /\ StoreInv /\ InCall(c)
      /\ pc' = [pc EXCEPT ![c] = "idle"]
      /\ \E o \in {"integrity", "locked"} : outcome' = [outcome EXCEPT ![c] = o]
      /\ UNCHANGED <<request, signed>>
      /\ at' = [at EXCEPT ![c] = "raised"]
      /\ exception' = [exception EXCEPT ![c] = "sqlite3.Error"]
      /\ UNCHANGED <<signature, fetching, observed>>
  BY CycleByCycle
     DEF AllFit, Fail, InsertRefused, Locked, CommitLocked, End, InCall, Leave, G!Raise,
         G!Goto, fetchVars
<1>2. DOMAIN pc = Procs /\ DOMAIN outcome = Procs
  BY <1>1 DEF StoreInv, TypeOK
<1> QED BY <1>1, <1>2 DEF Fits, Untouched, InCall, Domains, Kept

\* record_or_check returns to a cycle that is then to sign, or raises
\* EquivocationError in one that is not.
LEMMA SettleFits ==
    ASSUME PipelineInv, NEW c \in Procs, Settle(c)
    PROVE  Untouched(c) /\ Fits(c)'
<1>1. /\ Domains /\ Fits(c) /\ StoreInv /\ InCall(c) /\ Commit(c)
      /\ UNCHANGED <<request, signed, signature, fetching, observed>>
  BY CycleByCycle DEF AllFit, Settle, Commit, InCall, Leave, fetchVars
<1>2. /\ DOMAIN pc = Procs /\ DOMAIN outcome = Procs
  BY <1>1 DEF StoreInv, TypeOK
<1>3. SubjectOf(c)' = SubjectOf(c)
  BY <1>1 DEF SubjectOf
<1>4. CASE row[c] \in {NoDigest, request[c].digest}
  <2>1. /\ at' = [at EXCEPT ![c] = "issue"] /\ UNCHANGED exception
        /\ pc' = [pc EXCEPT ![c] = "sign"]
        /\ \E o \in Outcomes : outcome' = [outcome EXCEPT ![c] = o]
    BY <1>1, <1>4 DEF Settle, Commit, CommitFirst, CommitIdempotent, CommitConflict,
                      G!Goto, Outcomes
  <2> QED BY <1>1, <1>2, <1>3, <2>1 DEF Fits, Untouched, InCall, Domains, Kept
<1>5. CASE row[c] \notin {NoDigest, request[c].digest}
  <2>1. /\ at' = [at EXCEPT ![c] = "raised"]
        /\ exception' = [exception EXCEPT ![c] = "EquivocationError"]
        /\ pc' = [pc EXCEPT ![c] = "idle"]
        /\ outcome' = [outcome EXCEPT ![c] = "equivocation"]
    BY <1>1, <1>5 DEF Settle, Commit, CommitFirst, CommitIdempotent, CommitConflict,
                      Leave, G!Raise, G!Goto, End
  <2> QED BY <1>1, <1>2, <1>3, <2>1 DEF Fits, Untouched, InCall, Domains, Kept
<1> QED BY <1>4, <1>5

LEMMA ObtainFits ==
    ASSUME PipelineInv, NEW c \in Procs, Obtain(c)
    PROVE  Untouched(c) /\ Fits(c)'
<1> DEFINE d == request[c].digest
<1>1. /\ Domains /\ Fits(c) /\ StoreInv /\ pc[c] = "sign"
      /\ pc' = [pc EXCEPT ![c] = "idle"]
      /\ UNCHANGED <<request, outcome, exception, fetching, observed>>
      /\ at' = [at EXCEPT ![c] = "verdict"]
      /\ signature' = [signature EXCEPT ![c] = d]
      /\ signed' = [signed EXCEPT ![request[c].key][d] = @ + 1]
  BY CycleByCycle DEF AllFit, Obtain, Sign, G!Goto, fetchVars
<1>2. /\ DOMAIN pc = Procs /\ d \in Digests /\ request[c].key \in Keys
      /\ signed \in [Keys -> [Digests -> Nat]]
  BY <1>1 DEF StoreInv, TypeOK
<1>3. signed'[request[c].key][d] > 0
  BY <1>1, <1>2
<1>4. d.timestamp = request[c].key
  BY <1>1 DEF Fits
<1>5. Untouched(c)
  BY <1>1, <1>2 DEF Untouched, Domains, Kept
<1>6. SubjectOf(c)' = SubjectOf(c)
  BY <1>1 DEF SubjectOf
<1>7. signature'[c] = d /\ at'[c] = "verdict" /\ pc'[c] = "idle"
  BY <1>1, <1>2 DEF Domains
<1> QED BY <1>1, <1>2, <1>3, <1>4, <1>5, <1>6, <1>7 DEF Fits, InCall

LEMMA DieFits ==
    ASSUME PipelineInv, NEW c \in Procs, Die(c)
    PROVE  Untouched(c) /\ Fits(c)'
<1>1. /\ Domains /\ Fits(c) /\ StoreInv /\ at[c] # "raised"
      /\ pc' = [pc EXCEPT ![c] = "down"]
      /\ outcome' = [outcome EXCEPT ![c] = "none"]
      /\ UNCHANGED <<request, signed, signature, exception, fetching, observed>>
      /\ at' = [at EXCEPT ![c] = "crashed"]
  BY CycleByCycle DEF AllFit, Die, Crash, G!Goto, G!Running, fetchVars
<1>2. DOMAIN pc = Procs /\ DOMAIN outcome = Procs
  BY <1>1 DEF StoreInv, TypeOK
<1>3. SubjectOf(c)' = SubjectOf(c)
  BY <1>1 DEF SubjectOf
<1> QED BY <1>1, <1>2, <1>3 DEF Fits, Untouched, InCall, Domains, Kept

LEMMA PipelineStep == PipelineInv /\ [PipelineNext]_pipelineVars => PipelineInv'
<1> SUFFICES ASSUME PipelineInv, [PipelineNext]_pipelineVars PROVE PipelineInv'
  OBVIOUS
<1>1. [Next]_vars /\ StoreInv'
  BY StoreSteps, StoreStep DEF PipelineInv
<1>2. ASSUME NEW c \in Procs, Start(c) \/ RunCycle(c) \/ Die(c)
      PROVE  PipelineInv'
  <2>1. Untouched(c) /\ Fits(c)'
    BY <1>2, StartFits, WorkFits, SignSubjectFits, LookFits, FailFits, SettleFits,
       ObtainFits, DieFits DEF RunCycle
  <2>2. \A d \in Procs \ {c} : Fits(d)'
    BY <1>1, <2>1, OthersFit DEF Untouched
  <2>3. AllFit' /\ Domains'
    BY <2>1, <2>2 DEF AllFit, Untouched
  <2> QED BY <1>1, <2>3, CycleByCycle, PTL
<1>3. CASE UNCHANGED pipelineVars
  <2>1. AllFit'
    BY <1>1, <1>3, OthersFit DEF AllFit, pipelineVars, cycleVars, fetchVars, vars, Kept
  <2>2. Domains'
    BY <1>3, CycleByCycle DEF pipelineVars, cycleVars, fetchVars, Domains
  <2> QED BY <1>1, <2>1, <2>2, CycleByCycle, PTL
<1> QED BY <1>2, <1>3 DEF PipelineNext

LEMMA PipelineStart == PipelineInit => PipelineInv
<1> SUFFICES ASSUME PipelineInit PROVE PipelineInv
  OBVIOUS
<1>1. StoreInv
  BY StoreInit DEF PipelineInit
<1>2. /\ at = [c \in Procs |-> "idle"] /\ exception = [c \in Procs |-> "none"]
      /\ signature = [c \in Procs |-> NoDigest] /\ fetching = [c \in Procs |-> "no"]
      /\ observed = [c \in Procs |-> NoBody] /\ pc = [c \in Procs |-> "idle"]
  BY DEF PipelineInit, Init, G!Init, G!ObserverInit, G!Cycles
<1> QED BY <1>1, <1>2, CycleByCycle DEF AllFit, Domains, Fits, InCall

LEMMA PipelineInvariant == PipelineSpec => []PipelineInv
BY PipelineStart, PipelineStep, PTL DEF PipelineSpec

-----------------------------------------------------------------------------
(* What the invariant gives.                                               *)

\* What a cycle asks of the store is what it has observed, until the answer.
THEOREM CallsAlwaysFit == PipelineSpec => []CallsFit
<1>1. PipelineInv => CallsFit
  BY DEF PipelineInv
<1> QED BY <1>1, PipelineInvariant, PTL

\* The calls of the cycles are calls of the store: all that holds of
\* GuardKeyStore holds of the store under the gateway.
THEOREM PipelineImplementsStore == PipelineSpec => Spec
<1>1. PipelineInit => Init
  BY DEF PipelineInit
<1> QED BY <1>1, StoreSteps, PipelineInvariant, PTL DEF PipelineSpec, Spec

\* The gateway keeps to Gateway over the store, as over its promise.
THEOREM PipelineKeepsToGateway == PipelineSpec => KeepsToGateway
<1>1. PipelineInit => G!Init
  BY DEF PipelineInit
<1> QED BY <1>1, GatewaySteps, PipelineInvariant, PTL
        DEF PipelineSpec, KeepsToGateway, G!Spec

\* EquivocationError leaves its evidence, and its subject unsigned for good.
THEOREM RefusalIsProved == PipelineSpec => []EquivocationIsProved
<1>1. ASSUME PipelineInv PROVE EquivocationIsProved
  <2> SUFFICES ASSUME NEW c \in Procs, exception[c] = "EquivocationError"
               PROVE  LET s == G!Subject(observed[c])
                      IN  /\ \E i \in DOMAIN conflicts :
                                conflicts[i] = [key |-> s.timestamp,
                                                previous |-> Recorded(s.timestamp),
                                                attempted |-> s]
                          /\ \A d \in Procs : signature[d] # s
    BY DEF EquivocationIsProved
  <2> DEFINE s == G!Subject(observed[c])
             k == s.timestamp
  <2>1. request[c] = [key |-> k, digest |-> s] /\ outcome[c] = "equivocation"
    BY <1>1 DEF PipelineInv, ExceptionInv, SubjectOf
  <2>2. k \in Keys /\ s \in Digests /\ conflicts \in Seq(Conflict)
    BY <1>1, <2>1 DEF PipelineInv, StoreInv, TypeOK
  <2>3. PICK i \in 1..Len(conflicts) : conflicts[i].key = k /\ conflicts[i].attempted = s
    BY <1>1, <2>1 DEF PipelineInv, StoreInv, EvidenceInv, HasEvidence
  <2>4. conflicts[i].previous = Recorded(k) /\ Recorded(k) # s
    BY <1>1, <2>3 DEF PipelineInv, StoreInv, ConflictsFaithful
  <2>5. conflicts[i] \in Conflict /\ i \in DOMAIN conflicts
    BY <2>2, <2>3
  <2>6. conflicts[i] = [key |-> k, previous |-> Recorded(k), attempted |-> s]
    BY <2>3, <2>4, <2>5 DEF Conflict
  <2>7. ASSUME NEW d \in Procs PROVE signature[d] # s
    BY <1>1, <2>2, <2>4, StoreAssumption DEF PipelineInv, SignatureInv, StoreInv, RecordBeforeSign
  <2> QED BY <2>5, <2>6, <2>7
<1> QED BY <1>1, PipelineInvariant, PTL

-----------------------------------------------------------------------------
(* The sign_count.                                                         *)

\* A cycle has a signature only after it has asked for it, and a timestamp
\* without a row has no count.
GivenInv ==
    \A c \in Procs : signature[c] # NoDigest =>
        at[c] \in {"verdict", "observe", "finalize", "returned", "raised", "crashed"}
UncountedInv == \A t \in Dated : Recorded(t) = NoDigest => guardKeys[t].count = 0

Counted(t) ==
    /\ IsFiniteSet(Holders(t) \cup Lost(t))
    /\ Cardinality(Holders(t)) <= guardKeys[t].count
    /\ guardKeys[t].count <= Cardinality(Holders(t) \cup Lost(t))
CountedInv == \A t \in Dated : Counted(t)

SignCountInv == PipelineInv /\ GivenInv /\ UncountedInv /\ CountedInv

Holds(c, t) == Presented(c, t) /\ (signature[c] # NoDigest \/ at[c] = "issue")
Loses(c, t) == Presented(c, t) /\ at[c] = "crashed"

\* A step that changes no count takes no cycle off the books, and adds none
\* to those that hold a signature.
LEMMA CountStays ==
    ASSUME NEW t \in Dated, Counted(t), NEW c \in Procs, Untouched(c),
           guardKeys[t].count \in Nat, guardKeys'[t].count = guardKeys[t].count,
           Holds(c, t)' => Holds(c, t),
           Holds(c, t) \/ Loses(c, t) => Holds(c, t)' \/ Loses(c, t)'
    PROVE  Counted(t)'
<1> DEFINE H == Holders(t)
           A == Holders(t) \cup Lost(t)
<1>1. \A d \in Procs \ {c} : (d \in H' <=> d \in H) /\ (d \in A' <=> d \in A)
  BY DEF Untouched, Kept, Holders, Lost, Presented, SubjectOf
<1>2. H' \subseteq H /\ A \subseteq A' /\ A' \subseteq A \cup {c} /\ H \subseteq A
  BY <1>1 DEF Holds, Loses, Holders, Lost
<1>3. IsFiniteSet(A) /\ Cardinality(H) <= guardKeys[t].count /\ guardKeys[t].count <= Cardinality(A)
  BY DEF Counted
<1>4. IsFiniteSet(A \cup {c}) /\ IsFiniteSet(A') /\ IsFiniteSet(H) /\ IsFiniteSet(H')
  BY <1>2, <1>3, FS_AddElement, FS_Subset
<1>5. Cardinality(H') <= Cardinality(H) /\ Cardinality(A) <= Cardinality(A')
  BY <1>2, <1>4, FS_Subset
<1>6. /\ Cardinality(H) \in Nat /\ Cardinality(H') \in Nat
      /\ Cardinality(A) \in Nat /\ Cardinality(A') \in Nat
  BY <1>3, <1>4, FS_CardinalityType
<1>7. Cardinality(H') <= guardKeys'[t].count /\ guardKeys'[t].count <= Cardinality(A')
  <2> HIDE DEF H, A
  <2> QED BY <1>3, <1>5, <1>6
<1> QED BY <1>4, <1>7 DEF Counted

\* A step that counts one more puts one more cycle on the books.
LEMMA CountGoesUp ==
    ASSUME NEW t \in Dated, Counted(t), NEW c \in Procs, Untouched(c),
           guardKeys[t].count \in Nat, guardKeys'[t].count = guardKeys[t].count + 1,
           ~ Holds(c, t), ~ Loses(c, t), Holds(c, t)'
    PROVE  Counted(t)'
<1> DEFINE H == Holders(t)
           A == Holders(t) \cup Lost(t)
<1>1. \A d \in Procs \ {c} : (d \in H' <=> d \in H) /\ (d \in A' <=> d \in A)
  BY DEF Untouched, Kept, Holders, Lost, Presented, SubjectOf
<1>2. H' = H \cup {c} /\ A' = A \cup {c} /\ c \notin H /\ c \notin A /\ H \subseteq A
  BY <1>1 DEF Holds, Loses, Holders, Lost
<1>3. IsFiniteSet(A) /\ Cardinality(H) <= guardKeys[t].count /\ guardKeys[t].count <= Cardinality(A)
  BY DEF Counted
<1>4. IsFiniteSet(H)
  BY <1>2, <1>3, FS_Subset
<1>5. /\ Cardinality(H') = Cardinality(H) + 1
      /\ IsFiniteSet(A') /\ Cardinality(A') = Cardinality(A) + 1
  <2>1. Cardinality(H \cup {c}) = Cardinality(H) + 1
    BY <1>2, <1>4, FS_AddElement
  <2>2. IsFiniteSet(A \cup {c}) /\ Cardinality(A \cup {c}) = Cardinality(A) + 1
    BY <1>2, <1>3, FS_AddElement
  <2> QED BY <1>2, <2>1, <2>2
<1>6. Cardinality(H) \in Nat /\ Cardinality(A) \in Nat
  BY <1>3, <1>4, FS_CardinalityType
<1>7. Cardinality(H') <= guardKeys'[t].count /\ guardKeys'[t].count <= Cardinality(A')
  <2> HIDE DEF H, A
  <2> QED BY <1>3, <1>5, <1>6
<1> QED BY <1>5, <1>7 DEF Counted

LEMMA GivenStep ==
    ASSUME PipelineInv, GivenInv, [PipelineNext]_pipelineVars
    PROVE  GivenInv'
<1>1. ASSUME NEW c \in Procs, Start(c) \/ RunCycle(c) \/ Die(c)
      PROVE  GivenInv'
  <2>1. Untouched(c)
    BY <1>1, StartFits, WorkFits, SignSubjectFits, LookFits, FailFits, SettleFits,
       ObtainFits, DieFits DEF RunCycle
  <2>2. signature'[c] # NoDigest =>
          at'[c] \in {"verdict", "observe", "finalize", "returned", "raised", "crashed"}
    <3> USE DEF GivenInv, G!Goto, G!Raise, G!receiptVars, G!cycleVars, fetchVars
    <3>0. Domains /\ Fits(c)
      BY CycleByCycle DEF AllFit
    <3>1. CASE Start(c)
      BY <3>0, <3>1 DEF Start, G!Start, G!StartUnbound, Domains
    <3>2. CASE Work(c)
      BY <3>0, <3>2
         DEF Work, G!FetchAttempt, G!FetchRaises, G!Request, G!Unavailable, G!Respond,
             G!Undecodable, G!ValidatorException, G!Verdict, G!VerdictRefused, G!Observation,
             G!Finalize, Domains
    <3>3. CASE SignSubject(c)
      BY <3>0, <3>3 DEF SignSubject, Leave, Stay, cycleVars, G!Judged, Domains
    <3>4. CASE Look(c) \/ Fail(c) \/ Settle(c)
      <4>1. InCall(c) /\ at[c] = "validate"
        BY <3>0, <3>4 DEF Look, Fail, Settle, Select, Write, InsertRefused, Locked, Commit,
                          CommitLocked, InCall, Fits
      <4>2. UNCHANGED signature
        BY <3>4 DEF Look, Fail, Settle, Stay, Leave, cycleVars
      <4> QED BY <4>1, <4>2
    <3>5. CASE Obtain(c) \/ Die(c)
      BY <3>0, <3>5 DEF Obtain, Die, Domains
    <3> QED BY <1>1, <3>1, <3>2, <3>3, <3>4, <3>5 DEF RunCycle
  <2> QED BY <2>1, <2>2 DEF Untouched, Kept, GivenInv
<1>2. CASE UNCHANGED pipelineVars
  BY <1>2 DEF pipelineVars, cycleVars, GivenInv
<1> QED BY <1>1, <1>2 DEF PipelineNext

\* What a step does to the row of one timestamp.
LEMMA RowSteps ==
    ASSUME StoreInv, NEW t \in Dated, NEW p \in Procs
    PROVE  /\ guardKeys[t].count \in Nat
           /\ Commit(p) /\ (CommitFirst(p) \/ CommitIdempotent(p)) =>
                 IF request[p].key = t
                 THEN /\ guardKeys'[t].digest = request[p].digest
                      /\ guardKeys'[t].count =
                            IF Recorded(t) = NoDigest THEN 1 ELSE guardKeys[t].count + 1
                 ELSE guardKeys'[t] = guardKeys[t]
<1>1. /\ guardKeys \in [Keys -> [digest : Digests \cup {NoDigest}, count : Nat]]
      /\ t \in Keys /\ request[p].digest \in Digests
  BY PipelineAssumption DEF StoreInv, TypeOK
<1>2. ASSUME Commit(p), CommitFirst(p)
      PROVE  IF request[p].key = t
             THEN guardKeys'[t] = [digest |-> request[p].digest, count |-> 1]
                  /\ Recorded(t) = NoDigest
             ELSE guardKeys'[t] = guardKeys[t]
  BY <1>1, <1>2, FirstRecords DEF StoreInv, CommitFirst
<1>3. ASSUME Commit(p), CommitIdempotent(p)
      PROVE  IF request[p].key = t
             THEN guardKeys'[t] = [guardKeys[t] EXCEPT !.count = @ + 1]
                  /\ Recorded(t) = request[p].digest
             ELSE guardKeys'[t] = guardKeys[t]
  BY <1>1, <1>3, StoreAssumption DEF Commit, CommitIdempotent, StoreInv, RowInv
<1>4. guardKeys[t] \in [digest : Digests \cup {NoDigest}, count : Nat]
  BY <1>1
<1> QED BY <1>1, <1>2, <1>3, <1>4, StoreAssumption DEF Recorded

\* A step that records nothing keeps its cycle on the books, or off them.
LEMMA BooksStay ==
    ASSUME SignCountInv, NEW c \in Procs, NEW t \in Dated,
           \/ Start(c) \/ Work(c) \/ SignSubject(c) \/ Look(c) \/ Fail(c) \/ Obtain(c) \/ Die(c)
           \/ Settle(c) /\ CommitConflict(c)
    PROVE  /\ Holds(c, t)' => Holds(c, t)
           /\ Holds(c, t) \/ Loses(c, t) => Holds(c, t)' \/ Loses(c, t)'
           /\ UNCHANGED guardKeys
<1>0. Domains /\ Fits(c) /\ StoreInv /\ PipelineInv
  BY CycleByCycle DEF SignCountInv, AllFit
<1>1. CASE Start(c) \/ Work(c)
  <2>1. /\ at[c] \notin {"issue", "crashed"} /\ at'[c] \notin {"issue", "crashed"}
        /\ signature'[c] = signature[c] /\ UNCHANGED guardKeys
    <3>1. CASE Start(c)
      BY <1>0, <3>1 DEF Start, G!Start, G!StartUnbound, G!Goto, G!Raise, G!receiptVars,
                        Domains, vars
    <3>2. CASE Work(c)
      BY <1>0, <3>2, WorkIsElsewhere, WorkMoves DEF vars
    <3> QED BY <1>1, <3>1, <3>2
  <2>2. at[c] = "fetch" \/ observed' = observed
    BY <1>1 DEF Start, Work, G!Start, G!StartUnbound, G!Fetch, G!FetchAttempt,
                G!FetchRaises, G!Request, G!Unavailable, G!Respond, G!Undecodable, G!ValidatorException, G!Verdict,
                G!VerdictRefused, G!Observation, G!Finalize, G!observerVars
  <2>3. at[c] = "fetch" => signature[c] = NoDigest
    BY DEF SignCountInv, GivenInv
  <2> QED BY <2>1, <2>2, <2>3 DEF Holds, Loses, Presented, SubjectOf
<1>2. CASE \/ SignSubject(c) \/ Look(c) \/ Fail(c)
           \/ (Settle(c) /\ CommitConflict(c))
  <2>1. UNCHANGED <<signature, observed, guardKeys>>
    BY <1>2 DEF SignSubject, Look, Fail, Settle, Request, Select, Write, InsertRefused, Locked,
                CommitLocked, CommitConflict, Stay, Leave, cycleVars, fetchVars, tables
  <2>2. at[c] = "validate"
    BY <1>0, <1>2 DEF SignSubject, Look, Fail, Settle, Select, Write, InsertRefused, Locked,
                      Commit, CommitLocked, InCall, Fits, G!Judged
  <2>3. at'[c] \in {"validate", "raised"}
    <3>1. CASE Stay
      BY <2>2, <3>1 DEF Stay, cycleVars
    <3>2. ASSUME NEW w, Leave(c, w) PROVE at'[c] = "raised"
      BY <1>0, <3>2 DEF Leave, G!Raise, G!Goto, Domains
    <3> QED BY <1>2, <3>1, <3>2 DEF SignSubject, Look, Fail, Settle, CommitConflict
  <2> QED BY <2>1, <2>2, <2>3 DEF Holds, Loses, Presented, SubjectOf
<1>3. CASE Obtain(c)
  <2>1. at[c] = "issue"
    BY <1>0, <1>3 DEF Obtain, Sign, Fits
  <2>2. UNCHANGED <<observed, guardKeys>> /\ signature'[c] = request[c].digest
    BY <1>0, <1>3 DEF Obtain, Sign, Domains, fetchVars, tables
  <2>3. request[c].digest # NoDigest
    BY <1>0, StoreAssumption DEF StoreInv, TypeOK
  <2>4. Holds(c, t)' <=> Presented(c, t)
    BY <2>2, <2>3 DEF Holds, Presented, SubjectOf
  <2> QED BY <2>1, <2>2, <2>4 DEF Holds, Loses
<1>4. CASE Die(c)
  <2>1. UNCHANGED <<signature, observed, guardKeys>> /\ at'[c] = "crashed" /\ at[c] # "crashed"
    BY <1>0, <1>4 DEF Die, Crash, G!Goto, G!Running, Domains, fetchVars, tables
  <2> QED BY <2>1 DEF Holds, Loses, Presented, SubjectOf
<1> QED BY <1>1, <1>2, <1>3, <1>4

\* A commit counts one more for the timestamp its cycle presents.
LEMMA CommitsCount ==
    ASSUME SignCountInv, NEW c \in Procs, NEW t \in Dated,
           Settle(c), CommitFirst(c) \/ CommitIdempotent(c)
    PROVE  Counted(t)' /\ (Recorded(t)' = NoDigest => guardKeys'[t].count = 0)
<1>1. /\ Domains /\ Fits(c) /\ StoreInv /\ PipelineInv /\ Counted(t)
      /\ Commit(c) /\ InCall(c)
      /\ signature[c] = NoDigest /\ at[c] = "validate"
      /\ Recorded(t) = NoDigest => guardKeys[t].count = 0
  <2>1. Domains /\ Fits(c) /\ StoreInv /\ PipelineInv /\ Commit(c) /\ InCall(c)
    BY CycleByCycle DEF SignCountInv, AllFit, Settle, Commit, InCall
  <2>2. at[c] = "validate"
    BY <2>1 DEF Fits, InCall
  <2> QED BY <2>1, <2>2 DEF SignCountInv, GivenInv, UncountedInv, CountedInv
<1>2. /\ UNCHANGED <<signature, observed>> /\ at'[c] = "issue"
  BY <1>1 DEF Settle, Commit, CommitFirst, CommitIdempotent, G!Goto, Domains, fetchVars
<1>3. observed[c] # NoBody /\ request[c].key = SubjectOf(c).timestamp
  BY <1>1, PipelineAssumption DEF Fits
<1>4. ~ Holds(c, t) /\ ~ Loses(c, t) /\ (Holds(c, t)' <=> request[c].key = t)
  BY <1>1, <1>2, <1>3 DEF Holds, Loses, Presented, SubjectOf
<1>5. Untouched(c)
  BY <1>1, SettleFits
<1>6. /\ guardKeys[t].count \in Nat
      /\ IF request[c].key = t
         THEN /\ guardKeys'[t].digest = request[c].digest
              /\ guardKeys'[t].count = guardKeys[t].count + 1
         ELSE guardKeys'[t] = guardKeys[t]
  BY <1>1, RowSteps
<1>7. CASE request[c].key = t
  <2>1. Recorded(t)' # NoDigest
    BY <1>1, <1>6, <1>7, StoreAssumption DEF Recorded, StoreInv, TypeOK
  <2> QED BY <1>1, <1>4, <1>5, <1>6, <1>7, <2>1, CountGoesUp
<1>8. CASE request[c].key # t
  BY <1>1, <1>4, <1>5, <1>6, <1>8, CountStays DEF Recorded
<1> QED BY <1>7, <1>8

LEMMA SignCountStep == SignCountInv /\ [PipelineNext]_pipelineVars => SignCountInv'
<1> SUFFICES ASSUME SignCountInv, [PipelineNext]_pipelineVars PROVE SignCountInv'
  OBVIOUS
<1>1. PipelineInv' /\ GivenInv' /\ PipelineInv
  BY PipelineStep, GivenStep DEF SignCountInv
<1> DEFINE Agrees(t) == Counted(t) /\ (Recorded(t) = NoDigest => guardKeys[t].count = 0)
<1>2. ASSUME NEW t \in Dated
      PROVE  Agrees(t)'
  <2>1. /\ Counted(t) /\ guardKeys[t].count \in Nat
        /\ Recorded(t) = NoDigest => guardKeys[t].count = 0
    BY <1>1, PipelineAssumption
       DEF SignCountInv, CountedInv, UncountedInv, PipelineInv, StoreInv, TypeOK
  <2>2. ASSUME NEW c \in Procs,
               \/ Start(c) \/ Work(c) \/ SignSubject(c) \/ Look(c) \/ Fail(c) \/ Obtain(c) \/ Die(c)
               \/ Settle(c) /\ CommitConflict(c)
        PROVE  Agrees(t)'
    <3>1. Untouched(c)
      BY <1>1, <2>2, StartFits, WorkFits, SignSubjectFits, LookFits, FailFits, SettleFits,
         ObtainFits, DieFits
    <3> QED BY <2>1, <2>2, <3>1, BooksStay, CountStays DEF Recorded
  <2>3. ASSUME NEW c \in Procs, Settle(c), CommitFirst(c) \/ CommitIdempotent(c)
        PROVE  Agrees(t)'
    BY <2>3, CommitsCount
  <2>4. CASE UNCHANGED pipelineVars
    BY <2>1, <2>4 DEF pipelineVars, cycleVars, fetchVars, vars, Counted, Holders, Lost,
                      Presented, SubjectOf, Recorded
  <2> QED BY <2>2, <2>3, <2>4 DEF PipelineNext, RunCycle, Settle, Commit
<1> QED BY <1>1, <1>2 DEF SignCountInv, CountedInv, UncountedInv

\* The sign_count of a timestamp is that of the cycles that have, or are to
\* have, its signature, but for those that died with their call.
THEOREM SignCountExplained == PipelineSpec => []SignCountIsExplained
<1>1. ASSUME PipelineInit PROVE SignCountInv
  <2>1. /\ PipelineInv
        /\ at = [c \in Procs |-> "idle"] /\ signature = [c \in Procs |-> NoDigest]
        /\ observed = [c \in Procs |-> NoBody]
        /\ guardKeys = [k \in Keys |-> [digest |-> NoDigest, count |-> 0]]
    BY <1>1, PipelineStart DEF PipelineInit, Init, G!Init, G!ObserverInit, G!Cycles
  <2>2. GivenInv /\ UncountedInv
    BY <2>1, PipelineAssumption DEF GivenInv, UncountedInv
  <2>3. ASSUME NEW t \in Dated PROVE Counted(t)
    <3>1. Holders(t) = {} /\ Lost(t) = {} /\ guardKeys[t].count = 0
      BY <2>1, PipelineAssumption DEF Holders, Lost
    <3> QED BY <3>1, FS_EmptySet DEF Counted
  <2> QED BY <2>1, <2>2, <2>3 DEF SignCountInv, CountedInv
<1>2. SignCountInv => SignCountIsExplained
  BY DEF SignCountInv, CountedInv, Counted, SignCountIsExplained
<1> QED BY <1>1, <1>2, SignCountStep, PTL DEF PipelineSpec
=============================================================================

------------------------ MODULE GuardKeyStoreProofs ------------------------
(***************************************************************************)
(* Theorems about GuardKeyStore, for any set of processes, guard keys and  *)
(* digests, and any number of requests and crashes.                        *)
(*                                                                         *)
(* The argument.  A recorded digest never changes, so a row that a process *)
(* read outside any transaction is still true when it acts on it, unless   *)
(* what it read was "no row"; and that reading is checked again by the     *)
(* PRIMARY KEY under the write lock, which the process then holds until it *)
(* commits.  StoreInv says exactly this; everything else follows from it.  *)
(* Only the count of the signatures needs more: a call that has committed  *)
(* and not yet signed is counted already, and CountInv adds that at any    *)
(* time there are finitely many of them.                                   *)
(***************************************************************************)
EXTENDS GuardKeyStore, SequenceTheorems, FiniteSetTheorems, TLAPS

-----------------------------------------------------------------------------
(* The inductive invariant.                                                *)

\* A digest that was read is still the recorded one.
RowInv ==
    \A p \in Procs :
        pc[p] \in {"write", "commit"} /\ row[p] # NoDigest
            => Recorded(request[p].key) = row[p]

\* The process between its write and its commit is the holder of the lock.
LockInv == \A p \in Procs : pc[p] = "commit" <=> writer = p

\* The INSERT that is about to commit has no committed row to meet.
InsertInv ==
    \A p \in Procs :
        pc[p] = "commit" /\ row[p] = NoDigest
            => Recorded(request[p].key) = NoDigest

\* A process about to sign has its digest on record.
SignInv ==
    \A p \in Procs : pc[p] = "sign" => Recorded(request[p].key) = request[p].digest

\* A process that raised EquivocationError left a row behind.
EvidenceInv ==
    \A p \in Procs :
        outcome[p] = "equivocation" => HasEvidence(request[p].key, request[p].digest)

StoreInv ==
    /\ TypeOK
    /\ RowInv
    /\ LockInv
    /\ InsertInv
    /\ SignInv
    /\ EvidenceInv
    /\ RecordBeforeSign
    /\ ConflictsFaithful

-----------------------------------------------------------------------------
(* Type correctness.                                                       *)

\* A row stays a row when its sign_count is incremented.
LEMMA CountedRow ==
    ASSUME NEW D, NEW g \in [digest : D, count : Nat]
    PROVE  [g EXCEPT !.count = @ + 1] \in [digest : D, count : Nat]
  OBVIOUS

\* Every step of every process keeps the state well typed.
LEMMA TypeStep == TypeOK /\ [Next]_vars => TypeOK'
<1> USE StoreAssumption
<1> SUFFICES ASSUME TypeOK, [Next]_vars PROVE TypeOK'
  OBVIOUS
<1> USE DEF TypeOK, PCs, Outcomes, tables
<1>1. ASSUME NEW p \in Procs, NEW k \in Keys, NEW d \in Digests, Request(p, k, d)
      PROVE  TypeOK'
  <2>1. requests' \in 0..MaxRequests
    BY <1>1 DEF Request
  <2>2. request' \in [Procs -> [key : Keys, digest : Digests]]
    BY <1>1 DEF Request
  <2>3. pc' \in [Procs -> PCs] /\ outcome' \in [Procs -> Outcomes]
    BY <1>1 DEF Request, End
  <2> QED BY <1>1, <2>1, <2>2, <2>3 DEF Request
<1>2. ASSUME NEW p \in Procs, Select(p) PROVE TypeOK'
  BY <1>2 DEF Select, Recorded
<1>3. ASSUME NEW p \in Procs, Write(p) PROVE TypeOK'
  BY <1>3 DEF Write
<1>4. ASSUME NEW p \in Procs, InsertRefused(p) PROVE TypeOK'
  BY <1>4 DEF InsertRefused, End
<1>5. ASSUME NEW p \in Procs, Locked(p) PROVE TypeOK'
  BY <1>5 DEF Locked, End
<1>6. ASSUME NEW p \in Procs, Commit(p) PROVE TypeOK'
  <2>1. CASE CommitFirst(p)
    BY <1>6, <2>1 DEF Commit, CommitFirst
  <2>2. CASE CommitIdempotent(p)
    <3> DEFINE k == request[p].key
               r == [guardKeys[k] EXCEPT !.count = @ + 1]
    <3>1. guardKeys' \in [Keys -> [digest : Digests \cup {NoDigest}, count : Nat]]
      <4>1. k \in Keys
        OBVIOUS
      <4>2. guardKeys[k] \in [digest : Digests \cup {NoDigest}, count : Nat]
        BY <4>1
      <4>3. r \in [digest : Digests \cup {NoDigest}, count : Nat]
        BY <4>2, CountedRow
      <4>4. guardKeys' = [guardKeys EXCEPT ![k] = r]
        BY <2>2 DEF CommitIdempotent
      <4> HIDE DEF r
      <4> QED BY <4>1, <4>3, <4>4
    <3>2. pc' \in [Procs -> PCs] /\ outcome' \in [Procs -> Outcomes]
      BY <2>2 DEF CommitIdempotent
    <3>3. writer' = NoProc /\ UNCHANGED <<conflicts, request, row, signed,
                                          requests, crashes>>
      BY <1>6, <2>2 DEF Commit, CommitIdempotent
    <3> QED BY <3>1, <3>2, <3>3
  <2>3. CASE CommitConflict(p)
    <3>1. [key |-> request[p].key, previous |-> row[p],
           attempted |-> request[p].digest] \in Conflict
      BY <2>3 DEF CommitConflict, Conflict
    <3>2. conflicts' \in Seq(Conflict)
      BY <2>3, <3>1, AppendProperties DEF CommitConflict
    <3> QED BY <1>6, <2>3, <3>2 DEF Commit, CommitConflict, End
  <2> QED BY <1>6, <2>1, <2>2, <2>3 DEF Commit
<1>7. ASSUME NEW p \in Procs, Sign(p) PROVE TypeOK'
  <2>1. signed' \in [Keys -> [Digests -> Nat]]
    <3> DEFINE k == request[p].key
               d == request[p].digest
    <3>1. k \in Keys /\ d \in Digests
      OBVIOUS
    <3>2. [signed[k] EXCEPT ![d] = @ + 1] \in [Digests -> Nat]
      BY <3>1
    <3>3. signed' = [signed EXCEPT ![k] = [signed[k] EXCEPT ![d] = @ + 1]]
      BY <1>7 DEF Sign
    <3> QED BY <3>1, <3>2, <3>3
  <2>2. pc' \in [Procs -> PCs]
    BY <1>7 DEF Sign
  <2>3. UNCHANGED <<guardKeys, conflicts, writer, request, row, outcome,
                    requests, crashes>>
    BY <1>7 DEF Sign
  <2> QED BY <2>1, <2>2, <2>3
<1>8. ASSUME NEW p \in Procs, Crash(p) PROVE TypeOK'
  BY <1>8 DEF Crash
<1>9. ASSUME NEW p \in Procs, Restart(p) PROVE TypeOK'
  BY <1>9 DEF Restart
<1>10. ASSUME NEW p \in Procs, CommitLocked(p) PROVE TypeOK'
  BY <1>10 DEF CommitLocked, End
<1>11. CASE UNCHANGED vars
  BY <1>11 DEF vars
<1> QED
  BY <1>1, <1>2, <1>3, <1>4, <1>5, <1>6, <1>7, <1>8, <1>9, <1>10, <1>11
  DEF Next, Step

\* Every reachable state is well typed (the two tables, the lock, and each
\* process's place in sign_subject).
THEOREM TypeCorrect == Spec => []TypeOK
<1>1. Init => TypeOK
  BY StoreAssumption DEF Init, TypeOK, PCs, Outcomes, Conflict
<1>2. TypeOK /\ [Next]_vars => TypeOK'
  BY TypeStep
<1> QED BY <1>1, <1>2, PTL DEF Spec

-----------------------------------------------------------------------------
(* What the commits do to the tables.                                      *)

\* A re-sign counts, and leaves every digest as it was.
LEMMA IdempotentKeeps ==
    ASSUME TypeOK, NEW p \in Procs, CommitIdempotent(p), NEW k \in Keys
    PROVE  /\ Recorded(k)' = Recorded(k)
           /\ guardKeys'[k].count >= guardKeys[k].count
<1>1. CASE k = request[p].key
  BY <1>1 DEF TypeOK, CommitIdempotent, Recorded
<1>2. CASE k # request[p].key
  BY <1>2 DEF TypeOK, CommitIdempotent, Recorded
<1> QED BY <1>1, <1>2

\* A first record touches its own key only, and that key had no row.
LEMMA FirstRecords ==
    ASSUME TypeOK, LockInv, InsertInv, NEW p \in Procs,
           Commit(p), CommitFirst(p), NEW k \in Keys
    PROVE  /\ Recorded(request[p].key) = NoDigest
           /\ k = request[p].key => Recorded(k)' = request[p].digest
           /\ k # request[p].key => guardKeys'[k] = guardKeys[k]
           /\ Recorded(k) # NoDigest => guardKeys'[k] = guardKeys[k]
  BY DEF TypeOK, Commit, CommitFirst, Recorded, LockInv, InsertInv

\* Only a commit writes the tables.
LEMMA OnlyCommitsWrite ==
    ASSUME [Next]_vars, ~ \E p \in Procs : Commit(p)
    PROVE  UNCHANGED tables
  BY DEF Next, Step, Request, Select, Write, InsertRefused, Locked, CommitLocked,
         Sign, Crash, Restart, vars, tables

\* Whatever the step, a digest on record stays.
LEMMA RecordStays ==
    ASSUME TypeOK, LockInv, InsertInv, [Next]_vars,
           NEW k \in Keys, Recorded(k) # NoDigest
    PROVE  Recorded(k)' = Recorded(k) /\ guardKeys'[k].count >= guardKeys[k].count
<1>0. guardKeys[k].count \in Nat
  BY DEF TypeOK
<1>1. CASE \E p \in Procs : Commit(p)
  <2> PICK p \in Procs : Commit(p)
    BY <1>1
  <2>1. CASE CommitFirst(p)
    BY <1>0, <2>1, FirstRecords DEF Recorded
  <2>2. CASE CommitIdempotent(p)
    BY <2>2, IdempotentKeeps
  <2>3. CASE CommitConflict(p)
    BY <1>0, <2>3 DEF CommitConflict, Recorded
  <2> QED BY <2>1, <2>2, <2>3 DEF Commit
<1>2. CASE ~ \E p \in Procs : Commit(p)
  BY <1>0, <1>2, OnlyCommitsWrite DEF tables, Recorded
<1> QED BY <1>1, <1>2

\* Whatever the step, a conflict row stays where it is.
LEMMA ConflictsStay ==
    ASSUME TypeOK, [Next]_vars
    PROVE  /\ Len(conflicts') >= Len(conflicts)
           /\ \A i \in 1..Len(conflicts) : conflicts'[i] = conflicts[i]
<1>0. Len(conflicts) \in Nat
  BY DEF TypeOK
<1>1. CASE \E p \in Procs : Commit(p)
  <2> PICK p \in Procs : Commit(p)
    BY <1>1
  <2>1. CASE CommitFirst(p) \/ CommitIdempotent(p)
    BY <1>0, <2>1 DEF CommitFirst, CommitIdempotent
  <2>2. CASE CommitConflict(p)
    <3> DEFINE e == [key |-> request[p].key, previous |-> row[p],
                     attempted |-> request[p].digest]
    <3>1. e \in Conflict
      BY <2>2 DEF CommitConflict, Conflict, TypeOK
    <3>2. conflicts' = Append(conflicts, e) /\ conflicts \in Seq(Conflict)
      BY <2>2 DEF CommitConflict, TypeOK
    <3> HIDE DEF e
    <3> QED BY <1>0, <3>1, <3>2, AppendProperties
  <2> QED BY <2>1, <2>2 DEF Commit
<1>2. CASE ~ \E p \in Procs : Commit(p)
  BY <1>0, <1>2, OnlyCommitsWrite DEF tables
<1> QED BY <1>1, <1>2

-----------------------------------------------------------------------------
(* The invariant is inductive.                                             *)

\* A refusal on record stays on record.
LEMMA EvidenceStays ==
    ASSUME TypeOK, [Next]_vars, NEW k, NEW d, HasEvidence(k, d)
    PROVE  HasEvidence(k, d)'
<1>1. TypeOK'
  BY TypeStep
<1>2. conflicts \in Seq(Conflict) /\ conflicts' \in Seq(Conflict)
  BY <1>1 DEF TypeOK, Conflict
<1>3. Len(conflicts) \in Nat /\ Len(conflicts') \in Nat
  BY <1>2
<1> QED BY <1>3, ConflictsStay DEF HasEvidence

\* Evidence already given keeps naming the recorded digest.
LEMMA OldConflictsFaithful ==
    ASSUME StoreInv, [Next]_vars, NEW i \in 1..Len(conflicts)
    PROVE  /\ conflicts'[i].previous = guardKeys'[conflicts'[i].key].digest
           /\ conflicts'[i].attempted # conflicts'[i].previous
<1>1. conflicts[i] \in Conflict
  BY DEF StoreInv, TypeOK
<1>2. /\ conflicts[i].key \in Keys
      /\ Recorded(conflicts[i].key) # NoDigest
  BY <1>1, StoreAssumption DEF StoreInv, ConflictsFaithful, Conflict
<1>3. conflicts'[i] = conflicts[i]
  BY ConflictsStay DEF StoreInv
<1>4. guardKeys'[conflicts[i].key].digest = Recorded(conflicts[i].key)
  <2> DEFINE k == conflicts[i].key
  <2>1. k \in Keys /\ Recorded(k) # NoDigest
    BY <1>2
  <2> HIDE DEF k
  <2>2. guardKeys'[k].digest = Recorded(k)
    BY <2>1, RecordStays DEF StoreInv, Recorded
  <2> QED BY <2>2 DEF k
<1> QED BY <1>3, <1>4 DEF StoreInv, ConflictsFaithful, Recorded

LEMMA StoreStep == StoreInv /\ [Next]_vars => StoreInv'
<1> SUFFICES ASSUME StoreInv, [Next]_vars PROVE StoreInv'
  OBVIOUS
<1>1. TypeOK'
  BY TypeStep DEF StoreInv
<1>2. \A k \in Keys :
         Recorded(k) # NoDigest => guardKeys'[k].digest = guardKeys[k].digest
  BY RecordStays DEF StoreInv, Recorded
<1>3. \A k, d : HasEvidence(k, d) => HasEvidence(k, d)'
  BY EvidenceStays DEF StoreInv
<1>4. UNCHANGED conflicts => ConflictsFaithful'
  BY OldConflictsFaithful DEF ConflictsFaithful, Recorded
<1>5. UNCHANGED signed => RecordBeforeSign'
  BY <1>2, StoreAssumption DEF StoreInv, RecordBeforeSign, Recorded
<1>6. ASSUME NEW p \in Procs, NEW k \in Keys, NEW d \in Digests, Request(p, k, d)
      PROVE  StoreInv'
  <2> USE <1>6 DEF Request, End, tables
  <2>1. RowInv' /\ LockInv' /\ InsertInv' /\ SignInv'
    <3>1. RowInv'
      BY DEF StoreInv, TypeOK, RowInv, Recorded
    <3>2. LockInv'
      BY DEF StoreInv, TypeOK, LockInv
    <3>3. InsertInv'
      BY DEF StoreInv, TypeOK, InsertInv, Recorded
    <3>4. SignInv'
      BY DEF StoreInv, TypeOK, SignInv, Recorded
    <3> QED BY <3>1, <3>2, <3>3, <3>4
  <2>2. EvidenceInv'
    BY <1>3 DEF StoreInv, TypeOK, EvidenceInv
  <2> QED BY <1>1, <1>4, <1>5, <2>1, <2>2 DEF StoreInv
<1>7. ASSUME NEW p \in Procs, Select(p) PROVE StoreInv'
  <2> USE <1>7 DEF Select, tables
  <2>1. RowInv' /\ LockInv' /\ InsertInv' /\ SignInv'
    <3>1. RowInv'
      BY DEF StoreInv, TypeOK, RowInv, Recorded
    <3>2. LockInv'
      BY DEF StoreInv, TypeOK, LockInv
    <3>3. InsertInv'
      BY DEF StoreInv, TypeOK, InsertInv, Recorded
    <3>4. SignInv'
      BY DEF StoreInv, TypeOK, SignInv, Recorded
    <3> QED BY <3>1, <3>2, <3>3, <3>4
  <2>2. EvidenceInv'
    BY <1>3 DEF StoreInv, TypeOK, EvidenceInv
  <2> QED BY <1>1, <1>4, <1>5, <2>1, <2>2 DEF StoreInv
<1>8. ASSUME NEW p \in Procs, Write(p) PROVE StoreInv'
  <2> USE <1>8 DEF Write, tables
  <2>1. RowInv' /\ LockInv' /\ InsertInv' /\ SignInv'
    <3>1. RowInv'
      BY StoreAssumption DEF StoreInv, TypeOK, RowInv, Recorded
    <3>2. LockInv'
      BY StoreAssumption DEF StoreInv, TypeOK, LockInv
    <3>3. InsertInv'
      BY StoreAssumption DEF StoreInv, TypeOK, InsertInv, Recorded
    <3>4. SignInv'
      BY StoreAssumption DEF StoreInv, TypeOK, SignInv, Recorded
    <3> QED BY <3>1, <3>2, <3>3, <3>4
  <2>2. EvidenceInv'
    BY <1>3 DEF StoreInv, TypeOK, EvidenceInv
  <2> QED BY <1>1, <1>4, <1>5, <2>1, <2>2 DEF StoreInv
<1>9. ASSUME NEW p \in Procs, InsertRefused(p) PROVE StoreInv'
  <2> USE <1>9 DEF InsertRefused, End, tables
  <2>1. RowInv' /\ LockInv' /\ InsertInv' /\ SignInv'
    <3>1. RowInv'
      BY DEF StoreInv, TypeOK, RowInv, Recorded
    <3>2. LockInv'
      BY DEF StoreInv, TypeOK, LockInv
    <3>3. InsertInv'
      BY DEF StoreInv, TypeOK, InsertInv, Recorded
    <3>4. SignInv'
      BY DEF StoreInv, TypeOK, SignInv, Recorded
    <3> QED BY <3>1, <3>2, <3>3, <3>4
  <2>2. EvidenceInv'
    BY <1>3 DEF StoreInv, TypeOK, EvidenceInv
  <2> QED BY <1>1, <1>4, <1>5, <2>1, <2>2 DEF StoreInv
<1>10. ASSUME NEW p \in Procs, Locked(p) PROVE StoreInv'
  <2> USE <1>10 DEF Locked, End, tables
  <2>1. RowInv' /\ LockInv' /\ InsertInv' /\ SignInv'
    <3>1. RowInv'
      BY DEF StoreInv, TypeOK, RowInv, Recorded
    <3>2. LockInv'
      BY DEF StoreInv, TypeOK, LockInv
    <3>3. InsertInv'
      BY DEF StoreInv, TypeOK, InsertInv, Recorded
    <3>4. SignInv'
      BY DEF StoreInv, TypeOK, SignInv, Recorded
    <3> QED BY <3>1, <3>2, <3>3, <3>4
  <2>2. EvidenceInv'
    BY <1>3 DEF StoreInv, TypeOK, EvidenceInv
  <2> QED BY <1>1, <1>4, <1>5, <2>1, <2>2 DEF StoreInv
<1>11. ASSUME NEW p \in Procs, Commit(p) PROVE StoreInv'
  <2>1. /\ pc[p] = "commit" /\ writer = p
        /\ writer' = NoProc
        /\ UNCHANGED <<request, row, signed>>
    BY <1>11 DEF Commit, StoreInv, LockInv
  <2>2. pc' = [pc EXCEPT ![p] = "sign"] \/ pc' = [pc EXCEPT ![p] = "idle"]
    BY <1>11 DEF Commit, CommitFirst, CommitIdempotent, CommitConflict, End
  <2>3. LockInv'
    BY <2>1, <2>2, StoreAssumption DEF StoreInv, TypeOK, LockInv
  <2>4. InsertInv'
    BY <2>1, <2>2, StoreAssumption DEF StoreInv, TypeOK, LockInv, InsertInv
  <2>5. RowInv'
    BY <1>2, <2>1, <2>2 DEF StoreInv, TypeOK, RowInv, Recorded
  <2>6. RecordBeforeSign'
    BY <1>5, <2>1
  <2>7. CASE CommitFirst(p)
    <3>1. SignInv'
      <4> SUFFICES ASSUME NEW q \in Procs, pc'[q] = "sign"
                   PROVE  guardKeys'[request[q].key].digest = request[q].digest
        BY <2>1 DEF SignInv, Recorded
      <4>0. request[q].key \in Keys /\ request[q].digest \in Digests
        BY DEF StoreInv, TypeOK
      <4>1. CASE q = p
        BY <2>7, <4>0, <4>1 DEF CommitFirst, StoreInv, TypeOK
      <4>2. CASE q # p
        <5>1. pc[q] = "sign"
          BY <2>7, <4>2 DEF CommitFirst, StoreInv, TypeOK
        <5>2. Recorded(request[q].key) = request[q].digest
          BY <5>1 DEF StoreInv, SignInv
        <5> QED BY <1>2, <4>0, <5>2, StoreAssumption DEF Recorded
      <4> QED BY <4>1, <4>2
    <3>2. EvidenceInv' /\ ConflictsFaithful'
      BY <1>3, <1>4, <2>1, <2>7 DEF StoreInv, TypeOK, EvidenceInv, CommitFirst
    <3> QED BY <1>1, <2>3, <2>4, <2>5, <2>6, <3>1, <3>2 DEF StoreInv
  <2>8. CASE CommitIdempotent(p)
    <3>1. Recorded(request[p].key) = request[p].digest
      <4>1. row[p] = request[p].digest /\ request[p].digest \in Digests
        BY <2>8 DEF CommitIdempotent, StoreInv, TypeOK
      <4> QED BY <2>1, <4>1, StoreAssumption DEF StoreInv, RowInv
    <3>2. SignInv'
      BY <1>2, <2>1, <2>8, <3>1, StoreAssumption
         DEF StoreInv, TypeOK, SignInv, CommitIdempotent, Recorded
    <3>3. EvidenceInv' /\ ConflictsFaithful'
      BY <1>3, <1>4, <2>1, <2>8 DEF StoreInv, TypeOK, EvidenceInv, CommitIdempotent
    <3> QED BY <1>1, <2>3, <2>4, <2>5, <2>6, <3>2, <3>3 DEF StoreInv
  <2>9. CASE CommitConflict(p)
    <3> DEFINE e == [key |-> request[p].key, previous |-> row[p],
                     attempted |-> request[p].digest]
               n == Len(conflicts)
    <3>1. e \in Conflict /\ conflicts \in Seq(Conflict)
      BY <2>9 DEF CommitConflict, Conflict, StoreInv, TypeOK
    <3>2. conflicts' = Append(conflicts, e) /\ UNCHANGED guardKeys
      BY <2>9 DEF CommitConflict
    <3>3. /\ e.previous = Recorded(e.key) /\ e.attempted # e.previous
          /\ e.key = request[p].key /\ e.attempted = request[p].digest
      BY <2>1, <2>9 DEF CommitConflict, StoreInv, TypeOK, RowInv
    <3> HIDE DEF e
    <3>4. n \in Nat /\ Len(conflicts') = n + 1 /\ conflicts'[n + 1] = e
      BY <3>1, <3>2, AppendProperties
    <3>5. SignInv'
      BY <2>1, <2>9, <3>2 DEF StoreInv, TypeOK, SignInv, CommitConflict, End, Recorded
    <3>6. EvidenceInv'
      <4>1. HasEvidence(request[p].key, request[p].digest)'
        BY <2>1, <3>3, <3>4 DEF HasEvidence
      <4> QED BY <1>3, <2>1, <2>9, <4>1
              DEF StoreInv, TypeOK, EvidenceInv, CommitConflict, End
    <3>7. ConflictsFaithful'
      <4> SUFFICES ASSUME NEW i \in 1..(n + 1)
                   PROVE  /\ conflicts'[i].previous = guardKeys'[conflicts'[i].key].digest
                          /\ conflicts'[i].attempted # conflicts'[i].previous
        BY <3>4 DEF ConflictsFaithful, Recorded
      <4>1. CASE i \in 1..n
        BY <4>1, OldConflictsFaithful
      <4>2. CASE i = n + 1
        BY <3>2, <3>3, <3>4, <4>2 DEF Recorded
      <4> QED BY <3>4, <4>1, <4>2
    <3> QED BY <1>1, <2>3, <2>4, <2>5, <2>6, <3>5, <3>6, <3>7 DEF StoreInv
  <2> QED BY <1>11, <2>7, <2>8, <2>9 DEF Commit
<1>12. ASSUME NEW p \in Procs, Sign(p) PROVE StoreInv'
  <2>1. RowInv' /\ LockInv' /\ InsertInv' /\ SignInv'
    BY <1>12, StoreAssumption
       DEF Sign, tables, StoreInv, TypeOK, RowInv, LockInv, InsertInv, SignInv, Recorded
  <2>2. EvidenceInv'
    BY <1>3, <1>12 DEF Sign, tables, StoreInv, TypeOK, EvidenceInv
  <2>3. RecordBeforeSign'
    <3> SUFFICES ASSUME NEW k \in Keys, NEW d \in Digests, signed'[k][d] > 0
                 PROVE  guardKeys'[k].digest = d
      BY DEF RecordBeforeSign, Recorded
    <3>1. guardKeys' = guardKeys
      BY <1>12 DEF Sign, tables
    <3>2. CASE k = request[p].key /\ d = request[p].digest
      BY <1>12, <3>1, <3>2 DEF Sign, StoreInv, SignInv, Recorded
    <3>3. CASE ~ (k = request[p].key /\ d = request[p].digest)
      <4>1. signed'[k][d] = signed[k][d]
        BY <1>12, <3>3 DEF Sign, StoreInv, TypeOK
      <4> QED BY <3>1, <4>1 DEF StoreInv, RecordBeforeSign, Recorded
    <3> QED BY <3>2, <3>3
  <2> QED BY <1>1, <1>4, <1>12, <2>1, <2>2, <2>3 DEF StoreInv, Sign, tables
<1>13. ASSUME NEW p \in Procs, Crash(p) PROVE StoreInv'
  <2> USE <1>13 DEF Crash, tables
  <2>1. RowInv' /\ LockInv' /\ InsertInv' /\ SignInv'
    <3>1. RowInv'
      BY StoreAssumption DEF StoreInv, TypeOK, RowInv, Recorded
    <3>2. LockInv'
      BY StoreAssumption DEF StoreInv, TypeOK, LockInv
    <3>3. InsertInv'
      BY StoreAssumption DEF StoreInv, TypeOK, InsertInv, Recorded
    <3>4. SignInv'
      BY StoreAssumption DEF StoreInv, TypeOK, SignInv, Recorded
    <3> QED BY <3>1, <3>2, <3>3, <3>4
  <2>2. EvidenceInv'
    BY <1>3 DEF StoreInv, TypeOK, EvidenceInv
  <2> QED BY <1>1, <1>4, <1>5, <2>1, <2>2 DEF StoreInv
<1>14. ASSUME NEW p \in Procs, Restart(p) PROVE StoreInv'
  <2> USE <1>14 DEF Restart, tables
  <2>1. RowInv' /\ LockInv' /\ InsertInv' /\ SignInv'
    <3>1. RowInv'
      BY StoreAssumption DEF StoreInv, TypeOK, RowInv, Recorded
    <3>2. LockInv'
      BY StoreAssumption DEF StoreInv, TypeOK, LockInv
    <3>3. InsertInv'
      BY StoreAssumption DEF StoreInv, TypeOK, InsertInv, Recorded
    <3>4. SignInv'
      BY StoreAssumption DEF StoreInv, TypeOK, SignInv, Recorded
    <3> QED BY <3>1, <3>2, <3>3, <3>4
  <2>2. EvidenceInv'
    BY <1>3 DEF StoreInv, TypeOK, EvidenceInv
  <2> QED BY <1>1, <1>4, <1>5, <2>1, <2>2 DEF StoreInv
<1>15. ASSUME NEW p \in Procs, CommitLocked(p) PROVE StoreInv'
  <2> USE <1>15 DEF CommitLocked, End, tables
  <2>1. RowInv' /\ LockInv' /\ InsertInv' /\ SignInv'
    <3>1. RowInv'
      BY StoreAssumption DEF StoreInv, TypeOK, RowInv, Recorded
    <3>2. LockInv'
      BY StoreAssumption DEF StoreInv, TypeOK, LockInv
    <3>3. InsertInv'
      BY StoreAssumption DEF StoreInv, TypeOK, InsertInv, Recorded
    <3>4. SignInv'
      BY StoreAssumption DEF StoreInv, TypeOK, SignInv, Recorded
    <3> QED BY <3>1, <3>2, <3>3, <3>4
  <2>2. EvidenceInv'
    BY <1>3 DEF StoreInv, TypeOK, EvidenceInv
  <2> QED BY <1>1, <1>4, <1>5, <2>1, <2>2 DEF StoreInv
<1>16. CASE UNCHANGED vars
  BY <1>1, <1>16
     DEF StoreInv, RowInv, LockInv, InsertInv, SignInv, EvidenceInv, HasEvidence,
         RecordBeforeSign, ConflictsFaithful, Recorded, vars
<1> QED
  BY <1>6, <1>7, <1>8, <1>9, <1>10, <1>11, <1>12, <1>13, <1>14, <1>15, <1>16
  DEF Next, Step

LEMMA StoreInit == Init => StoreInv
<1> SUFFICES ASSUME Init PROVE StoreInv
  OBVIOUS
<1>1. TypeOK
  BY StoreAssumption DEF Init, TypeOK, PCs, Outcomes, Conflict
<1>2. RowInv /\ LockInv /\ InsertInv /\ SignInv /\ EvidenceInv
  BY StoreAssumption DEF Init, RowInv, LockInv, InsertInv, SignInv, EvidenceInv
<1>3. RecordBeforeSign
  BY DEF Init, RecordBeforeSign
<1>4. ConflictsFaithful
  BY DEF Init, ConflictsFaithful
<1> QED BY <1>1, <1>2, <1>3, <1>4 DEF StoreInv

LEMMA StoreInvariant == Spec => []StoreInv
  BY StoreInit, StoreStep, PTL DEF Spec

-----------------------------------------------------------------------------
(* What the invariant gives.                                               *)

\* A signature is covered by a durable row of its digest, across crashes.
THEOREM SignedIsRecorded == Spec => []RecordBeforeSign
  BY StoreInvariant, PTL DEF StoreInv

\* No guard key ever has signatures over two digests.
THEOREM NeverEquivocates == Spec => []NoEquivocation
<1>1. StoreInv => NoEquivocation
  BY DEF StoreInv, RecordBeforeSign, NoEquivocation
<1> QED BY <1>1, StoreInvariant, PTL

\* Every conflict row names the recorded digest and one that differs.
THEOREM EvidenceIsTrue == Spec => []ConflictsFaithful
  BY StoreInvariant, PTL DEF StoreInv

\* EquivocationError leaves its row, and no signature over what it refused.
THEOREM RefusalIsRecorded == Spec => []RefusalLeavesEvidence
<1>1. ASSUME StoreInv PROVE RefusalLeavesEvidence
  <2> SUFFICES ASSUME NEW p \in Procs, outcome[p] = "equivocation"
               PROVE  /\ HasEvidence(request[p].key, request[p].digest)
                      /\ signed[request[p].key][request[p].digest] = 0
    BY DEF RefusalLeavesEvidence
  <2> DEFINE k == request[p].key
             d == request[p].digest
  <2>1. k \in Keys /\ d \in Digests /\ signed[k][d] \in Nat
    BY <1>1 DEF StoreInv, TypeOK
  <2>2. HasEvidence(k, d)
    BY <1>1 DEF StoreInv, EvidenceInv
  <2>3. Recorded(k) # d
    BY <1>1, <2>2 DEF StoreInv, ConflictsFaithful, HasEvidence
  <2>4. ~ (signed[k][d] > 0)
    BY <1>1, <2>1, <2>3 DEF StoreInv, RecordBeforeSign
  <2> QED BY <2>1, <2>2, <2>4
<1> QED BY <1>1, StoreInvariant, PTL

\* The tables only grow: no step of any process, crash or restart included,
\* changes a recorded digest, lowers a sign_count or rewrites a conflict row.
THEOREM TablesGrow == Spec => TablesOnlyGrow
<1> DEFINE Grow ==
      /\ \A k \in Keys : Recorded(k) # NoDigest =>
            /\ guardKeys'[k].digest = Recorded(k)
            /\ guardKeys'[k].count >= guardKeys[k].count
      /\ Len(conflicts') >= Len(conflicts)
      /\ \A i \in 1..Len(conflicts) : conflicts'[i] = conflicts[i]
<1>1. StoreInv /\ [Next]_vars => [Grow]_vars
  BY RecordStays, ConflictsStay DEF StoreInv, Recorded
<1> QED BY <1>1, StoreInvariant, PTL DEF Spec, TablesOnlyGrow

-----------------------------------------------------------------------------
(* The store implements AntiEquivocation.                                  *)

PromiseRecorded == [k \in Keys |-> guardKeys[k].digest]
PromiseIssued == [k \in Keys |-> {d \in Digests : signed[k][d] > 0}]
PromiseEvidence == {conflicts[i] : i \in 1..Len(conflicts)}

\* A step that leaves the tables and the signatures alone is a stutter.
LEMMA PromiseStutters ==
    ASSUME UNCHANGED <<tables, signed>>
    PROVE  UNCHANGED Promise!vars
  BY DEF tables, Promise!vars

\* The first commit under a key is the promise's Record.
LEMMA FirstIsRecord ==
    ASSUME StoreInv, NEW p \in Procs, Commit(p), CommitFirst(p),
           NEW k \in Keys, NEW d \in Digests,
           k = request[p].key, d = request[p].digest
    PROVE  Promise!Record(k, d)
<1>1. k \in Keys /\ d \in Digests
  BY DEF StoreInv, TypeOK
<1>2. /\ Recorded(k) = NoDigest /\ guardKeys'[k].digest = d
      /\ \A j \in Keys \ {k} : guardKeys'[j] = guardKeys[j]
  BY <1>1, FirstRecords DEF StoreInv, Recorded
<1>3. UNCHANGED <<signed, conflicts>>
  BY DEF Commit, CommitFirst
<1>4. PromiseRecorded[k] = NoDigest
  BY <1>1, <1>2 DEF PromiseRecorded, Recorded
<1>5. PromiseRecorded' = [PromiseRecorded EXCEPT ![k] = d]
  BY <1>1, <1>2 DEF PromiseRecorded
<1>6. UNCHANGED <<PromiseIssued, PromiseEvidence>>
  BY <1>3 DEF PromiseIssued, PromiseEvidence
<1> QED
  BY <1>4, <1>5, <1>6
  DEF Promise!Record, PromiseRecorded, PromiseIssued, PromiseEvidence

\* A re-sign's commit is invisible: the digest was on record already.
LEMMA IdempotentStutters ==
    ASSUME StoreInv, NEW p \in Procs, Commit(p), CommitIdempotent(p)
    PROVE  UNCHANGED Promise!vars
<1>1. UNCHANGED <<signed, conflicts>>
  BY DEF Commit, CommitIdempotent
<1>2. UNCHANGED PromiseRecorded
  BY IdempotentKeeps DEF StoreInv, Recorded, PromiseRecorded
<1>3. UNCHANGED <<PromiseIssued, PromiseEvidence>>
  BY <1>1 DEF PromiseIssued, PromiseEvidence
<1> QED BY <1>2, <1>3
        DEF Promise!vars, PromiseRecorded, PromiseIssued, PromiseEvidence

\* The commit of a conflict row is the promise's Refuse.
LEMMA ConflictIsRefuse ==
    ASSUME StoreInv, NEW p \in Procs, Commit(p), CommitConflict(p),
           NEW k \in Keys, NEW d \in Digests,
           k = request[p].key, d = request[p].digest
    PROVE  Promise!Refuse(k, d)
<1> DEFINE e == [key |-> k, previous |-> row[p], attempted |-> d]
           n == Len(conflicts)
<1>1. k \in Keys /\ d \in Digests
  BY DEF StoreInv, TypeOK
<1>2. /\ row[p] = Recorded(k) /\ Recorded(k) \notin {NoDigest, d}
      /\ UNCHANGED <<guardKeys, signed>>
  BY DEF Commit, CommitConflict, StoreInv, RowInv
<1>3. e \in Conflict /\ conflicts \in Seq(Conflict)
  BY <1>1 DEF CommitConflict, Conflict, StoreInv, TypeOK
<1>4. conflicts' = Append(conflicts, e)
  BY DEF CommitConflict
<1>5. e = [key |-> k, previous |-> PromiseRecorded[k], attempted |-> d]
  BY <1>1, <1>2 DEF PromiseRecorded, Recorded
<1>6. PromiseRecorded[k] \notin {NoDigest, d}
  BY <1>1, <1>2 DEF PromiseRecorded, Recorded
<1> HIDE DEF e
<1>7. PromiseEvidence' = PromiseEvidence \cup {e}
  <2>1. /\ n \in Nat /\ Len(conflicts') = n + 1 /\ conflicts'[n + 1] = e
        /\ \A i \in 1..n : conflicts'[i] = conflicts[i]
    BY <1>3, <1>4, AppendProperties
  <2>2. 1..(n + 1) = (1..n) \cup {n + 1}
    BY <2>1
  <2>3. PromiseEvidence' = {conflicts'[i] : i \in 1..(n + 1)}
    BY <2>1 DEF PromiseEvidence
  <2> QED BY <2>1, <2>2, <2>3 DEF PromiseEvidence
<1>8. UNCHANGED <<PromiseRecorded, PromiseIssued>>
  BY <1>2 DEF PromiseRecorded, PromiseIssued
<1> QED
  BY <1>5, <1>6, <1>7, <1>8
  DEF Promise!Refuse, PromiseRecorded, PromiseIssued, PromiseEvidence

\* Signing is the promise's Issue, of the digest on record.
LEMMA SignIsIssue ==
    ASSUME StoreInv, NEW p \in Procs, Sign(p),
           NEW k \in Keys, NEW d \in Digests,
           k = request[p].key, d = request[p].digest
    PROVE  Promise!Issue(k, d)
<1>1. /\ k \in Keys /\ d \in Digests
      /\ signed \in [Keys -> [Digests -> Nat]]
      /\ UNCHANGED tables
      /\ Recorded(k) = d
  BY DEF Sign, StoreInv, TypeOK, SignInv
<1>2. signed' = [signed EXCEPT ![k] = [signed[k] EXCEPT ![d] = @ + 1]]
  BY DEF Sign
<1>3. PromiseIssued' = [PromiseIssued EXCEPT ![k] = @ \cup {d}]
  <2>1. ASSUME NEW j \in Keys
        PROVE  {c \in Digests : signed'[j][c] > 0}
                 = IF j = k THEN {c \in Digests : signed[j][c] > 0} \cup {d}
                            ELSE {c \in Digests : signed[j][c] > 0}
    <3>1. \A c \in Digests : signed[j][c] \in Nat
      BY <1>1
    <3>2. j # k => signed'[j] = signed[j]
      BY <1>1, <1>2
    <3>3. j = k => \A c \in Digests :
             signed'[j][c] = IF c = d THEN signed[j][c] + 1 ELSE signed[j][c]
      BY <1>1, <1>2
    <3> QED BY <1>1, <3>1, <3>2, <3>3
  <2> QED BY <1>1, <2>1 DEF PromiseIssued
<1>4. PromiseRecorded[k] = d /\ UNCHANGED <<PromiseRecorded, PromiseEvidence>>
  BY <1>1 DEF PromiseRecorded, PromiseEvidence, Recorded, tables
<1> QED
  BY <1>3, <1>4
  DEF Promise!Issue, PromiseRecorded, PromiseIssued, PromiseEvidence

\* The processes, their locks, crashes and races keep what the witness
\* promises: every behaviour of the store is one of AntiEquivocation.
THEOREM StoreKeepsPromise == Spec => KeepsPromise
<1>1. Init => Promise!Init
  <2> SUFFICES ASSUME Init PROVE Promise!Init
    OBVIOUS
  <2>1. PromiseRecorded = [k \in Keys |-> NoDigest]
    BY DEF Init, PromiseRecorded
  <2>2. PromiseIssued = [k \in Keys |-> {}]
    BY DEF Init, PromiseIssued
  <2>3. PromiseEvidence = {}
    BY DEF Init, PromiseEvidence
  <2> QED BY <2>1, <2>2, <2>3
          DEF Promise!Init, PromiseRecorded, PromiseIssued, PromiseEvidence
<1>2. StoreInv /\ [Next]_vars => [Promise!Next]_(Promise!vars)
  <2> SUFFICES ASSUME StoreInv, [Next]_vars PROVE [Promise!Next]_(Promise!vars)
    OBVIOUS
  <2>0. ASSUME NEW p \in Procs
        PROVE  \E k \in Keys, d \in Digests : k = request[p].key /\ d = request[p].digest
    BY DEF StoreInv, TypeOK
  <2>1. ASSUME NEW p \in Procs, Commit(p) PROVE [Promise!Next]_(Promise!vars)
    <3> PICK k \in Keys, d \in Digests : k = request[p].key /\ d = request[p].digest
      BY <2>0
    <3>1. CASE CommitFirst(p)
      <4>1. Promise!Record(k, d)
        BY <2>1, <3>1, FirstIsRecord
      <4> QED BY <4>1 DEF Promise!Next
    <3>2. CASE CommitIdempotent(p)
      BY <2>1, <3>2, IdempotentStutters
    <3>3. CASE CommitConflict(p)
      <4>1. Promise!Refuse(k, d)
        BY <2>1, <3>3, ConflictIsRefuse
      <4> QED BY <4>1 DEF Promise!Next
    <3> QED BY <2>1, <3>1, <3>2, <3>3 DEF Commit
  <2>2. ASSUME NEW p \in Procs, Sign(p) PROVE [Promise!Next]_(Promise!vars)
    <3> PICK k \in Keys, d \in Digests : k = request[p].key /\ d = request[p].digest
      BY <2>0
    <3>1. Promise!Issue(k, d)
      BY <2>2, SignIsIssue
    <3> QED BY <3>1 DEF Promise!Next
  <2>3. CASE ~ \E p \in Procs : Commit(p) \/ Sign(p)
    <3>1. UNCHANGED <<tables, signed>>
      BY <2>3 DEF Next, Step, Request, Select, Write, InsertRefused, Locked, CommitLocked,
                  Crash, Restart, vars, tables
    <3> QED BY <3>1, PromiseStutters
  <2> QED BY <2>1, <2>2, <2>3
<1> QED BY <1>1, <1>2, StoreInvariant, PTL DEF Spec, KeepsPromise, Promise!Spec

-----------------------------------------------------------------------------
(* Signatures are counted.                                                 *)

\* The calls between their commit and their signature are finitely many, for
\* each has entered by one step; counted with them, sign_count is enough.
CountInv == SignCountCovers /\ \A k \in Keys : IsFiniteSet(InFlight(k))

\* A key without a row has no signatures, handed out or about to be.
LEMMA NothingUnrecorded ==
    ASSUME StoreInv, NEW k \in Keys, Recorded(k) = NoDigest
    PROVE  InFlight(k) = {} /\ \A d \in Digests : signed[k][d] = 0
<1>1. \A d \in Digests : signed[k][d] \in Nat /\ d # NoDigest
  BY StoreAssumption DEF StoreInv, TypeOK
<1>2. \A d \in Digests : signed[k][d] = 0
  BY <1>1 DEF StoreInv, RecordBeforeSign
<1>3. \A p \in Procs : request[p].digest # NoDigest
  BY StoreAssumption DEF StoreInv, TypeOK
<1> QED BY <1>2, <1>3 DEF StoreInv, SignInv, InFlight

\* A step after which no more calls are about to sign one key keeps its count.
LEMMA CountKept ==
    ASSUME StoreInv, CountInv, NEW k \in Keys, InFlight(k)' \subseteq InFlight(k),
           guardKeys'[k] = guardKeys[k], signed'[k] = signed[k]
    PROVE  /\ IsFiniteSet(InFlight(k)')
           /\ \A d \in Digests : Recorded(k)' = d =>
                 signed'[k][d] + Cardinality(InFlight(k)') <= guardKeys'[k].count
<1>1. IsFiniteSet(InFlight(k)) /\ InFlight(k)' \in SUBSET InFlight(k)
  BY DEF CountInv
<1>2. IsFiniteSet(InFlight(k)') /\ Cardinality(InFlight(k)') <= Cardinality(InFlight(k))
  BY <1>1, FS_Subset
<1>3. Cardinality(InFlight(k)') \in Nat /\ Cardinality(InFlight(k)) \in Nat
  BY <1>1, <1>2, FS_CardinalityType
<1>4. guardKeys[k].count \in Nat /\ \A d \in Digests : signed[k][d] \in Nat
  BY DEF StoreInv, TypeOK
<1>5. ASSUME NEW d \in Digests, Recorded(k)' = d
      PROVE  signed'[k][d] + Cardinality(InFlight(k)') <= guardKeys'[k].count
  <2>1. signed[k][d] + Cardinality(InFlight(k)) <= guardKeys[k].count
    BY <1>5 DEF CountInv, SignCountCovers, Recorded
  <2> HIDE DEF InFlight
  <2> QED BY <1>2, <1>3, <1>4, <2>1
<1> QED BY <1>2, <1>5

\* The calls about to sign, after a step of p.
LEMMA InFlightAfter ==
    ASSUME TypeOK, NEW p \in Procs, NEW k \in Keys,
           pc' = [pc EXCEPT ![p] = pc'[p]],
           request' = [request EXCEPT ![p] = request'[p]]
    PROVE  /\ pc'[p] # "sign" => InFlight(k)' = InFlight(k) \ {p}
           /\ pc'[p] = "sign" /\ request'[p] = request[p] =>
                 InFlight(k)' = IF request[p].key = k THEN InFlight(k) \cup {p}
                                                      ELSE InFlight(k) \ {p}
<1>1. \A q \in Procs : q # p => pc'[q] = pc[q] /\ request'[q] = request[q]
  BY DEF TypeOK
<1> QED BY <1>1 DEF InFlight

\* A step of p that neither commits nor signs.
LEMMA OtherStepsCount ==
    ASSUME StoreInv, CountInv, NEW p \in Procs,
           pc' = [pc EXCEPT ![p] = pc'[p]],
           request' = [request EXCEPT ![p] = request'[p]],
           pc'[p] # "sign", UNCHANGED <<guardKeys, signed>>
    PROVE  CountInv'
<1> SUFFICES ASSUME NEW k \in Keys
             PROVE  /\ IsFiniteSet(InFlight(k)')
                    /\ \A d \in Digests : Recorded(k)' = d =>
                          signed'[k][d] + Cardinality(InFlight(k)') <= guardKeys'[k].count
  BY DEF CountInv, SignCountCovers
<1>1. InFlight(k)' \subseteq InFlight(k)
  BY InFlightAfter DEF StoreInv
<1> QED BY <1>1, CountKept

\* A commit that ends in a signature counts it beforehand; one that ends in
\* a conflict changes no count.
LEMMA CommitCounts ==
    ASSUME StoreInv, CountInv, NEW p \in Procs, Commit(p)
    PROVE  CountInv'
<1>1. CASE CommitConflict(p)
  <2>1. /\ pc' = [pc EXCEPT ![p] = pc'[p]] /\ pc'[p] # "sign"
        /\ request' = [request EXCEPT ![p] = request'[p]]
        /\ UNCHANGED <<guardKeys, signed>>
    BY <1>1 DEF Commit, CommitConflict, End, StoreInv, TypeOK
  <2> QED BY <2>1, OtherStepsCount
<1>2. CASE CommitFirst(p) \/ CommitIdempotent(p)
  <2> SUFFICES ASSUME NEW k \in Keys
               PROVE  /\ IsFiniteSet(InFlight(k)')
                      /\ \A d \in Digests : Recorded(k)' = d =>
                            signed'[k][d] + Cardinality(InFlight(k)') <= guardKeys'[k].count
    BY DEF CountInv, SignCountCovers
  <2>1. /\ pc' = [pc EXCEPT ![p] = pc'[p]] /\ pc'[p] = "sign" /\ signed' = signed
        /\ request' = [request EXCEPT ![p] = request'[p]] /\ request'[p] = request[p]
    BY <1>2 DEF Commit, CommitFirst, CommitIdempotent, StoreInv, TypeOK
  <2>2. InFlight(k)' = IF request[p].key = k THEN InFlight(k) \cup {p} ELSE InFlight(k) \ {p}
    BY <2>1, InFlightAfter DEF StoreInv
  <2>3. CASE request[p].key # k
    <3>1. guardKeys'[k] = guardKeys[k]
      BY <1>2, <2>3 DEF CommitFirst, CommitIdempotent, StoreInv, TypeOK
    <3> QED BY <2>1, <2>2, <2>3, <3>1, CountKept
  <2>4. CASE request[p].key = k
    <3>1. IsFiniteSet(InFlight(k)) /\ InFlight(k)' = InFlight(k) \cup {p}
      BY <2>2, <2>4 DEF CountInv
    <3>2. /\ IsFiniteSet(InFlight(k)')
          /\ Cardinality(InFlight(k)) \in Nat /\ Cardinality(InFlight(k)') \in Nat
          /\ Cardinality(InFlight(k)') <= Cardinality(InFlight(k)) + 1
      <4> HIDE DEF InFlight
      <4>1. /\ IsFiniteSet(InFlight(k) \cup {p})
            /\ Cardinality(InFlight(k) \cup {p})
                  \in {Cardinality(InFlight(k)), Cardinality(InFlight(k)) + 1}
        BY <3>1, FS_AddElement
      <4>2. Cardinality(InFlight(k)) \in Nat /\ IsFiniteSet(InFlight(k)')
        BY <3>1, <4>1, FS_CardinalityType
      <4>3. Cardinality(InFlight(k)') \in Nat
        BY <4>2, FS_CardinalityType
      <4> QED BY <3>1, <4>1, <4>2, <4>3
    <3>3. /\ guardKeys[k].count \in Nat /\ \A d \in Digests : signed[k][d] \in Nat
          /\ \A d \in Digests : Recorded(k) = d =>
                signed[k][d] + Cardinality(InFlight(k)) <= guardKeys[k].count
      BY DEF StoreInv, TypeOK, CountInv, SignCountCovers
    <3>4. ASSUME NEW d \in Digests, Recorded(k)' = d
          PROVE  signed'[k][d] + Cardinality(InFlight(k)') <= guardKeys'[k].count
      <4>1. CASE CommitFirst(p)
        <5>1. Recorded(k) = NoDigest
          BY <2>4, <4>1, FirstRecords DEF StoreInv
        <5>2. signed[k][d] = 0 /\ Cardinality(InFlight(k)) = 0
          BY <5>1, NothingUnrecorded, FS_EmptySet
        <5>3. guardKeys'[k].count = 1
          BY <2>4, <4>1 DEF CommitFirst, StoreInv, TypeOK
        <5> QED BY <2>1, <3>2, <5>2, <5>3
      <4>2. CASE CommitIdempotent(p)
        <5>1. Recorded(k) = d /\ guardKeys'[k].count = guardKeys[k].count + 1
          BY <2>4, <3>4, <4>2 DEF CommitIdempotent, Recorded, StoreInv, TypeOK
        <5>2. signed[k][d] + Cardinality(InFlight(k)) <= guardKeys[k].count
          BY <3>3, <5>1
        <5> QED BY <2>1, <3>2, <3>3, <5>1, <5>2
      <4> QED BY <1>2, <4>1, <4>2
    <3> QED BY <3>2, <3>4
  <2> QED BY <2>3, <2>4
<1> QED BY <1>1, <1>2 DEF Commit

\* A signature that is handed out is no longer about to be.
LEMMA SignCounts ==
    ASSUME StoreInv, CountInv, NEW p \in Procs, Sign(p)
    PROVE  CountInv'
<1> SUFFICES ASSUME NEW k \in Keys
             PROVE  /\ IsFiniteSet(InFlight(k)')
                    /\ \A d \in Digests : Recorded(k)' = d =>
                          signed'[k][d] + Cardinality(InFlight(k)') <= guardKeys'[k].count
  BY DEF CountInv, SignCountCovers
<1>1. /\ pc' = [pc EXCEPT ![p] = pc'[p]] /\ pc'[p] # "sign" /\ guardKeys' = guardKeys
      /\ request' = [request EXCEPT ![p] = request'[p]]
  BY DEF Sign, StoreInv, TypeOK, tables
<1>2. InFlight(k)' = InFlight(k) \ {p}
  BY <1>1, InFlightAfter DEF StoreInv
<1>3. CASE request[p].key # k
  <2>1. signed'[k] = signed[k]
    BY <1>3 DEF Sign, StoreInv, TypeOK
  <2> QED BY <1>1, <1>2, <2>1, CountKept
<1>4. CASE request[p].key = k
  <2>1. IsFiniteSet(InFlight(k)) /\ p \in InFlight(k)
    BY <1>4 DEF CountInv, InFlight, Sign
  <2>2. /\ IsFiniteSet(InFlight(k)')
        /\ Cardinality(InFlight(k)) \in Nat /\ Cardinality(InFlight(k)') \in Nat
        /\ Cardinality(InFlight(k)') = Cardinality(InFlight(k)) - 1
    BY <1>2, <2>1, FS_RemoveElement, FS_CardinalityType
  <2>3. ASSUME NEW d \in Digests, Recorded(k)' = d
        PROVE  signed'[k][d] + Cardinality(InFlight(k)') <= guardKeys'[k].count
    <3>1. signed[k][d] + Cardinality(InFlight(k)) <= guardKeys[k].count
      BY <1>1, <2>3 DEF CountInv, SignCountCovers, Recorded
    <3>2. signed[k][d] \in Nat /\ guardKeys[k].count \in Nat
      BY DEF StoreInv, TypeOK
    <3>3. signed'[k][d] <= signed[k][d] + 1 /\ signed'[k][d] \in Nat
      BY <1>4 DEF Sign, StoreInv, TypeOK
    <3> QED BY <1>1, <2>2, <3>1, <3>2, <3>3
  <2> QED BY <2>2, <2>3
<1> QED BY <1>3, <1>4

\* sign_count never understates the signatures of its key, in any
\* interleaving of re-signs and crashes.
THEOREM SignaturesAreCounted == Spec => []SignCountCovers
<1>1. Init => CountInv
  <2> SUFFICES ASSUME Init PROVE CountInv
    OBVIOUS
  <2>1. \A k \in Keys : InFlight(k) = {}
    BY DEF Init, InFlight
  <2>2. \A k \in Keys, d \in Digests : Recorded(k) # d
    BY StoreAssumption DEF Init, Recorded
  <2> QED BY <2>1, <2>2, FS_EmptySet DEF CountInv, SignCountCovers
<1>2. StoreInv /\ CountInv /\ [Next]_vars => CountInv'
  <2> SUFFICES ASSUME StoreInv, CountInv, [Next]_vars PROVE CountInv'
    OBVIOUS
  <2>1. CASE UNCHANGED vars
    BY <2>1 DEF vars, CountInv, SignCountCovers, InFlight, Recorded
  <2>2. ASSUME NEW p \in Procs,
               \/ \E k \in Keys, d \in Digests : Request(p, k, d)
               \/ Select(p) \/ Write(p) \/ InsertRefused(p) \/ Locked(p)
               \/ CommitLocked(p) \/ Crash(p) \/ Restart(p)
        PROVE  CountInv'
    <3>1. /\ pc' = [pc EXCEPT ![p] = pc'[p]] /\ pc'[p] # "sign"
          /\ request' = [request EXCEPT ![p] = request'[p]]
          /\ UNCHANGED <<guardKeys, signed>>
      BY <2>2 DEF Request, Select, Write, InsertRefused, Locked, CommitLocked, Crash,
                  Restart, End, tables, StoreInv, TypeOK
    <3> QED BY <3>1, OtherStepsCount
  <2> QED BY <2>1, <2>2, CommitCounts, SignCounts DEF Next, Step
<1>3. CountInv => SignCountCovers
  BY DEF CountInv
<1> QED BY <1>1, <1>2, <1>3, StoreInvariant, PTL DEF Spec
=============================================================================

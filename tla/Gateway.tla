------------------------------- MODULE Gateway -------------------------------
(***************************************************************************)
(* The gateway (src/witness/gateway.py): run_cycle fetches a snapshot,     *)
(* validates it, has the L1 witness sign the observation subject, and      *)
(* returns a hash-linked chain of receipts.  Several cycles run, side by   *)
(* side or one after the other, against one source and one witness.        *)
(*                                                                         *)
(* The fetch is Observer's and the witness is AntiEquivocation's promise,  *)
(* which GuardKeyStore implements: a cycle asks it to Record or Refuse and *)
(* then to Issue, in two steps, because the process may stop in between.   *)
(* Chains live in the memory of their cycle: what run_cycle does not       *)
(* return is lost.  What the witness recorded and issued is not.           *)
(***************************************************************************)
EXTENDS Observer, SequencesExt

CONSTANTS
    Dates,      \* the values of current.asOf that are strings without a '|'
    NoSubject   \* "no observation subject"

Cycles == Callers
Snapshots == Bodies \* what the source may serve

Undated == "undated"    \* current.asOf is absent, null or empty
Unkeyable == "unkeyable" \* current.asOf holds a '|', or is no string
Unknown == "unknown"    \* the timestamp the gateway puts for an Undated one

(* What run_cycle can tell of the bytes of a snapshot:                     *)
(*   form    json.loads raises JSONDecodeError ("malformed") or another    *)
(*           error ("undecodable"), validate raises ("raises"), or returns *)
(*           a verdict                                                     *)
(*   asOf    current.asOf                                                  *)
(*   canonical  whether canonicalize accepts the values validate echoes    *)
Snapshot == [id : Nat,
             form : {"undecodable", "malformed", "raises", "passed", "failed"},
             asOf : Dates \cup {Undated, Unkeyable},
             canonical : BOOLEAN]

ASSUME GatewayAssumption ==
    /\ Snapshots \subseteq Snapshot
    /\ Dates \cap {Undated, Unkeyable, Unknown} = {}

\* build_observation_subject, for the one source_url of the gateway.
Timestamps == Dates \cup {Unknown}
Subjects == [timestamp : Timestamps, bytes : Snapshots, passed : BOOLEAN]

ASSUME NoSubjectAssumption == NoSubject \notin Subjects

VARIABLES
    pc,         \* where each cycle is in run_cycle
    chain,      \* the receipts of each cycle
    prevRoot,   \* prev_root
    seq,        \* seq
    signature,  \* witness_sig: the subject it covers
    exception,  \* what run_cycle raised
    output,     \* what run_cycle returned: CycleOutput
    recorded,   \* the witness: see AntiEquivocation
    issued,
    evidence

receiptVars == <<chain, prevRoot, seq, signature, output>>
cycleVars == <<pc, chain, prevRoot, seq, signature, exception, output>>
witnessVars == <<recorded, issued, evidence>>
vars == <<cycleVars, witnessVars, observerVars>>

Witness == INSTANCE AntiEquivocation WITH
    Keys <- Timestamps, Digests <- Subjects, NoDigest <- NoSubject

Running == {"fetch", "request", "respond", "validate", "witness", "issue",
            "verdict", "observe", "finalize"}
PCs == Running \cup {"idle", "returned", "raised", "crashed"}

NoOutput == [observation_succeeded |-> FALSE, bytes |-> NoBody,
             subject |-> NoSubject, head |-> <<>>]

-----------------------------------------------------------------------------
(* Receipts.                                                               *)

\* SHA-256 over the previous root, the payload and the signatures: different
\* arguments have different roots, so a root is the list of what it covers.
Genesis == <<>>
StateRoot(previous, content) == Append(previous, content)

\* A receipt: the payload, the operator's signature, which is on all of
\* them, the subject of the witness's, and the resulting root.
Receipt(c, kind, body, previous, number, witness) ==
    [receipt_kind |-> kind, sequence |-> number, previous_state_root |-> previous,
     body |-> body, witness |-> witness,
     state_root |-> StateRoot(previous, <<c, kind, number, body, witness>>)]

\* Mutant of AppendReceipt: prev_root is not moved on.
AppendReceiptStaleRoot(c, kind, body, witness) ==
    /\ chain' = [chain EXCEPT ![c] =
                    Append(@, Receipt(c, kind, body, prevRoot[c], seq[c], witness))]
    /\ seq' = [seq EXCEPT ![c] = @ + 1]
    /\ UNCHANGED prevRoot

\* chain.append(_build_and_sign(...)); prev_root = ...; seq += 1.
AppendReceipt(c, kind, body, witness) ==
    LET r == Receipt(c, kind, body, prevRoot[c], seq[c], witness)
    IN  /\ chain' = [chain EXCEPT ![c] = Append(@, r)]
        /\ prevRoot' = [prevRoot EXCEPT ![c] = r.state_root]
        /\ seq' = [seq EXCEPT ![c] = @ + 1]

Goto(c, where) == pc' = [pc EXCEPT ![c] = where]

\* An exception leaves run_cycle.
Raise(c, what) ==
    /\ Goto(c, "raised")
    /\ exception' = [exception EXCEPT ![c] = what]

Init ==
    /\ ObserverInit
    /\ Witness!Init
    /\ pc = [c \in Cycles |-> "idle"]
    /\ chain = [c \in Cycles |-> <<>>]
    /\ prevRoot = [c \in Cycles |-> Genesis]
    /\ seq = [c \in Cycles |-> 0]
    /\ signature = [c \in Cycles |-> NoSubject]
    /\ exception = [c \in Cycles |-> "none"]
    /\ output = [c \in Cycles |-> NoOutput]

-----------------------------------------------------------------------------
(* run_cycle, one action for each stretch between two effects that other   *)
(* cycles or the outside can see.                                          *)

Start(c) ==
    /\ pc[c] = "idle"
    /\ AppendReceipt(c, "session.start", <<>>, NoSubject)
    /\ Fetch(c)
    /\ Goto(c, "fetch")
    /\ UNCHANGED <<signature, exception, output, witnessVars>>

\* The manifest has no payload_digest: ValueError before the first receipt.
StartUnbound(c) ==
    /\ pc[c] = "idle"
    /\ Raise(c, "ValueError")
    /\ UNCHANGED <<receiptVars, witnessVars, observerVars>>

FetchAttempt(c) ==
    /\ pc[c] = "fetch"
    /\ ObserverStep(c)
    /\ UNCHANGED <<cycleVars, witnessVars>>

\* An exception that fetch lets through is no ObserverError, and leaves
\* run_cycle too.
FetchRaises(c) ==
    /\ pc[c] = "fetch"
    /\ AttemptRaises(c)
    /\ Raise(c, "httpx.InvalidURL")
    /\ UNCHANGED <<receiptVars, witnessVars>>

\* data.request, then source.unavailable when the observer gave up.
Request(c) ==
    /\ pc[c] = "fetch"
    /\ fetching[c] \in {"fetched", "exhausted"}
    /\ AppendReceipt(c, "data.request", [attempts |-> attempts[c]], NoSubject)
    /\ Goto(c, "request")
    /\ UNCHANGED <<signature, exception, output, witnessVars, observerVars>>

Unavailable(c) ==
    /\ pc[c] = "request"
    /\ fetching[c] = "exhausted"
    /\ AppendReceipt(c, "source.unavailable", <<>>, NoSubject)
    /\ Goto(c, "finalize")
    /\ UNCHANGED <<signature, exception, output, witnessVars, observerVars>>

Respond(c) ==
    /\ pc[c] = "request"
    /\ fetching[c] = "fetched"
    /\ AppendReceipt(c, "data.response", [bytes |-> observed[c]], NoSubject)
    /\ Goto(c, "validate")
    /\ UNCHANGED <<signature, exception, output, witnessVars, observerVars>>

\* json.loads raises something that is not a JSONDecodeError (bytes that are
\* no text): the exception leaves run_cycle.
Undecodable(c) ==
    /\ pc[c] = "validate"
    /\ observed[c].form = "undecodable"
    /\ Raise(c, "UnicodeDecodeError")
    /\ UNCHANGED <<receiptVars, witnessVars, observerVars>>

\* JSONDecodeError, or any exception of validate.
ValidatorException(c) ==
    /\ pc[c] = "validate"
    /\ observed[c].form \in {"malformed", "raises"}
    /\ AppendReceipt(c, "validator.exception", [bytes |-> observed[c]], NoSubject)
    /\ Goto(c, "finalize")
    /\ UNCHANGED <<signature, exception, output, witnessVars, observerVars>>

\* summary.get("as_of") or "unknown".
UpstreamTimestamp(snapshot) ==
    IF snapshot.asOf = Undated THEN Unknown ELSE snapshot.asOf

\* Mutant of Subject: the subject is the same whatever the bytes said.
SubjectBlind(snapshot) ==
    [timestamp |-> UpstreamTimestamp(snapshot), bytes |-> snapshot, passed |-> TRUE]

Subject(snapshot) ==
    [timestamp |-> UpstreamTimestamp(snapshot), bytes |-> snapshot,
     passed |-> snapshot.form = "passed"]

Judged(c) ==
    /\ pc[c] = "validate"
    /\ observed[c].form \in {"passed", "failed"}

\* GuardKey.to_canonical raises ValueError or TypeError.
GuardKeyRefused(c) ==
    /\ Judged(c)
    /\ observed[c].asOf = Unkeyable
    /\ Raise(c, "GuardKeyError")
    /\ UNCHANGED <<receiptVars, witnessVars, observerVars>>

\* sign_subject, up to the return of record_or_check: the subject is, or was
\* already, the one recorded for its timestamp.
Commit(c) ==
    LET s == Subject(observed[c])
    IN  /\ Judged(c)
        /\ observed[c].asOf # Unkeyable
        /\ \/ Witness!Record(s.timestamp, s)
           \/ recorded[s.timestamp] = s /\ UNCHANGED witnessVars
        /\ Goto(c, "issue")
        /\ UNCHANGED <<receiptVars, exception, observerVars>>

\* EquivocationError leaves run_cycle.
Equivocation(c) ==
    LET s == Subject(observed[c])
    IN  /\ Judged(c)
        /\ observed[c].asOf # Unkeyable
        /\ Witness!Refuse(s.timestamp, s)
        /\ Raise(c, "EquivocationError")
        /\ UNCHANGED <<receiptVars, observerVars>>

\* An sqlite3 error leaves run_cycle: another cycle keeps the store locked,
\* or has recorded the timestamp after this one found that it had no row.
StoreError(c) ==
    LET s == Subject(observed[c])
    IN  /\ Judged(c)
        /\ observed[c].asOf # Unkeyable
        /\ \/ \E other \in Cycles \ {c} : Judged(other)
           \/ recorded[s.timestamp] # NoSubject
        /\ Raise(c, "sqlite3.Error")
        /\ UNCHANGED <<receiptVars, witnessVars, observerVars>>

\* Mutant of Issue: the subject that is kept has lost the bytes it is about.
IssueEmpty(c) ==
    LET s == Subject(observed[c])
    IN  /\ pc[c] = "issue"
        /\ Witness!Issue(s.timestamp, s)
        /\ signature' = [signature EXCEPT ![c] = [s EXCEPT !.bytes = NoBody]]
        /\ Goto(c, "verdict")
        /\ UNCHANGED <<chain, prevRoot, seq, exception, output, observerVars>>

Issue(c) ==
    LET s == Subject(observed[c])
    IN  /\ pc[c] = "issue"
        /\ Witness!Issue(s.timestamp, s)
        /\ signature' = [signature EXCEPT ![c] = s]
        /\ Goto(c, "verdict")
        /\ UNCHANGED <<chain, prevRoot, seq, exception, output, observerVars>>

VerdictBody(snapshot) ==
    [bytes |-> snapshot, observed_timestamp |-> UpstreamTimestamp(snapshot),
     passed |-> snapshot.form = "passed"]

\* Mutant of Verdict: the observation follows a failed validation too.
VerdictGoesOn(c) ==
    /\ pc[c] = "verdict"
    /\ observed[c].canonical
    /\ AppendReceipt(c, IF observed[c].form = "passed" THEN "validation.result"
                                                       ELSE "validation.failed",
                     VerdictBody(observed[c]), signature[c])
    /\ Goto(c, "observe")
    /\ UNCHANGED <<signature, exception, output, witnessVars, observerVars>>

\* validation.result or validation.failed.
Verdict(c) ==
    LET passed == observed[c].form = "passed"
    IN  /\ pc[c] = "verdict"
        /\ observed[c].canonical
        /\ AppendReceipt(c, IF passed THEN "validation.result" ELSE "validation.failed",
                         VerdictBody(observed[c]), signature[c])
        /\ Goto(c, IF passed THEN "observe" ELSE "finalize")
        /\ UNCHANGED <<signature, exception, output, witnessVars, observerVars>>

\* Mutant of VerdictRefused: the receipt is tried again for ever.
VerdictRetried(c) ==
    /\ pc[c] = "verdict"
    /\ ~ observed[c].canonical
    /\ UNCHANGED vars

\* The body echoes a value JCS has no form for: canonicalize raises.
VerdictRefused(c) ==
    /\ pc[c] = "verdict"
    /\ ~ observed[c].canonical
    /\ Raise(c, "CanonicalizationError")
    /\ UNCHANGED <<receiptVars, witnessVars, observerVars>>

Observation(c) ==
    /\ pc[c] = "observe"
    /\ AppendReceipt(c, "observation", VerdictBody(observed[c]), signature[c])
    /\ Goto(c, "finalize")
    /\ UNCHANGED <<signature, exception, output, witnessVars, observerVars>>

\* Mutant of CheckpointBody: the checkpoint does not count itself.
CheckpointBodyShort(end, before) ==
    [head_state_root |-> end.state_root, receipt_count |-> before + 1]

\* The checkpoint names the root of session.end and counts the whole chain.
CheckpointBody(end, before) ==
    [head_state_root |-> end.state_root, receipt_count |-> before + 2]

\* _finalize: session.end, checkpoint, and the CycleOutput.
Finalize(c) ==
    LET succeeded == signature[c] # NoSubject /\ observed[c].form = "passed"
        end == Receipt(c, "session.end", [observation_succeeded |-> succeeded],
                       prevRoot[c], seq[c], NoSubject)
        checkpoint == Receipt(c, "checkpoint", CheckpointBody(end, Len(chain[c])),
                              end.state_root, seq[c] + 1, NoSubject)
    IN  /\ pc[c] = "finalize"
        /\ chain' = [chain EXCEPT ![c] = @ \o <<end, checkpoint>>]
        /\ prevRoot' = [prevRoot EXCEPT ![c] = end.state_root]
        /\ seq' = [seq EXCEPT ![c] = @ + 1]
        /\ output' = [output EXCEPT ![c] =
              [observation_succeeded |-> succeeded, bytes |-> observed[c],
               subject |-> signature[c], head |-> checkpoint.state_root]]
        /\ Goto(c, "returned")
        /\ UNCHANGED <<signature, exception, witnessVars, observerVars>>

\* The process that runs the cycle dies.
Crash(c) ==
    /\ pc[c] \in Running
    /\ Goto(c, "crashed")
    /\ UNCHANGED <<receiptVars, exception, witnessVars, observerVars>>

RunCycle(c) ==
    \/ FetchAttempt(c) \/ FetchRaises(c) \/ Request(c) \/ Unavailable(c) \/ Respond(c)
    \/ Undecodable(c) \/ ValidatorException(c)
    \/ GuardKeyRefused(c) \/ Commit(c) \/ Equivocation(c) \/ StoreError(c)
    \/ Issue(c) \/ Verdict(c) \/ VerdictRefused(c) \/ Observation(c) \/ Finalize(c)

Next ==
    \E c \in Cycles : Start(c) \/ StartUnbound(c) \/ RunCycle(c) \/ Crash(c)

Spec == Init /\ [][Next]_vars
FairSpec == Spec /\ \A c \in Cycles : WF_vars(RunCycle(c))

-----------------------------------------------------------------------------
(* Safety.                                                                 *)

Kinds == {"session.start", "data.request", "data.response", "validation.result",
          "observation", "session.end", "checkpoint", "source.unavailable",
          "validation.failed", "validator.exception"}
Exceptions == {"none", "ValueError", "httpx.InvalidURL", "UnicodeDecodeError",
               "GuardKeyError", "EquivocationError", "sqlite3.Error",
               "CanonicalizationError"}

TypeOK ==
    /\ ObserverTypeOK
    /\ Witness!TypeOK
    /\ pc \in [Cycles -> PCs]
    /\ \A c \in Cycles : \A i \in DOMAIN chain[c] :
          /\ chain[c][i].receipt_kind \in Kinds
          /\ chain[c][i].witness \in Subjects \cup {NoSubject}
    /\ seq \in [Cycles -> Nat]
    /\ signature \in [Cycles -> Subjects \cup {NoSubject}]
    /\ exception \in [Cycles -> Exceptions]

\* The receipts of a cycle are numbered from 0 and each one's previous state
\* root is the root of the one before it, back to the genesis root; and the
\* roots of two receipts, of one cycle or of two, are never the same.
ChainsAreLinked ==
    \A c \in Cycles : \A i \in DOMAIN chain[c] :
        /\ chain[c][i].sequence = i - 1
        /\ chain[c][i].previous_state_root =
              IF i = 1 THEN Genesis ELSE chain[c][i - 1].state_root
        /\ \A d \in Cycles : \A j \in DOMAIN chain[d] :
              chain[c][i].state_root = chain[d][j].state_root => c = d /\ i = j

\* A chain that run_cycle returns is one of the flows that the docstring and
\* the tests name, and a chain under way can still become one.
KindsOf(c) == [i \in DOMAIN chain[c] |-> chain[c][i].receipt_kind]
Opening == <<"session.start", "data.request">>
Closing == <<"session.end", "checkpoint">>
Flows == {Opening \o middle \o Closing : middle \in {
    <<"source.unavailable">>,
    <<"data.response", "validator.exception">>,
    <<"data.response", "validation.failed">>,
    <<"data.response", "validation.result", "observation">>}}
FlowsAreDocumented ==
    \A c \in Cycles :
        /\ \E f \in Flows : IsPrefix(KindsOf(c), f)
        /\ pc[c] = "returned" <=> KindsOf(c) \in Flows

\* The witness's signature is on the receipts that carry a verdict and on no
\* other; it covers the very timestamp, bytes and verdict of their bodies;
\* and the witness has that subject on record.
WitnessedAsBound ==
    \A c \in Cycles : \A i \in DOMAIN chain[c] :
        LET r == chain[c][i]
            carriesVerdict == r.receipt_kind \in
                {"validation.result", "validation.failed", "observation"}
        IN  /\ carriesVerdict <=> r.witness # NoSubject
            /\ carriesVerdict =>
                 /\ r.witness = [timestamp |-> r.body.observed_timestamp,
                                 bytes |-> r.body.bytes, passed |-> r.body.passed]
                 /\ r.body.passed <=> r.receipt_kind # "validation.failed"
                 /\ recorded[r.witness.timestamp] = r.witness
                 /\ r.witness \in issued[r.witness.timestamp]

\* Across all cycles, finished, failed or under way, the chains never tell
\* two stories about one observed timestamp: same bytes, same verdict.
OneVerdictPerTimestamp ==
    \A c, d \in Cycles : \A i \in DOMAIN chain[c], j \in DOMAIN chain[d] :
        LET r == chain[c][i]
            t == chain[d][j]
        IN  /\ r.witness # NoSubject /\ t.witness # NoSubject
            /\ r.body.observed_timestamp = t.body.observed_timestamp
            => r.body = t.body

\* The CycleOutput agrees with the chain it comes with, on success, on the
\* subject, on the bytes and on the head; and the checkpoint counts the
\* chain and names the root of session.end.
OutputAgreesWithChain ==
    \A c \in Cycles : pc[c] = "returned" =>
        LET n == Len(chain[c])
            has(kind) == \E i \in 1..n : chain[c][i].receipt_kind = kind
            out == output[c]
        IN  /\ out.observation_succeeded <=> has("observation")
            /\ out.observation_succeeded = chain[c][n - 1].body.observation_succeeded
            /\ out.bytes = NoBody <=> has("source.unavailable")
            /\ \A i \in 1..n : "bytes" \in DOMAIN chain[c][i].body
                                  => chain[c][i].body.bytes = out.bytes
            /\ {chain[c][i].witness : i \in 1..n} = {NoSubject, out.subject}
            /\ out.head = chain[c][n].state_root
            /\ chain[c][n].body = [head_state_root |-> chain[c][n - 1].state_root,
                                   receipt_count |-> n]

\* The chain says of the fetch what happened: source.unavailable only after
\* RETRY_ATTEMPTS failures, data.response only after a history that ends in
\* its one success.
RequestTellsAttempts ==
    \A c \in Cycles : Len(chain[c]) > 2 =>
        LET history == chain[c][2].body.attempts
            oks == {i \in DOMAIN history : history[i] = "ok"}
        IN  IF chain[c][3].receipt_kind = "source.unavailable"
            THEN oks = {} /\ Len(history) = RETRY_ATTEMPTS
            ELSE oks = {Len(history)}

(* Liveness, under the fairness of FairSpec.                               *)

\* Every cycle that starts returns, raises, or dies with its process.
EveryCycleEnds ==
    \A c \in Cycles : pc[c] = "fetch" ~> pc[c] \in {"returned", "raised", "crashed"}

-----------------------------------------------------------------------------
(* What the documents say of failures, and the code does not do.           *)
(* gateway.py:65-66: "In every failure case the chain still completes with *)
(* session.end and checkpoint receipts"; README.md:101: failures "are      *)
(* recorded under the same chain, not silently dropped".                   *)

\* A cycle whose snapshot cannot be decoded, fails validation or makes the
\* validator raise does not lose its chain to an exception, but for the
\* conflict of two snapshots of one date, which is the witness's to report.
EveryFailureCompletes ==
    \A c \in Cycles :
        exception[c] \in {"UnicodeDecodeError", "CanonicalizationError", "EquivocationError"}
        => \/ observed[c].form = "passed"
           \/ exception[c] = "EquivocationError" /\ observed[c].asOf \in Dates
=============================================================================

------------------------------- MODULE Bundle -------------------------------
(***************************************************************************)
(* Bundle assembly (src/witness/bundle.py): assemble_bundle writes the     *)
(* files of a certificate bundle into a directory one by one, and          *)
(* bundle-manifest.json, with the digest of every file it wrote, last.     *)
(*                                                                         *)
(* The directory is created if it is missing and taken as it is if it is   *)
(* not; a file is opened, which empties it, and then written; the process  *)
(* may die anywhere.  Each member of Assemblers is one call, for the       *)
(* output of one cycle: with one of them the directory is fresh, with two  *)
(* it is used again, one call after the other (nothing in the code runs    *)
(* two at once).  A digest is modelled by the content it stands for.       *)
(***************************************************************************)
EXTENDS Integers, Sequences, Functions

CONSTANTS
    Assemblers,     \* calls of assemble_bundle on the directory
    Snapshots,      \* what a cycle may have observed
    Endings,        \* the ways the cycles may have ended
    ActionEpochs,   \* signed action registry epochs, with their windows
    WitnessEpochs,  \* signed witness registry epochs, which name the witness
    Admissions,     \* signed admission manifests, with the epochs they bind
    MaxTime,        \* bound of the clock
    NoInput,        \* the call has not been made
    NoBytes,        \* the cycle observed nothing
    NoSubject       \* the cycle has no witness-signed subject

Epoch == [issued_at : Nat, expires_at : Nat]
Outcomes == {"success", "validation_failed", "validator_exception",
             "source_unavailable"}

ASSUME BundleAssumption ==
    /\ ActionEpochs \subseteq Epoch /\ WitnessEpochs \subseteq Epoch
    /\ Admissions \subseteq [actions : ActionEpochs, witnesses : WitnessEpochs]
    /\ Endings \subseteq Outcomes
    /\ MaxTime \in Nat
    /\ NoBytes \notin Snapshots

Times == 0 .. MaxTime

Receipts == "receipts.jsonl"
Keyring == "keyring.json"
ActionRegistry == "action-registry.json"
WitnessRegistry == "witness-registry-epoch.json"
Admission == "admission-manifest.json"
Checkpoint == "checkpoint.json"
ObservationSubject == "observation-subject.json"
ObservedBytes == "observed-bytes.bin"
Certificate == "certificate.json"
Manifest == "bundle-manifest.json"

\* The order of the writes.
Order == <<Receipts, Keyring, ActionRegistry, WitnessRegistry, Admission, Checkpoint,
           ObservationSubject, ObservedBytes, Certificate, "verification.json",
           "replay.json", Manifest>>
Files == Range(Order)

\* What the directory has for a file that is not there, and for one of which
\* only a part, or nothing, is written; a content names its file.
Absent == [file |-> "absent"]
Torn == [file |-> "torn"]

VARIABLES
    dir,        \* the directory: the content of each file, Absent or Torn
    now,        \* the clock, as _utcnow_iso reads it
    pc,         \* of each call: idle, writing, returned, crashed
    input,      \* the arguments of each call
    todo,       \* the files the call still has to write
    written     \* artifact_bytes: the contents of those it has opened so far

bundleVars == <<dir, now, pc, input, todo, written>>

(* What a CycleOutput and the other arguments are to the bundle.  The     *)
(* receipts of a cycle end in one of four ways.  The caller passes the    *)
(* epochs and the manifest side by side: a rotation after the manifest    *)
(* was built gives epochs that it does not bind.                          *)
Inputs == {i \in [session : Assemblers, outcome : Endings,
                  bytes : Snapshots \cup {NoBytes},
                  actions : ActionEpochs, witnesses : WitnessEpochs,
                  admission : Admissions] :
             i.bytes = NoBytes <=> i.outcome = "source_unavailable"}

SubjectOf(i) ==
    IF i.outcome \in {"success", "validation_failed"}
    THEN [bytes |-> i.bytes, passed |-> i.outcome = "success"] ELSE NoSubject

-----------------------------------------------------------------------------
(* Contents.                                                               *)

\* Mutant of OutcomeState: every cycle without an observation is a failure.
OutcomeStateFlat(outcome) == IF outcome = "success" THEN "verified" ELSE "failed"

\* The outcome state of build_certificate.
OutcomeState(outcome) ==
    CASE outcome = "success" -> "verified"
      [] outcome = "validation_failed" -> "verified_denial"
      [] OTHER -> "failed"

\* build_certificate, with issued_at the time it is built.
CertificateOf(i, time) ==
    [file |-> Certificate, session |-> i.session, issued_at |-> time,
     state |-> OutcomeState(i.outcome), bytes |-> i.bytes, actions |-> i.actions,
     witnesses |-> i.witnesses, admission |-> i.admission,
     witness_key_ids |-> IF SubjectOf(i) = NoSubject THEN {} ELSE {"witness"},
     warnings |-> {"co-resident"} \cup
                  IF i.outcome = "success" THEN {} ELSE {"not succeeded"}]

\* The signed artifacts are the same for every cycle under them; the others
\* are told apart by their session.
ContentOf(f, i, time, artifacts) ==
    CASE f = Keyring -> [file |-> f]
      [] f = ActionRegistry -> [file |-> f, epoch |-> i.actions]
      [] f = WitnessRegistry -> [file |-> f, epoch |-> i.witnesses]
      [] f = Admission -> [file |-> f, admission |-> i.admission]
      [] f = Receipts -> [file |-> f, session |-> i.session, subject |-> SubjectOf(i)]
      [] f = ObservationSubject -> [file |-> f, subject |-> SubjectOf(i)]
      [] f = ObservedBytes -> [file |-> f, bytes |-> i.bytes]
      [] f = Certificate -> CertificateOf(i, time)
      [] f = Manifest -> [file |-> f, session |-> i.session, artifacts |-> artifacts]
      [] OTHER -> [file |-> f, session |-> i.session]

\* Files 7 and 8 only if the cycle has them.
WritesOf(i) ==
    Files \ ( (IF SubjectOf(i) = NoSubject THEN {ObservationSubject} ELSE {})
              \cup (IF i.bytes = NoBytes THEN {ObservedBytes} ELSE {}) )

\* A dictionary with one more entry.
With(dict, f, content) ==
    [g \in DOMAIN dict \cup {f} |-> IF g = f THEN content ELSE dict[g]]

\* f is the first of files in the order.
IsFirst(f, files, order) ==
    /\ f \in files
    /\ \A i, j \in DOMAIN order : order[i] = f /\ order[j] \in files => i <= j

-----------------------------------------------------------------------------
(* assemble_bundle.                                                        *)

BundleInit ==
    /\ dir = [f \in Files |-> Absent]
    /\ now = 0
    /\ pc = [a \in Assemblers |-> "idle"]
    /\ input = [a \in Assemblers |-> NoInput]
    /\ todo = [a \in Assemblers |-> {}]
    /\ written = [a \in Assemblers |-> <<>>]

\* mkdir(exist_ok=True): what the directory holds stays there.
Assemble(a) ==
    /\ pc[a] = "idle"
    /\ \A b \in Assemblers : pc[b] # "writing"
    /\ \E i \in Inputs :
          /\ i.session = a
          /\ input' = [input EXCEPT ![a] = i]
          /\ todo' = [todo EXCEPT ![a] = WritesOf(i)]
    /\ pc' = [pc EXCEPT ![a] = "writing"]
    /\ UNCHANGED <<dir, now, written>>

\* The file that is open, if there is one.
Opened(a) == todo[a] \cap DOMAIN written[a]

\* The content is made, its times read, and the file opened for writing.
Open(a) ==
    /\ pc[a] = "writing" /\ Opened(a) = {}
    /\ \E f \in todo[a] :
          /\ IsFirst(f, todo[a], Order)
          /\ written' = [written EXCEPT ![a] = With(@, f, ContentOf(f, input[a], now, @))]
          /\ dir' = [dir EXCEPT ![f] = Torn]
    /\ UNCHANGED <<now, pc, input, todo>>

\* Mutant of Fill: the first file's content goes into every file.
FillFirst(a) ==
    /\ pc[a] = "writing"
    /\ \E f \in Opened(a) :
          /\ dir' = [dir EXCEPT ![f] = written[a][Receipts]]
          /\ todo' = [todo EXCEPT ![a] = @ \ {f}]
          /\ pc' = [pc EXCEPT ![a] = IF todo[a] = {f} THEN "returned" ELSE @]
    /\ UNCHANGED <<now, input, written>>

\* The content is written.
Fill(a) ==
    /\ pc[a] = "writing"
    /\ \E f \in Opened(a) :
          /\ dir' = [dir EXCEPT ![f] = written[a][f]]
          /\ todo' = [todo EXCEPT ![a] = @ \ {f}]
          /\ pc' = [pc EXCEPT ![a] = IF todo[a] = {f} THEN "returned" ELSE @]
    /\ UNCHANGED <<now, input, written>>

\* The process dies; an open file stays as it is.
Crash(a) ==
    /\ pc[a] = "writing"
    /\ pc' = [pc EXCEPT ![a] = "crashed"]
    /\ UNCHANGED <<dir, now, input, todo, written>>

Tick ==
    /\ now < MaxTime
    /\ now' = now + 1
    /\ UNCHANGED <<dir, pc, input, todo, written>>

Write(a) == Open(a) \/ Fill(a)

BundleNext == Tick \/ \E a \in Assemblers : Assemble(a) \/ Write(a) \/ Crash(a)
=============================================================================

------------------------------ MODULE Verifier ------------------------------
(***************************************************************************)
(* The verifier (src/verifier/checks.py): verify_bundle looks at the       *)
(* certificate, runs eight checks, each of which reads its files again,    *)
(* and answers with a result state.  It takes no lock: files are read one  *)
(* by one while calls of assemble_bundle may write them.                   *)
(***************************************************************************)
EXTENDS Bundle

VARIABLES
    stage,      \* idle, a check, answered, raised or exited
    cert,       \* the certificate as it was read first
    seen,       \* the files the current check has read
    failures,   \* the checks that failed
    state,      \* VerificationResult.state
    exit,       \* the exit code of main
    whole       \* history: the complete bundle seen with its manifest

vars == <<bundleVars, stage, cert, seen, failures, state, exit, whole>>

Checks == <<"certificate_digest", "artifact_digests", "receipt_chain", "signatures",
            "session_boundaries", "observation_overclaim", "registry_validity",
            "admission">>

\* Mutant of NextCheck: the loop stays at its check.
NextCheckSame(check) == IF check = Checks[8] THEN "decide" ELSE check

NextCheck(check) ==
    IF check = Checks[8] THEN "decide"
    ELSE Checks[CHOOSE i \in 2 .. 8 : Checks[i - 1] = check]

States == {"verified", "verified_with_warnings", "verified_denial", "unverifiable",
           "failed"}
Accepted == state \in {"verified", "verified_with_warnings", "verified_denial"}

\* A file with all of one content is parsed; others are no JSON.
Intact(content) == content \notin {Absent, Torn}

\* The order in which each check reads: the manifest first, and what it lists
\* in the order of its JCS form.
ReadOrder(check) ==
    CASE check = "artifact_digests" ->
            <<Manifest, ActionRegistry, Admission, Certificate, Checkpoint, Keyring,
              ObservationSubject, ObservedBytes, Receipts, "replay.json",
              "verification.json", WitnessRegistry>>
      [] check \in {"receipt_chain", "session_boundaries"} -> <<Receipts>>
      [] check = "signatures" -> <<Keyring, ObservationSubject, Receipts>>
      [] check = "registry_validity" ->
            <<Certificate, ActionRegistry, WitnessRegistry, Keyring>>
      [] check = "admission" -> <<Certificate, Admission, Keyring>>
      [] OTHER -> <<Certificate>>

\* What a check reads, having read some of it.
Listed(read) ==
    IF Manifest \in DOMAIN read /\ Intact(read[Manifest])
    THEN DOMAIN read[Manifest].artifacts ELSE {}
FilesOf(check, read) ==
    IF check = "artifact_digests" THEN {Manifest} \cup Listed(read)
                                  ELSE Range(ReadOrder(check))
Due(check, read) == FilesOf(check, read) \ DOMAIN read

\* A part of receipts.jsonl may be lines that parse.
Lines(content, passes) ==
    IF content = Torn THEN BOOLEAN ELSE {content # Absent /\ passes}

\* Mutant of Digests: a listed file that is missing or empty is passed over.
DigestsOfPresent(read) ==
    /\ Intact(read[Manifest])
    /\ \A f \in Listed(read) : read[f] \in {Absent, Torn, read[Manifest].artifacts[f]}

\* Every listed file is there and has its digest.
Digests(read) ==
    /\ Intact(read[Manifest])
    /\ Listed(read) # {}
    /\ \A f \in Listed(read) : read[f] = read[Manifest].artifacts[f]

\* Witness signatures are on the subject's file; a chain without any is not
\* compared with it.
SignaturesHold(read) ==
    read[Receipts].subject # NoSubject =>
        /\ Intact(read[ObservationSubject])
        /\ read[ObservationSubject].subject = read[Receipts].subject

Within(time, epoch) == epoch.issued_at <= time /\ time <= epoch.expires_at

\* Mutant of RegistryValid: an epoch is over at the moment it expires.
RegistryValidOpen(read) ==
    /\ \A f \in DOMAIN read : Intact(read[f])
    /\ Within(read[Certificate].issued_at, read[ActionRegistry].epoch)
    /\ read[WitnessRegistry].epoch.issued_at <= read[Certificate].issued_at
    /\ read[Certificate].issued_at < read[WitnessRegistry].epoch.expires_at

\* Both epochs are valid at issued_at.
RegistryValid(read) ==
    /\ \A f \in DOMAIN read : Intact(read[f])
    /\ Within(read[Certificate].issued_at, read[ActionRegistry].epoch)
    /\ Within(read[Certificate].issued_at, read[WitnessRegistry].epoch)

AdmissionValid(read) ==
    /\ \A f \in DOMAIN read : Intact(read[f])
    /\ read[Certificate].admission = read[Admission].admission

\* Whether the check passes, once all its files are read.
Passes(check, read) ==
    CASE check = "artifact_digests" -> {Digests(read)}
      [] check \in {"receipt_chain", "session_boundaries"} -> Lines(read[Receipts], TRUE)
      [] check = "signatures" ->
            IF ~ Intact(read[Keyring]) THEN {FALSE}
            ELSE Lines(read[Receipts], Intact(read[Receipts]) /\ SignaturesHold(read))
      [] check = "registry_validity" -> {RegistryValid(read)}
      [] check = "admission" -> {AdmissionValid(read)}
      [] OTHER -> {Intact(read[Certificate])}

Init ==
    /\ BundleInit
    /\ stage = "idle"
    /\ cert = Absent
    /\ seen = <<>>
    /\ failures = {}
    /\ state = "none"
    /\ exit = "none"
    /\ whole = {}

-----------------------------------------------------------------------------
(* verify_bundle.                                                          *)

Answer(result) == stage' = "answered" /\ state' = result

\* No directory, no certificate, or none that json.loads takes.
Unverifiable ==
    /\ stage = "idle"
    /\ ~ Intact(dir[Certificate])
    /\ Answer("unverifiable")
    /\ UNCHANGED <<bundleVars, cert, seen, failures, exit, whole>>

\* read_text raises UnicodeDecodeError: the file ends within a character.
Undecodable ==
    /\ stage = "idle"
    /\ dir[Certificate] = Torn
    /\ stage' = "raised"
    /\ UNCHANGED <<bundleVars, cert, seen, failures, state, exit, whole>>

Begin ==
    /\ stage = "idle"
    /\ Intact(dir[Certificate])
    /\ cert' = dir[Certificate]
    /\ stage' = Checks[1]
    /\ UNCHANGED <<bundleVars, seen, failures, state, exit, whole>>

\* The directory holds all that one call wrote, and its manifest.
CompleteFor(a) ==
    /\ pc[a] = "returned"
    /\ \A f \in DOMAIN written[a] : dir[f] = written[a][f]

\* The next file of the check is read, and after the last one it is decided.
Read ==
    /\ stage \in Range(Checks)
    /\ \E f \in Files :
          /\ IsFirst(f, Due(stage, seen), ReadOrder(stage))
          /\ LET read == With(seen, f, dir[f])
             IN  IF Due(stage, read) # {}
                 THEN seen' = read /\ UNCHANGED <<stage, failures>>
                 ELSE \E passed \in Passes(stage, read) :
                        /\ seen' = <<>>
                        /\ failures' = IF passed THEN failures ELSE failures \cup {stage}
                        /\ stage' = NextCheck(stage)
          /\ whole' = IF f = Manifest THEN {a \in Assemblers : CompleteFor(a)} ELSE whole
    /\ UNCHANGED <<bundleVars, cert, state, exit>>

Decide ==
    /\ stage = "decide"
    /\ Answer(IF failures # {} THEN "failed"
              ELSE IF cert.state = "verified_denial" THEN "verified_denial"
              ELSE IF cert.warnings # {} THEN "verified_with_warnings"
              ELSE "verified")
    /\ UNCHANGED <<bundleVars, cert, seen, failures, exit, whole>>

\* main, after verify_bundle: the text form of an unverifiable result raises
\* KeyError, for its summary is empty, which ends in 1 as its JSON form does.
Report ==
    /\ stage \in {"answered", "raised"}
    /\ exit' = IF stage = "answered" /\ Accepted THEN "0" ELSE "1"
    /\ stage' = "exited"
    /\ UNCHANGED <<bundleVars, cert, seen, failures, state, whole>>

Verify == Unverifiable \/ Undecodable \/ Begin \/ Read \/ Decide \/ Report

verifierVars == <<stage, cert, seen, failures, state, exit, whole>>

Next == Verify \/ (BundleNext /\ UNCHANGED verifierVars)

Spec == Init /\ [][Next]_vars

\* A verification that is under way goes on.
FairSpec == Spec /\ WF_vars(Read \/ Decide \/ Report)

-----------------------------------------------------------------------------
(* Safety.                                                                 *)

TypeOK ==
    /\ \A f \in Files : Intact(dir[f]) => dir[f].file = f
    /\ now \in Times
    /\ pc \in [Assemblers -> {"idle", "writing", "returned", "crashed"}]
    /\ \A a \in Assemblers : input[a] \in Inputs \cup {NoInput}
    /\ stage \in Range(Checks) \cup {"idle", "decide", "answered", "raised", "exited"}
    /\ DOMAIN seen \subseteq Files
    /\ failures \subseteq Range(Checks)
    /\ state \in States \cup {"none"}
    /\ exit \in {"none", "0", "1"}
    /\ whole \subseteq Assemblers

\* Whatever was read while files were being written, and whatever an earlier
\* call or one that died left behind: an answer other than failed and
\* unverifiable, or an exit with 0, means that, when the manifest was read,
\* the directory held all the files of one finished call.
AcceptedWasComplete == Accepted \/ exit = "0" => whole # {}

\* An accepted bundle is the one that the answer names, and the answer is
\* verified_denial for the cycles whose validation failed and for no other.
AnswerFitsCycle ==
    Accepted =>
        /\ cert.session \in whole
        /\ state = "verified_denial" <=> input[cert.session].outcome = "validation_failed"

InWindow(a) == Within(cert.issued_at, input[a].actions) /\ Within(cert.issued_at, input[a].witnesses)

\* A finished bundle is not failed, and the command does not exit with 1,
\* however late the verifier comes and even if it began before the end,
\* unless an epoch was not valid when the certificate was made.
FinishedBundleVerifies ==
    state = "failed" \/ exit = "1" => \A a \in whole : ~ InWindow(a)

(* Liveness, under the fairness of FairSpec.                               *)

\* A command that has read a certificate exits, whatever it meets.
VerificationEnds == stage = Checks[1] ~> exit # "none"

-----------------------------------------------------------------------------
(* What the documents say, and the code does not do.                       *)

\* bundle.py:26: "bundle-manifest.json # SHA-256 of every file in the
\* bundle".  A directory that is used again keeps the files that the new
\* cycle has not.
ManifestListsEveryFile ==
    \A a \in Assemblers : pc[a] = "returned" /\ CompleteFor(a) =>
        \A f \in Files : dir[f] # Absent => f \in DOMAIN written[a]

\* checks.py:5: it "recomputes every digest, every signature, every state
\* root, every registry binding".  The manifest binds the digests of two
\* epochs, and no check compares them with the epochs in the bundle.
EveryBindingHolds ==
    Accepted => LET i == input[cert.session]
                IN  i.admission = [actions |-> i.actions, witnesses |-> i.witnesses]
=============================================================================

# Formal model of the pipeline witness

This directory holds a TLA+ model of the MPF pipeline witness (`src/witness`)
and of its independent verifier (`src/verifier`), the TLC configurations that
check it on small instances, and proofs, checked by TLAPS, that hold for every
instance. `PROJECT.json` names, for each definition, the source lines it
stands for.

## 1. The system

One *cycle* observes an external snapshot: the observer fetches it, the
validator judges it, the co-resident L1 witness signs an *observation subject*
(source, observed timestamp, digest of the bytes, verdict), and the gateway
returns a hash-linked chain of signed receipts. The chain and the signed
registries are written out as a directory of files, the *bundle*, which a
verifier that shares no state with the producer reads and judges.

| component | state | operations | interacts with |
|---|---|---|---|
| Observer (`observer.py`) | none between calls; within `fetch` the attempt history | `fetch`: 3 attempts, waits of 1 and 3 s | the source, over HTTP; called by the gateway |
| Validator (`validator.py`) | none | `validate`: five checks on the parsed snapshot | called by the gateway |
| Guard-key store (`witness.py`) | an SQLite file: `guard_keys`, `conflicts` | `record_or_check`, readers | processes that open the file |
| L1 witness (`witness.py`) | key, store | `sign_subject`: record, then sign | called by the gateway |
| Gateway (`gateway.py`) | within `run_cycle`: `chain`, `prev_root`, `seq` | `run_cycle`, `_finalize` | observer, validator, witness |
| Receipts (`receipts.py`) | none | payload, state root, `verify_receipt` | gateway |
| Bundle (`bundle.py`) | a directory of up to 12 files | `assemble_bundle` | cycle output, registries, the file system |
| Verifier (`verifier/checks.py`) | none between calls | `verify_bundle`: eight checks; `main` | reads the directory |
| Registry, admission (`registry.py`, `admission.py`) | signed epochs with a validity window; a signed manifest that binds their digests | build, sign, verify | gateway, bundle, verifier |
| Canon, crypto (`canon.py`, `crypto.py`) | none | JCS, SHA-256, Ed25519 | everyone |

What is hard here:

* **Interleaving.** The store opens a connection per call "so multi-process
  operation works" and reads with one statement and writes with another.
  Cycles share one witness. A verifier reads files one by one, several times
  each, while they may be written.
* **Crashes.** The guard key is committed before the signature exists; the
  chain lives in memory until `run_cycle` returns; a bundle is twelve
  truncate-and-write operations.
* **Partial failure.** Each step of `run_cycle` can raise, and what the
  witness recorded before that stays.
* **Staleness.** The digest compared was read before the lock was taken; the
  certificate that decides the answer was read before the checks; a directory
  may hold an earlier bundle; an epoch may expire between signing and assembly.
* **Boundaries.** Retry indexing, the receipt count of the checkpoint, the
  closed ends of validity windows, tolerances, rounding, the coverage
  threshold, and what floats have beyond numbers.
* **Delivery.** A log is a file of lines: they may be lost, repeated, swapped,
  mixed with those of another session, or garbled.
* **Two of a kind.** The verifier repeats the receipt, epoch and manifest checks
  of the witness with code of its own, and the two must agree.

What makes each component correct: the store never lets two digests be signed
under one guard key, and keeps evidence; the observer gives up only after all
attempts failed, and always ends; the gateway's chain is linked, is one of
four documented flows and agrees with what the witness signed; a bundle is
published by its manifest, which comes last; the verifier accepts only what
was complete, and says of it what the cycle said; a receipt log or a document
that is accepted is one that was signed, and nothing genuine is rejected; a
snapshot that passes is what the arithmetic says of it, and an honest one
passes.

## 2. The modules

| module | models | composed of |
|---|---|---|
| `AntiEquivocation` | what an L1 witness promises: record one digest per key, issue it, refuse others with evidence | |
| `GuardKeyStore` | `record_or_check` and `sign_subject` as SELECT, write lock, COMMIT, sign, in several processes that crash and restart | implements `AntiEquivocation` |
| `Observer` | the loop of `fetch` | |
| `Gateway` | `run_cycle`, in several cycles | extends `Observer`, instantiates `AntiEquivocation` as its witness |
| `Pipeline` | the same cycles, whose `sign_subject` is the store's, statement by statement | extends `GuardKeyStore`, instantiates `Gateway` over it, implements both |
| `Validator` | `validate` and its five checks, on snapshots with values of every kind that the checks tell apart | |
| `Crypto` | digests and signatures, ideal | |
| `Receipts` | sessions that build their receipts, a copy of a log that is damaged, the walk with `verify_receipt`, the verifier's checks of a log | extends `Crypto` |
| `Registry` | epochs and admission manifests: built, signed, copied, harmed, and judged by the witness's functions and by the verifier | extends `Crypto` |
| `Audit` | the audit of what a session leaves behind: its log, or a document | extends `Receipts` and `Registry` |
| `Bundle` | `assemble_bundle`: one Open and one Fill for each file, in order | |
| `Verifier` | `verify_bundle`: one step for each file that a check reads; `main` | extends `Bundle` |
| `MCGuardKeyStore`, `MCGateway`, `MCPipeline`, `MCValidator`, `MCAudit`, `MCVerifier` | the instances that TLC checks | |
| `GuardKeyStoreProofs`, `ObserverProofs`, `GatewayProofs`, `PipelineProofs`, `ValidatorProofs`, `ReceiptsProofs`, `AuditProofs`, `VerifierProofs` | theorems about the module they name; `AuditProofs` has those about `Registry` too | |

**State and code.** In `GuardKeyStore`, `guardKeys` and `conflicts` are the
committed tables, `writer` the write lock of the file, `row` the result of a
call's SELECT, `signed` the signatures handed out. `Request` is `sign_subject` up to
`to_canonical`; `Select` the query; `Write` and `InsertRefused` the statement
chosen by what the query returned; `Commit*` the three branches up to
`commit()`; `Sign` the rest of `sign_subject`; `Locked` the busy timeout of the
statements, `CommitLocked` that of `commit()`, which waits for the readers.

In `Gateway`, `chain`, `prevRoot` and `seq` are the locals of `run_cycle`,
`signature` is `witness_sig`, and every receipt the code appends is an action.
The fetch is `Observer`'s; what it lets through is `FetchRaises`. `sign_subject` is two steps, `Commit` (or
`Equivocation`, or `StoreError`) and `Issue`, taken from `AntiEquivocation`.
The gateway may rely on that module because the store is proved to implement
it. A snapshot is what `run_cycle` can tell of it: how `json.loads` and
`validate` end, its date, whether the verdict can be canonicalized. A state
root is the sequence of everything it covers, so two are equal exactly when all
that was hashed is equal.

In `Pipeline`, every cycle is a process of the store, since `_connect` opens a
connection for each call; `at` is where the cycle is in `run_cycle` (`pc` of
`Gateway`) and `pc` where its call is at the store. `SignSubject` is the call, with
the guard key made of the cycle's timestamp; `Look` its SELECT and its write;
`Settle` its commit, after which the call returns or raises
`EquivocationError`; `Fail` what SQLite raises in between; `Obtain` the signature;
`Work` all that `run_cycle` does elsewhere, which is `Gateway`'s. What the store's
tables hold is what `Gateway` calls `recorded`, `issued` and `evidence`.

In `Validator`, a snapshot (`Record`) says which containers are objects, which
of the fields that no check computes with are there, and gives the eight values
and two times that the checks do compute with. A value has a kind (a number,
Infinity, NaN, an integer too large for a float, null or an object, text, an
empty list, nothing) and an amount in thousandths; `true` and `false` are 1 and
0, and what `float()` takes may be quoted, as a numeric string is. Where a list
is expected, what is neither a list with samples nor an empty one counts as
absent. Each check is an operator that returns
the *set* of its possible results: passed, failed, or raised. There is more
than one where the code's answer depends on the last bit of a float (a tie of
`round`, a distance of exactly the tolerance), or on what kind of thing is not an
object. `RunCheck`, `CheckRaises` and `Conclude` are `validate`: it does not
stop at a failure, and does stop at an exception.

In `Receipts`, `chain` holds the receipts of each session. `AppendReceipt` is
`build_receipt_payload`, the signing, `compute_state_root` and
`assemble_receipt`; `Slip` is a caller that passes the wrong previous root, which
no signature of these functions rules out. `Copy` takes a session's log, and
`Lose`, `Repeat`, `Swap`, `Splice` and `Garble` are what can happen to a file
of lines. `walked`, `expected` and `verdict` are the walk: `VerifyReceipt` is one
call of `verify_receipt`. `VerifierPasses` is what `_check_receipt_chain`,
`_check_signatures` and `_check_session_boundaries` make of the same log.

In `Registry`, `epochs` are the current epochs, `document` the one that is
examined, `copied` a copy of it. `IssueEpoch` is `build_*_registry` and
`_sign_registry`, `Admit` is `build_admission_manifest` and its signature,
`AskNow` is `verify_registry` with the caller's clock; `VerifyRegistry`,
`VerifyAdmissionManifest`, `CheckRegistryValidity` and `CheckAdmission` are the
two pairs of verdicts. `Harm` damages a copy or forges it: it changes the
payload, brings the digest up to date with it, and replaces the signature, by
one of another key too. An answer keeps the payload it was about.
`CheckRegistryValidity` takes the witness keys that the certificate names, which
are none for a cycle that observed nothing. In `Audit` one of the two is examined at a time: they
share no state, so their product would only repeat them.

In `Bundle`, `dir` is the directory; a digest is the content it stands for;
`Open` truncates a file and `Fill` writes it, so a crash in between leaves it
`Torn`. `input` is the cycle output, the admission manifest and the epochs that a
call is given, `todo` the files it has yet to close, `written` what it gave
them. Calls on one directory follow one another; nothing in the code runs two at
once. In `Verifier`, `stage` is the check, `seen` what it has read, `cert` the
certificate of the first read, `exit` the exit code of `main`. What a check
concludes from a part of `receipts.jsonl` is left open, since some parts are
lines that parse. `whole` is a history variable: which finished calls' bundles
were entire in the directory when the manifest was read.

**Mutants.** An operator whose comment begins with "Mutant of" is a plausible
mistake in the code. It is not part of the specification; it shows that a
property would notice. `PROJECT.json` pairs each property with one.

## 3. The runs

Runs that pass:

| run (cfg) | instance | shows |
|---|---|---|
| `store` (`GuardKeyStore`) | 3 processes, 2 keys and a malformed one, 2 digests, 3 requests, a crash | no equivocation, record before sign, sign counts cover signatures, true and lasting evidence, tables only grow; the store implements the promise; every call ends; the lock always comes free |
| `gateway` (`Gateway`) | 2 cycles, 9 kinds of snapshot | honest and bounded fetches, linked chains, documented flows, witnessed content, one verdict per timestamp, outputs that agree, termination |
| `pipeline` (`Pipeline`) | 2 cycles as 2 processes of the store, 5 snapshots, 2 requests, a crash | what cycles do at the store is what `Gateway` says over the promise; every `EquivocationError` has its evidence and nobody's signature; a `sign_count` counts its cycles; every cycle ends |
| `validator` (`Validator`) | about 4200 snapshots | what passes is what the arithmetic says, what is honest passes, what is missing fails instead of raising |
| `audit` (`Audit`) | 2 sessions of 4 receipts, a slip, 2 damages; epochs of 0 and 1 second, a clock to 2, 2 harms | a log that is accepted is genuine, `verify_registry` says ok of the payload that was signed and of no other, nothing genuine is rejected, the verifier and the witness agree |
| `verifier_fresh` (`VerifierFresh`) | 1 assembly, 4 endings, an epoch rotation, clock to 2 | accepted, by answer or exit code, = complete and told right; complete and in its window = accepted; the verification ends |
| `verifier_reuse` (`VerifierReuse`) | 2 assemblies in one directory | no mixture is ever accepted |

Runs that show where a document and the code disagree (each is a finding):

| run | the document | the code |
|---|---|---|
| `store_race` | a different digest "raises `EquivocationError` and writes a conflict-evidence row" (`witness.py:116`) | a lost race on a fresh key raises `sqlite3.IntegrityError`, no row |
| `gateway_failures` | a failure of any kind completes its chain (`gateway.py:62-66`) | not when the bytes are no text, when the verdict cannot be canonicalized, or when a second snapshot is undated |
| `verifier_stale` | the manifest has "every file in the bundle" (`bundle.py:26`) | a reused directory keeps files 7 and 8 of an earlier cycle |
| `verifier_binding` | the verifier recomputes "every registry binding" (`checks.py:5-6`) | the digests that the admission manifest binds are not compared with the epochs in the bundle |
| `audit_roots` | the verifier recomputes "every state root" (`checks.py:4-6`) | it compares the stated roots with each other |

The models show more, which have no run of their own.

* *Store.* A lost race with the *same* digest raises as well, where
  `witness.py:114` promises idempotence (`InsertRefused`).
* *Gateway and store.* `IntegrityError` reaches `run_cycle` also when the cycle
  that won the race has long returned: the row it left is enough (`StoreError`).
  A `sign_count` above the number of signatures means that a process died with
  its call, and nothing else does (`SignCountIsExplained`).
* *Observer.* The waits of `fetch` are per attempt, not "cumulative"
  (`observer.py:47`), as `WaitIsBounded` says. An exception that is no
  `httpx.HTTPError`, such as `httpx.InvalidURL`, leaves `fetch` and `run_cycle`
  with the attempts so far (`AttemptRaises`, `FetchRaises`).
* *Validator.* A published Infinity makes its own tolerance infinite
  (`validator.py:205`), so it matches any recomputed z-score but the same infinity,
  where `validator.py:16-17` promises a match "within tolerance". With an archive
  that ends in Infinity such a snapshot passes all five checks, and its
  `validation.result` body then cannot be canonicalized (the ninth snapshot of
  `MCGateway`). A null
  `emergencyLevel` passes, where `validator.py:127` says "present and
  well-typed". An archive tail of null raises `TypeError`, times that are numbers
  or of which one has no offset raise, and an integer too large for a float raises
  `OverflowError`: a `validator.exception`, where one might expect
  `validation.failed`. `MissingNeverRaises` says for which snapshots this does
  not happen. The last sample "matches the current snapshot exactly"
  (`validator.py:18-19`, `:223`) but for rounding and two tolerances: a hundredth,
  and, above 10^7 where it is the larger, the relative 1e-9 that `math.isclose`
  has by default, so that 1000000000.5 passes for 1000000000.0
  (`TailIsCurrent`). The columns `p` and `s` may be shorter than `c`, and an
  archive of an hour passes.
* *Receipts.* "session.start present at sequence 0" (`checks.py:26-28`) is asked
  of the kind of the first line; its sequence number is not read, and a line that
  has lost the signature over it may have any. A wrong root of the last receipt is
  accepted by the verifier and rejected by `verify_receipt`; wrong sequence
  numbers that are signed pass both; a line whose signature set is empty, or lacks the witness's signature,
  passes the verifier, while `verify_receipt` rejects an empty one.
  `VerifierSeesWholeSession` is worded accordingly.
* *Crypto.* `verify_signature` "does not raise" (`crypto.py:154`), but the
  parsing of a malformed signature does (`ReceiptRaises`, `RegistryRaises`).
* *Verifier.* A certificate cut within a character makes `verify_bundle` raise
  `UnicodeDecodeError` (`Undecodable`). For an unverifiable bundle `main` raises
  `KeyError` over its text output and exits with 1 all the same. "Signing time" is
  the `issued_at` of the certificate (`checks.py:324`). In a directory that is
  used again, the answer may name the certificate read first while the checks
  looked at its successor; this is why `AnswerFitsCycle` is checked on a fresh
  directory, and `AcceptedWasComplete`, which does not say whose bundle it was, on
  a reused one. A bundle issued outside the window of an epoch it embeds is
  emitted and then fails, contrary to `README.md:41`; `FinishedBundleVerifies`
  has the window as its condition.

**Bounds.** Races on one key need two processes, and a third to show that
nothing depends on there being only two; digests come in twos because
equivocation is about two. In `Pipeline`, each of two cycles makes one request,
two of its snapshots have one date and different verdicts, and the others are one
for each way to end before the store is asked. `MaxRequests` and `MaxCrashes` bound the store's
behaviours. The gateway's cycles run once each; two are enough for one to find
what the other left at the witness, and every kind of snapshot the code can tell
apart is among the nine. In `Validator`, `ToleranceInv` is 8, a power of two, in
place of 10^6 (1 / `Z_SCORE_TOLERANCE`), `RelativeInv` 1000 in place of 10^9, and
`Slot` 2 in place of 1800, so that both sides of every boundary are within a
small range: the two tolerances of `isclose` meet at the value 10 and not at
10^7, and there are tails on both sides of that; `Unit` puts ten thousandths into the
two places that `round` keeps. The snapshots are families about each
boundary; the theorems hold for every tolerance, slot and snapshot, the code's values included. `MaxSlips` and
`MaxDamages` bound what befalls a log: one wrong root, and two damages, because
one can hide another. `MaxHarm` is 2 because a forgery that only the signature
tells takes two: a payload is changed, and its digest recomputed. `MaxClock` and the validities 0 and 1 give each epoch a
time before, in and after its window, and both its ends. In `Verifier` a verification may begin at any moment,
so one stands for any number, since verifications change nothing. Two
assemblies are one earlier bundle, whole or not, and one later. `MaxTime`
reaches past both ends of a rotation at time 0 / 1. State roots, signatures and
digests are ideal: no two contents share one.

**`CHECK_DEADLOCK FALSE`** stands where the model really stops: requests,
crashes, slips, damages and the clock are bounded, and cycles, validations,
walks, assemblies and verifications run once.

**Fairness.** Weak fairness of the steps *inside* a call that has started
(`Step`, `RunCycle`, and `Read`, `Decide` and `Report`): a running
Python call goes on. Nothing is owed by callers, the clock, crashes or restarts.
SQLite gives no fair lock, and none is assumed: a call that waits may also end
in `Locked`, as the busy timeout does.

## 4. What is proved

All theorems hold for every value of the constants under the assumption that the
module names (`StoreAssumption`, `GatewayAssumption`, ...: types, and values
such as `NoDigest` outside the sets they are to be told from).

| theorem | states | for any |
|---|---|---|
| `TypeCorrect`, `SignedIsRecorded`, `NeverEquivocates`, `EvidenceIsTrue`, `RefusalIsRecorded`, `SignaturesAreCounted`, `TablesGrow` | the invariants of the `store` run, and `TablesOnlyGrow` | processes, keys, digests, requests, crashes |
| `StoreKeepsPromise` | the store implements `AntiEquivocation` | the same |
| `OutcomesAreEarned`, `WaitsAreBounded` | `OutcomeIsEarned`, `WaitIsBounded` | callers, answers |
| `GatewayTypes`, `FetchesAreEarned`, `ChainsLink`, `ReceiptsAreWitnessed`, `OneVerdict` | `TypeOK`, `OutcomeIsEarned`, `ChainsAreLinked`, `WitnessedAsBound`, `OneVerdictPerTimestamp` | cycles, snapshots, dates |
| `FlowsAreTold`, `OutputsAgree`, `RequestsTell` | `FlowsAreDocumented`, `OutputAgreesWithChain`, `RequestTellsAttempts` | the same |
| `PipelineKeepsToGateway`, `PipelineImplementsStore` | cycles over the store implement `Gateway` (`KeepsToGateway`) and make the calls of `GuardKeyStore` | cycles, snapshots, dates, requests, crashes |
| `CallsAlwaysFit`, `RefusalIsProved`, `SignCountExplained` | `CallsFit`, which ties cycles to their calls, and the invariants of the `pipeline` run | the same |
| `ValidatorTypes`, `ZScoresAreReproduced`, `TailsAreCurrent`, `ArchivesAreCovered`, `NothingMissingRaises`, `HonestSnapshotsPass` | `TypeOK` and the invariants of the `validator` run | snapshots, tolerances, slot |
| `AcceptedLogsAreGenuine`, `GenuineLogsAreAccepted`, `VerifierSeesSessions` | `AcceptedIsGenuine`, `GenuineIsAccepted`, `VerifierSeesWholeSession` | sessions, flow, slips, damages |
| `AnswersAreRight`, `VerdictsAlwaysAgree` | `EpochAnswersRight`, `VerdictsAgree` | validities, entries, clock, harms |
| `AuditTypes`, `AuditIsRight`, `AuditImplements` | `TypeOK` and the other invariants of the `audit` run, because an audit implements `Receipts` and `Registry` | all of these |
| `VerifierTypes`, `AcceptedIsComplete` | `TypeOK`, `AcceptedWasComplete` | calls on one directory, snapshots, endings, epochs |
| `AnswersFit`, `FinishedVerifies` | with one call: `AnswerFitsCycle`, `FinishedBundleVerifies` | snapshots, endings, epochs |

None of the properties is inductive alone. The arguments:

* **Store.** The hazard is a stale read: `row[p]` may be out of date when `p`
  writes. `StoreInv` says what is nevertheless true of it: a row that was found is
  still the row on record (`RowInv`: recorded digests never change); whoever is
  past the write holds the lock (`LockInv`); a process about to commit an INSERT
  found the key free *under the lock* (`InsertInv`, which is where the PRIMARY KEY
  does its work); a process about to sign has its digest on record (`SignInv`); a
  call that ended in equivocation has its evidence (`EvidenceInv`). Counting needs
  `CountInv` too: what was signed and what is about to be are finite sets, so a
  commit that adds one to each side keeps the order. `StoreInv` was checked by
  TLC before it was proved.
* **Observer.** `LoopInv` places each call in the loop: a call that goes on
  has made fewer than three attempts, none of which succeeded, and has slept what
  the attempts so far call for.
* **Gateway.** `GatewayInv` is about one cycle at a time: each receipt of its
  chain has the number and the previous root it should have and a root that
  covers cycle and number (`ChainOK`); `prevRoot` and `seq` are those of the last
  receipt while the cycle goes on (`HeadOK`); what is about to be signed was
  fetched and is on record, and what was signed is issued (`ToldOK`). Of the
  witness it says only what is never undone, so a step of one cycle cannot break
  what is known of another. `OneVerdict` follows because two receipts about one
  timestamp carry signatures under one guard key, of which the witness has
  recorded one digest: the promise that the store keeps.
  `StoryInv` is a second layer, about what a chain tells. A cycle is bound for
  one of four flows (`PathOf`), which its fetch and its snapshot decide; where
  `run_cycle` is says how far its chain is on that flow (`Position`). The bodies
  say what was fetched, tried and judged (`Told`, `BodyOK`), the signature is
  there exactly when a verdict is on the path (`SignatureOK`), and the last two
  receipts and the output repeat both (`ClosingOK`).
* **Pipeline.** What ties the two halves together is the subject of a cycle: while
  a call is at the store it is about that subject, and the cycle itself does not
  move (`CallsFit`, `JudgedInv`). With this and `StoreInv`, a commit of the store is
  `Gateway`'s `Commit` or `Equivocation`, a signature its `Issue`, and an error that
  leaves the store one that `StoreError` allows: the holder of the lock is another
  cycle at its verdict, or the row has come since the SELECT. The other steps of a
  call are invisible to `Gateway`. Composing the two first with TLC, and then in
  the proof, corrected `StoreError`, which had asked for another cycle that
  is still about to sign. So `OneVerdict` and its companions hold of the gateway
  over SQLite, and not only over a promise. `SignCountInv` adds that a cycle has a
  signature only past its call, and that the cycles behind a count are finitely
  many: a commit puts one on the books, a death takes none off.
* **Validator.** `ResultsInv` ties each result to its check; a pass then means
  five passes, and the rest is arithmetic about each check. `TailsAreCurrent` takes
  the distance of tail and value apart, into the rounding and what either tolerance
  allows (`NearIsClose`). `ArchivesAreCovered`
  counts the multiples of the slot in a span (`InstantsOfSpan`), which shows that
  the off-by-one of `int(span / 1800)` costs at most one sample.
* **Receipts.** Nothing that happens to a copy makes a root that was not
  written, so a line whose root can be recomputed is the receipt written with
  this root (`LineIsWritten`), and that names its predecessor. `WalkInv` says that
  the lines walked are the first ones of one session's chain. The verifier
  recomputes no root, so `VerifierSeesSessions` goes another way: an operator's
  signature that holds is on a payload that was written (`SignedPayload`), whose
  previous root tells the session and the place. By induction over the lines, as
  far as the signatures go the payloads are those of one session, and a checkpoint
  at the end can only be its last receipt. `ReceiptsAssumption` asks of the flow what
  this needs and every documented flow has: its kinds are allowed, and it ends
  with its only checkpoint.
  The induction is an instance of the well-foundedness of the numbers
  (`Induction`): a set that has 0, and with each number the next, has all.
* **Registry.** Nothing that happens to a copy makes the operator's signature
  over another payload, whoever else signs it and whatever its digest is, so an
  authentic copy has the payload that was signed (`CopiedInv`), which is complete:
  that is where the two implementations could have differed. An answer
  is about what the copy was when asked, so no later harm changes it.
* **Audit.** One thing at a time is examined, so each step is a step of `Receipts`
  or of `Registry` and leaves the other alone. The types follow from the two
  invariants, which already say what a receipt is made of and that what is
  published was signed.
* **Verifier.** Every call opens `receipts.jsonl` first and the manifest last,
  and both name their session (`CallInv`). So while the directory has the receipts
  of a call, all that the call wrote is as it wrote it (`DirInv`), and once another
  call has opened them they never come back. Whoever reads a manifest, and then
  finds the receipts it lists, knows that they were there when it read the
  manifest (`DigestsInv`). With one call, `FreshInv` says that every file is
  incomplete or as the call wrote it, so a reader that found all files has read
  one state; its checks compare contents made from one input, and the only one
  that compares two inputs is the one of the epochs' windows.

`VerifierTypes` rests on the same invariant: `DirInv` gives the directory's contents,
and the rest is what each step of a call or of a check leaves as it is.

Only model-checked: liveness (`EveryCallEnds`, `LockIsReleased`, both
`EveryCycleEnds`, `VerificationEnds`), which needs ENABLED. Every
invariant of a passing run is a theorem.

## 5. What is not modelled

* `save_private_key`, `load_private_key` and key generation: one write and one
  read of 32 bytes that nothing else touches.
* The insides of RFC 8785, SHA-256, Ed25519 and base64: digests and signatures
  are what they cover, and `canonicalize` is the set of values it refuses.
* The `:memory:` store, which has one connection and one process.
* The descriptive fields of receipts, registries and manifests, and how times
  are written; random session ids are taken to differ.
* The contents of `verification.json` and `replay.json`, which the verifier reads
  only to digest them.
* The text that `main` prints, and the static profile JSON.
* Floats below a thousandth, in `Validator`: the arithmetic of finite numbers is
  exact, and the places where a last bit decides are left open both ways. No
  difference or quotient of finite floats overflows.
* The readers `get_signed_digest` and `list_conflicts`, as holders of a read lock
  that a `commit()` could wait for: a SELECT of `record_or_check` is one already.

## 6. Plan

1. `Receipts` over the chains that `Gateway` builds, in place of its own flow, so
   that damage meets every documented flow.
2. Two calls of `assemble_bundle` on one directory at once, which nothing in the
   code does and nothing prevents.

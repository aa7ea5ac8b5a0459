------------------------------ MODULE Receipts ------------------------------
(***************************************************************************)
(* Receipts (src/witness/receipts.py).  Sessions build their receipts one  *)
(* after the other, and may compute a state root over the wrong root.  A   *)
(* copy of one session's log is damaged on its way: lines are lost,        *)
(* repeated, swapped or taken from another session's log, a field of a     *)
(* line is garbled.  An auditor walks over the copy with verify_receipt,   *)
(* and the verifier's checks (src/verifier/checks.py) look at it too.      *)
(***************************************************************************)
EXTENDS Crypto, Integers, SequencesExt

CONSTANTS
    Sessions,
    Flow,           \* the receipt kinds of a session, in order
    MaxSlips,       \* bound of the roots that are computed over the wrong root
    MaxDamages,     \* bound of what happens to the copy
    NoSubject,      \* the receipt carries no witness signature
    NoSession

Witnessed == {"validation.result", "validation.failed", "observation"}

\* Of any other kind build_receipt_payload raises ValueError.
AllowedReceiptKinds ==
    {"session.start", "data.request", "data.response", "observation",
     "validation.result", "session.end", "checkpoint", "source.unavailable",
     "validation.failed", "validator.exception", "bytes.changed_in_interval"}

\* _finalize (gateway.py) ends every session with its only checkpoint, and
\* run_cycle names no kind that is not allowed.
ASSUME ReceiptsAssumption ==
    /\ Flow \in Seq(STRING)
    /\ \A i \in DOMAIN Flow : Flow[i] \in AllowedReceiptKinds
    /\ \A i \in DOMAIN Flow : Flow[i] = "checkpoint" <=> i = Len(Flow)
    /\ MaxSlips \in Nat /\ MaxDamages \in Nat
    /\ NoSession \notin Sessions

VARIABLES
    chain,      \* the receipts of each session
    slips,      \* how many roots were computed over the wrong root
    source,     \* the session whose log is copied
    log,        \* the copy
    damages,    \* how much happened to it
    walked,     \* the lines that the walk has verified
    expected,   \* its expected_previous_state_root
    verdict     \* none, walking, accepted, rejected or raised

copyVars == <<source, log, damages>>
walkVars == <<walked, expected, verdict>>
receiptsVars == <<chain, slips, copyVars, walkVars>>

-----------------------------------------------------------------------------
(* Building a receipt.                                                     *)

Genesis == <<"genesis">>

\* The body, the actor and the time fare as the sequence number does.
BuildReceiptPayload(session, number, kind, previous) ==
    [session_id |-> session, sequence |-> number, receipt_kind |-> kind,
     previous_state_root |-> previous]

\* The fields without which verify_receipt goes no further.
Required == {"session_id", "sequence", "receipt_kind", "previous_state_root"}

ComputeStateRoot(previous, payload, signatures) ==
    <<"root", previous, payload, signatures>>

\* _build_and_sign: the operator signs the payload, and the signature that
\* the witness gave for the observation subject is put beside it.
SubjectOf(session, kind) == IF kind \in Witnessed THEN <<"subject", session>> ELSE NoSubject
SignReceipt(payload, subject) ==
    [k \in IF subject = NoSubject THEN {Operator} ELSE KeyIds |->
        SignB64(k, IF k = Operator THEN payload ELSE subject)]

\* A receipt is its payload and the two derived fields.
AssembleReceipt(payload, signatures, root) ==
    [payload |-> payload, signature_set |-> signatures, state_root |-> root]

ReceiptsInit ==
    /\ chain = [s \in Sessions |-> <<>>]
    /\ slips = 0
    /\ source = NoSession
    /\ log = <<>>
    /\ damages = 0
    /\ walked = 0
    /\ expected = Genesis
    /\ verdict = "none"

HeadRoot(s) == IF chain[s] = <<>> THEN Genesis ELSE Last(chain[s]).state_root

\* The next receipt of s, its root computed over base.
Build(s, base) ==
    LET number == Len(chain[s])
        kind == Flow[number + 1]
        payload == BuildReceiptPayload(s, number, kind, HeadRoot(s))
        signatures == SignReceipt(payload, SubjectOf(s, kind))
    IN  /\ verdict = "none" /\ source = NoSession
        /\ number < Len(Flow)
        /\ chain' = [chain EXCEPT ![s] = Append(@,
              AssembleReceipt(payload, signatures, ComputeStateRoot(base, payload, signatures)))]
        /\ UNCHANGED <<copyVars, walkVars>>

AppendReceipt(s) == Build(s, HeadRoot(s)) /\ UNCHANGED slips

\* The root is computed over the genesis root in place of the head.
Slip(s) ==
    /\ slips < MaxSlips
    /\ chain[s] # <<>>
    /\ Build(s, Genesis)
    /\ slips' = slips + 1

-----------------------------------------------------------------------------
(* The copy, and what happens to it.                                       *)

Copy(s) ==
    /\ source = NoSession
    /\ chain[s] # <<>>
    /\ source' = s
    /\ log' = chain[s]
    /\ UNCHANGED <<chain, slips, damages, walkVars>>

\* The receipt with one thing about it not as it was.
GarbledPayloads(p) ==
    {[p EXCEPT !.sequence = @ + 1], [p EXCEPT !.receipt_kind = "checkpoint"],
     [p EXCEPT !.previous_state_root = Altered]}
    \cup {[f \in DOMAIN p \ {field} |-> p[f]] : field \in Required \ {"session_id"}}
Spoilt(sigs, k) == {[sigs EXCEPT ![k] = Altered], [sigs EXCEPT ![k] = Malformed]}
Without(sigs, k) == [other \in DOMAIN sigs \ {k} |-> sigs[other]]
GarbledSignatures(sigs) ==
    UNION {Spoilt(sigs, k) \cup {Without(sigs, k)} : k \in DOMAIN sigs}
Garbled(r) ==
    {[r EXCEPT !.payload = p] : p \in IF DOMAIN r.payload = Required
                                      THEN GarbledPayloads(r.payload) ELSE {}}
    \cup {[r EXCEPT !.signature_set = sigs] : sigs \in GarbledSignatures(r.signature_set)}
    \cup {[r EXCEPT !.state_root = Altered]}

Damage(damaged) ==
    /\ source # NoSession /\ verdict = "none"
    /\ damages < MaxDamages
    /\ damages' = damages + 1
    /\ log' = damaged
    /\ UNCHANGED <<chain, slips, source, walkVars>>

Lose == \E i \in DOMAIN log : Damage(RemoveAt(log, i))
Repeat == \E i \in DOMAIN log : Damage(InsertAt(log, i, log[i]))
Swap == \E i \in 1 .. Len(log) - 1 :
           Damage([log EXCEPT ![i] = log[i + 1], ![i + 1] = log[i]])
Splice == \E i \in DOMAIN log : \E s \in Sessions : \E j \in DOMAIN chain[s] :
             Damage([log EXCEPT ![i] = chain[s][j]])
Garble == \E i \in DOMAIN log : \E r \in Garbled(log[i]) : Damage([log EXCEPT ![i] = r])

-----------------------------------------------------------------------------
(* verify_receipt, and the walk of the tests over a log with it.           *)

Subject == <<"subject", source>>

\* Mutant of Covers: the witness is taken to have signed the payload.
CoversPayload(r, key) == r.payload

\* What a signature of the set is to cover: external_subjects has the
\* subject for the witness's key.
Covers(r, key) == IF key = Witness THEN Subject ELSE r.payload

Complete(r) == Required \subseteq DOMAIN r.payload /\ DOMAIN r.signature_set # {}

ReceiptRaises(r) ==
    Complete(r) /\ \E k \in DOMAIN r.signature_set : SignatureRaises(r.signature_set[k])

\* Mutant of ReceiptHolds: the root is only recomputed, not linked.
ReceiptHoldsUnlinked(r, previous) ==
    /\ Complete(r)
    /\ \A k \in DOMAIN r.signature_set :
          k \in KeyIds /\ VerifySignature(k, Covers(r, k), r.signature_set[k])
    /\ r.state_root = ComputeStateRoot(r.payload.previous_state_root, r.payload,
                                       r.signature_set)

ReceiptHolds(r, previous) ==
    /\ Complete(r)
    /\ r.payload.previous_state_root = previous
    /\ \A k \in DOMAIN r.signature_set :
          k \in KeyIds /\ VerifySignature(k, Covers(r, k), r.signature_set[k])
    /\ r.state_root = ComputeStateRoot(r.payload.previous_state_root, r.payload,
                                       r.signature_set)

Begin ==
    /\ source # NoSession /\ verdict = "none"
    /\ verdict' = "walking"
    /\ UNCHANGED <<chain, slips, copyVars, walked, expected>>

VerifyReceipt ==
    LET r == log[walked + 1]
    IN  /\ verdict = "walking" /\ walked < Len(log)
        /\ IF ReceiptHolds(r, expected)
           THEN /\ walked' = walked + 1
                /\ expected' = r.state_root
                /\ UNCHANGED verdict
           ELSE /\ verdict' = IF ReceiptRaises(r) THEN "raised" ELSE "rejected"
                /\ UNCHANGED <<walked, expected>>
        /\ UNCHANGED <<chain, slips, copyVars>>

Accept ==
    /\ verdict = "walking" /\ walked = Len(log)
    /\ verdict' = "accepted"
    /\ UNCHANGED <<chain, slips, copyVars, walked, expected>>

ReceiptsNext ==
    \/ \E s \in Sessions : AppendReceipt(s) \/ Slip(s) \/ Copy(s)
    \/ Lose \/ Repeat \/ Swap \/ Splice \/ Garble
    \/ Begin \/ VerifyReceipt \/ Accept

ReceiptsSpec == ReceiptsInit /\ [][ReceiptsNext]_receiptsVars

-----------------------------------------------------------------------------
(* The verifier's checks of a log.  Each one fails when it raises.         *)

\* _check_receipt_chain takes the state roots that the lines state.
CheckReceiptChain ==
    /\ log # <<>>
    /\ \A i \in DOMAIN log :
          /\ "previous_state_root" \in DOMAIN log[i].payload
          /\ log[i].payload.previous_state_root =
                IF i = 1 THEN Genesis ELSE log[i - 1].state_root

\* _check_signatures wants no signature in particular.
CheckSignatures ==
    \A i \in DOMAIN log : \A k \in DOMAIN log[i].signature_set :
        /\ k \in KeyIds
        /\ VerifySignature(k, Covers(log[i], k), log[i].signature_set[k])

\* Mutant of CheckSessionBoundaries: a checkpoint is not looked for.
CheckSessionBoundariesOpen ==
    /\ log # <<>>
    /\ \A i \in DOMAIN log : "receipt_kind" \in DOMAIN log[i].payload
    /\ log[1].payload.receipt_kind = "session.start"
    /\ \E i \in DOMAIN log : log[i].payload.receipt_kind = "session.end"

CheckSessionBoundaries ==
    /\ log # <<>>
    /\ \A i \in DOMAIN log : "receipt_kind" \in DOMAIN log[i].payload
    /\ log[1].payload.receipt_kind = "session.start"
    /\ log[Len(log)].payload.receipt_kind = "checkpoint"
    /\ \E i \in DOMAIN log : log[i].payload.receipt_kind = "session.end"

VerifierPasses == CheckReceiptChain /\ CheckSignatures /\ CheckSessionBoundaries

-----------------------------------------------------------------------------
(* Safety.                                                                 *)

RightRoot(r) ==
    r.state_root = ComputeStateRoot(r.payload.previous_state_root, r.payload, r.signature_set)

\* Whatever was lost, repeated, swapped, mixed in or garbled: a log that a
\* walk with verify_receipt accepts is the beginning of one session's chain
\* as it was written, with every root right.
AcceptedIsGenuine ==
    verdict = "accepted" =>
        /\ \E s \in Sessions : IsPrefix(log, chain[s])
        /\ \A i \in DOMAIN log : RightRoot(log[i])

\* The walk rejects, and raises over, nothing that is as it was written.
GenuineIsAccepted ==
    verdict \in {"rejected", "raised"} =>
        ~ (IsPrefix(log, chain[source]) /\ \A i \in DOMAIN log : RightRoot(log[i]))

SignedUpTo(n) == \A i \in 1 .. n : Operator \in DOMAIN log[i].signature_set

\* In a log that passes the verifier's three checks, the lines up to the
\* first one that the operator's signature is not on have the payloads of the
\* first receipts of one session; and if there is no such line, the log is as
\* long as a session from its start to its checkpoint.
VerifierSeesWholeSession ==
    VerifierPasses => \A n \in DOMAIN log : SignedUpTo(n) =>
        \E s \in Sessions :
            /\ \A i \in 1 .. n : i \in DOMAIN chain[s] /\ log[i].payload = chain[s][i].payload
            /\ n = Len(log) => n = Len(Flow)

-----------------------------------------------------------------------------
(* What the documents say, and the code does not do.                       *)

\* checks.py:5: the verifier "recomputes every digest, every signature, every
\* state root".
EveryStateRootRecomputed == VerifierPasses => \A i \in DOMAIN log : RightRoot(log[i])
=============================================================================

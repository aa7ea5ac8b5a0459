------------------------------ MODULE Registry ------------------------------
(***************************************************************************)
(* Signed documents: registry epochs (src/witness/registry.py) and the     *)
(* admission manifest that binds their digests (admission.py).  The        *)
(* operator issues epochs as time goes by and admits a session under them; *)
(* one document is copied and damaged, and judged, at any later time, by   *)
(* verify_registry or verify_admission_manifest and by the verifier's own  *)
(* checks (src/verifier/checks.py), which were written separately.         *)
(***************************************************************************)
EXTENDS Crypto, Integers, FiniteSets

CONSTANTS
    Validities,     \* values of validity_seconds
    Entries,        \* the action ids and witness key ids an epoch may have
    ActionId,       \* the action of the sessions
    MaxClock,       \* bound of the clock
    MaxHarm,        \* bound of what happens to the copy
    NoDocument

ASSUME RegistryAssumption ==
    /\ Validities \subseteq Nat
    /\ MaxClock \in Nat /\ MaxHarm \in Nat
    /\ {ActionId, Witness} \subseteq Entries

Registries == {"action", "witness"}
WitnessKeys == Entries \ {ActionId}

VARIABLES
    clock,      \* utcnow_iso, in seconds
    epochs,     \* the current epoch of each registry
    document,   \* the document that is examined, as it was signed
    copied,     \* the copy of it
    harm,       \* how much happened to the copy
    answers     \* verify_registry, asked at the clock: what it said at each time,
                \* and, if that was ok, of which payload

registryVars == <<clock, epochs, document, copied, harm, answers>>

-----------------------------------------------------------------------------
(* Building.                                                               *)

\* Mutant of Signed: the digest is signed in place of the payload.
SignedDigest(payload) ==
    [payload |-> payload, payload_digest |-> Digest(payload),
     signature_set |-> [k \in {Operator} |-> SignB64(k, Digest(payload))]]

\* _sign_registry and sign_admission_manifest.
Signed(payload) ==
    [payload |-> payload, payload_digest |-> Digest(payload),
     signature_set |-> [k \in {Operator} |-> SignB64(k, payload)]]

\* A time without an offset is taken as it is, and stays naive.
BuildEpoch(registry, issued, validity, entries, form) ==
    Signed([type |-> registry, complete |-> TRUE, form |-> form, entries |-> entries,
            issued_at |-> issued, expires_at |-> issued + validity])

\* code is FALSE when no digest of the validator is at hand.
BuildAdmissionManifest(action, witness, code) ==
    Signed([type |-> "admission", complete |-> TRUE, form |-> "aware", code |-> code,
            intent_layer |-> "none", action_registry |-> action.payload_digest,
            witness_registry |-> witness.payload_digest])

RegistryInit ==
    /\ clock = 0
    /\ epochs = [r \in Registries |-> NoDocument]
    /\ document = NoDocument
    /\ copied = NoDocument
    /\ harm = 0
    /\ answers = [t \in 0 .. MaxClock |-> [said |-> "none", of |-> NoDocument]]

RegistryTick ==
    /\ clock < MaxClock
    /\ clock' = clock + 1
    /\ UNCHANGED <<epochs, document, copied, harm, answers>>

\* The action registry has the action; the witness registry some witness.
EntriesOf(r) == IF r = "action" THEN {{ActionId}} ELSE (SUBSET WitnessKeys) \ {{}}

IssueEpoch(r) ==
    /\ document = NoDocument
    /\ \E validity \in Validities, form \in {"aware", "naive"}, entries \in EntriesOf(r) :
          epochs' = [epochs EXCEPT ![r] = BuildEpoch(r, clock, validity, entries, form)]
    /\ UNCHANGED <<clock, document, copied, harm, answers>>

\* What is examined is a current epoch, or the manifest of a session that is
\* admitted under both.
Publish(d) ==
    /\ document = NoDocument
    /\ document' = d
    /\ copied' = d
    /\ UNCHANGED <<clock, epochs, harm, answers>>

PublishEpoch(r) == epochs[r] # NoDocument /\ Publish(epochs[r])
Admit ==
    /\ \A r \in Registries : epochs[r] # NoDocument
    /\ \E code \in BOOLEAN :
          Publish(BuildAdmissionManifest(epochs["action"], epochs["witness"], code))

-----------------------------------------------------------------------------
(* The copy.                                                               *)

HarmedPayloads(p) ==
    {[p EXCEPT !.complete = FALSE], [p EXCEPT !.form = "unparsable"]}
    \cup IF p.type = "admission"
         THEN {[p EXCEPT !.intent_layer = "other"], [p EXCEPT !.action_registry = Altered],
               [p EXCEPT !.code = FALSE]}
         ELSE {[p EXCEPT !.expires_at = @ + 1], [p EXCEPT !.issued_at = @ + 1],
               [p EXCEPT !.entries = Entries]}
\* Lost, under another id, damaged, or made in the operator's name by the
\* holder of another key.
HarmedSignatures(p, sigs) ==
    {[k \in {} |-> Altered], [k \in {Witness} |-> SignB64(Operator, "payload")],
     [k \in {Operator} |-> SignB64(Witness, p)]}
    \cup {[k \in DOMAIN sigs |-> bad] : bad \in {Altered, Malformed}}

\* One field, one signature, or the digest: damaged, or brought up to date
\* with a payload that was changed before.
Harm ==
    /\ copied # NoDocument /\ harm < MaxHarm
    /\ copied' \in {[copied EXCEPT !.payload = p] : p \in HarmedPayloads(copied.payload)}
         \cup {[copied EXCEPT !.signature_set = s] :
                 s \in HarmedSignatures(copied.payload, copied.signature_set)}
         \cup {[copied EXCEPT !.payload_digest = x] : x \in {Altered, Digest(copied.payload)}}
    /\ copied' # copied
    /\ harm' = harm + 1
    /\ UNCHANGED <<clock, epochs, document, answers>>

-----------------------------------------------------------------------------
(* The verdicts.                                                           *)

InWindow(time, p) == p.issued_at <= time /\ time <= p.expires_at

HasSignature(d) == Operator \in DOMAIN d.signature_set

\* Digest and signature are those of the payload.
Authentic(d) ==
    /\ d.payload_digest = Digest(d.payload)
    /\ HasSignature(d)
    /\ VerifySignature(Operator, d.payload, d.signature_set[Operator])

Readable(p) == p.complete /\ p.form # "unparsable"

\* Mutant of VerifyRegistry: the digest vouches for the payload.
VerifyRegistryUnsigned(d, time) ==
    /\ Readable(d.payload) /\ d.payload.form = "aware"
    /\ InWindow(time, d.payload)
    /\ d.payload_digest = Digest(d.payload)

\* verify_registry, with verification_time.
VerifyRegistry(d, time) ==
    /\ Readable(d.payload) /\ d.payload.form = "aware"
    /\ InWindow(time, d.payload)
    /\ Authentic(d)

\* A naive time cannot be compared with an aware one: TypeError.
RegistryRaises(d) ==
    /\ Readable(d.payload)
    /\ \/ d.payload.form = "naive"
       \/ HasSignature(d) /\ SignatureRaises(d.signature_set[Operator])

VerifyAdmissionManifest(d) ==
    /\ d.payload.complete /\ d.payload.intent_layer = "none" /\ d.payload.code
    /\ Authentic(d)

\* What an epoch must name for a certificate of the action with these
\* witness key ids: there are none if the cycle observed nothing.
Named(p, witnesses) == IF p.type = "action" THEN {ActionId} ELSE witnesses

\* The verifier, _check_registry_validity: the certificate is of time issued_at.
CheckRegistryValidity(d, issued_at, witnesses) ==
    /\ d.payload.form = "aware"
    /\ InWindow(issued_at, d.payload)
    /\ Authentic(d)
    /\ Named(d.payload, witnesses) \subseteq d.payload.entries

\* The verifier, _check_admission: the certificate has the digest of the
\* manifest that was signed.
CheckAdmission(d) ==
    /\ Digest(d.payload) = document.payload_digest
    /\ d.payload.intent_layer = "none"
    /\ Authentic(d)

Examined(types) == copied # NoDocument /\ copied.payload.type \in types

\* verify_registry without a time.
AskNow ==
    /\ Examined(Registries)
    /\ answers[clock].said = "none"
    /\ answers' = [answers EXCEPT ![clock] =
          IF VerifyRegistry(copied, clock) THEN [said |-> "ok", of |-> copied.payload]
          ELSE [said |-> IF RegistryRaises(copied) THEN "raised" ELSE "errors",
                of |-> NoDocument]]
    /\ UNCHANGED <<clock, epochs, document, copied, harm>>

RegistryNext ==
    \/ \E r \in Registries : IssueEpoch(r) \/ PublishEpoch(r)
    \/ Admit \/ RegistryTick \/ Harm \/ AskNow

RegistrySpec == RegistryInit /\ [][RegistryNext]_registryVars

-----------------------------------------------------------------------------
(* Safety.                                                                 *)

\* verify_registry, asked at any time, says ok only of the very payload that
\* the operator signed, whatever was done to the copy and its digest, and
\* only from its issue to its expiry, both included; and it says ok of it
\* then until something happens to the copy.
EpochAnswersRight ==
    Examined(Registries) => \A t \in DOMAIN answers :
        LET epoch == document.payload
            held == epoch.form = "aware" /\ epoch.issued_at <= t /\ t <= epoch.expires_at
        IN  /\ answers[t].said = "ok" => answers[t].of = epoch /\ held
            /\ held /\ harm = 0 => answers[t].said \in {"none", "ok"}

\* The verifier and the functions of the witness come to the same verdict
\* about the same document, damaged or not: on an epoch, at any time, if it
\* names the action or the witness, if there is one; on a manifest, if it
\* has the code.
VerdictsAgree ==
    /\ Examined(Registries) =>
          \A t \in 0 .. MaxClock : \A witnesses \in SUBSET {Witness} :
              CheckRegistryValidity(copied, t, witnesses) <=>
                  /\ VerifyRegistry(copied, t)
                  /\ Named(copied.payload, witnesses) \subseteq copied.payload.entries
    /\ Examined({"admission"}) =>
          (CheckAdmission(copied) /\ copied.payload.code <=> VerifyAdmissionManifest(copied))
=============================================================================

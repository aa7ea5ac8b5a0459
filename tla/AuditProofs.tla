----------------------------- MODULE AuditProofs -----------------------------
(***************************************************************************)
(* Theorems about Registry and Audit, for any validities, entries, clock   *)
(* and number of harms.                                                    *)
(*                                                                         *)
(* Registry: verify_registry says ok only of the payload that was signed,  *)
(* and the verifier's checks agree with the witness's functions.  What     *)
(* happens to a copy may bring its digest up to date with a changed        *)
(* payload, but makes no operator's signature over another payload; so an  *)
(* authentic copy has the payload that was signed (AuthenticIsSigned),     *)
(* which is complete.                                                      *)
(*                                                                         *)
(* Audit: one thing at a time is examined, so what an audit does to the    *)
(* receipts is a behaviour of Receipts and what it does to the documents   *)
(* is a behaviour of Registry: all that is proved of either holds in it.   *)
(***************************************************************************)
EXTENDS Audit, ReceiptsProofs

-----------------------------------------------------------------------------
(* Registry.                                                               *)

\* The fields of the payloads, and of a document.
IsEpoch(p) ==
    \E type \in Registries : \E complete, form, entries, issued, expires :
        p = [type |-> type, complete |-> complete, form |-> form, entries |-> entries,
             issued_at |-> issued, expires_at |-> expires]
IsManifest(p) ==
    \E complete, form, code, layer, action, witness :
        p = [type |-> "admission", complete |-> complete, form |-> form, code |-> code,
             intent_layer |-> layer, action_registry |-> action, witness_registry |-> witness]
IsPayload(p) == IsEpoch(p) \/ IsManifest(p)
IsDocument(d) ==
    \E p, digest, sigs :
        d = [payload |-> p, payload_digest |-> digest, signature_set |-> sigs]

\* A document as it was signed.
AsSigned(d) ==
    /\ d = Signed(d.payload)
    /\ IsPayload(d.payload)
    /\ d.payload.complete /\ d.payload.form # "unparsable"

EpochsInv ==
    /\ DOMAIN epochs = Registries
    /\ \A r \in Registries : epochs[r] # NoDocument => AsSigned(epochs[r])

\* What does not verify under the operator's key, whatever it is said to sign.
NotOperators(sig) == sig \in {Altered, Malformed} \/ \E x : sig = SignB64(Witness, x)

\* The copy has the type of the document, and no other signature of the
\* operator.
CopiedInv ==
    copied # NoDocument =>
        /\ AsSigned(document)
        /\ IsDocument(copied) /\ IsPayload(copied.payload)
        /\ copied.payload.type = document.payload.type
        /\ Operator \in DOMAIN copied.signature_set =>
              \/ copied.signature_set[Operator] = SignB64(Operator, document.payload)
              \/ NotOperators(copied.signature_set[Operator])
        /\ harm = 0 => copied = document

AnswersInv ==
    /\ clock \in 0 .. MaxClock /\ harm \in Nat
    /\ DOMAIN answers = 0 .. MaxClock
    /\ document = NoDocument =>
          /\ copied = NoDocument /\ harm = 0
          /\ \A t \in DOMAIN answers : answers[t].said = "none"

RegistryInv == EpochsInv /\ CopiedInv /\ AnswersInv /\ EpochAnswersRight

-----------------------------------------------------------------------------

LEMMA DocumentFields ==
    ASSUME NEW p
    PROVE  /\ Signed(p).payload = p
           /\ Signed(p).payload_digest = Digest(p)
           /\ DOMAIN Signed(p).signature_set = {Operator}
           /\ Signed(p).signature_set[Operator] = SignB64(Operator, p)
           /\ IsDocument(Signed(p))
BY DEF Signed, IsDocument

LEMMA SignatureCovers ==
    ASSUME NEW p, NEW q
    PROVE  /\ SignB64(Operator, p) = SignB64(Operator, q) => p = q
           /\ ~ NotOperators(SignB64(Operator, p))
BY KeyAssumption DEF NotOperators, SignB64, Altered, Malformed

\* An authentic copy has the payload that was signed.
LEMMA AuthenticIsSigned ==
    ASSUME RegistryInv, copied # NoDocument, Authentic(copied)
    PROVE  copied.payload = document.payload
BY SignatureCovers DEF RegistryInv, CopiedInv, Authentic, HasSignature, VerifySignature

\* What is signed is authentic.
LEMMA SignedIsAuthentic ==
    ASSUME NEW d, AsSigned(d)
    PROVE  Authentic(d) /\ Readable(d.payload)
BY DocumentFields DEF AsSigned, Authentic, HasSignature, VerifySignature, Readable

\* The payloads that are built are complete.
LEMMA EpochIsSigned ==
    ASSUME NEW r \in Registries, NEW issued, NEW validity, NEW entries,
           NEW form \in {"aware", "naive"}
    PROVE  AsSigned(BuildEpoch(r, issued, validity, entries, form))
<1> DEFINE p == [type |-> r, complete |-> TRUE, form |-> form, entries |-> entries,
                 issued_at |-> issued, expires_at |-> issued + validity]
<1>1. BuildEpoch(r, issued, validity, entries, form) = Signed(p) /\ Signed(p).payload = p
  BY DocumentFields DEF BuildEpoch
<1>2. IsPayload(p)
  BY DEF IsPayload, IsEpoch
<1>3. p.complete /\ p.form # "unparsable"
  OBVIOUS
<1> QED BY <1>1, <1>2, <1>3 DEF AsSigned

LEMMA ManifestIsSigned ==
    ASSUME NEW a, NEW w, NEW code
    PROVE  AsSigned(BuildAdmissionManifest(a, w, code))
<1> DEFINE p == [type |-> "admission", complete |-> TRUE, form |-> "aware", code |-> code,
                 intent_layer |-> "none", action_registry |-> a.payload_digest,
                 witness_registry |-> w.payload_digest]
<1>1. BuildAdmissionManifest(a, w, code) = Signed(p) /\ Signed(p).payload = p
  BY DocumentFields DEF BuildAdmissionManifest
<1>2. IsPayload(p)
  BY DEF IsPayload, IsManifest
<1>3. p.complete /\ p.form # "unparsable"
  OBVIOUS
<1> QED BY <1>1, <1>2, <1>3 DEF AsSigned

\* A harmed payload is still one, of the same type.
LEMMA HarmedPayload ==
    ASSUME NEW p, IsPayload(p), NEW q \in HarmedPayloads(p)
    PROVE  IsPayload(q) /\ q.type = p.type
<1>1. CASE IsEpoch(p)
  <2>1. p.type # "admission" /\ p.type \in Registries
    BY <1>1 DEF IsEpoch, Registries
  <2>2. IsEpoch(q) /\ q.type = p.type
    BY <1>1, <2>1 DEF IsEpoch, HarmedPayloads
  <2> QED BY <2>2 DEF IsPayload
<1>2. CASE IsManifest(p)
  <2>1. p.type = "admission"
    BY <1>2 DEF IsManifest
  <2>2. IsManifest(q) /\ q.type = p.type
    BY <1>2, <2>1 DEF IsManifest, HarmedPayloads
  <2> QED BY <2>2 DEF IsPayload
<1> QED BY <1>1, <1>2 DEF IsPayload

LEMMA HarmPreserves ==
    ASSUME RegistryInv, Harm
    PROVE  RegistryInv'
<1> USE DEF RegistryInv
<1>1. /\ copied # NoDocument /\ document # NoDocument
      /\ harm' = harm + 1 /\ harm' # 0 /\ harm' \in Nat
      /\ UNCHANGED <<clock, epochs, document, answers>>
  BY DEF Harm, AnswersInv
<1>2. PICK p, digest, sigs :
        copied = [payload |-> p, payload_digest |-> digest, signature_set |-> sigs]
  BY <1>1 DEF CopiedInv, IsDocument
<1>3. /\ IsPayload(p) /\ p.type = document.payload.type
      /\ Operator \in DOMAIN sigs =>
            sigs[Operator] = SignB64(Operator, document.payload) \/ NotOperators(sigs[Operator])
  BY <1>1, <1>2 DEF CopiedInv
<1>4. \/ \E q \in HarmedPayloads(p) :
            copied' = [payload |-> q, payload_digest |-> digest, signature_set |-> sigs]
      \/ \E s \in HarmedSignatures(p, sigs) :
            copied' = [payload |-> p, payload_digest |-> digest, signature_set |-> s]
      \/ \E x : copied' = [payload |-> p, payload_digest |-> x, signature_set |-> sigs]
  BY <1>2 DEF Harm
<1>5. \A s \in HarmedSignatures(p, sigs) : Operator \in DOMAIN s => NotOperators(s[Operator])
  BY KeyAssumption DEF HarmedSignatures, NotOperators
<1>6. /\ IsDocument(copied') /\ IsPayload(copied'.payload)
      /\ copied'.payload.type = document.payload.type
      /\ Operator \in DOMAIN copied'.signature_set =>
            \/ copied'.signature_set[Operator] = SignB64(Operator, document.payload)
            \/ NotOperators(copied'.signature_set[Operator])
  <2>1. CASE \E q \in HarmedPayloads(p) :
               copied' = [payload |-> q, payload_digest |-> digest, signature_set |-> sigs]
    <3>1. PICK q \in HarmedPayloads(p) :
             copied' = [payload |-> q, payload_digest |-> digest, signature_set |-> sigs]
      BY <2>1
    <3>2. IsPayload(q) /\ q.type = p.type
      BY <1>3, HarmedPayload
    <3>3. copied'.payload = q /\ copied'.signature_set = sigs
      BY <3>1
    <3>4. IsDocument(copied')
      BY <3>1 DEF IsDocument
    <3> QED BY <1>3, <3>2, <3>3, <3>4
  <2>2. CASE \E s \in HarmedSignatures(p, sigs) :
               copied' = [payload |-> p, payload_digest |-> digest, signature_set |-> s]
    <3>1. PICK s \in HarmedSignatures(p, sigs) :
             copied' = [payload |-> p, payload_digest |-> digest, signature_set |-> s]
      BY <2>2
    <3>2. copied'.payload = p /\ copied'.signature_set = s
      BY <3>1
    <3>3. IsDocument(copied')
      BY <3>1 DEF IsDocument
    <3> QED BY <1>3, <1>5, <3>2, <3>3
  <2>3. CASE \E x : copied' = [payload |-> p, payload_digest |-> x, signature_set |-> sigs]
    <3>1. PICK x : copied' = [payload |-> p, payload_digest |-> x, signature_set |-> sigs]
      BY <2>3
    <3>2. copied'.payload = p /\ copied'.signature_set = sigs
      BY <3>1
    <3>3. IsDocument(copied')
      BY <3>1 DEF IsDocument
    <3> QED BY <1>3, <3>2, <3>3
  <2> QED BY <1>4, <2>1, <2>2, <2>3
<1>7. CopiedInv'
  BY <1>1, <1>6 DEF CopiedInv
<1>8. EpochAnswersRight'
  <2>1. Examined(Registries)' => Examined(Registries)
    BY <1>1, <1>3, <1>6, <1>2 DEF Examined
  <2> QED BY <1>1, <2>1 DEF EpochAnswersRight
<1> QED BY <1>1, <1>7, <1>8 DEF EpochsInv, AnswersInv

LEMMA AskPreserves ==
    ASSUME RegistryInv, AskNow
    PROVE  RegistryInv'
<1> USE DEF RegistryInv
<1>1. /\ Examined(Registries) /\ copied # NoDocument /\ clock \in DOMAIN answers
      /\ DOMAIN answers' = DOMAIN answers
      /\ \A t \in DOMAIN answers : t # clock => answers'[t] = answers[t]
      /\ UNCHANGED <<clock, epochs, document, copied, harm>>
  BY DEF AskNow, Examined, AnswersInv
<1>2. /\ VerifyRegistry(copied, clock) =>
            answers'[clock].said = "ok" /\ answers'[clock].of = copied.payload
      /\ ~ VerifyRegistry(copied, clock) => answers'[clock].said # "ok"
  BY <1>1 DEF AskNow
<1> DEFINE epoch == document.payload
           held(t) == epoch.form = "aware" /\ epoch.issued_at <= t /\ t <= epoch.expires_at
<1>3. answers'[clock].said = "ok" => answers'[clock].of = epoch /\ held(clock)
  <2>1. answers'[clock].said = "ok" =>
           VerifyRegistry(copied, clock) /\ answers'[clock].of = copied.payload
    BY <1>2
  <2>2. VerifyRegistry(copied, clock) => copied.payload = epoch
    BY <1>1, AuthenticIsSigned DEF VerifyRegistry
  <2> QED BY <2>1, <2>2 DEF VerifyRegistry, InWindow
<1>4. held(clock) /\ harm = 0 => answers'[clock].said = "ok"
  <2>1. harm = 0 => copied = document /\ Authentic(document) /\ Readable(epoch)
    BY <1>1, SignedIsAuthentic DEF CopiedInv
  <2> QED BY <1>2, <2>1 DEF VerifyRegistry, InWindow
<1>5. EpochAnswersRight'
  BY <1>1, <1>3, <1>4 DEF EpochAnswersRight
<1>6. document # NoDocument
  BY <1>1 DEF AnswersInv
<1> QED BY <1>1, <1>5, <1>6 DEF EpochsInv, AnswersInv, CopiedInv

LEMMA PublishPreserves ==
    ASSUME RegistryInv, NEW d, AsSigned(d), Publish(d)
    PROVE  RegistryInv'
<1> USE DEF RegistryInv
<1>1. /\ document' = d /\ copied' = d
      /\ harm = 0 /\ \A t \in DOMAIN answers : answers[t].said = "none"
      /\ UNCHANGED <<clock, epochs, harm, answers>>
  BY DEF Publish, AnswersInv
<1>2. CopiedInv'
  <2>1. /\ IsDocument(d) /\ IsPayload(d.payload)
        /\ d.signature_set[Operator] = SignB64(Operator, d.payload)
    BY DocumentFields DEF AsSigned
  <2> QED BY <1>1, <2>1 DEF CopiedInv, AsSigned
<1>3. EpochAnswersRight'
  BY <1>1 DEF EpochAnswersRight
<1> QED BY <1>1, <1>2, <1>3 DEF EpochsInv, AnswersInv

LEMMA IssuePreserves ==
    ASSUME RegistryInv, NEW r \in Registries, IssueEpoch(r)
    PROVE  RegistryInv'
<1> USE DEF RegistryInv
<1>1. UNCHANGED <<clock, document, copied, harm, answers>>
  BY DEF IssueEpoch
<1>2. \E e : AsSigned(e) /\ epochs' = [epochs EXCEPT ![r] = e]
  BY EpochIsSigned DEF IssueEpoch
<1>3. EpochsInv'
  BY <1>2 DEF EpochsInv
<1>4. EpochAnswersRight'
  BY <1>1 DEF EpochAnswersRight, Examined
<1> QED BY <1>1, <1>3, <1>4 DEF CopiedInv, AnswersInv

\* What the building of epochs and manifests (registry.py, admission.py), the
\* damage to a copy and the answers of verify_registry preserve.
THEOREM RegistryInductive == RegistrySpec => []RegistryInv
<1>1. RegistryInit => RegistryInv
  <2> SUFFICES ASSUME RegistryInit PROVE RegistryInv
    OBVIOUS
  <2>1. EpochsInv /\ CopiedInv
    BY DEF RegistryInit, EpochsInv, CopiedInv
  <2>2. AnswersInv
    BY RegistryAssumption DEF RegistryInit, AnswersInv
  <2>3. EpochAnswersRight
    BY DEF RegistryInit, EpochAnswersRight, Examined
  <2> QED BY <2>1, <2>2, <2>3 DEF RegistryInv
<1>2. ASSUME RegistryInv, [RegistryNext]_registryVars
      PROVE  RegistryInv'
  <2>1. ASSUME NEW r \in Registries, IssueEpoch(r)
        PROVE  RegistryInv'
    BY <1>2, <2>1, IssuePreserves
  <2>2. ASSUME NEW r \in Registries, PublishEpoch(r)
        PROVE  RegistryInv'
    <3>1. AsSigned(epochs[r]) /\ Publish(epochs[r])
      BY <1>2, <2>2 DEF PublishEpoch, RegistryInv, EpochsInv
    <3> QED BY <1>2, <3>1, PublishPreserves
  <2>3. CASE Admit
    <3>1. \E d : AsSigned(d) /\ Publish(d)
      BY <2>3, ManifestIsSigned DEF Admit
    <3> QED BY <1>2, <3>1, PublishPreserves
  <2>4. CASE RegistryTick
    <3>1. UNCHANGED <<epochs, document, copied, harm, answers>> /\ clock' \in 0 .. MaxClock
      BY <1>2, <2>4, RegistryAssumption DEF RegistryTick, RegistryInv, AnswersInv
    <3>2. EpochAnswersRight'
      BY <1>2, <3>1 DEF RegistryInv, EpochAnswersRight, Examined
    <3> QED BY <1>2, <3>1, <3>2 DEF RegistryInv, EpochsInv, CopiedInv, AnswersInv
  <2>5. CASE Harm
    BY <1>2, <2>5, HarmPreserves
  <2>6. CASE AskNow
    BY <1>2, <2>6, AskPreserves
  <2>7. CASE UNCHANGED registryVars
    <3>1. UNCHANGED <<clock, epochs, document, copied, harm, answers>>
      BY <2>7 DEF registryVars
    <3>2. EpochAnswersRight'
      BY <1>2, <3>1 DEF RegistryInv, EpochAnswersRight, Examined
    <3> QED BY <1>2, <3>1, <3>2 DEF RegistryInv, EpochsInv, CopiedInv, AnswersInv
  <2> QED BY <1>2, <2>1, <2>2, <2>3, <2>4, <2>5, <2>6, <2>7 DEF RegistryNext
<1> QED BY <1>1, <1>2, PTL DEF RegistrySpec

\* verify_registry (registry.py) says ok, at any time, only of the payload
\* that the operator signed, even if another has a digest of its own, and
\* inside its window; and of all that until the copy is harmed.
THEOREM AnswersAreRight == RegistrySpec => []EpochAnswersRight
<1>1. RegistryInv => EpochAnswersRight
  BY DEF RegistryInv
<1> QED BY <1>1, RegistryInductive, PTL

\* The verifier's checks of an epoch and of a manifest (checks.py) and the
\* functions of registry.py and admission.py never differ.
THEOREM VerdictsAlwaysAgree == RegistrySpec => []VerdictsAgree
<1>1. ASSUME RegistryInv
      PROVE  VerdictsAgree
  <2>1. ASSUME copied # NoDocument, Authentic(copied)
        PROVE  /\ copied.payload = document.payload
               /\ Readable(copied.payload)
               /\ copied.payload.complete
               /\ Digest(copied.payload) = document.payload_digest
    BY <1>1, <2>1, AuthenticIsSigned, DocumentFields
    DEF RegistryInv, CopiedInv, AsSigned, Readable
  <2> QED BY <2>1 DEF VerdictsAgree, Examined, CheckRegistryValidity, VerifyRegistry,
                      CheckAdmission, VerifyAdmissionManifest
<1> QED BY <1>1, RegistryInductive, PTL

-----------------------------------------------------------------------------
(* Audit.                                                                  *)

\* An audit implements both of its parts.
THEOREM AuditImplements == AuditSpec => ReceiptsSpec /\ RegistrySpec
<1>1. AuditInit => ReceiptsInit /\ RegistryInit
  BY DEF AuditInit
<1>2. ASSUME [AuditNext]_auditVars
      PROVE  [ReceiptsNext]_receiptsVars /\ [RegistryNext]_registryVars
  <2>1. CASE AuditReceipts
    BY <2>1 DEF AuditReceipts
  <2>2. CASE AuditDocument
    BY <2>2 DEF AuditDocument
  <2>3. CASE UNCHANGED auditVars
    BY <2>3 DEF auditVars
  <2> QED BY <1>2, <2>1, <2>2, <2>3 DEF AuditNext
<1> QED BY <1>1, <1>2, PTL DEF AuditSpec, ReceiptsSpec, RegistrySpec

\* So in an audit, too, the walk with verify_receipt accepts the beginning of
\* a chain as it was written and nothing else, the verifier's checks see one
\* session, verify_registry answers of what was signed, and the verifier
\* agrees with it (receipts.py, registry.py, admission.py, checks.py).
THEOREM AuditIsRight ==
    AuditSpec => /\ []AcceptedIsGenuine /\ []GenuineIsAccepted
                 /\ []VerifierSeesWholeSession
                 /\ []EpochAnswersRight /\ []VerdictsAgree
BY AuditImplements, AcceptedLogsAreGenuine, GenuineLogsAreAccepted, VerifierSeesSessions,
   AnswersAreRight, VerdictsAlwaysAgree, PTL

-----------------------------------------------------------------------------
(* Types.                                                                  *)

\* The answers of verify_registry: only an ok is of something.
AnswersOK ==
    /\ DOMAIN answers = 0 .. MaxClock
    /\ \A t \in DOMAIN answers :
          /\ answers[t].said \in {"none", "ok", "errors", "raised"}
          /\ answers[t].said # "ok" => answers[t].of = NoDocument

\* The bounded counters, the verdict and the answers.
CountsInv ==
    /\ slips \in 0 .. MaxSlips /\ damages \in 0 .. MaxDamages
    /\ verdict \in {"none", "walking", "accepted", "rejected", "raised"}
    /\ harm \in 0 .. MaxHarm
    /\ AnswersOK
    /\ document # NoDocument => Authentic(document)

LEMMA ReceiptsCounts ==
    ASSUME CountsInv, ReceiptsNext
    PROVE  /\ slips' \in 0 .. MaxSlips /\ damages' \in 0 .. MaxDamages
           /\ verdict' \in {"none", "walking", "accepted", "rejected", "raised"}
<1> USE ReceiptsAssumption DEF CountsInv
<1>1. ASSUME NEW s \in Sessions, AppendReceipt(s) \/ Slip(s)
      PROVE  /\ slips' \in 0 .. MaxSlips /\ UNCHANGED <<damages, verdict>>
  BY <1>1 DEF AppendReceipt, Slip, Build, copyVars, walkVars
<1>2. ASSUME NEW s \in Sessions, Copy(s)
      PROVE  UNCHANGED <<slips, damages, verdict>>
  BY <1>2 DEF Copy, walkVars
<1>3. CASE Lose \/ Repeat \/ Swap \/ Splice \/ Garble
  <2>1. \E damaged : Damage(damaged)
    BY <1>3 DEF Lose, Repeat, Swap, Splice, Garble
  <2>2. damages' \in 0 .. MaxDamages /\ UNCHANGED <<slips, verdict>>
    BY <2>1 DEF Damage, walkVars
  <2> QED BY <2>2
<1>4. CASE Begin \/ VerifyReceipt \/ Accept
  <2>1. UNCHANGED <<slips, damages>>
    BY <1>4 DEF Begin, VerifyReceipt, Accept, copyVars
  <2>2. verdict' \in {verdict, "walking", "accepted", "rejected", "raised"}
    BY <1>4 DEF Begin, VerifyReceipt, Accept
  <2> QED BY <2>1, <2>2
<1> QED BY <1>1, <1>2, <1>3, <1>4 DEF ReceiptsNext

\* What is published was signed, and stays.
LEMMA RegistryCounts ==
    ASSUME CountsInv, RegistryInv, RegistryNext
    PROVE  /\ harm' \in 0 .. MaxHarm
           /\ AnswersOK'
           /\ document' # NoDocument => Authentic(document')
<1> USE DEF CountsInv
<1>0. UNCHANGED answers => AnswersOK'
  BY DEF AnswersOK
<1>1. ASSUME NEW d, AsSigned(d), Publish(d)
      PROVE  /\ UNCHANGED <<harm, answers>> /\ Authentic(document')
  BY <1>1, SignedIsAuthentic DEF Publish
<1>2. ASSUME NEW r \in Registries, PublishEpoch(r)
      PROVE  \E d : AsSigned(d) /\ Publish(d)
  BY <1>2 DEF PublishEpoch, RegistryInv, EpochsInv
<1>3. CASE Admit
  <2>1. \E d : AsSigned(d) /\ Publish(d)
    BY <1>3, ManifestIsSigned DEF Admit
  <2> QED BY <1>0, <1>1, <2>1
<1>4. ASSUME NEW r \in Registries, IssueEpoch(r)
      PROVE  UNCHANGED <<harm, answers, document>>
  BY <1>4 DEF IssueEpoch
<1>5. CASE RegistryTick
  BY <1>0, <1>5 DEF RegistryTick
<1>6. CASE Harm
  <2>1. harm' \in 0 .. MaxHarm /\ UNCHANGED <<answers, document>>
    BY <1>6, RegistryAssumption DEF Harm
  <2> QED BY <1>0, <2>1
<1>7. CASE AskNow
  <2>1. UNCHANGED <<harm, document>>
    BY <1>7 DEF AskNow
  <2>2. \E said \in {"ok", "raised", "errors"} : \E of :
           /\ answers' = [answers EXCEPT ![clock] = [said |-> said, of |-> of]]
           /\ said # "ok" => of = NoDocument
    BY <1>7 DEF AskNow
  <2>3. AnswersOK'
    BY <2>2 DEF AnswersOK
  <2> QED BY <2>1, <2>3
<1> QED BY <1>0, <1>1, <1>2, <1>3, <1>4, <1>5, <1>6, <1>7 DEF RegistryNext

\* Chains are no longer than the flow of a session, every receipt has the
\* fields of build_receipt_payload, a walk stays within its log, and what is
\* published has been signed (receipts.py, registry.py, admission.py).
THEOREM AuditTypes == AuditSpec => []TypeOK
<1>1. AuditInit => CountsInv
  BY ReceiptsAssumption, RegistryAssumption
  DEF AuditInit, ReceiptsInit, RegistryInit, CountsInv, AnswersOK
<1>2. CountsInv /\ RegistryInv /\ [AuditNext]_auditVars => CountsInv'
  <2> SUFFICES ASSUME CountsInv, RegistryInv, [AuditNext]_auditVars PROVE CountsInv'
    OBVIOUS
  <2>1. CASE AuditReceipts
    <3>1. UNCHANGED <<harm, answers, document>>
      BY <2>1 DEF AuditReceipts, registryVars
    <3>2. (document' # NoDocument => Authentic(document')) /\ AnswersOK'
      BY <3>1 DEF CountsInv, AnswersOK
    <3> QED BY <2>1, <3>1, <3>2, ReceiptsCounts DEF AuditReceipts, CountsInv
  <2>2. CASE AuditDocument
    <3>1. UNCHANGED <<slips, damages, verdict>>
      BY <2>2 DEF AuditDocument, receiptsVars, copyVars, walkVars
    <3> QED BY <2>2, <3>1, RegistryCounts DEF AuditDocument, CountsInv
  <2>3. CASE UNCHANGED auditVars
    <3>1. UNCHANGED <<slips, damages, verdict, harm, answers, document>>
      BY <2>3 DEF auditVars, receiptsVars, copyVars, walkVars, registryVars
    <3>2. (document' # NoDocument => Authentic(document')) /\ AnswersOK'
      BY <3>1 DEF CountsInv, AnswersOK
    <3> QED BY <3>1, <3>2 DEF CountsInv
  <2> QED BY <2>1, <2>2, <2>3 DEF AuditNext
<1>3. ASSUME CountsInv, ReceiptsInv, RegistryInv
      PROVE  TypeOK
  <2>1. \A s \in Sessions : DOMAIN chain[s] = 1 .. Len(chain[s]) /\ Len(chain[s]) <= Len(Flow)
    BY <1>3, LinesLength DEF ReceiptsInv, ChainInv, ASequence
  <2>2. ASSUME NEW s \in Sessions, NEW i \in DOMAIN chain[s]
        PROVE  DOMAIN chain[s][i].payload = Required
    BY <1>3, <2>1, WrittenFields, PayloadFields DEF ReceiptsInv, Payload
  <2>3. source \in Sessions \cup {NoSession} /\ walked \in 0 .. Len(log)
    BY <1>3, LinesLength DEF ReceiptsInv, CopyInv, WalkInv
  <2>4. clock \in 0 .. MaxClock
    BY <1>3 DEF RegistryInv, AnswersInv
  <2> QED BY <1>3, <2>1, <2>2, <2>3, <2>4 DEF CountsInv, AnswersOK, TypeOK
<1> QED BY <1>1, <1>2, <1>3, AuditImplements, ReceiptsInductive, RegistryInductive, PTL
        DEF AuditSpec
=============================================================================

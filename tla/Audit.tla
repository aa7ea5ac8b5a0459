------------------------------- MODULE Audit -------------------------------
(***************************************************************************)
(* An audit of what a session leaves behind: of its receipts, or of one of *)
(* the signed documents that stand behind it.  The two share no state, so  *)
(* one of them at a time is examined, each in all its behaviours.          *)
(***************************************************************************)
EXTENDS Receipts, Registry

VARIABLE examined   \* the receipts or a document

auditVars == <<examined, receiptsVars, registryVars>>

AuditInit ==
    /\ ReceiptsInit /\ RegistryInit
    /\ examined \in {"receipts", "document"}

AuditReceipts ==
    examined = "receipts" /\ ReceiptsNext /\ UNCHANGED <<examined, registryVars>>
AuditDocument ==
    examined = "document" /\ RegistryNext /\ UNCHANGED <<examined, receiptsVars>>

AuditNext == AuditReceipts \/ AuditDocument

AuditSpec == AuditInit /\ [][AuditNext]_auditVars

-----------------------------------------------------------------------------
(* Safety.                                                                 *)

TypeOK ==
    /\ \A s \in Sessions : Len(chain[s]) <= Len(Flow)
    /\ \A s \in Sessions : \A i \in DOMAIN chain[s] :
          DOMAIN chain[s][i].payload = Required
    /\ slips \in 0 .. MaxSlips /\ damages \in 0 .. MaxDamages
    /\ source \in Sessions \cup {NoSession}
    /\ walked \in 0 .. Len(log)
    /\ verdict \in {"none", "walking", "accepted", "rejected", "raised"}
    /\ clock \in 0 .. MaxClock /\ harm \in 0 .. MaxHarm
    /\ DOMAIN answers = 0 .. MaxClock
    /\ \A t \in DOMAIN answers :
          /\ answers[t].said \in {"none", "ok", "errors", "raised"}
          /\ answers[t].said # "ok" => answers[t].of = NoDocument
    /\ document # NoDocument => Authentic(document)
=============================================================================

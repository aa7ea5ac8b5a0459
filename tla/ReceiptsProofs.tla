--------------------------- MODULE ReceiptsProofs ---------------------------
(***************************************************************************)
(* Theorems about Receipts, for any sessions, flow of kinds, slips and     *)
(* number of damages: a walk with verify_receipt accepts only the          *)
(* beginning of one session's chain, and rejects no such beginning.        *)
(*                                                                         *)
(* Nothing that happens to a copy makes a state root that was not written. *)
(* So a line whose root can be recomputed is the receipt that was written  *)
(* with this root (LineIsWritten); and that receipt names its predecessor. *)
(*                                                                         *)
(* The verifier's checks pass over a root that was damaged.  Instead, an   *)
(* operator's signature that holds is on a payload that was written, whose *)
(* previous root says which session it is of and after which receipt: as   *)
(* far as the signatures go, the lines are one session's, by induction.    *)
(***************************************************************************)
EXTENDS Receipts, SequenceTheorems, WellFoundedInduction, TLAPS

\* Receipt i of session s is what Build made of the receipts before it; its
\* root may be over another root than the previous one.
PreviousRoot(s, i) == IF i = 1 THEN Genesis ELSE chain[s][i - 1].state_root
Payload(s, i, previous) == BuildReceiptPayload(s, i - 1, Flow[i], previous)
Signatures(s, i, previous) == SignReceipt(Payload(s, i, previous), SubjectOf(s, Flow[i]))
Over(base, s, i, previous) ==
    AssembleReceipt(Payload(s, i, previous), Signatures(s, i, previous),
                    ComputeStateRoot(base, Payload(s, i, previous), Signatures(s, i, previous)))
Written(r, s, i, previous) == \E base : r = Over(base, s, i, previous)

ASequence(q) == \E S : q \in Seq(S)

ChainInv ==
    /\ DOMAIN chain = Sessions
    /\ \A s \in Sessions :
          /\ ASequence(chain[s]) /\ Len(chain[s]) <= Len(Flow)
          /\ \A i \in 1 .. Len(chain[s]) : Written(chain[s][i], s, i, PreviousRoot(s, i))

\* A line of the copy: what is not damaged of its root and its signatures is
\* of one receipt that was written.
MadeOf(r, w) ==
    /\ r.state_root \in {Altered, w.state_root}
    /\ DOMAIN r.signature_set \subseteq DOMAIN w.signature_set
    /\ \A k \in DOMAIN r.signature_set :
          r.signature_set[k] \in {Altered, Malformed, w.signature_set[k]}
Line(r) ==
    /\ r = AssembleReceipt(r.payload, r.signature_set, r.state_root)
    /\ \E s \in Sessions : \E i \in 1 .. Len(chain[s]) : MadeOf(r, chain[s][i])
Lines(q) == ASequence(q) /\ \A i \in 1 .. Len(q) : Line(q[i])
CopyInv ==
    /\ source \in Sessions \cup {NoSession}
    /\ source = NoSession => log = <<>> /\ verdict = "none"
    /\ Lines(log)

\* The lines walked so far are the first ones of one session's chain.
Follows(s) ==
    /\ walked <= Len(chain[s])
    /\ \A i \in 1 .. walked : log[i] = chain[s][i] /\ RightRoot(log[i])
WalkInv ==
    /\ walked \in Nat /\ walked <= Len(log)
    /\ verdict = "none" => walked = 0
    /\ verdict = "accepted" => walked = Len(log)
    /\ verdict \in {"rejected", "raised"} =>
          walked < Len(log) /\ ~ ReceiptHolds(log[walked + 1], expected)
    /\ expected = IF walked = 0 THEN Genesis ELSE log[walked].state_root
    /\ verdict # "none" => \E s \in Sessions : Follows(s)

ReceiptsInv == ChainInv /\ CopyInv /\ WalkInv

-----------------------------------------------------------------------------
(* Roots, receipts and sequences.                                          *)

\* A root determines what it covers, and is neither the genesis root nor a
\* damaged one.
LEMMA RootCovers ==
    ASSUME NEW a, NEW p, NEW g, NEW b, NEW q, NEW h
    PROVE  /\ ComputeStateRoot(a, p, g) = ComputeStateRoot(b, q, h) => a = b /\ p = q /\ g = h
           /\ ComputeStateRoot(a, p, g) # Genesis
           /\ ComputeStateRoot(a, p, g) # Altered
BY DEF ComputeStateRoot, Genesis, Altered

LEMMA ReceiptFields ==
    ASSUME NEW p, NEW g, NEW root
    PROVE  /\ AssembleReceipt(p, g, root).payload = p
           /\ AssembleReceipt(p, g, root).signature_set = g
           /\ AssembleReceipt(p, g, root).state_root = root
BY DEF AssembleReceipt

LEMMA PayloadFields ==
    ASSUME NEW s, NEW n, NEW k, NEW root
    PROVE  /\ BuildReceiptPayload(s, n, k, root).session_id = s
           /\ BuildReceiptPayload(s, n, k, root).sequence = n
           /\ BuildReceiptPayload(s, n, k, root).receipt_kind = k
           /\ BuildReceiptPayload(s, n, k, root).previous_state_root = root
           /\ DOMAIN BuildReceiptPayload(s, n, k, root) = Required
BY DEF BuildReceiptPayload, Required

\* What is written determines the session and the place.
LEMMA WrittenFields ==
    ASSUME ChainInv, NEW s \in Sessions, NEW i \in 1 .. Len(chain[s])
    PROVE  /\ chain[s][i].payload = Payload(s, i, PreviousRoot(s, i))
           /\ chain[s][i].signature_set = Signatures(s, i, PreviousRoot(s, i))
           /\ chain[s][i].payload.session_id = s
           /\ chain[s][i].payload.sequence = i - 1
           /\ chain[s][i].payload.receipt_kind = Flow[i]
           /\ chain[s][i].payload.previous_state_root = PreviousRoot(s, i)
           /\ \E base : chain[s][i].state_root
                           = ComputeStateRoot(base, chain[s][i].payload, chain[s][i].signature_set)
           /\ chain[s][i] = AssembleReceipt(chain[s][i].payload, chain[s][i].signature_set,
                                            chain[s][i].state_root)
<1> DEFINE p == Payload(s, i, PreviousRoot(s, i))
           g == Signatures(s, i, PreviousRoot(s, i))
<1>1. PICK base : chain[s][i] = AssembleReceipt(p, g, ComputeStateRoot(base, p, g))
  BY DEF ChainInv, Written, Over
<1>2. /\ chain[s][i].payload = p
      /\ chain[s][i].signature_set = g
      /\ chain[s][i].state_root = ComputeStateRoot(base, p, g)
  BY <1>1, ReceiptFields
<1> QED BY <1>1, <1>2, PayloadFields DEF Payload

\* Equal roots are of one receipt of one session.
LEMMA RootsAreUnique ==
    ASSUME ChainInv,
           NEW s \in Sessions, NEW i \in 1 .. Len(chain[s]),
           NEW t \in Sessions, NEW j \in 1 .. Len(chain[t]),
           chain[s][i].state_root = chain[t][j].state_root
    PROVE  s = t /\ i = j
<1> DEFINE p == chain[s][i].payload
           q == chain[t][j].payload
<1>1. /\ p.session_id = s /\ p.sequence = i - 1
      /\ \E base : chain[s][i].state_root = ComputeStateRoot(base, p, chain[s][i].signature_set)
  BY WrittenFields
<1>2. /\ q.session_id = t /\ q.sequence = j - 1
      /\ \E base : chain[t][j].state_root = ComputeStateRoot(base, q, chain[t][j].signature_set)
  BY WrittenFields
<1>3. p = q
  <2>1. PICK a : chain[s][i].state_root = ComputeStateRoot(a, p, chain[s][i].signature_set)
    BY <1>1
  <2>2. PICK b : chain[t][j].state_root = ComputeStateRoot(b, q, chain[t][j].signature_set)
    BY <1>2
  <2>3. ComputeStateRoot(a, p, chain[s][i].signature_set)
           = ComputeStateRoot(b, q, chain[t][j].signature_set)
    BY <2>1, <2>2
  <2> QED BY <2>3, RootCovers
<1> HIDE DEF p, q
<1>4. s = t /\ i - 1 = j - 1
  BY <1>1, <1>2, <1>3
<1>5. Len(chain[s]) \in Nat /\ Len(chain[t]) \in Nat
  BY LenProperties DEF ChainInv, ASequence
<1> QED BY <1>4, <1>5

\* A line whose root is right is a receipt that was written.
LEMMA LineIsWritten ==
    ASSUME ChainInv, NEW r, Line(r), RightRoot(r)
    PROVE  \E s \in Sessions : \E i \in 1 .. Len(chain[s]) : r = chain[s][i]
<1>1. r.state_root # Altered
  BY RootCovers DEF RightRoot
<1>2. PICK s \in Sessions : \E i \in 1 .. Len(chain[s]) : r.state_root = chain[s][i].state_root
  BY <1>1 DEF Line, MadeOf
<1>3. PICK i \in 1 .. Len(chain[s]) : r.state_root = chain[s][i].state_root
  BY <1>2
<1>4. PICK base : chain[s][i].state_root
                      = ComputeStateRoot(base, chain[s][i].payload, chain[s][i].signature_set)
  BY WrittenFields
<1>5. r.payload = chain[s][i].payload /\ r.signature_set = chain[s][i].signature_set
  BY <1>3, <1>4 DEF RightRoot, ComputeStateRoot
<1>6. chain[s][i] = AssembleReceipt(chain[s][i].payload, chain[s][i].signature_set,
                                    chain[s][i].state_root)
  BY WrittenFields
<1>7. r = AssembleReceipt(r.payload, r.signature_set, r.state_root)
  BY DEF Line
<1>8. r = chain[s][i]
  BY <1>3, <1>5, <1>6, <1>7
<1> QED BY <1>8

LEMMA EmptyIsSequence == ASequence(<<>>) /\ Len(<<>>) = 0
BY EmptySeq DEF ASequence

LEMMA HeadOfChain ==
    ASSUME ChainInv, NEW s \in Sessions
    PROVE  /\ Len(chain[s]) \in Nat
           /\ DOMAIN chain[s] = 1 .. Len(chain[s])
           /\ HeadRoot(s) = PreviousRoot(s, Len(chain[s]) + 1)
<1>1. PICK S : chain[s] \in Seq(S)
  BY DEF ChainInv, ASequence
<1>2. /\ Len(chain[s]) \in Nat /\ DOMAIN chain[s] = 1 .. Len(chain[s])
      /\ chain[s] = <<>> <=> Len(chain[s]) = 0
  BY <1>1, LenProperties, EmptySeq
<1> QED BY <1>2 DEF HeadRoot, PreviousRoot, Last

-----------------------------------------------------------------------------
(* Each action preserves ReceiptsInv.                                      *)

LEMMA InitEstablishes == ReceiptsInit => ReceiptsInv
<1> SUFFICES ASSUME ReceiptsInit PROVE ReceiptsInv
  OBVIOUS
<1>1. ChainInv
  <2>1. \A s \in Sessions : chain[s] = <<>>
    BY DEF ReceiptsInit
  <2>2. \A s \in Sessions : ASequence(chain[s]) /\ Len(chain[s]) = 0
    BY <2>1, EmptyIsSequence
  <2> QED BY <2>2 DEF ChainInv, ReceiptsInit
<1>2. CopyInv
  BY EmptyIsSequence DEF CopyInv, ReceiptsInit, Lines
<1>3. WalkInv
  BY EmptyIsSequence DEF WalkInv, ReceiptsInit
<1> QED BY <1>1, <1>2, <1>3 DEF ReceiptsInv

\* The earlier receipts, and what they were written over, stay.
LEMMA BuildPreserves ==
    ASSUME ReceiptsInv, NEW s \in Sessions, NEW base, Build(s, base)
    PROVE  ReceiptsInv'
<1> DEFINE n == Len(chain[s])
           r == Over(base, s, n + 1, PreviousRoot(s, n + 1))
<1>1. n \in Nat /\ HeadRoot(s) = PreviousRoot(s, n + 1)
  BY HeadOfChain DEF ReceiptsInv
<1>2. chain' = [chain EXCEPT ![s] = Append(chain[s], r)]
  BY <1>1 DEF Build, Over, Payload, Signatures
<1>3. /\ ASequence(Append(chain[s], r))
      /\ Len(Append(chain[s], r)) = n + 1
      /\ \A i \in 1 .. n : Append(chain[s], r)[i] = chain[s][i]
      /\ Append(chain[s], r)[n + 1] = r
  <2>1. PICK S : chain[s] \in Seq(S)
    BY DEF ReceiptsInv, ChainInv, ASequence
  <2>2. chain[s] \in Seq(S \cup {r}) /\ r \in S \cup {r}
    BY <2>1, SeqMonotonic
  <2>3. Append(chain[s], r) \in Seq(S \cup {r})
    BY <2>2, AppendProperties
  <2> QED BY <2>2, <2>3, AppendProperties DEF ASequence
<1>4. ChainInv'
  <2> SUFFICES ASSUME NEW t \in Sessions
               PROVE  /\ ASequence(chain'[t])
                      /\ Len(chain'[t]) <= Len(Flow)
                      /\ \A i \in 1 .. Len(chain'[t]) : Written(chain'[t][i], t, i, PreviousRoot(t, i)')
    BY <1>2 DEF ReceiptsInv, ChainInv, ASequence
  <2>1. CASE t # s
    <3>1. chain'[t] = chain[t]
      BY <1>2, <2>1 DEF ReceiptsInv, ChainInv
    <3>2. \A i \in 1 .. Len(chain[t]) : PreviousRoot(t, i)' = PreviousRoot(t, i)
      BY <3>1 DEF PreviousRoot
    <3> QED BY <3>1, <3>2 DEF ReceiptsInv, ChainInv, ASequence
  <2>2. CASE t = s
    <3>1. chain'[s] = Append(chain[s], r)
      BY <1>2 DEF ReceiptsInv, ChainInv
    <3>2. \A i \in 1 .. n + 1 : PreviousRoot(s, i)' = PreviousRoot(s, i)
      BY <1>1, <1>3, <3>1 DEF PreviousRoot
    <3>3. ASSUME NEW i \in 1 .. n + 1
          PROVE  Written(chain'[s][i], s, i, PreviousRoot(s, i)')
      <4>1. CASE i \in 1 .. n
        BY <1>3, <3>1, <3>2, <4>1 DEF ReceiptsInv, ChainInv
      <4>2. CASE i = n + 1
        <5>1. chain'[s][i] = Over(base, s, i, PreviousRoot(s, i))
          BY <1>3, <3>1, <4>2
        <5> QED BY <3>2, <5>1 DEF Written
      <4> QED BY <1>1, <4>1, <4>2
    <3>4. /\ ASequence(chain'[s]) /\ Len(chain'[s]) = n + 1
          /\ Len(chain'[s]) <= Len(Flow)
      <4>1. n < Len(Flow) /\ Len(Flow) \in Nat
        BY ReceiptsAssumption, LenProperties DEF Build
      <4> QED BY <1>1, <1>3, <3>1, <4>1
    <3> QED BY <2>2, <3>3, <3>4
  <2> QED BY <2>1, <2>2
<1>5. source = NoSession /\ log = <<>> /\ verdict = "none"
  BY DEF Build, ReceiptsInv, CopyInv
<1>6. UNCHANGED <<source, log, walked, expected, verdict>>
  BY DEF Build, copyVars, walkVars
<1>7. CopyInv'
  <2>1. log' = <<>> /\ source' = NoSession /\ verdict' = "none"
    BY <1>5, <1>6
  <2>2. ASequence(log') /\ 1 .. Len(log') = {}
    BY <2>1, EmptyIsSequence
  <2> QED BY <2>1, <2>2 DEF CopyInv, Lines, ASequence
<1>8. WalkInv'
  BY <1>5, <1>6 DEF ReceiptsInv, WalkInv
<1> QED BY <1>4, <1>7, <1>8 DEF ReceiptsInv

\* With the chains unchanged, what was written stays written.
LEMMA ChainStays ==
    ASSUME ChainInv, UNCHANGED chain
    PROVE  /\ ChainInv'
           /\ \A r : Line(r)' = Line(r)
BY DEF ChainInv, ASequence, PreviousRoot, Line

\* The lines of a chain are lines.
LEMMA ChainIsOfLines ==
    ASSUME ChainInv, NEW s \in Sessions, NEW i \in 1 .. Len(chain[s])
    PROVE  Line(chain[s][i])
BY WrittenFields DEF Line, MadeOf

LEMMA CopyPreserves ==
    ASSUME ReceiptsInv, NEW s \in Sessions, Copy(s)
    PROVE  ReceiptsInv'
<1>1. /\ log' = chain[s] /\ source' = s /\ verdict = "none" /\ walked = 0
      /\ UNCHANGED <<chain, walked, expected, verdict>>
  BY DEF Copy, walkVars, ReceiptsInv, CopyInv, WalkInv
<1>2. Lines(chain[s])
  BY ChainIsOfLines DEF ReceiptsInv, ChainInv, Lines
<1>3. Len(chain[s]) \in Nat
  BY HeadOfChain DEF ReceiptsInv
<1>4. ChainInv' /\ \A r : Line(r)' = Line(r)
  BY <1>1, ChainStays DEF ReceiptsInv
<1>5. Lines(log)'
  BY <1>1, <1>2, <1>4 DEF Lines, ASequence
<1>6. CopyInv'
  BY <1>1, <1>5, ReceiptsAssumption DEF CopyInv
<1>7. WalkInv'
  BY <1>1, <1>3 DEF ReceiptsInv, WalkInv
<1> QED BY <1>4, <1>6, <1>7 DEF ReceiptsInv

-----------------------------------------------------------------------------
(* What happens to the copy.                                               *)

LEMMA DamagePreserves ==
    ASSUME ReceiptsInv, NEW damaged, Lines(damaged), Damage(damaged)
    PROVE  ReceiptsInv'
<1>1. /\ log' = damaged /\ source # NoSession /\ verdict = "none" /\ walked = 0
      /\ UNCHANGED <<chain, source, walked, expected, verdict>>
  BY DEF Damage, walkVars, ReceiptsInv, WalkInv
<1>2. ChainInv' /\ \A r : Line(r)' = Line(r)
  BY <1>1, ChainStays DEF ReceiptsInv
<1>3. Lines(log)'
  BY <1>1, <1>2 DEF Lines, ASequence
<1>4. CopyInv'
  BY <1>1, <1>3 DEF CopyInv, ReceiptsInv
<1>5. Len(damaged) \in Nat
  BY LenProperties DEF Lines, ASequence
<1>6. WalkInv'
  BY <1>1, <1>5 DEF ReceiptsInv, WalkInv
<1> QED BY <1>2, <1>4, <1>6 DEF ReceiptsInv

LEMMA LinesLength ==
    ASSUME NEW q, Lines(q)
    PROVE  /\ Len(q) \in Nat
           /\ DOMAIN q = 1 .. Len(q)
BY LenProperties DEF Lines, ASequence

LEMMA ConcatLines ==
    ASSUME NEW p, NEW q, Lines(p), Lines(q)
    PROVE  Lines(p \o q)
<1>1. PICK S : p \in Seq(S)
  BY DEF Lines, ASequence
<1>2. PICK T : q \in Seq(T)
  BY DEF Lines, ASequence
<1>3. p \in Seq(S \cup T) /\ q \in Seq(S \cup T)
  BY <1>1, <1>2, SeqMonotonic
<1>4. /\ p \o q \in Seq(S \cup T)
      /\ Len(p \o q) = Len(p) + Len(q)
      /\ \A i \in 1 .. Len(p) + Len(q) : (p \o q)[i] =
            IF i <= Len(p) THEN p[i] ELSE q[i - Len(p)]
  BY <1>3, ConcatProperties
<1>5. ASSUME NEW i \in 1 .. Len(p) + Len(q)
      PROVE  Line((p \o q)[i])
  <2>1. CASE i <= Len(p)
    BY <1>4, <2>1, LinesLength DEF Lines
  <2>2. CASE ~ (i <= Len(p))
    <3>1. i - Len(p) \in 1 .. Len(q)
      BY <2>2, LinesLength
    <3> QED BY <1>4, <2>2, <3>1 DEF Lines
  <2> QED BY <2>1, <2>2
<1> QED BY <1>4, <1>5 DEF Lines, ASequence

LEMMA SubSeqLines ==
    ASSUME NEW q, Lines(q), NEW m \in Nat \ {0}, NEW n \in Nat, n <= Len(q)
    PROVE  Lines(SubSeq(q, m, n))
<1>1. PICK S : q \in Seq(S)
  BY DEF Lines, ASequence
<1>2. \A i \in m .. n : i \in 1 .. Len(q)
  BY LinesLength
<1>3. \A i \in m .. n : q[i] \in S
  BY <1>1, <1>2, ElementOfSeq
<1>4. /\ SubSeq(q, m, n) \in Seq(S)
      /\ Len(SubSeq(q, m, n)) = IF m <= n THEN n - m + 1 ELSE 0
      /\ \A i \in 1 .. n - m + 1 : SubSeq(q, m, n)[i] = q[m + i - 1]
  BY <1>3, SubSeqProperties
<1>5. ASSUME NEW i \in 1 .. Len(SubSeq(q, m, n))
      PROVE  Line(SubSeq(q, m, n)[i])
  <2>1. i \in 1 .. n - m + 1 /\ m + i - 1 \in 1 .. Len(q)
    BY <1>4, LinesLength
  <2> QED BY <1>4, <2>1 DEF Lines
<1> QED BY <1>4, <1>5 DEF Lines, ASequence

LEMMA ExceptLines ==
    ASSUME NEW q, Lines(q), NEW i \in 1 .. Len(q), NEW r, Line(r)
    PROVE  /\ Lines([q EXCEPT ![i] = r])
           /\ Len([q EXCEPT ![i] = r]) = Len(q)
<1>1. PICK S : q \in Seq(S)
  BY DEF Lines, ASequence
<1>2. q \in Seq(S \cup {r})
  BY <1>1, SeqMonotonic
<1>3. /\ [q EXCEPT ![i] = r] \in Seq(S \cup {r})
      /\ Len([q EXCEPT ![i] = r]) = Len(q)
      /\ \A j \in 1 .. Len(q) : [q EXCEPT ![i] = r][j] = IF j = i THEN r ELSE q[j]
  BY <1>2, ExceptSeq
<1> QED BY <1>3 DEF Lines, ASequence

\* A garbled receipt has a root that was written, or the damaged one.
LEMMA GarbledLines ==
    ASSUME NEW r, Line(r), NEW g \in Garbled(r)
    PROVE  Line(g)
<1>1. PICK p, sigs, root : r = AssembleReceipt(p, sigs, root)
  BY DEF Line
<1>2. PICK s \in Sessions : \E i \in 1 .. Len(chain[s]) : MadeOf(r, chain[s][i])
  BY DEF Line
<1>3. PICK i \in 1 .. Len(chain[s]) : MadeOf(r, chain[s][i])
  BY <1>2
<1> DEFINE w == chain[s][i]
<1>4. /\ root \in {Altered, w.state_root}
      /\ DOMAIN sigs \subseteq DOMAIN w.signature_set
      /\ \A k \in DOMAIN sigs : sigs[k] \in {Altered, Malformed, w.signature_set[k]}
      /\ r.signature_set = sigs
  BY <1>1, <1>3, ReceiptFields DEF MadeOf
<1>5. \/ \E q : g = [r EXCEPT !.payload = q]
      \/ \E h \in GarbledSignatures(sigs) : g = [r EXCEPT !.signature_set = h]
      \/ g = [r EXCEPT !.state_root = Altered]
  BY <1>4 DEF Garbled
<1>6. ASSUME NEW h \in GarbledSignatures(sigs)
      PROVE  /\ DOMAIN h \subseteq DOMAIN w.signature_set
             /\ \A k \in DOMAIN h : h[k] \in {Altered, Malformed, w.signature_set[k]}
  <2>1. PICK k \in DOMAIN sigs : h \in Spoilt(sigs, k) \cup {Without(sigs, k)}
    BY DEF GarbledSignatures
  <2>2. CASE h \in Spoilt(sigs, k)
    <3>1. \E bad \in {Altered, Malformed} : h = [sigs EXCEPT ![k] = bad]
      BY <2>2 DEF Spoilt
    <3> QED BY <1>4, <3>1
  <2>3. CASE h = Without(sigs, k)
    <3>1. DOMAIN h \subseteq DOMAIN sigs /\ \A j \in DOMAIN h : h[j] = sigs[j]
      BY <2>3 DEF Without
    <3> QED BY <1>4, <3>1
  <2> QED BY <2>1, <2>2, <2>3
<1>7. \/ \E q : g = AssembleReceipt(q, sigs, root)
      \/ \E h \in GarbledSignatures(sigs) : g = AssembleReceipt(p, h, root)
      \/ g = AssembleReceipt(p, sigs, Altered)
  BY <1>1, <1>5 DEF AssembleReceipt
<1> HIDE DEF w
<1>8. MadeOf(g, w)
  BY <1>4, <1>6, <1>7, ReceiptFields DEF MadeOf
<1>9. g = AssembleReceipt(g.payload, g.signature_set, g.state_root)
  BY <1>7, ReceiptFields
<1> QED BY <1>8, <1>9 DEF Line, w

LEMMA DamagesPreserve ==
    ASSUME ReceiptsInv, Lose \/ Repeat \/ Swap \/ Splice \/ Garble
    PROVE  ReceiptsInv'
<1>1. /\ Lines(log) /\ ChainInv
      /\ DOMAIN log = 1 .. Len(log) /\ Len(log) \in Nat
  BY LinesLength DEF ReceiptsInv, CopyInv
<1>2. CASE Lose
  <2>1. PICK i \in 1 .. Len(log) : Damage(RemoveAt(log, i))
    BY <1>1, <1>2 DEF Lose
  <2>2. Lines(SubSeq(log, 1, i - 1)) /\ Lines(SubSeq(log, i + 1, Len(log)))
    BY <1>1, SubSeqLines
  <2>3. Lines(RemoveAt(log, i))
    BY <2>2, ConcatLines DEF RemoveAt
  <2> QED BY <2>1, <2>3, DamagePreserves
<1>3. CASE Repeat
  <2>1. PICK i \in 1 .. Len(log) : Damage(InsertAt(log, i, log[i]))
    BY <1>1, <1>3 DEF Repeat
  <2>2. Lines(SubSeq(log, 1, i - 1)) /\ Lines(SubSeq(log, i, Len(log)))
    BY <1>1, SubSeqLines
  <2>3. Lines(<<log[i]>>)
    BY <1>1 DEF Lines, ASequence
  <2>4. Lines(InsertAt(log, i, log[i]))
    BY <2>2, <2>3, ConcatLines DEF InsertAt
  <2> QED BY <2>1, <2>4, DamagePreserves
<1>4. CASE Swap
  <2>1. PICK i \in 1 .. Len(log) - 1 :
            Damage([log EXCEPT ![i] = log[i + 1], ![i + 1] = log[i]])
    BY <1>4 DEF Swap
  <2>2. i \in 1 .. Len(log) /\ i + 1 \in 1 .. Len(log)
    BY <1>1
  <2>3. Line(log[i]) /\ Line(log[i + 1])
    BY <1>1, <2>2 DEF Lines
  <2>4. /\ Lines([log EXCEPT ![i] = log[i + 1]])
        /\ Len([log EXCEPT ![i] = log[i + 1]]) = Len(log)
    BY <1>1, <2>2, <2>3, ExceptLines
  <2>5. Lines([[log EXCEPT ![i] = log[i + 1]] EXCEPT ![i + 1] = log[i]])
    BY <2>2, <2>3, <2>4, ExceptLines
  <2> QED BY <2>1, <2>5, DamagePreserves
<1>5. CASE Splice
  <2>1. PICK i \in 1 .. Len(log), s \in Sessions :
            \E j \in DOMAIN chain[s] : Damage([log EXCEPT ![i] = chain[s][j]])
    BY <1>1, <1>5 DEF Splice
  <2>2. PICK j \in 1 .. Len(chain[s]) : Damage([log EXCEPT ![i] = chain[s][j]])
    BY <1>1, <2>1, HeadOfChain
  <2>3. Lines([log EXCEPT ![i] = chain[s][j]])
    BY <1>1, ChainIsOfLines, ExceptLines
  <2> QED BY <2>2, <2>3, DamagePreserves
<1>6. CASE Garble
  <2>1. PICK i \in 1 .. Len(log) : \E r \in Garbled(log[i]) : Damage([log EXCEPT ![i] = r])
    BY <1>1, <1>6 DEF Garble
  <2>2. PICK r \in Garbled(log[i]) : Damage([log EXCEPT ![i] = r])
    BY <2>1
  <2>3. Line(r)
    BY <1>1, <2>2, GarbledLines DEF Lines
  <2>4. Lines([log EXCEPT ![i] = r])
    BY <1>1, <2>3, ExceptLines
  <2> QED BY <2>2, <2>4, DamagePreserves
<1> QED BY <1>2, <1>3, <1>4, <1>5, <1>6

-----------------------------------------------------------------------------
(* The walk.                                                               *)

\* A line that holds after the lines walked so far is the next receipt of a
\* chain that has those lines too.
LEMMA WalkGoesOn ==
    ASSUME ReceiptsInv, verdict # "none", walked < Len(log),
           ReceiptHolds(log[walked + 1], expected)
    PROVE  \E s \in Sessions :
              /\ Follows(s)
              /\ walked + 1 <= Len(chain[s])
              /\ log[walked + 1] = chain[s][walked + 1]
<1> DEFINE r == log[walked + 1]
<1>1. /\ ChainInv /\ Lines(log) /\ Len(log) \in Nat /\ walked \in Nat
      /\ walked + 1 \in 1 .. Len(log)
  BY LinesLength DEF ReceiptsInv, CopyInv, WalkInv
<1>2. Line(r) /\ RightRoot(r) /\ r.payload.previous_state_root = expected
  BY <1>1 DEF Lines, ReceiptHolds, RightRoot
<1>3. PICK t \in Sessions : \E j \in 1 .. Len(chain[t]) : r = chain[t][j]
  BY <1>1, <1>2, LineIsWritten
<1>4. PICK j \in 1 .. Len(chain[t]) : r = chain[t][j]
  BY <1>3
<1>5. Len(chain[t]) \in Nat /\ PreviousRoot(t, j) = expected
  BY <1>1, <1>2, <1>4, WrittenFields, HeadOfChain
<1>6. \A u \in Sessions : \A k \in 1 .. Len(chain[u]) : chain[u][k].state_root # Genesis
  BY <1>1, WrittenFields, RootCovers
<1>7. j # 1 => j - 1 \in 1 .. Len(chain[t])
  BY <1>5
<1>8. CASE walked = 0
  <2>1. expected = Genesis
    BY <1>8 DEF ReceiptsInv, WalkInv
  <2>2. j = 1
    BY <1>5, <1>6, <1>7, <2>1 DEF PreviousRoot
  <2> QED BY <1>4, <1>5, <1>8, <2>2 DEF Follows
<1>9. CASE walked # 0
  <2>1. PICK s \in Sessions : Follows(s)
    BY DEF ReceiptsInv, WalkInv
  <2>2. /\ walked \in 1 .. Len(chain[s]) /\ log[walked] = chain[s][walked]
        /\ expected = chain[s][walked].state_root
    BY <1>1, <1>9, <2>1, HeadOfChain DEF Follows, ReceiptsInv, WalkInv
  <2>3. j # 1 /\ chain[t][j - 1].state_root = chain[s][walked].state_root
    BY <1>5, <1>6, <2>2 DEF PreviousRoot
  <2>4. t = s /\ j - 1 = walked
    BY <1>1, <1>7, <2>2, <2>3, RootsAreUnique
  <2> QED BY <1>1, <1>4, <1>5, <2>1, <2>4
<1> QED BY <1>8, <1>9

LEMMA WalkPreserves ==
    ASSUME ReceiptsInv, Begin \/ VerifyReceipt \/ Accept
    PROVE  ReceiptsInv'
<1>1. UNCHANGED <<chain, source, log>> /\ source # NoSession
  BY DEF Begin, VerifyReceipt, Accept, copyVars, ReceiptsInv, CopyInv
<1>2. /\ ChainInv /\ Lines(log) /\ Len(log) \in Nat /\ walked \in Nat
      /\ walked <= Len(log) /\ source \in Sessions
  BY <1>1, LinesLength DEF ReceiptsInv, CopyInv, WalkInv
<1>3. ChainInv' /\ CopyInv'
  <2>1. ChainInv' /\ \A r : Line(r)' = Line(r)
    BY <1>1, <1>2, ChainStays
  <2> QED BY <1>1, <1>2, <2>1 DEF CopyInv, Lines, ASequence
<1>4. WalkInv'
  <2>1. CASE Begin
    <3>1. walked = 0 /\ Follows(source)'
      BY <1>1, <1>2, <2>1, HeadOfChain DEF Begin, Follows, ReceiptsInv, WalkInv
    <3> QED BY <1>1, <1>2, <2>1, <3>1 DEF Begin, ReceiptsInv, WalkInv
  <2>2. CASE VerifyReceipt /\ ReceiptHolds(log[walked + 1], expected)
    <3>1. /\ verdict = "walking" /\ verdict' = verdict /\ walked < Len(log)
          /\ walked' = walked + 1 /\ expected' = log[walked + 1].state_root
      BY <2>2 DEF VerifyReceipt
    <3>2. PICK s \in Sessions : /\ Follows(s)
                                /\ walked + 1 <= Len(chain[s])
                                /\ log[walked + 1] = chain[s][walked + 1]
      BY <2>2, <3>1, WalkGoesOn
    <3>3. RightRoot(log[walked + 1])
      BY <2>2 DEF ReceiptHolds, RightRoot
    <3>4. \A i \in 1 .. walked + 1 : i \in 1 .. walked \/ i = walked + 1
      BY <1>2
    <3>5. Follows(s)'
      BY <1>1, <3>1, <3>2, <3>3, <3>4 DEF Follows, RightRoot
    <3> QED BY <1>1, <1>2, <3>1, <3>5 DEF WalkInv
  <2>3. CASE VerifyReceipt /\ ~ ReceiptHolds(log[walked + 1], expected)
    <3>1. /\ verdict = "walking" /\ verdict' \in {"rejected", "raised"}
          /\ walked < Len(log) /\ UNCHANGED <<walked, expected>>
      BY <2>3 DEF VerifyReceipt
    <3>2. \E s \in Sessions : Follows(s)'
      BY <1>1, <3>1 DEF ReceiptsInv, WalkInv, Follows, RightRoot
    <3>3. ~ ReceiptHolds(log[walked + 1], expected)'
      BY <1>1, <2>3, <3>1 DEF ReceiptHolds, Covers, Subject, Complete
    <3> QED BY <1>1, <1>2, <3>1, <3>2, <3>3 DEF ReceiptsInv, WalkInv
  <2>4. CASE Accept
    <3>1. /\ verdict = "walking" /\ verdict' = "accepted" /\ walked = Len(log)
          /\ UNCHANGED <<walked, expected>>
      BY <2>4 DEF Accept
    <3>2. \E s \in Sessions : Follows(s)'
      BY <1>1, <3>1 DEF ReceiptsInv, WalkInv, Follows, RightRoot
    <3> QED BY <1>1, <1>2, <3>1, <3>2 DEF ReceiptsInv, WalkInv
  <2> QED BY <2>1, <2>2, <2>3, <2>4
<1> QED BY <1>3, <1>4 DEF ReceiptsInv

\* What building receipts, copying and damaging their log, and walking over
\* the copy with verify_receipt (receipts.py) preserve.
THEOREM ReceiptsInductive == ReceiptsSpec => []ReceiptsInv
<1>1. ASSUME ReceiptsInv, [ReceiptsNext]_receiptsVars
      PROVE  ReceiptsInv'
  <2>1. CASE \E s \in Sessions : AppendReceipt(s) \/ Slip(s)
    BY <1>1, <2>1, BuildPreserves DEF AppendReceipt, Slip
  <2>2. CASE \E s \in Sessions : Copy(s)
    BY <1>1, <2>2, CopyPreserves
  <2>3. CASE Lose \/ Repeat \/ Swap \/ Splice \/ Garble
    BY <1>1, <2>3, DamagesPreserve
  <2>4. CASE Begin \/ VerifyReceipt \/ Accept
    BY <1>1, <2>4, WalkPreserves
  <2>5. CASE UNCHANGED receiptsVars
    <3>1. UNCHANGED <<chain, source, log, walked, expected, verdict>>
      BY <2>5 DEF receiptsVars, copyVars, walkVars
    <3>2. ChainInv' /\ \A r : Line(r)' = Line(r)
      BY <1>1, <3>1, ChainStays DEF ReceiptsInv
    <3>3. CopyInv'
      BY <1>1, <3>1, <3>2 DEF ReceiptsInv, CopyInv, Lines, ASequence
    <3>4. WalkInv'
      BY <1>1, <3>1 DEF ReceiptsInv, WalkInv, Follows, RightRoot, ReceiptHolds, Covers,
                        Subject, Complete
    <3> QED BY <3>2, <3>3, <3>4 DEF ReceiptsInv
  <2> QED BY <1>1, <2>1, <2>2, <2>3, <2>4, <2>5 DEF ReceiptsNext
<1> QED BY <1>1, InitEstablishes, PTL DEF ReceiptsSpec

-----------------------------------------------------------------------------
(* The two theorems.                                                       *)

LEMMA EqualPrefixes ==
    ASSUME NEW p, NEW q, NEW n \in Nat
    PROVE  SubSeq(p, 1, n) = SubSeq(q, 1, n) <=> \A i \in 1 .. n : p[i] = q[i]
<1> DEFINE S == {p[i] : i \in 1 .. n} \cup {q[i] : i \in 1 .. n}
<1>1. /\ \A i \in 1 .. n : p[i] \in S
      /\ \A i \in 1 .. n : q[i] \in S
      /\ 1 \in Int /\ n \in Int /\ n - 1 + 1 = n
      /\ 1 <= n \/ n = 0
  OBVIOUS
<1> HIDE DEF S
<1>2. /\ SubSeq(p, 1, n) \in Seq(S)
      /\ Len(SubSeq(p, 1, n)) = IF 1 <= n THEN n - 1 + 1 ELSE 0
      /\ \A i \in 1 .. n - 1 + 1 : SubSeq(p, 1, n)[i] = p[1 + i - 1]
  BY <1>1, SubSeqProperties
<1>3. /\ SubSeq(q, 1, n) \in Seq(S)
      /\ Len(SubSeq(q, 1, n)) = IF 1 <= n THEN n - 1 + 1 ELSE 0
      /\ \A i \in 1 .. n - 1 + 1 : SubSeq(q, 1, n)[i] = q[1 + i - 1]
  BY <1>1, SubSeqProperties
<1>4. /\ Len(SubSeq(p, 1, n)) = n /\ Len(SubSeq(q, 1, n)) = n
      /\ \A i \in 1 .. n : SubSeq(p, 1, n)[i] = p[i] /\ SubSeq(q, 1, n)[i] = q[i]
  BY <1>1, <1>2, <1>3
<1>5. CASE \A i \in 1 .. n : p[i] = q[i]
  BY <1>2, <1>3, <1>4, <1>5, SeqEqual
<1>6. CASE SubSeq(p, 1, n) = SubSeq(q, 1, n)
  BY <1>4, <1>6
<1> QED BY <1>5, <1>6

\* A log that a walk with verify_receipt (receipts.py) accepts is the
\* beginning of one session's chain, with every root right, whatever was
\* lost, repeated, swapped, mixed in or garbled.
THEOREM AcceptedLogsAreGenuine == ReceiptsSpec => []AcceptedIsGenuine
<1>1. ASSUME ReceiptsInv, verdict = "accepted"
      PROVE  /\ \E s \in Sessions : IsPrefix(log, chain[s])
             /\ \A i \in DOMAIN log : RightRoot(log[i])
  <2>1. PICK s \in Sessions : Follows(s)
    BY <1>1 DEF ReceiptsInv, WalkInv
  <2>2. /\ Len(log) <= Len(chain[s]) /\ DOMAIN log = 1 .. Len(log) /\ Len(log) \in Nat
        /\ \A i \in 1 .. Len(log) : log[i] = chain[s][i] /\ RightRoot(log[i])
    BY <1>1, <2>1, LinesLength DEF ReceiptsInv, CopyInv, WalkInv, Follows
  <2>3. IsPrefix(log, chain[s])
    <3>1. SubSeq(log, 1, Len(log)) = SubSeq(chain[s], 1, Len(log))
      BY <2>2, EqualPrefixes
    <3> QED BY <2>2, <3>1 DEF IsPrefix
  <2> QED BY <2>2, <2>3
<1>2. ReceiptsInv => AcceptedIsGenuine
  BY <1>1 DEF AcceptedIsGenuine
<1> QED BY <1>2, ReceiptsInductive, PTL

\* The operator's and the witness's signatures of a written receipt verify.
LEMMA WrittenSignaturesHold ==
    ASSUME ChainInv, source \in Sessions, NEW i \in 1 .. Len(chain[source])
    PROVE  LET r == chain[source][i]
           IN  /\ DOMAIN r.signature_set # {}
               /\ \A k \in DOMAIN r.signature_set :
                     k \in KeyIds /\ VerifySignature(k, Covers(r, k), r.signature_set[k])
<1> DEFINE r == chain[source][i]
<1>1. r.signature_set = SignReceipt(r.payload, SubjectOf(source, Flow[i]))
  BY WrittenFields DEF Signatures
<1>2. CASE SubjectOf(source, Flow[i]) = NoSubject
  BY <1>1, <1>2, KeyAssumption DEF SignReceipt, VerifySignature, Covers, KeyIds
<1>3. CASE SubjectOf(source, Flow[i]) # NoSubject
  <2>1. SubjectOf(source, Flow[i]) = Subject
    BY <1>3 DEF SubjectOf, Subject
  <2> QED BY <1>1, <1>3, <2>1, KeyAssumption
          DEF SignReceipt, VerifySignature, Covers, KeyIds
<1> QED BY <1>2, <1>3

\* The walk rejects, and raises over, no beginning of the chain of the
\* session whose log it is, if its roots are right.
THEOREM GenuineLogsAreAccepted == ReceiptsSpec => []GenuineIsAccepted
<1>1. ASSUME ReceiptsInv, verdict \in {"rejected", "raised"},
             IsPrefix(log, chain[source]),
             \A i \in DOMAIN log : RightRoot(log[i])
      PROVE  FALSE
  <2> DEFINE r == log[walked + 1]
  <2>1. /\ ChainInv /\ source \in Sessions
        /\ Len(log) \in Nat /\ DOMAIN log = 1 .. Len(log)
        /\ walked \in Nat /\ walked < Len(log)
    BY <1>1, LinesLength DEF ReceiptsInv, CopyInv, WalkInv
  <2>2. /\ Len(chain[source]) \in Nat /\ Len(log) <= Len(chain[source])
        /\ SubSeq(log, 1, Len(log)) = SubSeq(chain[source], 1, Len(log))
    BY <1>1, <2>1, HeadOfChain DEF IsPrefix
  <2>3. \A i \in 1 .. Len(log) : log[i] = chain[source][i]
    BY <2>1, <2>2, EqualPrefixes
  <2>4. /\ walked + 1 \in 1 .. Len(log) /\ walked + 1 \in 1 .. Len(chain[source])
        /\ r = chain[source][walked + 1] /\ RightRoot(r)
    BY <1>1, <2>1, <2>2, <2>3
  <2>5. r.payload.previous_state_root = expected
    <3>1. r.payload.previous_state_root = PreviousRoot(source, walked + 1)
      BY <2>1, <2>4, WrittenFields
    <3>2. CASE walked = 0
      BY <1>1, <3>1, <3>2 DEF PreviousRoot, ReceiptsInv, WalkInv
    <3>3. CASE walked # 0
      <4>1. walked \in 1 .. Len(log) /\ log[walked] = chain[source][walked]
        BY <2>1, <2>3, <3>3
      <4>2. PreviousRoot(source, walked + 1) = chain[source][walked].state_root
        BY <2>1, <3>3 DEF PreviousRoot
      <4>3. expected = log[walked].state_root
        BY <1>1, <3>3 DEF ReceiptsInv, WalkInv
      <4> QED BY <3>1, <4>1, <4>2, <4>3
    <3> QED BY <3>2, <3>3
  <2>6. DOMAIN r.payload = Required
    BY <2>1, <2>4, WrittenFields, PayloadFields DEF Payload
  <2>7. ReceiptHolds(r, expected)
    BY <2>1, <2>4, <2>5, <2>6, WrittenSignaturesHold DEF ReceiptHolds, Complete, RightRoot
  <2> QED BY <1>1, <2>7 DEF ReceiptsInv, WalkInv
<1>2. ReceiptsInv => GenuineIsAccepted
  BY <1>1 DEF GenuineIsAccepted
<1> QED BY <1>2, ReceiptsInductive, PTL

-----------------------------------------------------------------------------
(* The verifier's checks of a log.                                         *)

Less == {mn \in Nat \X Nat : mn[1] < mn[2]}

\* A set of numbers that has 0, and with a number the next one, has all.
LEMMA Induction ==
    ASSUME NEW T, 0 \in T, \A n \in T \cap Nat : n + 1 \in T
    PROVE  Nat \subseteq T
<1> SUFFICES ASSUME Nat \ T # {} PROVE FALSE
  OBVIOUS
<1>1. IsWellFoundedOn(Less, Nat)
  <2>1. OpToRel(<, Nat) = Less
    BY DEF OpToRel, Less
  <2> QED BY <2>1, NatLessThanWellFounded
<1>2. \A m, n \in Nat : <<m, n>> \in Less <=> m < n
  BY DEF Less
<1> HIDE DEF Less
<1>3. Nat \ T \subseteq Nat
  OBVIOUS
<1>4. PICK n \in Nat \ T : \A m \in Nat \ T : ~ (<<m, n>> \in Less)
  BY <1>1, <1>3, WFMin
<1>5. n - 1 \in Nat /\ n = (n - 1) + 1
  BY <1>4
<1>6. <<n - 1, n>> \in Less
  BY <1>2, <1>5
<1>7. n - 1 \in T
  BY <1>4, <1>5, <1>6
<1> QED BY <1>4, <1>5, <1>7

\* The operator's signature holds only over the payload that was written.
LEMMA SignedPayload ==
    ASSUME ChainInv, NEW s \in Sessions, NEW i \in 1 .. Len(chain[s]),
           NEW r, MadeOf(r, chain[s][i]), Operator \in DOMAIN r.signature_set,
           VerifySignature(Operator, r.payload, r.signature_set[Operator])
    PROVE  r.payload = chain[s][i].payload
<1> DEFINE w == chain[s][i]
           sig == r.signature_set[Operator]
<1>1. sig = SignB64(Operator, r.payload)
  BY DEF VerifySignature
<1>2. sig \notin {Altered, Malformed}
  BY <1>1 DEF SignB64, Altered, Malformed
<1>3. sig = w.signature_set[Operator] /\ Operator \in DOMAIN w.signature_set
  BY <1>2 DEF MadeOf
<1>4. w.signature_set = SignReceipt(w.payload, SubjectOf(s, Flow[i]))
  BY WrittenFields DEF Signatures
<1> HIDE DEF w
<1>5. w.signature_set[Operator] = SignB64(Operator, w.payload)
  BY <1>3, <1>4 DEF SignReceipt
<1> HIDE DEF sig
<1>6. SignB64(Operator, r.payload) = SignB64(Operator, w.payload)
  BY <1>1, <1>3, <1>5
<1>7. r.payload = w.payload
  BY <1>6 DEF SignB64
<1> QED BY <1>7 DEF w

\* The first line is of the first receipt of a session.
LEMMA FirstLine ==
    ASSUME ChainInv, NEW t \in Sessions, NEW j \in 1 .. Len(chain[t]),
           chain[t][j].payload.previous_state_root = Genesis
    PROVE  j = 1
<1> SUFFICES ASSUME j # 1 PROVE FALSE
  OBVIOUS
<1>1. j - 1 \in 1 .. Len(chain[t])
  BY HeadOfChain
<1>2. chain[t][j - 1].state_root = Genesis
  BY WrittenFields DEF PreviousRoot
<1> QED BY <1>1, <1>2, WrittenFields, RootCovers

\* A line that names the root of line i of a session is of the next receipt.
LEMMA NextLine ==
    ASSUME ChainInv, NEW s \in Sessions, NEW i \in 1 .. Len(chain[s]),
           NEW r, MadeOf(r, chain[s][i]),
           NEW t \in Sessions, NEW j \in 1 .. Len(chain[t]),
           chain[t][j].payload.previous_state_root = r.state_root
    PROVE  t = s /\ j = i + 1
<1>1. r.state_root # Genesis
  <2>1. chain[s][i].state_root # Genesis
    BY WrittenFields, RootCovers
  <2> QED BY <2>1 DEF MadeOf, Genesis, Altered
<1>2. chain[t][j].payload.previous_state_root = PreviousRoot(t, j)
  BY WrittenFields
<1>3. j # 1 /\ r.state_root = chain[t][j - 1].state_root
  BY <1>1, <1>2 DEF PreviousRoot
<1>4. j - 1 \in 1 .. Len(chain[t]) /\ i \in Nat /\ j \in Nat
  BY <1>3, HeadOfChain
<1>5. chain[t][j - 1].state_root # Altered
  BY <1>4, WrittenFields, RootCovers
<1>6. chain[t][j - 1].state_root = chain[s][i].state_root
  BY <1>3, <1>5 DEF MadeOf
<1>7. t = s /\ j - 1 = i
  BY <1>4, <1>6, RootsAreUnique
<1> QED BY <1>4, <1>7

\* The line i is of receipt i of s.
OfReceipt(i, s) ==
    i \in 1 .. Len(chain[s]) /\ MadeOf(log[i], chain[s][i]) /\ log[i].payload = chain[s][i].payload

\* A line with the operator's signature is of a receipt that was written.
LEMMA SignedLine ==
    ASSUME ReceiptsInv, CheckSignatures, NEW i \in 1 .. Len(log),
           Operator \in DOMAIN log[i].signature_set
    PROVE  \E s \in Sessions : \E j \in 1 .. Len(chain[s]) :
              MadeOf(log[i], chain[s][j]) /\ log[i].payload = chain[s][j].payload
<1>1. ChainInv /\ Line(log[i]) /\ i \in DOMAIN log
  BY LinesLength DEF ReceiptsInv, CopyInv, Lines
<1>2. PICK s \in Sessions : \E j \in 1 .. Len(chain[s]) : MadeOf(log[i], chain[s][j])
  BY <1>1 DEF Line
<1>3. PICK j \in 1 .. Len(chain[s]) : MadeOf(log[i], chain[s][j])
  BY <1>2
<1>4. VerifySignature(Operator, log[i].payload, log[i].signature_set[Operator])
  BY <1>1, KeyAssumption DEF CheckSignatures, Covers
<1> QED BY <1>1, <1>3, <1>4, SignedPayload

\* The lines that the operator's signature reaches are the first receipts of
\* one session, and the last line is the last of them: what the verifier
\* (_check_receipt_chain, _check_signatures and _check_session_boundaries,
\* checks.py) can know of a log without recomputing a root.
THEOREM VerifierSeesSessions == ReceiptsSpec => []VerifierSeesWholeSession
<1>1. ASSUME ReceiptsInv, VerifierPasses, NEW n \in DOMAIN log, SignedUpTo(n)
      PROVE  \E s \in Sessions :
                /\ \A i \in 1 .. n : i \in DOMAIN chain[s] /\ log[i].payload = chain[s][i].payload
                /\ n = Len(log) => n = Len(Flow)
  <2>1. /\ ChainInv /\ Len(log) \in Nat /\ DOMAIN log = 1 .. Len(log)
        /\ n \in 1 .. Len(log) /\ 1 \in 1 .. n
    BY <1>1, LinesLength DEF ReceiptsInv, CopyInv
  <2>2. ASSUME NEW i \in 1 .. n
        PROVE  \E t \in Sessions : \E j \in 1 .. Len(chain[t]) :
                  MadeOf(log[i], chain[t][j]) /\ log[i].payload = chain[t][j].payload
    <3>1. i \in 1 .. Len(log) /\ Operator \in DOMAIN log[i].signature_set
      BY <1>1, <2>1 DEF SignedUpTo
    <3> QED BY <1>1, <3>1, SignedLine DEF VerifierPasses
  <2>3. \A i \in 1 .. n : log[i].payload.previous_state_root =
                              IF i = 1 THEN Genesis ELSE log[i - 1].state_root
    BY <1>1, <2>1 DEF VerifierPasses, CheckReceiptChain
  <2>4. PICK s \in Sessions : OfReceipt(1, s)
    <3>1. PICK t \in Sessions : \E j \in 1 .. Len(chain[t]) :
                  MadeOf(log[1], chain[t][j]) /\ log[1].payload = chain[t][j].payload
      BY <2>1, <2>2
    <3>2. PICK j \in 1 .. Len(chain[t]) :
                  MadeOf(log[1], chain[t][j]) /\ log[1].payload = chain[t][j].payload
      BY <3>1
    <3>3. chain[t][j].payload.previous_state_root = Genesis
      BY <2>1, <2>3, <3>2
    <3>4. j = 1
      BY <2>1, <3>3, FirstLine
    <3> QED BY <3>2, <3>4 DEF OfReceipt
  <2>5. ASSUME NEW i \in 1 .. n, i + 1 \in 1 .. n, OfReceipt(i, s)
        PROVE  OfReceipt(i + 1, s)
    <3>1. PICK t \in Sessions : \E j \in 1 .. Len(chain[t]) :
                  MadeOf(log[i + 1], chain[t][j]) /\ log[i + 1].payload = chain[t][j].payload
      BY <2>2, <2>5
    <3>2. PICK j \in 1 .. Len(chain[t]) :
                  MadeOf(log[i + 1], chain[t][j]) /\ log[i + 1].payload = chain[t][j].payload
      BY <3>1
    <3>3. i + 1 # 1 /\ (i + 1) - 1 = i
      BY <2>1
    <3>4. chain[t][j].payload.previous_state_root = log[i].state_root
      BY <2>3, <2>5, <3>2, <3>3
    <3>5. t = s /\ j = i + 1
      BY <2>1, <2>5, <3>4, NextLine DEF OfReceipt
    <3> QED BY <3>2, <3>5 DEF OfReceipt
  <2>6. \A i \in 1 .. n : OfReceipt(i, s)
    <3> DEFINE T == {m \in Nat : m + 1 \in 1 .. n => OfReceipt(m + 1, s)}
    <3>1. 0 \in T
      BY <2>4
    <3>2. ASSUME NEW m \in T \cap Nat PROVE m + 1 \in T
      <4> SUFFICES ASSUME (m + 1) + 1 \in 1 .. n PROVE OfReceipt((m + 1) + 1, s)
        OBVIOUS
      <4>1. m + 1 \in 1 .. n
        BY <2>1
      <4> QED BY <2>5, <4>1
    <3> HIDE DEF T
    <3>3. Nat \subseteq T
      BY <3>1, <3>2, Induction
    <3>4. ASSUME NEW i \in 1 .. n PROVE i - 1 \in T /\ (i - 1) + 1 = i
      BY <2>1, <3>3
    <3> QED BY <3>4 DEF T
  <2>7. DOMAIN chain[s] = 1 .. Len(chain[s]) /\ Len(chain[s]) \in Nat
    BY <2>1, HeadOfChain
  <2>8. ASSUME n = Len(log) PROVE n = Len(Flow)
    <3>1. OfReceipt(n, s) /\ n \in Nat
      BY <2>1, <2>6
    <3>2. log[n].payload.receipt_kind = "checkpoint"
      BY <1>1, <2>8 DEF VerifierPasses, CheckSessionBoundaries
    <3>3. chain[s][n].payload.receipt_kind = Flow[n]
      BY <2>1, <3>1, WrittenFields DEF OfReceipt
    <3>4. n \in DOMAIN Flow
      <4>1. Len(Flow) \in Nat /\ DOMAIN Flow = 1 .. Len(Flow)
        BY ReceiptsAssumption, LenProperties
      <4>2. n <= Len(chain[s]) /\ Len(chain[s]) <= Len(Flow) /\ 1 <= n
        BY <2>1, <2>7, <3>1 DEF OfReceipt, ChainInv
      <4> QED BY <2>7, <3>1, <4>1, <4>2
    <3> QED BY <3>1, <3>2, <3>3, <3>4, ReceiptsAssumption DEF OfReceipt
  <2> QED BY <2>6, <2>7, <2>8 DEF OfReceipt
<1>2. ReceiptsInv => VerifierSeesWholeSession
  BY <1>1 DEF VerifierSeesWholeSession
<1> QED BY <1>2, ReceiptsInductive, PTL
=============================================================================

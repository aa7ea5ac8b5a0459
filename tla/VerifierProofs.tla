--------------------------- MODULE VerifierProofs ---------------------------
(***************************************************************************)
(* Theorems about Verifier, for any number of calls on one directory, any  *)
(* snapshots, endings and epochs: what is accepted was complete; and what  *)
(* is answered when one call has the directory to itself.                  *)
(*                                                                         *)
(* The argument.  Every call opens receipts.jsonl first and the manifest   *)
(* last, and the contents of both name its session.  So while the          *)
(* directory has the receipts of a call, all that the call has written is  *)
(* as it wrote it; and once another call has opened them, they never come  *)
(* back.  The manifest of a call lists its receipts: who reads the         *)
(* manifest, and then finds the receipts with the digest that it lists,    *)
(* knows that they were there when it read the manifest, and so was all    *)
(* the rest.                                                               *)
(*                                                                         *)
(* In the directory of one call, every file is either not complete or what *)
(* the call wrote, and after the call has returned nothing changes.  A     *)
(* reader that found all files with the manifest has therefore read one    *)
(* state of the directory, and the checks compare contents made from the   *)
(* same input: all of them pass, but the one that compares two inputs with *)
(* each other, the epochs and the time at which the certificate was made.  *)
(***************************************************************************)
EXTENDS Verifier, TLAPS

-----------------------------------------------------------------------------
(* The inductive invariant.                                                *)

\* A content names its file; those of the receipts and of the manifest name
\* their session, and a manifest lists the receipts.
IsOf(content, a) == Intact(content) /\ content.session = a
IsContent(content, f) ==
    /\ Intact(content) /\ content.file = f
    /\ f = Receipts => content.session \in Assemblers
    /\ f = Manifest =>
          /\ content.session \in Assemblers
          /\ Receipts \in DOMAIN content.artifacts
          /\ IsOf(content.artifacts[Receipts], content.session)

\* The files that the call has written and closed.
Filled(a) == DOMAIN written[a] \ todo[a]

\* A call writes its files in order, each once, and the manifest last.
CallInv(a) ==
    /\ pc[a] \in {"idle", "writing", "returned", "crashed"}
    /\ pc[a] = "idle" => written[a] = <<>>
    /\ pc[a] = "writing" =>
          /\ input[a].session = a
          /\ todo[a] \subseteq Files /\ Manifest \in todo[a]
          /\ Receipts \in DOMAIN written[a] \cup todo[a]
          /\ Receipts \in todo[a] => DOMAIN written[a] \subseteq {Receipts}
          /\ Opened(a) # {} => \A f \in Opened(a) : IsFirst(f, todo[a], Order)
    /\ pc[a] = "returned" => todo[a] = {}
    /\ \A f \in DOMAIN written[a] :
          /\ f \in Files /\ IsContent(written[a][f], f)
          /\ f \in {Receipts, Manifest} => written[a][f].session = a

\* Calls follow one another, and the directory has the receipts of the one
\* that is under way, once they are written.
TurnsInv ==
    /\ \A a, b \in Assemblers : pc[a] = "writing" /\ pc[b] = "writing" => a = b
    /\ \A a \in Assemblers :
          pc[a] = "writing" /\ Receipts \in Filled(a) => IsOf(dir[Receipts], a)

\* While the directory has the receipts of a call, it has all of its files;
\* a manifest is there only of a call that has returned.
DirInv ==
    /\ DOMAIN dir = Files
    /\ \A f \in Files : Intact(dir[f]) => IsContent(dir[f], f)
    /\ \A a \in Assemblers :
          IsOf(dir[Receipts], a) => \A f \in Filled(a) : dir[f] = written[a][f]
    /\ \A a \in Assemblers : IsOf(dir[Manifest], a) => pc[a] = "returned"

BundleInv ==
    /\ DOMAIN pc = Assemblers /\ DOMAIN input = Assemblers
    /\ DOMAIN todo = Assemblers /\ DOMAIN written = Assemblers
    /\ \A a \in Assemblers : CallInv(a)
    /\ TurnsInv /\ DirInv

\* The call a has returned, and its receipts are no longer there: they never
\* will be again.
Gone(a) == pc[a] = "returned" /\ ~ IsOf(dir[Receipts], a)

\* What the reader of the manifest knows of the call that wrote it.
DigestsInv ==
    stage = "artifact_digests" =>
        /\ Manifest \notin DOMAIN seen => DOMAIN seen = {}
        /\ Manifest \in DOMAIN seen /\ Intact(seen[Manifest]) =>
              LET a == seen[Manifest].session
              IN  /\ IsContent(seen[Manifest], Manifest)
                  /\ \/ a \in whole
                     \/ /\ Gone(a)
                        /\ Receipts \in DOMAIN seen => ~ IsOf(seen[Receipts], a)

After == {"receipt_chain", "signatures", "session_boundaries", "observation_overclaim",
          "registry_validity", "admission", "decide"}
Before == {"idle", "certificate_digest", "artifact_digests"}
AnswerInv ==
    /\ stage \in Before \cup After \cup {"answered", "raised", "exited"}
    /\ stage \in After => "artifact_digests" \in failures \/ whole # {}
    /\ stage \notin {"answered", "exited"} => ~ Accepted
    /\ Accepted => whole # {}
    /\ exit # "none" => stage = "exited"
    /\ exit = "0" => Accepted

VerifierInv == BundleInv /\ DigestsInv /\ AnswerInv

-----------------------------------------------------------------------------
(* The order of the writes, and the contents.                              *)

LEMMA OrderOfFiles ==
    /\ Order[1] = Receipts /\ Order[12] = Manifest /\ DOMAIN Order = 1 .. 12
    /\ Files = {Order[i] : i \in 1 .. 12}
    /\ Receipts \in Files /\ Manifest \in Files /\ Receipts # Manifest
<1>1. Order[1] = Receipts /\ Order[12] = Manifest /\ DOMAIN Order = 1 .. 12
  BY DEF Order
<1>2. Files = {Order[i] : i \in 1 .. 12}
  BY <1>1 DEF Files, Range
<1> QED BY <1>1, <1>2 DEF Receipts, Manifest

\* The receipts come first, the manifest last, and one file comes first.
LEMMA FirstAndLast ==
    ASSUME NEW f, NEW S \in SUBSET Files, IsFirst(f, S, Order)
    PROVE  /\ Receipts \in S => f = Receipts
           /\ f = Manifest => S = {Manifest}
           /\ \A g : IsFirst(g, S, Order) => g = f
<1>1. PICK i \in 1 .. 12 : f = Order[i]
  BY OrderOfFiles DEF IsFirst
<1>2. \A j \in 1 .. 12 : Order[j] \in S => i <= j
  BY <1>1, OrderOfFiles DEF IsFirst
<1>3. Receipts \in S => f = Receipts
  BY <1>1, <1>2, OrderOfFiles
<1>4. ASSUME f = Manifest, NEW g \in S
      PROVE  g = Manifest
  <2>1. PICK j \in 1 .. 12 : g = Order[j]
    BY OrderOfFiles
  <2>2. 12 <= j
    BY <1>4, <2>1, OrderOfFiles DEF IsFirst
  <2> QED BY <2>1, <2>2, OrderOfFiles
<1>5. ASSUME NEW g, IsFirst(g, S, Order)
      PROVE  g = f
  <2>1. PICK j \in 1 .. 12 : g = Order[j]
    BY <1>5, OrderOfFiles DEF IsFirst
  <2>2. i <= j /\ j <= i
    BY <1>1, <1>2, <1>5, <2>1, OrderOfFiles DEF IsFirst
  <2> QED BY <1>1, <2>1, <2>2
<1> QED BY <1>3, <1>4, <1>5 DEF IsFirst

\* What a call writes into a file is a content of it.
LEMMA ContentIsContent ==
    ASSUME NEW a \in Assemblers, NEW f \in Files, NEW i, i.session = a, NEW time, NEW artifacts,
           f = Manifest => /\ Receipts \in DOMAIN artifacts
                           /\ IsOf(artifacts[Receipts], a)
    PROVE  /\ IsContent(ContentOf(f, i, time, artifacts), f)
           /\ f \in {Receipts, Manifest} => ContentOf(f, i, time, artifacts).session = a
<1> DEFINE c == ContentOf(f, i, time, artifacts)
<1>1. c.file = f
  BY DEF ContentOf, CertificateOf, Certificate
<1>2. f \in {Receipts, Manifest} => c.session = a
  BY DEF ContentOf, Receipts, Manifest, Keyring, ActionRegistry, WitnessRegistry, Admission,
         ObservationSubject, ObservedBytes, Certificate
<1>3. f = Manifest => c.artifacts = artifacts
  BY DEF ContentOf, Receipts, Manifest, Keyring, ActionRegistry, WitnessRegistry, Admission,
         ObservationSubject, ObservedBytes, Certificate
<1>4. f # "absent" /\ f # "torn"
  BY DEF Files, Order, Range, Receipts, Manifest, Keyring, ActionRegistry, WitnessRegistry,
         Admission, Checkpoint, ObservationSubject, ObservedBytes, Certificate
<1>5. Intact(c)
  BY <1>1, <1>4 DEF Intact, Absent, Torn
<1> QED BY <1>1, <1>2, <1>3, <1>5 DEF IsContent

-----------------------------------------------------------------------------
(* The steps of assemble_bundle.                                           *)

\* A call that has its receipts in the directory is the only one to write.
LEMMA WriterHasReceipts ==
    ASSUME BundleInv, NEW a \in Assemblers, pc[a] = "writing", Receipts \notin todo[a],
           NEW b \in Assemblers, IsOf(dir[Receipts], b)
    PROVE  b = a
<1>1. Receipts \in Filled(a)
  BY DEF BundleInv, CallInv, Filled
<1>2. IsOf(dir[Receipts], a)
  BY <1>1 DEF BundleInv, TurnsInv
<1> QED BY <1>2 DEF IsOf

LEMMA AssemblePreserves ==
    ASSUME BundleInv, NEW a \in Assemblers, Assemble(a)
    PROVE  BundleInv'
<1>1. PICK i \in Inputs : /\ i.session = a
                         /\ input' = [input EXCEPT ![a] = i]
                         /\ todo' = [todo EXCEPT ![a] = WritesOf(i)]
  BY DEF Assemble
<1>2. /\ pc[a] = "idle" /\ pc' = [pc EXCEPT ![a] = "writing"]
      /\ \A b \in Assemblers : pc[b] # "writing"
      /\ UNCHANGED <<dir, written>>
  BY DEF Assemble
<1>3. /\ pc'[a] = "writing" /\ input'[a] = i /\ todo'[a] = WritesOf(i) /\ written[a] = <<>>
      /\ \A b \in Assemblers : b # a =>
            pc'[b] = pc[b] /\ input'[b] = input[b] /\ todo'[b] = todo[b]
  BY <1>1, <1>2 DEF BundleInv, CallInv
<1>4. DOMAIN written[a] = {}
  BY <1>3
<1>5. WritesOf(i) \subseteq Files /\ Manifest \in WritesOf(i) /\ Receipts \in WritesOf(i)
  BY OrderOfFiles DEF WritesOf, Receipts, Manifest, ObservationSubject, ObservedBytes
<1>6. CallInv(a)'
  BY <1>1, <1>2, <1>3, <1>4, <1>5 DEF CallInv, Opened
<1>7. ASSUME NEW b \in Assemblers, b # a
      PROVE  CallInv(b)'
  BY <1>2, <1>3, <1>7 DEF BundleInv, CallInv, Opened, IsContent, IsOf
<1>8. \A b \in Assemblers : Filled(b)' = Filled(b)
  BY <1>2, <1>3, <1>4 DEF Filled
<1>9. TurnsInv'
  BY <1>2, <1>3, <1>4, <1>8 DEF TurnsInv, Filled
<1>10. DirInv'
  BY <1>2, <1>3, <1>8 DEF BundleInv, DirInv, IsContent, IsOf
<1> QED BY <1>1, <1>2, <1>6, <1>7, <1>9, <1>10 DEF BundleInv

LEMMA OpenPreserves ==
    ASSUME BundleInv, NEW a \in Assemblers, Open(a)
    PROVE  BundleInv'
<1>1. PICK f \in todo[a] :
         /\ IsFirst(f, todo[a], Order)
         /\ written' = [written EXCEPT ![a] =
                          With(written[a], f, ContentOf(f, input[a], now, written[a]))]
         /\ dir' = [dir EXCEPT ![f] = Torn]
  BY DEF Open
<1>2. /\ pc[a] = "writing" /\ Opened(a) = {} /\ UNCHANGED <<pc, input, todo>>
      /\ todo[a] \in SUBSET Files /\ f \in Files /\ input[a].session = a
  BY <1>1 DEF Open, BundleInv, CallInv
<1> DEFINE c == ContentOf(f, input[a], now, written[a])
<1>3. /\ DOMAIN written'[a] = DOMAIN written[a] \cup {f} /\ written'[a][f] = c
      /\ \A g \in DOMAIN written[a] : g # f => written'[a][g] = written[a][g]
      /\ \A b \in Assemblers : b # a => written'[b] = written[b]
  BY <1>1 DEF BundleInv, With
<1>4. f \notin DOMAIN written[a]
  BY <1>1, <1>2 DEF Opened
<1>5. /\ Receipts \in todo[a] => f = Receipts
      /\ f = Manifest => todo[a] = {Manifest}
  BY <1>1, <1>2, FirstAndLast
<1>6. IsContent(c, f) /\ (f \in {Receipts, Manifest} => c.session = a)
  <2>1. ASSUME f = Manifest
        PROVE  Receipts \in DOMAIN written[a] /\ IsOf(written[a][Receipts], a)
    <3>1. Receipts \in DOMAIN written[a]
      BY <1>2, <1>5, <2>1, OrderOfFiles DEF BundleInv, CallInv
    <3> QED BY <3>1 DEF BundleInv, CallInv, IsContent, IsOf
  <2> QED BY <1>2, <2>1, ContentIsContent
<1> HIDE DEF c
<1>7. CallInv(a)'
  <2>1. Opened(a)' = {f}
    BY <1>1, <1>2, <1>3 DEF Opened
  <2>2. \A g \in DOMAIN written'[a] :
           /\ g \in Files /\ IsContent(written'[a][g], g)
           /\ g \in {Receipts, Manifest} => written'[a][g].session = a
    BY <1>2, <1>3, <1>6 DEF BundleInv, CallInv
  <2>3. Receipts \in todo[a] => DOMAIN written'[a] \subseteq {Receipts}
    BY <1>2, <1>3, <1>5 DEF BundleInv, CallInv
  <2>4. /\ todo[a] \subseteq Files /\ Manifest \in todo[a]
        /\ Receipts \in DOMAIN written[a] \cup todo[a]
    BY <1>2 DEF BundleInv, CallInv
  <2> QED BY <1>1, <1>2, <1>3, <2>1, <2>2, <2>3, <2>4 DEF CallInv, IsContent, IsOf
<1>8. ASSUME NEW b \in Assemblers, b # a
      PROVE  CallInv(b)'
  BY <1>2, <1>3, <1>8 DEF BundleInv, CallInv, Opened, IsContent, IsOf
<1>9. /\ \A b \in Assemblers : Filled(b)' = Filled(b)
      /\ \A b \in Assemblers : \A g \in Filled(b) : written'[b][g] = written[b][g]
  BY <1>1, <1>2, <1>3 DEF Filled
<1>10. DOMAIN dir' = Files /\ dir'[f] = Torn /\ \A g \in Files : g # f => dir'[g] = dir[g]
  BY <1>1, <1>2 DEF BundleInv, DirInv
<1>11. ~ Intact(Torn)
  BY DEF Intact
<1>12. TurnsInv'
  <2>1. ASSUME NEW b \in Assemblers, pc[b] = "writing", Receipts \in Filled(b)
        PROVE  IsOf(dir'[Receipts], b)
    <3>1. b = a /\ IsOf(dir[Receipts], b)
      BY <1>2, <2>1 DEF BundleInv, TurnsInv
    <3>2. f # Receipts
      BY <1>1, <2>1, <3>1 DEF Filled
    <3> QED BY <1>10, <3>1, <3>2, OrderOfFiles
  <2> QED BY <1>2, <1>9, <2>1 DEF BundleInv, TurnsInv, IsOf
<1>13. DirInv'
  <2>1. ASSUME NEW g \in Files, Intact(dir'[g])
        PROVE  IsContent(dir'[g], g)
    BY <1>10, <1>11, <2>1 DEF BundleInv, DirInv
  <2>2. ASSUME NEW b \in Assemblers, IsOf(dir'[Receipts], b), NEW g \in Filled(b)
        PROVE  dir'[g] = written'[b][g]
    <3>1. f # Receipts /\ IsOf(dir[Receipts], b)
      BY <1>10, <1>11, <2>2, OrderOfFiles DEF IsOf
    <3>2. b = a
      BY <1>2, <1>5, <3>1, WriterHasReceipts
    <3>3. g # f /\ g \in Files /\ dir[g] = written[b][g]
      BY <1>1, <2>2, <3>1, <3>2 DEF Filled, BundleInv, DirInv, CallInv
    <3> QED BY <1>9, <1>10, <2>2, <3>3
  <2>3. ASSUME NEW b \in Assemblers, IsOf(dir'[Manifest], b)
        PROVE  pc[b] = "returned"
    BY <1>10, <1>11, <2>3, OrderOfFiles DEF IsOf, BundleInv, DirInv
  <2> QED BY <1>2, <1>9, <1>10, <2>1, <2>2, <2>3 DEF DirInv, IsContent, IsOf
<1> QED BY <1>1, <1>2, <1>7, <1>8, <1>12, <1>13 DEF BundleInv

LEMMA FillPreserves ==
    ASSUME BundleInv, NEW a \in Assemblers, Fill(a)
    PROVE  BundleInv'
<1>1. PICK f \in Opened(a) :
         /\ dir' = [dir EXCEPT ![f] = written[a][f]]
         /\ todo' = [todo EXCEPT ![a] = todo[a] \ {f}]
         /\ pc' = [pc EXCEPT ![a] = IF todo[a] = {f} THEN "returned" ELSE pc[a]]
  BY DEF Fill
<1>2. /\ pc[a] = "writing" /\ UNCHANGED <<input, written>>
      /\ todo[a] \in SUBSET Files /\ f \in todo[a] /\ f \in DOMAIN written[a] /\ f \in Files
      /\ IsFirst(f, todo[a], Order) /\ Manifest \in todo[a]
      /\ \A g \in Opened(a) : IsFirst(g, todo[a], Order)
  BY <1>1 DEF Fill, Opened, BundleInv, CallInv
<1>3. /\ Receipts \in todo[a] => f = Receipts
      /\ f = Manifest => todo[a] = {Manifest}
      /\ Opened(a) = {f}
  BY <1>1, <1>2, FirstAndLast
<1>4. /\ pc'[a] = IF todo[a] = {f} THEN "returned" ELSE "writing"
      /\ todo'[a] = todo[a] \ {f}
      /\ \A b \in Assemblers : b # a => pc'[b] = pc[b] /\ todo'[b] = todo[b]
  BY <1>1, <1>2 DEF BundleInv
<1>5. DOMAIN dir' = Files /\ dir'[f] = written[a][f] /\ \A g \in Files : g # f => dir'[g] = dir[g]
  BY <1>1, <1>2 DEF BundleInv, DirInv
<1>6. /\ IsContent(written[a][f], f)
      /\ f \in {Receipts, Manifest} => written[a][f].session = a
  BY <1>2 DEF BundleInv, CallInv
<1>7. CallInv(a)'
  <2>1. Opened(a)' = {}
    BY <1>2, <1>3, <1>4 DEF Opened
  <2>2. CASE todo[a] = {f}
    BY <1>2, <1>4, <2>1, <2>2 DEF BundleInv, CallInv, IsContent, IsOf
  <2>3. CASE todo[a] # {f}
    <3>1. f # Manifest
      BY <1>3, <2>3
    <3> QED BY <1>2, <1>3, <1>4, <2>1, <2>3, <3>1 DEF BundleInv, CallInv, IsContent, IsOf
  <2> QED BY <2>2, <2>3
<1>8. ASSUME NEW b \in Assemblers, b # a
      PROVE  CallInv(b)'
  BY <1>2, <1>4, <1>8 DEF BundleInv, CallInv, Opened, IsContent, IsOf
<1>9. /\ Filled(a)' = Filled(a) \cup {f}
      /\ \A b \in Assemblers : b # a => Filled(b)' = Filled(b)
  BY <1>2, <1>4 DEF Filled
<1>10. f = Receipts => IsOf(dir'[Receipts], a)
  BY <1>5, <1>6 DEF IsOf, IsContent
<1>11. TurnsInv'
  <2>1. ASSUME NEW b \in Assemblers, pc'[b] = "writing"
        PROVE  b = a
    BY <1>2, <1>4, <2>1 DEF BundleInv, TurnsInv
  <2>2. ASSUME Receipts \in Filled(a)', f # Receipts
        PROVE  IsOf(dir'[Receipts], a)
    BY <1>2, <1>5, <1>9, <2>2, OrderOfFiles DEF BundleInv, TurnsInv
  <2>3. \A b \in Assemblers : pc'[b] = "writing" /\ Receipts \in Filled(b)' => IsOf(dir'[Receipts], b)
    BY <1>10, <2>1, <2>2
  <2> QED BY <2>1, <2>3 DEF TurnsInv, IsOf
<1>12. DirInv'
  <2>1. ASSUME NEW g \in Files, Intact(dir'[g])
        PROVE  IsContent(dir'[g], g)
    BY <1>5, <1>6, <2>1 DEF BundleInv, DirInv
  <2>2. ASSUME NEW b \in Assemblers, IsOf(dir'[Receipts], b), NEW g \in Filled(b)'
        PROVE  dir'[g] = written[b][g]
    <3>1. CASE f = Receipts
      <4>1. b = a
        BY <1>10, <2>2, <3>1 DEF IsOf
      <4>2. Filled(a) = {}
        BY <1>2, <3>1 DEF BundleInv, CallInv, Filled
      <4> QED BY <1>5, <1>9, <2>2, <4>1, <4>2
    <3>2. CASE f # Receipts
      <4>1. IsOf(dir[Receipts], b)
        BY <1>5, <2>2, <3>2, OrderOfFiles
      <4>2. b = a
        BY <1>2, <1>3, <3>2, <4>1, WriterHasReceipts
      <4>3. g # f => g \in Filled(a) /\ g \in Files /\ dir[g] = written[a][g]
        BY <1>9, <2>2, <4>1, <4>2 DEF Filled, BundleInv, DirInv, CallInv
      <4> QED BY <1>5, <4>2, <4>3
    <3> QED BY <3>1, <3>2
  <2>3. ASSUME NEW b \in Assemblers, IsOf(dir'[Manifest], b)
        PROVE  pc'[b] = "returned"
    <3>1. CASE f = Manifest
      BY <1>3, <1>4, <1>5, <1>6, <2>3, <3>1 DEF IsOf
    <3>2. CASE f # Manifest
      <4>1. pc[b] = "returned"
        BY <1>5, <2>3, <3>2, OrderOfFiles DEF BundleInv, DirInv
      <4> QED BY <1>2, <1>4, <4>1
    <3> QED BY <3>1, <3>2
  <2> QED BY <1>2, <1>5, <2>1, <2>2, <2>3 DEF DirInv, IsContent, IsOf
<1> QED BY <1>1, <1>2, <1>7, <1>8, <1>11, <1>12 DEF BundleInv

LEMMA CrashPreserves ==
    ASSUME BundleInv, NEW a \in Assemblers, Crash(a)
    PROVE  BundleInv'
<1>1. /\ pc[a] = "writing" /\ pc' = [pc EXCEPT ![a] = "crashed"]
      /\ UNCHANGED <<dir, input, todo, written>>
  BY DEF Crash
<1>2. pc'[a] = "crashed" /\ \A b \in Assemblers : b # a => pc'[b] = pc[b]
  BY <1>1 DEF BundleInv
<1>3. \A b \in Assemblers : CallInv(b)'
  <2>1. CallInv(a)'
    BY <1>1, <1>2 DEF BundleInv, CallInv, IsContent, IsOf
  <2>2. ASSUME NEW b \in Assemblers, b # a
        PROVE  CallInv(b)'
    BY <1>1, <1>2, <2>2 DEF BundleInv, CallInv, Opened, IsContent, IsOf
  <2> QED BY <2>1, <2>2
<1>4. TurnsInv'
  BY <1>1, <1>2 DEF BundleInv, TurnsInv, Filled, IsOf
<1>5. DirInv'
  BY <1>1, <1>2 DEF BundleInv, DirInv, Filled, IsContent, IsOf
<1> QED BY <1>1, <1>3, <1>4, <1>5 DEF BundleInv

LEMMA BundleStays ==
    ASSUME BundleInv, UNCHANGED <<dir, pc, input, todo, written>>
    PROVE  BundleInv'
<1>1. \A b \in Assemblers : CallInv(b)'
  BY DEF BundleInv, CallInv, Opened, IsContent, IsOf
<1>2. TurnsInv' /\ DirInv'
  BY DEF BundleInv, TurnsInv, DirInv, Filled, IsContent, IsOf
<1> QED BY <1>1, <1>2 DEF BundleInv

\* No step of a call, or of the clock, harms the directory; and receipts
\* that are gone do not come back.
LEMMA BundlePreserves ==
    ASSUME BundleInv, BundleNext
    PROVE  BundleInv' /\ \A a \in Assemblers : Gone(a) => Gone(a)'
<1>1. BundleInv'
  <2>1. CASE Tick
    BY <2>1, BundleStays DEF Tick
  <2> QED BY <2>1, AssemblePreserves, OpenPreserves, FillPreserves, CrashPreserves
          DEF BundleNext, Write
<1>2. ASSUME NEW a \in Assemblers, Gone(a)
      PROVE  Gone(a)'
  <2>1. CASE Tick
    BY <1>2, <2>1 DEF Tick, Gone, IsOf
  <2>2. ASSUME NEW b \in Assemblers, Assemble(b) \/ Open(b) \/ Fill(b) \/ Crash(b)
        PROVE  Gone(a)'
    <3>1. b # a
      BY <1>2, <2>2 DEF Gone, Assemble, Open, Fill, Crash
    <3>2. pc'[a] = pc[a]
      BY <2>2, <3>1 DEF BundleInv, Assemble, Open, Fill, Crash
    <3>3. CASE Open(b)
      <4>1. PICK f : dir' = [dir EXCEPT ![f] = Torn]
        BY <3>3 DEF Open
      <4> QED BY <1>2, <3>2, <4>1, OrderOfFiles DEF Gone, IsOf, Intact, BundleInv, DirInv
    <3>4. CASE Fill(b)
      <4>1. PICK f \in Opened(b) : dir' = [dir EXCEPT ![f] = written[b][f]]
        BY <3>4 DEF Fill
      <4>2. f = Receipts => written[b][f].session = b
        BY <4>1 DEF Opened, BundleInv, CallInv
      <4> QED BY <1>2, <3>1, <3>2, <4>1, <4>2, OrderOfFiles DEF Gone, IsOf, BundleInv, DirInv
    <3>5. CASE Assemble(b) \/ Crash(b)
      BY <1>2, <3>2, <3>5 DEF Gone, IsOf, Assemble, Crash
    <3> QED BY <2>2, <3>3, <3>4, <3>5
  <2> QED BY <2>1, <2>2 DEF BundleNext, Write
<1> QED BY <1>1, <1>2

-----------------------------------------------------------------------------
(* The steps of verify_bundle.                                             *)

\* The checks in their order.
LEMMA ChecksInOrder ==
    /\ Checks[1] = "certificate_digest"
    /\ Range(Checks) = {"certificate_digest", "artifact_digests"} \cup (After \ {"decide"})
    /\ NextCheck("certificate_digest") = "artifact_digests"
    /\ \A c \in Range(Checks) : c # "certificate_digest" => NextCheck(c) \in After
<1>1. /\ Checks[1] = "certificate_digest" /\ Checks[2] = "artifact_digests"
      /\ Checks[3] = "receipt_chain" /\ Checks[4] = "signatures"
      /\ Checks[5] = "session_boundaries" /\ Checks[6] = "observation_overclaim"
      /\ Checks[7] = "registry_validity" /\ Checks[8] = "admission"
      /\ DOMAIN Checks = 1 .. 8
  BY DEF Checks
<1>2. \A i \in 1 .. 8 : i \in {1, 2, 3, 4, 5, 6, 7, 8}
  OBVIOUS
<1>3. Range(Checks) = {Checks[i] : i \in {1, 2, 3, 4, 5, 6, 7, 8}}
  BY <1>1, <1>2 DEF Range
<1>4. Range(Checks) = {"certificate_digest", "artifact_digests"} \cup (After \ {"decide"})
  BY <1>1, <1>3 DEF After
<1>5. ASSUME NEW k \in 1 .. 7
      PROVE  NextCheck(Checks[k]) = Checks[k + 1]
  <2> DEFINE j == CHOOSE i \in 2 .. 8 : Checks[i - 1] = Checks[k]
  <2>1. \E i \in 2 .. 8 : Checks[i - 1] = Checks[k]
    <3>1. k + 1 \in 2 .. 8 /\ (k + 1) - 1 = k
      BY <1>5
    <3> QED BY <3>1
  <2>2. j \in 2 .. 8 /\ Checks[j - 1] = Checks[k]
    BY <2>1, Zenon
  <2>3. \A i \in 1 .. 8 : Checks[i] = Checks[k] => i = k
    BY <1>1, <1>2, <1>5
  <2>4. j - 1 = k
    <3> HIDE DEF j
    <3>1. j - 1 \in 1 .. 8
      BY <2>2
    <3> QED BY <2>2, <2>3, <3>1
  <2>5. j = k + 1
    <3> HIDE DEF j
    <3> QED BY <2>2, <2>4
  <2>6. Checks[k] # Checks[8]
    BY <2>3, <1>5
  <2> QED BY <2>5, <2>6 DEF NextCheck
<1>6. NextCheck("certificate_digest") = "artifact_digests"
  BY <1>1, <1>5
<1>7. ASSUME NEW k \in 2 .. 8
      PROVE  NextCheck(Checks[k]) \in After
  <2>1. CASE k = 8
    BY <2>1 DEF NextCheck, After
  <2>2. CASE k # 8
    <3>1. NextCheck(Checks[k]) = Checks[k + 1] /\ k + 1 \in 3 .. 8
      BY <1>5, <2>2
    <3>2. \A i \in 3 .. 8 : Checks[i] \in After
      BY <1>1 DEF After
    <3> QED BY <3>1, <3>2
  <2> QED BY <2>1, <2>2
<1>8. \A c \in Range(Checks) : c # "certificate_digest" => NextCheck(c) \in After
  BY <1>1, <1>2, <1>7 DEF Range
<1> QED BY <1>1, <1>4, <1>6, <1>8

\* Only one check reads the manifest.
LEMMA ManifestReader ==
    ASSUME NEW check \in Range(Checks), check # "artifact_digests", NEW read
    PROVE  Manifest \notin FilesOf(check, read)
<1>1. FilesOf(check, read) = Range(ReadOrder(check))
  BY DEF FilesOf
<1>2. ReadOrder(check) \in {<<Receipts>>, <<Keyring, ObservationSubject, Receipts>>,
                           <<Certificate, ActionRegistry, WitnessRegistry, Keyring>>,
                           <<Certificate, Admission, Keyring>>, <<Certificate>>}
  BY ChecksInOrder DEF ReadOrder, After
<1> QED BY <1>1, <1>2 DEF Range, Manifest, Receipts, Keyring, ObservationSubject, Certificate,
           ActionRegistry, WitnessRegistry, Admission

\* What one read adds.
LEMMA OneMore ==
    ASSUME NEW f, NEW content
    PROVE  /\ DOMAIN With(seen, f, content) = DOMAIN seen \cup {f}
           /\ With(seen, f, content)[f] = content
           /\ \A g \in DOMAIN seen : g # f => With(seen, f, content)[g] = seen[g]
BY DEF With

\* A verification that reads the manifest.
LEMMA ManifestIsRead ==
    ASSUME VerifierInv, stage = "artifact_digests", DOMAIN seen = {},
           UNCHANGED <<dir, pc, written, todo>>,
           NEW read, read = With(seen, Manifest, dir[Manifest]),
           whole' = {a \in Assemblers : CompleteFor(a)},
           Intact(dir[Manifest])
    PROVE  LET a == dir[Manifest].session
           IN  /\ IsContent(read[Manifest], Manifest)
               /\ Receipts \in Due(stage, read)
               /\ a \in whole' \/ Gone(a)'
<1> DEFINE a == dir[Manifest].session
<1>1. IsContent(dir[Manifest], Manifest) /\ a \in Assemblers
  BY OrderOfFiles DEF VerifierInv, BundleInv, DirInv, IsContent
<1>2. read[Manifest] = dir[Manifest] /\ DOMAIN read = {Manifest}
  BY DEF With
<1>3. Receipts \in Due(stage, read)
  BY <1>1, <1>2, OrderOfFiles DEF Due, FilesOf, Listed, IsContent
<1>4. pc[a] = "returned" /\ todo[a] = {}
  BY <1>1 DEF VerifierInv, BundleInv, DirInv, CallInv, IsOf
<1>5. IsOf(dir[Receipts], a) => CompleteFor(a)
  BY <1>1, <1>4 DEF CompleteFor, VerifierInv, BundleInv, DirInv, Filled
<1>6. a \in whole' \/ Gone(a)'
  BY <1>1, <1>4, <1>5 DEF Gone, IsOf
<1> QED BY <1>1, <1>2, <1>3, <1>6

LEMMA DigestsPreserve ==
    ASSUME VerifierInv, Read, stage = "artifact_digests"
    PROVE  DigestsInv' /\ AnswerInv'
<1> DEFINE Reads(f) == With(seen, f, dir[f])
<1>1. PICK f \in Files :
         /\ f \in Due(stage, seen)
         /\ IF Due(stage, Reads(f)) # {}
            THEN seen' = Reads(f) /\ UNCHANGED <<stage, failures>>
            ELSE \E passed \in Passes(stage, Reads(f)) :
                   /\ seen' = <<>>
                   /\ failures' = IF passed THEN failures ELSE failures \cup {stage}
                   /\ stage' = NextCheck(stage)
         /\ whole' = IF f = Manifest THEN {a \in Assemblers : CompleteFor(a)} ELSE whole
  BY DEF Read, IsFirst
<1>12. PICK read : read = Reads(f)
  OBVIOUS
<1> HIDE DEF Reads
<1>2. /\ DOMAIN read = DOMAIN seen \cup {f} /\ read[f] = dir[f]
      /\ \A g \in DOMAIN seen : g # f => read[g] = seen[g]
  BY <1>12 DEF Reads, With
<1>3. f \notin DOMAIN seen /\ f \in FilesOf(stage, seen)
  BY <1>1 DEF Due
<1>4. UNCHANGED <<dir, pc, written, todo, state, exit>>
  BY DEF Read, bundleVars
<1>5. ~ Accepted /\ exit = "none" /\ "artifact_digests" \notin {"answered", "exited"}
  BY DEF VerifierInv, AnswerInv
<1>6. Passes(stage, read) = {Digests(read)}
  BY DEF Passes
<1>7. NextCheck(stage) \in After /\ stage \notin After
  BY ChecksInOrder DEF After
\* What is known after the read of the call that wrote the manifest.
<1>13. PICK a : a = read[Manifest].session
  OBVIOUS
<1> DEFINE Known == /\ IsContent(read[Manifest], Manifest)
                    /\ \/ a \in whole'
                       \/ Gone(a)' /\ (Receipts \in DOMAIN read => ~ IsOf(read[Receipts], a))
<1>8. Manifest \in DOMAIN read
  BY <1>2, <1>3 DEF FilesOf, Listed
<1>9. Intact(read[Manifest]) => Known
  <2>1. CASE f = Manifest
    <3>1. DOMAIN seen = {}
      BY <1>3, <2>1 DEF VerifierInv, DigestsInv
    <3>2. Receipts \notin DOMAIN read
      BY <1>2, <2>1, <3>1, OrderOfFiles
    <3> QED BY <1>1, <1>2, <1>4, <1>12, <1>13, <2>1, <3>1, <3>2, ManifestIsRead DEF Reads
  <2>2. CASE f # Manifest
    <3>1. Manifest \in DOMAIN seen /\ read[Manifest] = seen[Manifest] /\ whole' = whole
      BY <1>1, <1>2, <1>8, <2>2
    <3>2. Gone(a) => Gone(a)' /\ ~ IsOf(dir[Receipts], a)
      BY <1>4 DEF Gone, IsOf
    <3>3. ASSUME Intact(read[Manifest]), Gone(a), Receipts \in DOMAIN read,
                 Receipts \in DOMAIN seen => ~ IsOf(seen[Receipts], a)
          PROVE  ~ IsOf(read[Receipts], a)
      BY <1>2, <3>2, <3>3
    <3> QED BY <1>13, <3>1, <3>2, <3>3 DEF VerifierInv, DigestsInv
  <2> QED BY <2>1, <2>2
<1>10. CASE Due(stage, read) # {}
  <2>1. seen' = read /\ UNCHANGED <<stage, failures>>
    BY <1>1, <1>10, <1>12
  <2>2. DigestsInv'
    BY <1>8, <1>9, <1>13, <2>1 DEF DigestsInv, Gone, IsContent, IsOf, Intact
  <2> QED BY <1>4, <1>5, <1>7, <2>1, <2>2 DEF AnswerInv, Accepted, Before
<1>11. CASE Due(stage, read) = {}
  <2>1. /\ stage' = NextCheck(stage)
        /\ failures' = IF Digests(read) THEN failures ELSE failures \cup {stage}
    BY <1>1, <1>6, <1>11, <1>12
  <2>2. ASSUME Digests(read)
        PROVE  whole' # {}
    <3>1. Intact(read[Manifest]) /\ \A g \in Listed(read) : read[g] = read[Manifest].artifacts[g]
      BY <2>2 DEF Digests
    <3>2. Receipts \in Listed(read) /\ IsOf(read[Manifest].artifacts[Receipts], a)
      BY <1>8, <1>9, <1>13, <3>1 DEF Listed, IsContent
    <3>3. Receipts \in DOMAIN read
      BY <1>11, <3>2 DEF Due, FilesOf
    <3>4. IsOf(read[Receipts], a)
      BY <3>1, <3>2
    <3> QED BY <1>9, <3>1, <3>3, <3>4
  <2>3. stage' \in After /\ stage' \notin {"answered", "exited", "artifact_digests"}
    BY <1>7, <2>1 DEF After
  <2>4. DigestsInv'
    BY <2>3 DEF DigestsInv
  <2> QED BY <1>4, <1>5, <2>1, <2>2, <2>3, <2>4 DEF AnswerInv, Accepted
<1> QED BY <1>10, <1>11

\* The other checks.
LEMMA ChecksPreserve ==
    ASSUME VerifierInv, Read, stage # "artifact_digests"
    PROVE  DigestsInv' /\ AnswerInv'
<1>1. PICK f \in Due(stage, seen) :
         /\ \/ UNCHANGED <<stage, failures>>
            \/ seen' = <<>> /\ failures \subseteq failures' /\ stage' = NextCheck(stage)
         /\ whole' = IF f = Manifest THEN {a \in Assemblers : CompleteFor(a)} ELSE whole
  BY DEF Read, IsFirst
<1>2. stage \in Range(Checks) /\ UNCHANGED <<state, exit>>
  BY DEF Read
<1>3. whole' = whole
  BY <1>1, <1>2, ManifestReader DEF Due
<1>4. stage = "certificate_digest" \/ stage \in After \ {"decide"}
  BY <1>2, ChecksInOrder
<1>5. stage' = stage \/ (stage = "certificate_digest" /\ stage' = "artifact_digests" /\ seen' = <<>>)
       \/ (stage \in After /\ stage' \in After /\ seen' = <<>>)
  BY <1>1, <1>2, <1>4, ChecksInOrder
<1>6. DigestsInv'
  BY <1>4, <1>5 DEF DigestsInv, After
<1>7. stage \notin {"answered", "exited"} /\ stage' \notin {"answered", "exited"}
  BY <1>4, <1>5 DEF After
<1>8. failures \subseteq failures'
  BY <1>1
<1>9. exit' = "none" /\ ~ Accepted'
  BY <1>2, <1>7 DEF VerifierInv, AnswerInv, Accepted
<1>10. stage' \in Before \cup After
  BY <1>4, <1>5 DEF Before, After
<1>11. stage' \in After => stage \in After
  BY <1>4, <1>5 DEF After
<1>12. stage' \in After => "artifact_digests" \in failures' \/ whole' # {}
  BY <1>3, <1>8, <1>11 DEF VerifierInv, AnswerInv
<1> QED BY <1>6, <1>7, <1>9, <1>10, <1>12 DEF AnswerInv, Before, After

\* The answers.
LEMMA AnswersPreserve ==
    ASSUME VerifierInv, Unverifiable \/ Undecodable \/ Begin \/ Decide \/ Report
    PROVE  DigestsInv' /\ AnswerInv'
<1>1. CASE Unverifiable
  BY <1>1 DEF Unverifiable, Answer, VerifierInv, DigestsInv, AnswerInv, Accepted, After, Before
<1>2. CASE Undecodable
  BY <1>2 DEF Undecodable, VerifierInv, DigestsInv, AnswerInv, Accepted, After, Before
<1>3. CASE Begin
  BY <1>3, ChecksInOrder DEF Begin, VerifierInv, DigestsInv, AnswerInv, Accepted, After, Before
<1>4. CASE Decide
  <2>1. stage = "decide" /\ stage' = "answered" /\ UNCHANGED <<whole, exit>>
    BY <1>4 DEF Decide, Answer
  <2>2. Accepted' => failures = {}
    BY <1>4 DEF Decide, Answer, Accepted
  <2> QED BY <2>1, <2>2 DEF VerifierInv, DigestsInv, AnswerInv, After, Before
<1>5. CASE Report
  BY <1>5 DEF Report, VerifierInv, DigestsInv, AnswerInv, Accepted, After, Before
<1> QED BY <1>1, <1>2, <1>3, <1>4, <1>5

\* What every step of the calls and of the verification preserves, whatever
\* dies, and whatever is in the directory when a call begins.
THEOREM VerifierInductive == Spec => []VerifierInv
<1>1. Init => VerifierInv
  <2> SUFFICES ASSUME Init PROVE VerifierInv
    OBVIOUS
  <2>1. \A a \in Assemblers : CallInv(a) /\ Filled(a) = {}
    BY DEF Init, BundleInit, CallInv, Opened, Filled
  <2>2. \A f \in Files : ~ Intact(dir[f])
    BY DEF Init, BundleInit, Intact
  <2>3. BundleInv
    BY <2>1, <2>2, OrderOfFiles DEF Init, BundleInit, BundleInv, TurnsInv, DirInv, IsOf
  <2> QED BY <2>3 DEF Init, VerifierInv, DigestsInv, AnswerInv, Accepted, After, Before
<1>2. VerifierInv /\ [Next]_vars => VerifierInv'
  <2> SUFFICES ASSUME VerifierInv, [Next]_vars PROVE VerifierInv'
    OBVIOUS
  <2>1. CASE Verify
    <3>1. UNCHANGED <<dir, pc, input, todo, written>>
      BY <2>1 DEF Verify, Unverifiable, Undecodable, Begin, Read, Decide, Report, bundleVars
    <3> QED BY <2>1, <3>1, BundleStays, DigestsPreserve, ChecksPreserve, AnswersPreserve
            DEF Verify, VerifierInv
  <2>2. CASE BundleNext /\ UNCHANGED verifierVars
    <3>1. BundleInv' /\ \A a \in Assemblers : Gone(a) => Gone(a)'
      BY <2>2, BundlePreserves DEF VerifierInv
    <3>2. UNCHANGED <<stage, seen, failures, state, exit, whole>>
      BY <2>2 DEF verifierVars
    <3>3. DigestsInv'
      BY <3>1, <3>2 DEF VerifierInv, DigestsInv, IsContent, IsOf, Intact
    <3>4. AnswerInv'
      BY <3>2 DEF VerifierInv, AnswerInv, Accepted
    <3> QED BY <3>1, <3>3, <3>4 DEF VerifierInv
  <2>3. CASE UNCHANGED vars
    <3>1. UNCHANGED <<dir, pc, input, todo, written>> /\ UNCHANGED <<stage, seen, failures, state, exit, whole>>
      BY <2>3 DEF vars, bundleVars
    <3>2. DigestsInv'
      BY <3>1 DEF VerifierInv, DigestsInv, Gone, IsContent, IsOf, Intact
    <3> QED BY <3>1, <3>2, BundleStays DEF VerifierInv, AnswerInv, Accepted
  <2> QED BY <2>1, <2>2, <2>3 DEF Next
<1> QED BY <1>1, <1>2, PTL DEF Spec

-----------------------------------------------------------------------------
(* Types.                                                                  *)

\* A step of a call keeps the types of the calls and of the clock.
LEMMA CallTypes ==
    ASSUME TypeOK, BundleNext
    PROVE  /\ now' \in Times
           /\ pc' \in [Assemblers -> {"idle", "writing", "returned", "crashed"}]
           /\ \A a \in Assemblers : input'[a] \in Inputs \cup {NoInput}
<1>1. CASE Tick
  <2>1. UNCHANGED <<pc, input>> /\ now' \in Times
    BY <1>1, BundleAssumption DEF Tick, TypeOK, Times
  <2> QED BY <2>1 DEF TypeOK
<1>2. ASSUME NEW a \in Assemblers, Assemble(a)
      PROVE  /\ UNCHANGED now
             /\ pc' \in [Assemblers -> {"idle", "writing", "returned", "crashed"}]
             /\ \A b \in Assemblers : input'[b] \in Inputs \cup {NoInput}
  <2>1. UNCHANGED now /\ pc' = [pc EXCEPT ![a] = "writing"]
    BY <1>2 DEF Assemble
  <2>2. PICK i \in Inputs : input' = [input EXCEPT ![a] = i]
    BY <1>2 DEF Assemble
  <2>3. \A b \in Assemblers : input'[b] \in {i, input[b]}
    BY <2>2
  <2>4. \A b \in Assemblers : input[b] \in Inputs \cup {NoInput}
    BY DEF TypeOK
  <2>5. pc' \in [Assemblers -> {"idle", "writing", "returned", "crashed"}]
    BY <2>1 DEF TypeOK
  <2> QED BY <2>1, <2>2, <2>3, <2>4, <2>5
<1>3. ASSUME NEW a \in Assemblers, Open(a) \/ Fill(a) \/ Crash(a)
      PROVE  /\ UNCHANGED <<now, input>>
             /\ pc' \in [Assemblers -> {"idle", "writing", "returned", "crashed"}]
  <2>1. UNCHANGED <<now, input>>
    BY <1>3 DEF Open, Fill, Crash
  <2>2. pc' = pc \/ \E p \in {"returned", "crashed", pc[a]} : pc' = [pc EXCEPT ![a] = p]
    BY <1>3 DEF Open, Fill, Crash
  <2> QED BY <2>1, <2>2 DEF TypeOK
<1> QED BY <1>1, <1>2, <1>3 DEF BundleNext, Write, TypeOK

\* So does a step of a verification.
LEMMA VerifyTypes ==
    ASSUME TypeOK, Verify
    PROVE  /\ UNCHANGED <<dir, now, pc, input>>
           /\ DOMAIN seen' \subseteq Files /\ failures' \subseteq Range(Checks)
           /\ state' \in States \cup {"none"} /\ exit' \in {"none", "0", "1"}
           /\ whole' \subseteq Assemblers
<1>1. UNCHANGED <<dir, now, pc, input>>
  BY DEF Verify, Unverifiable, Undecodable, Begin, Read, Decide, Report, bundleVars
<1>2. CASE Read
  <2>1. PICK f \in Files :
           /\ \/ seen' = With(seen, f, dir[f]) /\ UNCHANGED failures
              \/ seen' = <<>> /\ failures' \in {failures, failures \cup {stage}}
           /\ whole' \in {{a \in Assemblers : CompleteFor(a)}, whole}
    BY <1>2 DEF Read
  <2>2. DOMAIN seen' \subseteq DOMAIN seen \cup {f}
    BY <2>1 DEF With
  <2>3. stage \in Range(Checks) /\ UNCHANGED <<state, exit>>
    BY <1>2 DEF Read
  <2> QED BY <1>1, <2>1, <2>2, <2>3 DEF TypeOK
<1>3. CASE Unverifiable \/ Undecodable \/ Begin \/ Decide \/ Report
  <2>1. UNCHANGED <<seen, failures, whole>>
    BY <1>3 DEF Unverifiable, Undecodable, Begin, Decide, Report
  <2>2. state' = state \/ state' \in States
    BY <1>3 DEF Unverifiable, Undecodable, Begin, Decide, Report, Answer, States
  <2>3. exit' = exit \/ exit' \in {"0", "1"}
    BY <1>3 DEF Unverifiable, Undecodable, Begin, Decide, Report
  <2> QED BY <1>1, <2>1, <2>2, <2>3 DEF TypeOK
<1> QED BY <1>2, <1>3 DEF Verify

-----------------------------------------------------------------------------
(* The theorems.                                                           *)

\* The directory has in each file nothing but a content of that file, calls
\* and verifications go through their stages and no others, and a
\* verification reads files of the bundle only (bundle.py, checks.py).
THEOREM VerifierTypes == Spec => []TypeOK
<1>1. Init => TypeOK
  <2> SUFFICES ASSUME Init PROVE TypeOK
    OBVIOUS
  <2>1. \A f \in Files : ~ Intact(dir[f])
    BY DEF Init, BundleInit, Intact
  <2>2. now \in Times
    BY BundleAssumption DEF Init, BundleInit, Times
  <2> QED BY <2>1, <2>2 DEF Init, BundleInit, TypeOK
<1>2. ASSUME VerifierInv', TypeOK, [Next]_vars
      PROVE  TypeOK'
  <2>1. /\ \A f \in Files : Intact(dir'[f]) => dir'[f].file = f
        /\ stage' \in Range(Checks) \cup {"idle", "decide", "answered", "raised", "exited"}
    <3>1. \A f \in Files : Intact(dir'[f]) => dir'[f].file = f
      BY <1>2 DEF VerifierInv, BundleInv, DirInv, IsContent, Intact
    <3>2. stage' \in Before \cup After \cup {"answered", "raised", "exited"}
      BY <1>2 DEF VerifierInv, AnswerInv
    <3> QED BY <3>1, <3>2, ChecksInOrder DEF Before, After
  <2>2. CASE Verify
    BY <1>2, <2>1, <2>2, VerifyTypes DEF TypeOK
  <2>3. CASE BundleNext /\ UNCHANGED verifierVars
    <3>1. UNCHANGED <<seen, failures, state, exit, whole>>
      BY <2>3 DEF verifierVars
    <3> QED BY <1>2, <2>1, <2>3, <3>1, CallTypes DEF TypeOK
  <2>4. CASE UNCHANGED vars
    <3>1. UNCHANGED <<now, pc, input, seen, failures, state, exit, whole>>
      BY <2>4 DEF vars, bundleVars
    <3> QED BY <1>2, <2>1, <3>1 DEF TypeOK
  <2> QED BY <1>2, <2>2, <2>3, <2>4 DEF Next
<1> QED BY <1>1, <1>2, VerifierInductive, PTL DEF Spec

\* What verify_bundle accepts, or main exits with 0 over, was all there: one
\* finished call's files, when the manifest was read.
THEOREM AcceptedIsComplete == Spec => []AcceptedWasComplete
<1>1. VerifierInv => AcceptedWasComplete
  BY DEF VerifierInv, AnswerInv, AcceptedWasComplete
<1> QED BY <1>1, VerifierInductive, PTL

-----------------------------------------------------------------------------
(* The inductive invariant, for the only call a.                           *)

\* What the checks compare of the contents made from one input.
IsMadeFrom(content, f, i) ==
    /\ f \in {Receipts, ObservationSubject} => content.subject = SubjectOf(i)
    /\ f = ActionRegistry => content.epoch = i.actions
    /\ f = WitnessRegistry => content.epoch = i.witnesses
    /\ f = Admission => content.admission = i.admission
    /\ f = Certificate => /\ content.session = i.session
                          /\ content.state = OutcomeState(i.outcome)
                          /\ content.admission = i.admission

\* The call writes the files of its input, and the manifest lists the others.
MadeInv(a) ==
    /\ pc[a] # "idle" => /\ input[a].session = a
                         /\ DOMAIN written[a] \cup todo[a] = WritesOf(input[a])
    /\ \A f \in DOMAIN written[a] : IsMadeFrom(written[a][f], f, input[a])
    /\ Manifest \in DOMAIN written[a] =>
          LET listed == written[a][Manifest].artifacts
          IN  /\ DOMAIN listed = DOMAIN written[a] \ {Manifest}
              /\ \A f \in DOMAIN listed : listed[f] = written[a][f]

\* The directory has the files that the call has closed, and no others.
SoleInv(a) ==
    \A f \in Files : /\ Intact(dir[f]) => f \in Filled(a)
                     /\ f \in Filled(a) => dir[f] = written[a][f]

\* The certificate that the verification has read.
CertRead(a) == Certificate \in Filled(a) /\ cert = written[a][Certificate]

\* What the verification has read, and why it fails.
ReadInv(a) ==
    /\ whole \subseteq {a}
    /\ whole # {} => /\ pc[a] = "returned"
                     /\ stage \notin {"idle", "certificate_digest", "raised"}
                     /\ \A f \in DOMAIN seen : seen[f] = dir[f]
                     /\ failures # {} => ~ InWindow(a)
    /\ stage \in Range(Checks) \cup {"decide"} => CertRead(a)
    /\ stage \in {"idle", "certificate_digest"} => DOMAIN seen = {} /\ failures = {}
    /\ stage = "artifact_digests" => failures = {}
    /\ stage \in Range(Checks) /\ stage # "artifact_digests" =>
          DOMAIN seen \subseteq Range(ReadOrder(stage))

\* What the answer is made of.
AnsweredInv(a) ==
    /\ stage \notin {"answered", "exited"} => state = "none"
    /\ Accepted => /\ CertRead(a)
                   /\ state = "verified_denial" <=> cert.state = "verified_denial"
    /\ whole # {} =>
          /\ stage \in {"answered", "exited"} => Accepted \/ state = "failed"
          /\ state = "failed" => failures # {}
          /\ exit = "1" => state = "failed"

FreshInv(a) == MadeInv(a) /\ SoleInv(a) /\ ReadInv(a) /\ AnsweredInv(a)

-----------------------------------------------------------------------------
(* The steps of the call.                                                  *)

LEMMA FilesAreTold ==
    /\ {Receipts, Keyring, ActionRegistry, WitnessRegistry, Admission,
        ObservationSubject, Certificate, Manifest} \subseteq Files
    /\ \A i : {Receipts, Keyring, ActionRegistry, WitnessRegistry, Admission,
               Certificate, Manifest} \subseteq WritesOf(i)
    /\ \A i : SubjectOf(i) # NoSubject => ObservationSubject \in WritesOf(i)
<1>1. {Receipts, Keyring, ActionRegistry, WitnessRegistry, Admission,
       ObservationSubject, Certificate, Manifest} \subseteq Files
  BY DEF Files, Order, Range
<1>2. /\ {Receipts, Keyring, ActionRegistry, WitnessRegistry, Admission,
          Certificate, Manifest} \cap {ObservationSubject, ObservedBytes} = {}
      /\ ObservationSubject # ObservedBytes
  BY DEF Receipts, Keyring, ActionRegistry, WitnessRegistry, Admission, Certificate,
         Manifest, ObservationSubject, ObservedBytes
<1> QED BY <1>1, <1>2 DEF WritesOf

LEMMA MadeFrom ==
    ASSUME NEW f, NEW i, NEW time, NEW artifacts
    PROVE  /\ IsMadeFrom(ContentOf(f, i, time, artifacts), f, i)
           /\ f = Manifest => ContentOf(f, i, time, artifacts).artifacts = artifacts
BY DEF IsMadeFrom, ContentOf, CertificateOf, Receipts, Manifest, Keyring, ActionRegistry,
       WitnessRegistry, Admission, ObservationSubject, ObservedBytes, Certificate

\* A step of the call keeps its contents, and what is closed stays.
LEMMA CallKeeps ==
    ASSUME NEW a, Assemblers = {a}, BundleInv, MadeInv(a), SoleInv(a), BundleNext
    PROVE  /\ MadeInv(a)' /\ SoleInv(a)'
           /\ Filled(a) \subseteq Filled(a)'
           /\ pc[a] # "idle" => input'[a] = input[a] /\ pc'[a] # "idle"
           /\ \A f \in Filled(a) : written'[a][f] = written[a][f]
           /\ pc[a] = "returned" => UNCHANGED dir /\ pc'[a] = "returned"
<1> USE DEF BundleInv
<1>1. CASE Tick
  BY <1>1 DEF Tick, MadeInv, SoleInv, Filled, IsMadeFrom
<1>2. CASE Assemble(a)
  <2>1. PICK i \in Inputs : /\ i.session = a
                           /\ input' = [input EXCEPT ![a] = i]
                           /\ todo' = [todo EXCEPT ![a] = WritesOf(i)]
    BY <1>2 DEF Assemble
  <2>2. /\ pc[a] = "idle" /\ pc'[a] = "writing" /\ UNCHANGED <<dir, written>>
        /\ input'[a] = i /\ todo'[a] = WritesOf(i) /\ DOMAIN written[a] = {}
    BY <1>2, <2>1 DEF Assemble, CallInv
  <2>3. Filled(a) = {} /\ Filled(a)' = {}
    BY <2>2 DEF Filled
  <2> QED BY <2>1, <2>2, <2>3 DEF MadeInv, SoleInv
<1>3. CASE Open(a)
  <2>1. PICK f \in todo[a] :
           /\ written' = [written EXCEPT ![a] =
                            With(written[a], f, ContentOf(f, input[a], now, written[a]))]
           /\ dir' = [dir EXCEPT ![f] = Torn]
           /\ IsFirst(f, todo[a], Order)
    BY <1>3 DEF Open
  <2>2. /\ pc[a] = "writing" /\ Opened(a) = {} /\ UNCHANGED <<pc, input, todo>>
        /\ todo[a] \in SUBSET Files /\ f \in Files /\ f \notin DOMAIN written[a]
    BY <1>3, <2>1 DEF Open, Opened, CallInv
  <2> DEFINE c == ContentOf(f, input[a], now, written[a])
  <2>3. /\ DOMAIN written'[a] = DOMAIN written[a] \cup {f} /\ written'[a][f] = c
        /\ \A g \in DOMAIN written[a] : written'[a][g] = written[a][g]
    BY <2>1, <2>2 DEF With
  <2>4. /\ IsMadeFrom(c, f, input[a])
        /\ f = Manifest => c.artifacts = written[a]
    BY MadeFrom
  <2> HIDE DEF c
  <2>5. MadeInv(a)'
    <3>1. /\ DOMAIN written'[a] \cup todo'[a] = WritesOf(input'[a])
          /\ pc'[a] # "idle" /\ input'[a].session = a
      BY <2>2, <2>3 DEF MadeInv
    <3>2. \A g \in DOMAIN written'[a] : IsMadeFrom(written'[a][g], g, input[a])
      BY <2>3, <2>4 DEF MadeInv
    <3>3. ASSUME Manifest \in DOMAIN written'[a]
          PROVE  LET listed == written'[a][Manifest].artifacts
                 IN  /\ DOMAIN listed = DOMAIN written'[a] \ {Manifest}
                     /\ \A g \in DOMAIN listed : listed[g] = written'[a][g]
      <4>1. CASE f = Manifest
        BY <2>2, <2>3, <2>4, <4>1
      <4>2. CASE f # Manifest
        \* The manifest is the last: nothing is left to open after it.
        <5>1. Manifest \in todo[a] \cap DOMAIN written[a]
          BY <2>2, <2>3, <3>3, <4>2 DEF CallInv
        <5> QED BY <2>2, <5>1 DEF Opened
      <4> QED BY <4>1, <4>2
    <3> QED BY <2>2, <3>1, <3>2, <3>3 DEF MadeInv, IsMadeFrom
  <2>6. Filled(a)' = Filled(a) /\ f \notin Filled(a)
    BY <2>1, <2>2, <2>3 DEF Filled
  <2>7. DOMAIN dir' = Files /\ dir'[f] = Torn /\ \A g \in Files : g # f => dir'[g] = dir[g]
    BY <2>1, <2>2 DEF DirInv
  <2>8. SoleInv(a)'
    <3>1. ~ Intact(Torn)
      BY DEF Intact
    <3> QED BY <2>3, <2>6, <2>7, <3>1 DEF SoleInv, Filled, Intact
  <2> QED BY <2>2, <2>3, <2>5, <2>6, <2>8 DEF Filled
<1>4. CASE Fill(a)
  <2>1. PICK f \in Opened(a) :
           /\ dir' = [dir EXCEPT ![f] = written[a][f]]
           /\ todo' = [todo EXCEPT ![a] = todo[a] \ {f}]
           /\ pc' = [pc EXCEPT ![a] = IF todo[a] = {f} THEN "returned" ELSE pc[a]]
    BY <1>4 DEF Fill
  <2>2. /\ pc[a] = "writing" /\ UNCHANGED <<input, written>> /\ todo[a] \in SUBSET Files
        /\ f \in todo[a] /\ f \in DOMAIN written[a] /\ f \in Files
        /\ todo'[a] = todo[a] \ {f} /\ pc'[a] \in {"writing", "returned"}
    BY <1>4, <2>1 DEF Fill, Opened, CallInv
  <2>3. Filled(a)' = Filled(a) \cup {f}
    BY <2>2 DEF Filled
  <2>4. DOMAIN dir' = Files /\ dir'[f] = written[a][f] /\ \A g \in Files : g # f => dir'[g] = dir[g]
    BY <2>1, <2>2 DEF DirInv
  <2>5. SoleInv(a)'
    BY <2>2, <2>3, <2>4 DEF SoleInv, Intact
  <2>6. MadeInv(a)'
    BY <2>2 DEF MadeInv, IsMadeFrom
  <2> QED BY <2>2, <2>3, <2>5, <2>6
<1>5. CASE Crash(a)
  <2>1. /\ UNCHANGED <<dir, input, todo, written>> /\ pc[a] = "writing" /\ pc'[a] = "crashed"
    BY <1>5 DEF Crash
  <2> QED BY <2>1 DEF MadeInv, SoleInv, Filled, IsMadeFrom
<1> QED BY <1>1, <1>2, <1>3, <1>4, <1>5 DEF BundleNext, Write
-----------------------------------------------------------------------------
(* The checks.                                                             *)

\* The bundle of a call that has returned.
LEMMA Finished ==
    ASSUME NEW a \in Assemblers, BundleInv, MadeInv(a), SoleInv(a), pc[a] = "returned"
    PROVE  /\ DOMAIN written[a] = WritesOf(input[a])
           /\ \A f \in WritesOf(input[a]) :
                 dir[f] = written[a][f] /\ Intact(dir[f]) /\ IsMadeFrom(dir[f], f, input[a])
<1>1. todo[a] = {} /\ DOMAIN written[a] = WritesOf(input[a])
  BY DEF BundleInv, CallInv, MadeInv
<1>2. Filled(a) = WritesOf(input[a]) /\ WritesOf(input[a]) \subseteq Files
  BY <1>1 DEF Filled, WritesOf
<1>3. ASSUME NEW f \in WritesOf(input[a])
      PROVE  dir[f] = written[a][f] /\ IsContent(written[a][f], f)
             /\ IsMadeFrom(written[a][f], f, input[a])
  BY <1>1, <1>2, <1>3 DEF SoleInv, MadeInv, BundleInv, CallInv
<1> QED BY <1>1, <1>3 DEF IsContent

\* Every check of a finished bundle that it has read passes, unless an epoch
\* was not valid when the certificate was made.
LEMMA ChecksPass ==
    ASSUME NEW a \in Assemblers, BundleInv, MadeInv(a), SoleInv(a), pc[a] = "returned",
           CertRead(a), InWindow(a), NEW check \in Range(Checks), NEW read,
           \A f \in DOMAIN read : read[f] = dir[f],
           FilesOf(check, read) \subseteq DOMAIN read,
           check # "artifact_digests" => DOMAIN read \subseteq Range(ReadOrder(check))
    PROVE  \A passed \in Passes(check, read) : passed
<1> DEFINE W == WritesOf(input[a])
<1>1. \A f \in W \cap DOMAIN read :
         read[f] = written[a][f] /\ Intact(read[f]) /\ IsMadeFrom(read[f], f, input[a])
  BY Finished
<1>2. {Receipts, Keyring, ActionRegistry, WitnessRegistry, Admission, Certificate,
       Manifest} \subseteq W
  BY FilesAreTold
<1>3. DOMAIN written[a] = W
  BY Finished
<1> HIDE DEF W
<1>4. CASE check = "artifact_digests"
  <2>1. Manifest \in DOMAIN read /\ Listed(read) \subseteq DOMAIN read
    BY <1>4 DEF FilesOf
  <2>2. Intact(read[Manifest]) /\ read[Manifest] = written[a][Manifest]
    BY <1>1, <1>2, <2>1
  <2>3. /\ Listed(read) = W \ {Manifest}
        /\ \A f \in Listed(read) : read[Manifest].artifacts[f] = written[a][f]
    BY <1>2, <1>3, <2>1, <2>2 DEF Listed, MadeInv
  <2>4. Receipts \in Listed(read)
    BY <1>2, <2>3, OrderOfFiles
  <2>5. Digests(read)
    BY <1>1, <2>1, <2>2, <2>3, <2>4 DEF Digests
  <2> QED BY <1>4, <2>5 DEF Passes
<1>5. CASE check \in {"receipt_chain", "session_boundaries"}
  <2>1. Receipts \in DOMAIN read
    BY <1>5 DEF FilesOf, ReadOrder, Range
  <2>2. Intact(read[Receipts])
    BY <1>1, <1>2, <2>1
  <2> QED BY <1>5, <2>2 DEF Passes, Lines, Intact
<1>6. CASE check = "signatures"
  <2>1. FilesOf(check, read) = {Keyring, ObservationSubject, Receipts}
    BY <1>6 DEF FilesOf, ReadOrder, Range
  <2>2. /\ Intact(read[Keyring]) /\ Intact(read[Receipts])
        /\ read[Receipts].subject = SubjectOf(input[a])
    BY <1>1, <1>2, <2>1 DEF IsMadeFrom
  <2>3. SubjectOf(input[a]) # NoSubject =>
           /\ Intact(read[ObservationSubject])
           /\ read[ObservationSubject].subject = SubjectOf(input[a])
    BY <1>1, <2>1, FilesAreTold DEF IsMadeFrom, W
  <2>4. SignaturesHold(read)
    BY <2>2, <2>3 DEF SignaturesHold
  <2>5. Passes(check, read) = Lines(read[Receipts], Intact(read[Receipts]) /\ SignaturesHold(read))
    BY <1>6, <2>2 DEF Passes
  <2>6. read[Receipts] # Torn /\ read[Receipts] # Absent
    BY <2>2 DEF Intact
  <2>7. (read[Receipts] # Absent /\ (Intact(read[Receipts]) /\ SignaturesHold(read))) = TRUE
    BY <2>2, <2>4, <2>6, Zenon
  <2>8. Passes(check, read) = {TRUE}
    BY <2>5, <2>6, <2>7, Zenon DEF Lines
  <2> QED BY <2>8
<1>7. CASE check = "registry_validity"
  <2>1. DOMAIN read = {Certificate, ActionRegistry, WitnessRegistry, Keyring}
    BY <1>7 DEF FilesOf, ReadOrder, Range
  <2>2. \A f \in DOMAIN read : Intact(read[f])
    BY <1>1, <1>2, <2>1
  <2>3. /\ read[Certificate] = cert
        /\ read[ActionRegistry].epoch = input[a].actions
        /\ read[WitnessRegistry].epoch = input[a].witnesses
    BY <1>1, <1>2, <2>1 DEF CertRead, IsMadeFrom
  <2>4. RegistryValid(read)
    BY <2>2, <2>3 DEF RegistryValid, InWindow
  <2> QED BY <1>7, <2>4 DEF Passes
<1>8. CASE check = "admission"
  <2>1. DOMAIN read = {Certificate, Admission, Keyring}
    BY <1>8 DEF FilesOf, ReadOrder, Range
  <2>2. \A f \in DOMAIN read : Intact(read[f])
    BY <1>1, <1>2, <2>1
  <2>3. /\ read[Certificate].admission = input[a].admission
        /\ read[Admission].admission = input[a].admission
    BY <1>1, <1>2, <2>1 DEF IsMadeFrom
  <2> QED BY <1>8, <2>2, <2>3 DEF Passes, AdmissionValid
<1>9. CASE check \in {"certificate_digest", "observation_overclaim"}
  <2>1. Certificate \in DOMAIN read
    BY <1>9 DEF FilesOf, ReadOrder, Range
  <2> QED BY <1>1, <1>2, <1>9, <2>1 DEF Passes
<1> QED BY <1>4, <1>5, <1>6, <1>7, <1>8, <1>9, ChecksInOrder DEF After

-----------------------------------------------------------------------------
(* The steps of the verification.                                          *)

LEMMA ReadPreserves ==
    ASSUME NEW a, Assemblers = {a}, VerifierInv, FreshInv(a), Read
    PROVE  ReadInv(a)' /\ AnsweredInv(a)'
<1>1. PICK f, read :
         /\ f \in Due(stage, seen)
         /\ read = With(seen, f, dir[f])
         /\ IF Due(stage, read) # {}
            THEN seen' = read /\ UNCHANGED <<stage, failures>>
            ELSE \E passed \in Passes(stage, read) :
                   /\ seen' = <<>>
                   /\ failures' = IF passed THEN failures ELSE failures \cup {stage}
                   /\ stage' = NextCheck(stage)
         /\ whole' = IF f = Manifest THEN {b \in Assemblers : CompleteFor(b)} ELSE whole
  BY DEF Read, IsFirst
<1>2. stage \in Range(Checks) /\ UNCHANGED <<bundleVars, cert, state, exit>>
  BY DEF Read
<1>3. /\ DOMAIN read = DOMAIN seen \cup {f} /\ read[f] = dir[f]
      /\ \A g \in DOMAIN seen : read[g] = IF g = f THEN dir[f] ELSE seen[g]
  BY <1>1 DEF With
<1>4. f \notin DOMAIN seen /\ f \in FilesOf(stage, seen)
  BY <1>1 DEF Due
<1>5. f = Manifest => stage = "artifact_digests" /\ DOMAIN seen = {}
  <2>1. f = Manifest => stage = "artifact_digests"
    BY <1>2, <1>4, ManifestReader
  <2> QED BY <1>4, <2>1 DEF VerifierInv, DigestsInv
<1>6. CertRead(a) /\ CertRead(a)'
  BY <1>2 DEF FreshInv, ReadInv, CertRead, Filled, bundleVars
<1>7. /\ whole' \subseteq {a}
      /\ whole' # {} => /\ pc[a] = "returned" /\ stage # "certificate_digest"
                        /\ \A g \in DOMAIN read : read[g] = dir[g]
                        /\ failures # {} => ~ InWindow(a)
  <2>1. CASE f = Manifest
    <3>1. failures = {} /\ stage # "certificate_digest"
      BY <1>5, <2>1 DEF FreshInv, ReadInv
    <3> QED BY <1>1, <1>3, <1>5, <2>1, <3>1 DEF CompleteFor
  <2>2. CASE f # Manifest
    BY <1>1, <1>3, <2>2 DEF FreshInv, ReadInv
  <2> QED BY <2>1, <2>2
<1>8. stage # "artifact_digests" => DOMAIN read \subseteq Range(ReadOrder(stage))
  BY <1>2, <1>3, <1>4 DEF FilesOf, FreshInv, ReadInv
<1>9. InWindow(a)' <=> InWindow(a)
  BY <1>2 DEF InWindow, Within, bundleVars
<1>10. ~ Accepted /\ ~ Accepted' /\ stage \notin {"answered", "exited"} /\ exit' = "none"
  BY <1>2, ChecksInOrder DEF VerifierInv, AnswerInv, Accepted, After
<1>11. AnsweredInv(a)'
  <2>1. state = "none" /\ stage' \notin {"answered", "exited"}
    <3>1. stage' = stage \/ stage' \in {"artifact_digests"} \cup After
      BY <1>1, <1>2, ChecksInOrder
    <3> QED BY <1>10, <3>1 DEF FreshInv, AnsweredInv, After
  <2> QED BY <1>2, <1>10, <2>1 DEF AnsweredInv, Accepted
<1>12. CASE Due(stage, read) # {}
  <2>1. seen' = read /\ UNCHANGED <<stage, failures>>
    BY <1>1, <1>12
  <2>2. stage # "certificate_digest"
    <3>1. stage = "certificate_digest" => FilesOf(stage, seen) = {Certificate}
                                          /\ FilesOf(stage, read) = {Certificate}
      BY DEF FilesOf, ReadOrder, Range
    <3> QED BY <1>3, <1>4, <1>12, <3>1 DEF Due
  <2>3. stage \notin {"idle", "raised", "decide"}
    BY <1>2, ChecksInOrder DEF After
  <2>4. pc' = pc /\ dir' = dir
    BY <1>2 DEF bundleVars
  <2>5. stage = "artifact_digests" => failures = {}
    BY DEF FreshInv, ReadInv
  <2> QED BY <1>6, <1>7, <1>8, <1>9, <1>11, <2>1, <2>2, <2>3, <2>4, <2>5 DEF ReadInv
<1>13. CASE Due(stage, read) = {}
  <2>1. PICK passed \in Passes(stage, read) :
           /\ seen' = <<>> /\ stage' = NextCheck(stage)
           /\ failures' = IF passed THEN failures ELSE failures \cup {stage}
    BY <1>1, <1>13
  <2>2. FilesOf(stage, read) \subseteq DOMAIN read
    BY <1>13 DEF Due
  <2>3. CASE stage = "certificate_digest"
    <3>1. Certificate \in DOMAIN read /\ read[Certificate] = dir[Certificate]
      <4>1. FilesOf(stage, read) = {Certificate} /\ DOMAIN seen = {}
        BY <2>3 DEF FilesOf, ReadOrder, Range, FreshInv, ReadInv
      <4> QED BY <1>3, <2>2, <4>1
    <3>2. Intact(dir[Certificate])
      BY <1>6, FilesAreTold DEF CertRead, Filled, FreshInv, SoleInv, VerifierInv, BundleInv,
         CallInv, IsContent
    <3>3. Passes(stage, read) = {Intact(read[Certificate])}
      BY <2>3 DEF Passes
    <3>4. failures' = {} /\ stage' = "artifact_digests" /\ whole' = {}
      BY <1>7, <2>1, <2>3, <3>1, <3>2, <3>3, ChecksInOrder DEF FreshInv, ReadInv
    <3> QED BY <1>6, <1>11, <2>1, <3>4 DEF ReadInv
  <2>4. CASE stage # "certificate_digest"
    <3>1. stage' \in After
      BY <1>2, <2>1, <2>4, ChecksInOrder
    <3>2. ASSUME whole' # {}, InWindow(a)
          PROVE  failures' = {}
      <4>1. passed
        BY <1>2, <1>6, <1>7, <1>8, <2>1, <2>2, <3>2, ChecksPass DEF FreshInv, VerifierInv
      <4> QED BY <1>7, <2>1, <3>2, <4>1
    <3>3. DOMAIN seen' = {}
      BY <2>1
    <3>4. pc' = pc
      BY <1>2 DEF bundleVars
    <3> QED BY <1>6, <1>7, <1>9, <1>11, <3>1, <3>2, <3>3, <3>4 DEF ReadInv, After
  <2> QED BY <2>3, <2>4
<1> QED BY <1>12, <1>13
\* The other steps of verify_bundle, and main.
LEMMA OthersPreserve ==
    ASSUME NEW a, Assemblers = {a}, VerifierInv, FreshInv(a),
           Unverifiable \/ Undecodable \/ Begin \/ Decide \/ Report
    PROVE  ReadInv(a)' /\ AnsweredInv(a)'
<1>1. /\ UNCHANGED <<dir, pc, input, todo, written, seen, failures, whole>>
      /\ CertRead(a) /\ ~ Begin => CertRead(a)'
      /\ ~ Begin => (InWindow(a)' <=> InWindow(a))
  BY DEF Unverifiable, Undecodable, Begin, Decide, Report, bundleVars, CertRead, Filled,
         InWindow, Within
<1>2. \/ stage = "idle" /\ stage' \in {"answered", "raised", "certificate_digest"}
      \/ stage = "decide" /\ stage' = "answered"
      \/ stage \in {"answered", "raised"} /\ stage' = "exited"
  BY ChecksInOrder DEF Unverifiable, Undecodable, Begin, Decide, Report, Answer
<1>3. stage = "idle" => whole = {}
  BY DEF FreshInv, ReadInv
<1>4. ReadInv(a)'
  <2>1. CASE Begin
    <3>1. stage = "idle" /\ stage' = "certificate_digest" /\ cert' = dir[Certificate]
          /\ Intact(dir[Certificate])
      BY <2>1, ChecksInOrder DEF Begin
    <3>2. CertRead(a)'
      BY <1>1, <3>1, FilesAreTold DEF FreshInv, SoleInv, CertRead, Filled
    <3>3. DOMAIN seen = {} /\ failures = {} /\ whole = {}
      BY <1>3, <3>1 DEF FreshInv, ReadInv
    <3> QED BY <1>1, <3>1, <3>2, <3>3 DEF ReadInv
  <2>2. CASE ~ Begin
    <3>1. stage' \notin Range(Checks) \cup {"decide", "idle", "certificate_digest", "artifact_digests"}
      BY <1>2, <2>2, ChecksInOrder DEF After, Unverifiable, Undecodable, Begin, Decide, Report, Answer
    <3>2. whole # {} => stage' # "raised"
      BY <1>2, <1>3
    <3> QED BY <1>1, <2>2, <3>1, <3>2 DEF FreshInv, ReadInv
  <2> QED BY <2>1, <2>2
<1>5. AnsweredInv(a)'
  <2>1. CASE Unverifiable \/ Undecodable \/ Begin
    <3>1. stage = "idle" /\ whole = {} /\ whole' = {}
      BY <1>1, <1>3, <2>1 DEF Unverifiable, Undecodable, Begin
    <3>2. state = "none"
      BY <3>1 DEF FreshInv, AnsweredInv
    <3>3. \/ stage' = "answered" /\ state' = "unverifiable"
          \/ stage' \notin {"answered", "exited"} /\ state' = "none"
      BY <2>1, <3>2, ChecksInOrder DEF Unverifiable, Undecodable, Begin, Answer
    <3> QED BY <3>1, <3>3 DEF AnsweredInv, Accepted
  <2>2. CASE Decide
    <3>1. stage = "decide" /\ stage' = "answered" /\ UNCHANGED <<cert, exit>>
      BY <2>2 DEF Decide, Answer
    <3>2. /\ failures # {} => state' = "failed"
          /\ failures = {} => /\ Accepted'
                              /\ state' = "verified_denial" <=> cert.state = "verified_denial"
      BY <2>2 DEF Decide, Answer, Accepted
    <3>3. CertRead(a)' /\ exit = "none"
      BY <1>1, <3>1 DEF FreshInv, ReadInv, VerifierInv, AnswerInv, CertRead, Filled
    <3>4. state' = "failed" => ~ Accepted'
      BY DEF Accepted
    <3> QED BY <1>1, <3>1, <3>2, <3>3, <3>4 DEF AnsweredInv
  <2>3. CASE Report
    <3>1. /\ stage \in {"answered", "raised"} /\ stage' = "exited" /\ UNCHANGED <<cert, state>>
          /\ exit' = IF stage = "answered" /\ Accepted THEN "0" ELSE "1"
      BY <2>3 DEF Report
    <3>2. whole # {} => stage = "answered"
      BY <3>1 DEF FreshInv, ReadInv
    <3>3. Accepted' <=> Accepted
      BY <3>1 DEF Accepted
    <3>4. Accepted => CertRead(a)'
      BY <1>1, <3>1 DEF FreshInv, AnsweredInv, CertRead, Filled
    <3> QED BY <1>1, <3>1, <3>2, <3>3, <3>4 DEF FreshInv, AnsweredInv
  <2> QED BY <2>1, <2>2, <2>3
<1> QED BY <1>4, <1>5

\* A step of the call, or of the clock, changes nothing of what was read.
LEMMA CallStepsPreserve ==
    ASSUME NEW a, Assemblers = {a}, VerifierInv, FreshInv(a), BundleNext, UNCHANGED verifierVars
    PROVE  FreshInv(a)'
<1>1. UNCHANGED <<stage, cert, seen, failures, state, exit, whole>>
  BY DEF verifierVars
<1>2. /\ MadeInv(a)' /\ SoleInv(a)' /\ Filled(a) \subseteq Filled(a)'
      /\ pc[a] # "idle" => input'[a] = input[a] /\ pc'[a] # "idle"
      /\ \A f \in Filled(a) : written'[a][f] = written[a][f]
      /\ pc[a] = "returned" => UNCHANGED dir /\ pc'[a] = "returned"
  BY CallKeeps DEF VerifierInv, FreshInv
<1>3. CertRead(a) => CertRead(a)'
  BY <1>1, <1>2 DEF CertRead
<1>4. pc[a] = "returned" => (InWindow(a)' <=> InWindow(a))
  BY <1>1, <1>2 DEF InWindow, Within
<1>5. Accepted' <=> Accepted
  BY <1>1 DEF Accepted
<1>6. ReadInv(a)'
  BY <1>1, <1>2, <1>3, <1>4 DEF FreshInv, ReadInv
<1>7. AnsweredInv(a)'
  BY <1>1, <1>3, <1>5 DEF FreshInv, AnsweredInv
<1> QED BY <1>2, <1>6, <1>7 DEF FreshInv

\* What every step preserves when the directory is the call's own.
THEOREM FreshInductive ==
    ASSUME NEW CONSTANT a, Assemblers = {a}
    PROVE  Spec => []FreshInv(a)
<1>1. Init => FreshInv(a)
  <2> SUFFICES ASSUME Init PROVE FreshInv(a)
    OBVIOUS
  <2>1. /\ pc[a] = "idle" /\ DOMAIN written[a] = {} /\ Filled(a) = {}
        /\ \A f \in Files : ~ Intact(dir[f])
    BY DEF Init, BundleInit, Filled, Intact
  <2>2. MadeInv(a) /\ SoleInv(a)
    BY <2>1 DEF MadeInv, SoleInv
  <2>3. "idle" \notin Range(Checks) \cup {"decide"}
    BY ChecksInOrder DEF After
  <2>4. ReadInv(a) /\ AnsweredInv(a)
    BY <2>3 DEF Init, ReadInv, AnsweredInv, Accepted
  <2> QED BY <2>2, <2>4 DEF FreshInv
<1>2. VerifierInv /\ FreshInv(a) /\ [Next]_vars => FreshInv(a)'
  <2> SUFFICES ASSUME VerifierInv, FreshInv(a), [Next]_vars PROVE FreshInv(a)'
    OBVIOUS
  <2>1. CASE Verify
    <3>1. UNCHANGED <<dir, pc, input, todo, written>>
      BY <2>1 DEF Verify, Unverifiable, Undecodable, Begin, Read, Decide, Report, bundleVars
    <3>2. MadeInv(a)' /\ SoleInv(a)'
      BY <3>1 DEF FreshInv, MadeInv, SoleInv, Filled, IsMadeFrom
    <3> QED BY <2>1, <3>2, ReadPreserves, OthersPreserve DEF Verify, FreshInv
  <2>2. CASE BundleNext /\ UNCHANGED verifierVars
    BY <2>2, CallStepsPreserve
  <2>3. CASE UNCHANGED vars
    BY <2>3 DEF vars, bundleVars, FreshInv, MadeInv, SoleInv, ReadInv, AnsweredInv, Filled,
       IsMadeFrom, CertRead, InWindow, Within, Accepted
  <2> QED BY <2>1, <2>2, <2>3 DEF Next
<1> QED BY <1>1, <1>2, VerifierInductive, PTL DEF Spec

-----------------------------------------------------------------------------
(* The theorems.                                                           *)

\* build_certificate's outcome state reaches the reader: the answer is about
\* the bundle of the call, and a denial is one of a failed validation.
THEOREM AnswersFit ==
    ASSUME NEW CONSTANT a, Assemblers = {a}
    PROVE  Spec => []AnswerFitsCycle
<1>1. VerifierInv /\ FreshInv(a) => AnswerFitsCycle
  <2> SUFFICES ASSUME VerifierInv, FreshInv(a), Accepted
               PROVE  /\ cert.session \in whole
                      /\ state = "verified_denial" <=>
                            input[cert.session].outcome = "validation_failed"
    BY DEF AnswerFitsCycle
  <2>1. IsMadeFrom(cert, Certificate, input[a])
    BY DEF FreshInv, AnsweredInv, CertRead, MadeInv, Filled
  <2>2. pc[a] # "idle"
    <3>1. Certificate \in DOMAIN written[a]
      BY DEF FreshInv, AnsweredInv, CertRead, Filled
    <3> QED BY <3>1 DEF VerifierInv, BundleInv, CallInv
  <2>3. cert.session = a /\ cert.state = OutcomeState(input[a].outcome)
    BY <2>1, <2>2 DEF IsMadeFrom, FreshInv, MadeInv
  <2>4. whole = {a}
    BY DEF VerifierInv, AnswerInv, FreshInv, ReadInv
  <2>5. cert.state = "verified_denial" <=> input[a].outcome = "validation_failed"
    BY <2>3 DEF OutcomeState
  <2> QED BY <2>3, <2>4, <2>5 DEF FreshInv, AnsweredInv
<1> QED BY <1>1, VerifierInductive, FreshInductive, PTL

\* verify_bundle fails no finished bundle, whenever it reads it, but for an
\* epoch that was not valid when the certificate was made.
THEOREM FinishedVerifies ==
    ASSUME NEW CONSTANT a, Assemblers = {a}
    PROVE  Spec => []FinishedBundleVerifies
<1>1. FreshInv(a) => FinishedBundleVerifies
  <2> SUFFICES ASSUME FreshInv(a), state = "failed" \/ exit = "1", NEW b \in whole
               PROVE  ~ InWindow(b)
    BY DEF FinishedBundleVerifies
  <2>1. b = a /\ whole # {}
    BY DEF FreshInv, ReadInv
  <2>2. failures # {}
    BY <2>1 DEF FreshInv, AnsweredInv
  <2> QED BY <2>1, <2>2 DEF FreshInv, ReadInv
<1> QED BY <1>1, FreshInductive, PTL
=============================================================================

---------------------------- MODULE GatewayProofs ----------------------------
(***************************************************************************)
(* Theorems about Gateway, for any number of cycles, snapshots and dates:  *)
(* types, the links of the chains, what the witness's signatures on them   *)
(* are worth, which flows they follow, and that the output of a cycle      *)
(* agrees with its chain.                                                  *)
(*                                                                         *)
(* The invariant is about one cycle at a time, and about the witness only  *)
(* what may not be undone: what is recorded stays, what is issued stays.   *)
(* So a step of one cycle cannot break what is known of another.           *)
(*                                                                         *)
(* A second invariant, on top of the first, is about what a chain tells:   *)
(* where run_cycle is says how far the chain is on which of the four       *)
(* flows, and the bodies say what was fetched, tried and judged.           *)
(***************************************************************************)
EXTENDS Gateway, ObserverProofs, SequenceTheorems

ASequence(q) == \E S : q \in Seq(S)

VerdictKinds == {"validation.result", "validation.failed", "observation"}
Keyed(x) == x \in Snapshots /\ x.form \in {"passed", "failed"} /\ x.asOf # Unkeyable

\* The witness has put x on record, and has signed it.
OnRecord(x, rec) == rec[Subject(x).timestamp] = Subject(x)
Signed(x, iss) == Subject(x) \in iss[Subject(x).timestamp]

\* A receipt has the witness's signature if and only if it has a verdict.
WitnessOK(kind, body, witness, rec, iss) ==
    IF kind \in VerdictKinds
    THEN \E x : /\ Keyed(x) /\ OnRecord(x, rec) /\ Signed(x, iss)
                /\ witness = Subject(x) /\ body = VerdictBody(x)
                /\ x.form = "passed" <=> kind # "validation.failed"
    ELSE witness = NoSubject

\* The receipt r is number i of a chain of cycle c.
RootOK(r, c, i) ==
    \E previous : /\ ASequence(previous)
                  /\ r.state_root = Append(previous, <<c, r.receipt_kind, i - 1, r.body, r.witness>>)
ReceiptOK(r, c, i, rec, iss) ==
    /\ r.receipt_kind \in Kinds
    /\ r.sequence = i - 1
    /\ RootOK(r, c, i)
    /\ WitnessOK(r.receipt_kind, r.body, r.witness, rec, iss)

HeadRoot(q) == IF Len(q) = 0 THEN Genesis ELSE q[Len(q)].state_root

ChainOK(q, c, rec, iss) ==
    /\ ASequence(q)
    /\ \A i \in 1 .. Len(q) :
          /\ ReceiptOK(q[i], c, i, rec, iss)
          /\ q[i].previous_state_root = IF i = 1 THEN Genesis ELSE q[i - 1].state_root

\* prev_root and seq, while the cycle goes on.
HeadOK(where, q, root, number) ==
    where \in Running \cup {"idle"} =>
        number = Len(q) /\ root = HeadRoot(q) /\ ASequence(root)

\* What the cycle has fetched, put on record and had signed.
ToldOK(where, sig, fetched, body, rec, iss) ==
    /\ where \in {"validate", "issue", "verdict", "observe"} => fetched = "fetched"
    /\ where \in {"issue", "verdict", "observe"} => Keyed(body) /\ OnRecord(body, rec)
    /\ where \in {"verdict", "observe"} => sig = Subject(body) /\ Signed(body, iss)
    /\ where = "observe" => body.form = "passed"

CycleInv(c) ==
    /\ ChainOK(chain[c], c, recorded, issued)
    /\ HeadOK(pc[c], chain[c], prevRoot[c], seq[c])
    /\ ToldOK(pc[c], signature[c], fetching[c], observed[c], recorded, issued)

TypesInv ==
    /\ pc \in [Cycles -> PCs]
    /\ DOMAIN chain = Cycles /\ DOMAIN prevRoot = Cycles
    /\ seq \in [Cycles -> Nat]
    /\ signature \in [Cycles -> Subjects \cup {NoSubject}]
    /\ exception \in [Cycles -> Exceptions]

GatewayInv ==
    /\ ObserverInv /\ Witness!TypeOK /\ TypesInv
    /\ \A c \in Cycles : CycleInv(c)

-----------------------------------------------------------------------------
(* Subjects, receipts and chains.                                          *)

\* The key and the subject of a snapshot that the witness can be asked about.
LEMMA KeyedSubject ==
    ASSUME NEW x, Keyed(x)
    PROVE  /\ Subject(x) \in Subjects
           /\ Subject(x).timestamp \in Timestamps
           /\ Subject(x) # NoSubject
           /\ Subject(x) = [timestamp |-> VerdictBody(x).observed_timestamp,
                            bytes |-> VerdictBody(x).bytes, passed |-> VerdictBody(x).passed]
           /\ VerdictBody(x).observed_timestamp = Subject(x).timestamp
           /\ VerdictBody(x).passed = (x.form = "passed")
<1>1. x \in Snapshot
  BY GatewayAssumption DEF Keyed
<1>2. x.asOf \in Dates \cup {Undated} /\ x \in Snapshots
  BY <1>1 DEF Keyed, Snapshot
<1>3. UpstreamTimestamp(x) \in Timestamps
  BY <1>2 DEF UpstreamTimestamp, Timestamps
<1>4. Subject(x) \in Subjects
  BY <1>2, <1>3 DEF Subject, Subjects
<1>5. Subject(x) # NoSubject
  BY <1>4, NoSubjectAssumption
<1> QED BY <1>3, <1>4, <1>5 DEF Subject, VerdictBody

\* What build_receipt (receipts.py) puts where.
LEMMA ReceiptFields ==
    ASSUME NEW c, NEW kind, NEW body, NEW previous, NEW number, NEW witness
    PROVE  LET r == Receipt(c, kind, body, previous, number, witness)
           IN  /\ r.receipt_kind = kind /\ r.sequence = number
               /\ r.previous_state_root = previous
               /\ r.body = body /\ r.witness = witness
               /\ r.state_root = Append(previous, <<c, kind, number, body, witness>>)
BY DEF Receipt, StateRoot

\* The length of a chain is a natural number.
LEMMA SequenceLength ==
    ASSUME NEW q, ASequence(q)
    PROVE  Len(q) \in Nat /\ DOMAIN q = 1 .. Len(q)
BY LenProperties DEF ASequence

\* What an append leaves alone, and what it adds.
LEMMA AppendSequence ==
    ASSUME NEW q, ASequence(q), NEW e
    PROVE  /\ ASequence(Append(q, e))
           /\ Len(Append(q, e)) = Len(q) + 1
           /\ \A i \in 1 .. Len(q) : Append(q, e)[i] = q[i]
           /\ Append(q, e)[Len(q) + 1] = e
<1>1. PICK S : q \in Seq(S)
  BY DEF ASequence
<1>2. q \in Seq(S \cup {e}) /\ e \in S \cup {e}
  BY <1>1, SeqMonotonic
<1>3. Append(q, e) \in Seq(S \cup {e})
  BY <1>2, AppendProperties
<1> QED BY <1>2, <1>3, AppendProperties DEF ASequence

\* The next receipt of a chain.
LEMMA ChainAppend ==
    ASSUME NEW q, NEW c, NEW rec, NEW iss, ChainOK(q, c, rec, iss),
           ASequence(HeadRoot(q)),
           NEW kind \in Kinds, NEW body, NEW witness,
           WitnessOK(kind, body, witness, rec, iss)
    PROVE  LET r == Receipt(c, kind, body, HeadRoot(q), Len(q), witness)
           IN  /\ ChainOK(Append(q, r), c, rec, iss)
               /\ Len(Append(q, r)) = Len(q) + 1
               /\ HeadRoot(Append(q, r)) = r.state_root
               /\ ASequence(r.state_root)
<1> DEFINE n == Len(q)
           r == Receipt(c, kind, body, HeadRoot(q), Len(q), witness)
<1>1. /\ r.receipt_kind = kind /\ r.sequence = n
      /\ r.previous_state_root = HeadRoot(q)
      /\ r.body = body /\ r.witness = witness
      /\ r.state_root = Append(HeadRoot(q), <<c, kind, n, body, witness>>)
  BY ReceiptFields
<1>2. n \in Nat /\ ASequence(q)
  BY SequenceLength DEF ChainOK
<1> HIDE DEF r
<1>3. /\ ASequence(Append(q, r)) /\ Len(Append(q, r)) = n + 1
      /\ \A i \in 1 .. n : Append(q, r)[i] = q[i]
      /\ Append(q, r)[n + 1] = r
  BY <1>2, AppendSequence
<1>4. ReceiptOK(r, c, n + 1, rec, iss)
  <2>1. n + 1 - 1 = n
    BY <1>2
  <2>2. RootOK(r, c, n + 1)
    BY <1>1, <2>1 DEF RootOK
  <2> QED BY <1>1, <2>1, <2>2 DEF ReceiptOK
<1>5. ASSUME NEW i \in 1 .. n + 1
      PROVE  /\ ReceiptOK(Append(q, r)[i], c, i, rec, iss)
             /\ Append(q, r)[i].previous_state_root =
                   IF i = 1 THEN Genesis ELSE Append(q, r)[i - 1].state_root
  <2>1. CASE i \in 1 .. n
    <3>1. i # 1 => i - 1 \in 1 .. n
      BY <1>2, <2>1
    <3> QED BY <1>3, <2>1, <3>1 DEF ChainOK
  <2>2. CASE i = n + 1
    <3>1. i = 1 <=> n = 0
      BY <1>2, <2>2
    <3>2. i # 1 => i - 1 = n /\ n \in 1 .. n
      BY <1>2, <2>2
    <3> QED BY <1>1, <1>3, <1>4, <2>2, <3>1, <3>2 DEF HeadRoot
  <2> QED BY <1>2, <2>1, <2>2
<1>6. ChainOK(Append(q, r), c, rec, iss)
  BY <1>3, <1>5 DEF ChainOK
<1>7. HeadRoot(Append(q, r)) = r.state_root
  <2>1. n + 1 # 0
    BY <1>2
  <2> QED BY <1>3, <2>1 DEF HeadRoot
<1>8. ASequence(r.state_root)
  BY <1>1, AppendSequence
<1> QED BY <1>3, <1>6, <1>7, <1>8 DEF r

\* What is on record, or signed, stays.
Keeps(rec, iss, later, laterIss) ==
    \A t \in Timestamps :
        /\ rec[t] # NoSubject => later[t] = rec[t]
        /\ iss[t] \subseteq laterIss[t]

\* What the witness has on record and has signed, it does not unsay.
LEMMA ToldStays ==
    ASSUME NEW rec, NEW iss, NEW later, NEW laterIss, Keeps(rec, iss, later, laterIss),
           NEW x, Keyed(x)
    PROVE  /\ OnRecord(x, rec) => OnRecord(x, later)
           /\ Signed(x, iss) => Signed(x, laterIss)
BY KeyedSubject DEF Keeps, OnRecord, Signed

\* A chain stays good while the witness only adds to what it holds.
LEMMA ChainStays ==
    ASSUME NEW rec, NEW iss, NEW later, NEW laterIss, Keeps(rec, iss, later, laterIss),
           NEW q, NEW c, ChainOK(q, c, rec, iss)
    PROVE  ChainOK(q, c, later, laterIss)
<1>1. ASSUME NEW kind, NEW body, NEW witness, WitnessOK(kind, body, witness, rec, iss)
      PROVE  WitnessOK(kind, body, witness, later, laterIss)
  BY <1>1, ToldStays DEF WitnessOK
<1> QED BY <1>1 DEF ChainOK, ReceiptOK

-----------------------------------------------------------------------------
(* The parts of a step.                                                    *)

\* What a step of cycle c does not touch.
OthersStay(c) ==
    \A d \in Cycles \ {c} :
        /\ pc'[d] = pc[d] /\ chain'[d] = chain[d] /\ prevRoot'[d] = prevRoot[d]
        /\ seq'[d] = seq[d] /\ signature'[d] = signature[d]
        /\ fetching'[d] = fetching[d] /\ observed'[d] = observed[d]

\* A step of one cycle that keeps its own part of the invariant keeps it all.
LEMMA StepOfOne ==
    ASSUME GatewayInv, NEW c \in Cycles,
           ObserverInv', Witness!TypeOK', TypesInv',
           Keeps(recorded, issued, recorded', issued'),
           OthersStay(c),
           ChainOK(chain'[c], c, recorded', issued'),
           HeadOK(pc'[c], chain'[c], prevRoot'[c], seq'[c]),
           ToldOK(pc'[c], signature'[c], fetching'[c], observed'[c], recorded', issued')
    PROVE  GatewayInv'
<1>1. ASSUME NEW d \in Cycles
      PROVE  CycleInv(d)'
  <2>1. CASE d = c
    BY <2>1 DEF CycleInv
  <2>2. CASE d # c
    <3>1. /\ ChainOK(chain[d], d, recorded, issued)
          /\ HeadOK(pc[d], chain[d], prevRoot[d], seq[d])
          /\ ToldOK(pc[d], signature[d], fetching[d], observed[d], recorded, issued)
      BY DEF GatewayInv, CycleInv
    <3>2. ChainOK(chain[d], d, recorded', issued')
      BY <3>1, ChainStays
    <3>3. ToldOK(pc[d], signature[d], fetching[d], observed[d], recorded', issued')
      BY <3>1, ToldStays DEF ToldOK
    <3> QED BY <2>2, <3>1, <3>2, <3>3 DEF CycleInv, OthersStay
  <2> QED BY <2>1, <2>2
<1> QED BY <1>1 DEF GatewayInv

\* A step that leaves the witness alone.
LEMMA WitnessStays ==
    ASSUME GatewayInv, UNCHANGED <<recorded, issued>>, UNCHANGED evidence
    PROVE  Witness!TypeOK' /\ Keeps(recorded, issued, recorded', issued')
BY DEF GatewayInv, Witness!TypeOK, Keeps

\* A step that leaves the fetches alone.
LEMMA ObserverStays ==
    ASSUME GatewayInv, UNCHANGED observerVars
    PROVE  ObserverInv' /\ UNCHANGED <<fetching, observed>>
<1>1. UNCHANGED <<fetching, observed>>
  BY DEF observerVars
<1> QED BY <1>1, LoopStep DEF GatewayInv

\* A cycle that raises, or dies, leaves its chain as it is.
LEMMA StopPreserves ==
    ASSUME GatewayInv, NEW c \in Cycles,
           pc' \in [Cycles -> PCs], pc'[c] \in {"raised", "crashed"},
           \A d \in Cycles \ {c} : pc'[d] = pc[d],
           exception' \in [Cycles -> Exceptions],
           UNCHANGED receiptVars, UNCHANGED observerVars,
           UNCHANGED <<recorded, issued>>, Witness!TypeOK'
    PROVE  GatewayInv'
<1>1. UNCHANGED <<chain, prevRoot, seq, signature>>
  BY DEF receiptVars
<1>2. ObserverInv' /\ UNCHANGED <<fetching, observed>>
  BY ObserverStays
<1>3. Keeps(recorded, issued, recorded', issued')
  BY DEF Keeps
<1>4. TypesInv'
  BY <1>1 DEF GatewayInv, TypesInv
<1>5. OthersStay(c)
  BY <1>1, <1>2 DEF OthersStay
<1>6. ChainOK(chain'[c], c, recorded', issued')
  BY <1>1 DEF GatewayInv, CycleInv
<1>7. /\ HeadOK(pc'[c], chain'[c], prevRoot'[c], seq'[c])
      /\ ToldOK(pc'[c], signature'[c], fetching'[c], observed'[c], recorded', issued')
  BY DEF HeadOK, ToldOK, Running
<1> QED BY <1>2, <1>3, <1>4, <1>5, <1>6, <1>7, StepOfOne

\* A step that appends a receipt.
LEMMA AppendPreserves ==
    ASSUME GatewayInv, NEW c \in Cycles, pc[c] \in Running \cup {"idle"},
           NEW kind \in Kinds, NEW body, NEW witness,
           WitnessOK(kind, body, witness, recorded, issued),
           AppendReceipt(c, kind, body, witness),
           NEW where \in PCs, Goto(c, where),
           UNCHANGED <<signature, exception>>, UNCHANGED witnessVars,
           ObserverInv', \A d \in Cycles \ {c} : fetching'[d] = fetching[d] /\ observed'[d] = observed[d],
           ToldOK(where, signature[c], fetching'[c], observed'[c], recorded, issued)
    PROVE  GatewayInv'
<1> DEFINE q == chain[c]
           r == Receipt(c, kind, body, HeadRoot(q), Len(q), witness)
<1>1. /\ ChainOK(q, c, recorded, issued)
      /\ seq[c] = Len(q) /\ prevRoot[c] = HeadRoot(q) /\ ASequence(HeadRoot(q))
  BY DEF GatewayInv, CycleInv, HeadOK
<1>2. /\ chain' = [chain EXCEPT ![c] = Append(q, r)]
      /\ prevRoot' = [prevRoot EXCEPT ![c] = r.state_root]
      /\ seq' = [seq EXCEPT ![c] = @ + 1]
  BY <1>1 DEF AppendReceipt
<1>3. pc' = [pc EXCEPT ![c] = where] /\ UNCHANGED <<recorded, issued, evidence>>
  BY DEF Goto, witnessVars
<1>4. /\ ChainOK(Append(q, r), c, recorded, issued)
      /\ Len(Append(q, r)) = Len(q) + 1
      /\ HeadRoot(Append(q, r)) = r.state_root
      /\ ASequence(r.state_root)
  BY <1>1, ChainAppend
<1> HIDE DEF r
<1>5. /\ chain'[c] = Append(q, r) /\ prevRoot'[c] = r.state_root /\ seq'[c] = Len(q) + 1
      /\ pc'[c] = where /\ signature'[c] = signature[c]
  BY <1>1, <1>2, <1>3 DEF GatewayInv, TypesInv
<1>6. TypesInv'
  BY <1>2, <1>3 DEF GatewayInv, TypesInv
<1>7. OthersStay(c)
  BY <1>2, <1>3 DEF OthersStay, GatewayInv, TypesInv
<1>8. Witness!TypeOK' /\ Keeps(recorded, issued, recorded', issued')
  BY <1>3, WitnessStays
<1>9. HeadOK(pc'[c], chain'[c], prevRoot'[c], seq'[c])
  BY <1>4, <1>5 DEF HeadOK
<1>10. /\ ChainOK(chain'[c], c, recorded', issued')
       /\ ToldOK(pc'[c], signature'[c], fetching'[c], observed'[c], recorded', issued')
  BY <1>3, <1>4, <1>5
<1> QED BY <1>6, <1>7, <1>8, <1>9, <1>10, StepOfOne

-----------------------------------------------------------------------------
(* The steps of run_cycle.                                                 *)

\* Kinds without a verdict need no signature of the witness.
LEMMA NoVerdict ==
    ASSUME NEW kind \in Kinds \ VerdictKinds, NEW body
    PROVE  WitnessOK(kind, body, NoSubject, recorded, issued)
BY DEF WitnessOK

\* The first receipt, and the call of fetch (run_cycle, gateway.py).
LEMMA StartPreserves ==
    ASSUME GatewayInv, NEW c \in Cycles, Start(c)
    PROVE  GatewayInv'
<1>1. /\ pc[c] = "idle" /\ Goto(c, "fetch") /\ Fetch(c)
      /\ AppendReceipt(c, "session.start", <<>>, NoSubject)
      /\ UNCHANGED <<signature, exception>> /\ UNCHANGED witnessVars
  BY DEF Start
<1>2. ObserverInv'
  BY <1>1, LoopStep DEF GatewayInv, ObserverNext, Cycles
<1>3. \A d \in Cycles \ {c} : fetching'[d] = fetching[d] /\ observed'[d] = observed[d]
  BY <1>1 DEF Fetch, GatewayInv, ObserverInv, ObserverTypeOK, Cycles
<1>4. WitnessOK("session.start", <<>>, NoSubject, recorded, issued) /\ "session.start" \in Kinds
  BY NoVerdict DEF Kinds, VerdictKinds
<1>5. ToldOK("fetch", signature[c], fetching'[c], observed'[c], recorded, issued)
  BY DEF ToldOK
<1>6. "fetch" \in PCs /\ pc[c] \in Running \cup {"idle"}
  BY <1>1 DEF PCs, Running
<1> QED BY <1>1, <1>2, <1>3, <1>4, <1>5, <1>6, AppendPreserves

\* A step of fetch_snapshot (observer.py).
LEMMA FetchPreserves ==
    ASSUME GatewayInv, NEW c \in Cycles, FetchAttempt(c)
    PROVE  GatewayInv'
<1>1. /\ pc[c] = "fetch" /\ ObserverStep(c) /\ UNCHANGED cycleVars /\ UNCHANGED witnessVars
  BY DEF FetchAttempt
<1>2. ObserverInv'
  BY <1>1, LoopStep DEF GatewayInv, ObserverNext, Cycles
<1>3. /\ UNCHANGED <<pc, chain, prevRoot, seq, signature, exception>>
      /\ UNCHANGED <<recorded, issued, evidence>>
  BY <1>1 DEF cycleVars, witnessVars
<1>4. OthersStay(c)
  BY <1>1, <1>3 DEF OthersStay, ObserverStep, AttemptOk, AttemptFails, GatewayInv, ObserverInv,
                    ObserverTypeOK, Cycles
<1>5. ToldOK(pc'[c], signature'[c], fetching'[c], observed'[c], recorded', issued')
  BY <1>1, <1>3 DEF ToldOK
<1>6. TypesInv' /\ Witness!TypeOK' /\ Keeps(recorded, issued, recorded', issued')
  BY <1>3, WitnessStays DEF GatewayInv, TypesInv
<1>7. /\ ChainOK(chain'[c], c, recorded', issued')
      /\ HeadOK(pc'[c], chain'[c], prevRoot'[c], seq'[c])
  BY <1>3 DEF GatewayInv, CycleInv
<1> QED BY <1>2, <1>4, <1>5, <1>6, <1>7, StepOfOne

\* An exception that the observer lets through.
LEMMA FetchRaisesPreserves ==
    ASSUME GatewayInv, NEW c \in Cycles, FetchRaises(c)
    PROVE  GatewayInv'
<1>1. /\ AttemptRaises(c) /\ Raise(c, "httpx.InvalidURL")
      /\ UNCHANGED receiptVars /\ UNCHANGED witnessVars
  BY DEF FetchRaises
<1>2. ObserverInv'
  BY <1>1, LoopStep DEF GatewayInv, ObserverNext, Cycles
<1>3. /\ UNCHANGED <<chain, prevRoot, seq, signature>>
      /\ UNCHANGED <<recorded, issued, evidence>>
  BY <1>1 DEF receiptVars, witnessVars
<1>4. /\ pc' = [pc EXCEPT ![c] = "raised"] /\ exception' = [exception EXCEPT ![c] = "httpx.InvalidURL"]
      /\ fetching' = [fetching EXCEPT ![c] = "raised"] /\ UNCHANGED observed
  BY <1>1 DEF Raise, Goto, AttemptRaises
<1>5. OthersStay(c)
  BY <1>3, <1>4 DEF OthersStay, GatewayInv, TypesInv, ObserverInv, ObserverTypeOK, Cycles
<1>6. pc'[c] = "raised" /\ TypesInv'
  BY <1>3, <1>4 DEF GatewayInv, TypesInv, PCs, Exceptions
<1>7. Witness!TypeOK' /\ Keeps(recorded, issued, recorded', issued')
  BY <1>3, WitnessStays
<1>8. ChainOK(chain'[c], c, recorded', issued')
  BY <1>3 DEF GatewayInv, CycleInv
<1>9. /\ HeadOK(pc'[c], chain'[c], prevRoot'[c], seq'[c])
      /\ ToldOK(pc'[c], signature'[c], fetching'[c], observed'[c], recorded', issued')
  BY <1>6 DEF HeadOK, ToldOK, Running
<1> QED BY <1>2, <1>5, <1>6, <1>7, <1>8, <1>9, StepOfOne

\* The appends that carry no verdict.
LEMMA PlainPreserves ==
    ASSUME GatewayInv, NEW c \in Cycles,
           Request(c) \/ Unavailable(c) \/ Respond(c) \/ ValidatorException(c)
    PROVE  GatewayInv'
<1>1. \E kind \in Kinds \ VerdictKinds, where \in {"request", "finalize", "validate"} :
        /\ \E body : AppendReceipt(c, kind, body, NoSubject)
        /\ Goto(c, where)
        /\ where = "validate" => fetching[c] = "fetched"
  <2>1. {"data.request", "source.unavailable", "data.response", "validator.exception"}
           \subseteq Kinds \ VerdictKinds
    BY DEF Kinds, VerdictKinds
  <2>2. CASE Request(c)
    BY <2>1, <2>2 DEF Request
  <2>3. CASE Unavailable(c)
    BY <2>1, <2>3 DEF Unavailable
  <2>4. CASE Respond(c)
    BY <2>1, <2>4 DEF Respond
  <2>5. CASE ValidatorException(c)
    BY <2>1, <2>5 DEF ValidatorException
  <2> QED BY <2>2, <2>3, <2>4, <2>5
<1>2. PICK kind \in Kinds \ VerdictKinds, where \in {"request", "finalize", "validate"} :
        /\ \E body : AppendReceipt(c, kind, body, NoSubject)
        /\ Goto(c, where)
        /\ where = "validate" => fetching[c] = "fetched"
  BY <1>1
<1>3. PICK body : AppendReceipt(c, kind, body, NoSubject)
  BY <1>2
<1>4. /\ pc[c] \in Running \cup {"idle"}
      /\ UNCHANGED <<signature, exception>> /\ UNCHANGED witnessVars /\ UNCHANGED observerVars
  BY DEF Request, Unavailable, Respond, ValidatorException, Running
<1>5. ObserverInv' /\ UNCHANGED <<fetching, observed>>
  BY <1>4, ObserverStays
<1>6. WitnessOK(kind, body, NoSubject, recorded, issued) /\ where \in PCs
  BY NoVerdict DEF PCs, Running
<1>7. ToldOK(where, signature[c], fetching'[c], observed'[c], recorded, issued)
  BY <1>2, <1>5 DEF ToldOK
<1> QED BY <1>2, <1>3, <1>4, <1>5, <1>6, <1>7, AppendPreserves

\* The appends that carry one.
LEMMA VerdictPreserves ==
    ASSUME GatewayInv, NEW c \in Cycles, Verdict(c) \/ Observation(c)
    PROVE  GatewayInv'
<1> DEFINE x == observed[c]
<1>1. /\ pc[c] \in {"verdict", "observe"}
      /\ pc[c] = "observe" => x.form = "passed"
      /\ fetching[c] = "fetched"
      /\ Keyed(x) /\ OnRecord(x, recorded) /\ Signed(x, issued) /\ signature[c] = Subject(x)
  BY DEF Verdict, Observation, GatewayInv, CycleInv, ToldOK
<1>2. PICK kind \in VerdictKinds, where \in {"observe", "finalize"} :
        /\ AppendReceipt(c, kind, VerdictBody(x), signature[c]) /\ Goto(c, where)
        /\ x.form = "passed" <=> kind # "validation.failed"
        /\ where = "observe" => x.form = "passed"
  BY <1>1 DEF Verdict, Observation, VerdictKinds
<1>3. /\ pc[c] \in Running \cup {"idle"} /\ kind \in Kinds /\ where \in PCs
      /\ UNCHANGED <<signature, exception>> /\ UNCHANGED witnessVars /\ UNCHANGED observerVars
  BY <1>1 DEF Verdict, Observation, Running, PCs, Kinds, VerdictKinds
<1>4. ObserverInv' /\ UNCHANGED <<fetching, observed>>
  BY <1>3, ObserverStays
<1>5. WitnessOK(kind, VerdictBody(x), signature[c], recorded, issued)
  BY <1>1, <1>2 DEF WitnessOK
<1>6. ToldOK(where, signature[c], fetching'[c], observed'[c], recorded, issued)
  BY <1>1, <1>2, <1>4 DEF ToldOK
<1> QED BY <1>2, <1>3, <1>4, <1>5, <1>6, AppendPreserves

\* The snapshot that is judged can be told of, unless its key is refused.
LEMMA JudgedIsKeyed ==
    ASSUME GatewayInv, NEW c \in Cycles, Judged(c), observed[c].asOf # Unkeyable
    PROVE  Keyed(observed[c]) /\ fetching[c] = "fetched"
<1>1. fetching[c] = "fetched"
  BY DEF Judged, GatewayInv, CycleInv, ToldOK
<1>2. observed[c] \in Bodies \cup {NoBody} /\ observed[c] # NoBody
  BY <1>1 DEF GatewayInv, ObserverInv, ObserverTypeOK, LoopInv, CallOK, Cycles
<1> QED BY <1>1, <1>2 DEF Keyed, Judged, Snapshots

\* The witness puts the subject on record (observe, witness.py).
LEMMA CommitPreserves ==
    ASSUME GatewayInv, NEW c \in Cycles, Commit(c)
    PROVE  GatewayInv'
<1> DEFINE x == observed[c]
           t == Subject(x).timestamp
<1>1. /\ Judged(c) /\ x.asOf # Unkeyable /\ Goto(c, "issue")
      /\ UNCHANGED receiptVars /\ UNCHANGED exception /\ UNCHANGED observerVars
      /\ \/ Witness!Record(t, Subject(x))
         \/ recorded[t] = Subject(x) /\ UNCHANGED witnessVars
  BY DEF Commit
<1>2. /\ Keyed(x) /\ fetching[c] = "fetched"
      /\ t \in Timestamps /\ Subject(x) \in Subjects /\ Subject(x) # NoSubject
  BY <1>1, JudgedIsKeyed, KeyedSubject
<1>3. /\ UNCHANGED <<chain, prevRoot, seq, signature, exception>>
      /\ pc' = [pc EXCEPT ![c] = "issue"]
  BY <1>1 DEF receiptVars, Goto
<1>4. ObserverInv' /\ UNCHANGED <<fetching, observed>>
  BY <1>1, ObserverStays
<1>5. /\ Witness!TypeOK' /\ Keeps(recorded, issued, recorded', issued')
      /\ recorded'[t] = Subject(x)
  <2>1. CASE Witness!Record(t, Subject(x))
    BY <1>2, <2>1 DEF GatewayInv, Witness!TypeOK, Witness!Record, Keeps
  <2>2. CASE recorded[t] = Subject(x) /\ UNCHANGED witnessVars
    <3>1. UNCHANGED <<recorded, issued>> /\ UNCHANGED evidence
      BY <2>2 DEF witnessVars
    <3> QED BY <2>2, <3>1, WitnessStays
  <2> QED BY <1>1, <2>1, <2>2
<1>6. TypesInv' /\ OthersStay(c) /\ pc'[c] = "issue"
  BY <1>3, <1>4 DEF GatewayInv, TypesInv, OthersStay, PCs, Running
<1>7. ToldOK(pc'[c], signature'[c], fetching'[c], observed'[c], recorded', issued')
  BY <1>2, <1>4, <1>5, <1>6 DEF ToldOK, OnRecord
<1>8. ChainOK(chain'[c], c, recorded', issued')
  BY <1>3, <1>5, ChainStays DEF GatewayInv, CycleInv
<1>9. HeadOK(pc'[c], chain'[c], prevRoot'[c], seq'[c])
  BY <1>1, <1>3 DEF GatewayInv, CycleInv, HeadOK, Judged, Running
<1> QED BY <1>4, <1>5, <1>6, <1>7, <1>8, <1>9, StepOfOne

\* The witness signs it.
LEMMA IssuePreserves ==
    ASSUME GatewayInv, NEW c \in Cycles, Issue(c)
    PROVE  GatewayInv'
<1> DEFINE x == observed[c]
           t == Subject(x).timestamp
<1>1. /\ pc[c] = "issue" /\ Witness!Issue(t, Subject(x))
      /\ signature' = [signature EXCEPT ![c] = Subject(x)]
      /\ pc' = [pc EXCEPT ![c] = "verdict"]
      /\ UNCHANGED <<chain, prevRoot, seq, exception>> /\ UNCHANGED observerVars
  BY DEF Issue, Goto
<1>2. /\ Keyed(x) /\ OnRecord(x, recorded) /\ fetching[c] = "fetched"
      /\ t \in Timestamps /\ Subject(x) \in Subjects
  BY <1>1, KeyedSubject DEF GatewayInv, CycleInv, ToldOK
<1>3. ObserverInv' /\ UNCHANGED <<fetching, observed>>
  BY <1>1, ObserverStays
<1>4. /\ Witness!TypeOK' /\ Keeps(recorded, issued, recorded', issued')
      /\ Subject(x) \in issued'[t] /\ UNCHANGED recorded
  BY <1>1, <1>2 DEF GatewayInv, Witness!TypeOK, Witness!Issue, Keeps
<1>5. TypesInv' /\ OthersStay(c) /\ pc'[c] = "verdict" /\ signature'[c] = Subject(x)
  BY <1>1, <1>2, <1>3 DEF GatewayInv, TypesInv, OthersStay, PCs, Running
<1>6. ToldOK(pc'[c], signature'[c], fetching'[c], observed'[c], recorded', issued')
  BY <1>2, <1>3, <1>4, <1>5 DEF ToldOK, Signed, OnRecord
<1>7. ChainOK(chain'[c], c, recorded', issued')
  BY <1>1, <1>4, ChainStays DEF GatewayInv, CycleInv
<1>8. HeadOK(pc'[c], chain'[c], prevRoot'[c], seq'[c])
  BY <1>1 DEF GatewayInv, CycleInv, HeadOK, Running
<1> QED BY <1>3, <1>4, <1>5, <1>6, <1>7, <1>8, StepOfOne

\* _finalize appends two receipts at once.
LEMMA AppendTwo ==
    ASSUME NEW q, ASequence(q), NEW a, NEW b
    PROVE  q \o <<a, b>> = Append(Append(q, a), b)
<1>1. PICK S : q \in Seq(S)
  BY DEF ASequence
<1> DEFINE T == S \cup {a, b}
<1>2. q \in Seq(T) /\ <<a>> \in Seq(T) /\ <<b>> \in Seq(T) /\ a \in T /\ b \in T
  BY <1>1, SeqMonotonic
<1>3. Append(q, a) = q \o <<a>> /\ Append(q, a) \in Seq(T)
  BY <1>2, AppendIsConcat, AppendProperties
<1>4. Append(Append(q, a), b) = (q \o <<a>>) \o <<b>>
  BY <1>2, <1>3, AppendIsConcat
<1>5. (q \o <<a>>) \o <<b>> = q \o (<<a>> \o <<b>>)
  BY <1>2, ConcatAssociative
<1>6. <<a>> \o <<b>> = <<a, b>>
  <2>1. <<a>> \in Seq({a, b}) /\ <<b>> \in Seq({a, b}) /\ <<a, b>> \in Seq({a, b})
    OBVIOUS
  <2>2. /\ <<a>> \o <<b>> \in Seq({a, b}) /\ Len(<<a>> \o <<b>>) = 2
        /\ (<<a>> \o <<b>>)[1] = a /\ (<<a>> \o <<b>>)[2] = b
    BY <2>1, ConcatProperties
  <2>3. /\ Len(<<a, b>>) = 2 /\ <<a, b>>[1] = a /\ <<a, b>>[2] = b
    OBVIOUS
  <2>4. \A i \in 1 .. 2 : (<<a>> \o <<b>>)[i] = <<a, b>>[i]
    <3>1. \A i \in 1 .. 2 : i = 1 \/ i = 2
      OBVIOUS
    <3> QED BY <2>2, <2>3, <3>1
  <2> QED BY <2>1, <2>2, <2>3, <2>4, SeqEqual
<1> QED BY <1>4, <1>5, <1>6

\* _finalize itself (gateway.py).
LEMMA FinalizePreserves ==
    ASSUME GatewayInv, NEW c \in Cycles, Finalize(c)
    PROVE  GatewayInv'
<1> DEFINE succeeded == signature[c] # NoSubject /\ observed[c].form = "passed"
           q == chain[c]
           body == [observation_succeeded |-> succeeded]
           end == Receipt(c, "session.end", body, HeadRoot(q), Len(q), NoSubject)
           count == CheckpointBody(end, Len(q))
           checkpoint == Receipt(c, "checkpoint", count, end.state_root, Len(q) + 1, NoSubject)
<1>1. /\ ChainOK(q, c, recorded, issued) /\ pc[c] = "finalize"
      /\ seq[c] = Len(q) /\ prevRoot[c] = HeadRoot(q) /\ ASequence(HeadRoot(q))
      /\ ASequence(q)
  BY DEF Finalize, GatewayInv, CycleInv, HeadOK, Running, ChainOK
<1>2. /\ chain' = [chain EXCEPT ![c] = q \o <<end, checkpoint>>]
      /\ prevRoot' = [prevRoot EXCEPT ![c] = end.state_root]
      /\ seq' = [seq EXCEPT ![c] = @ + 1]
      /\ pc' = [pc EXCEPT ![c] = "returned"]
      /\ UNCHANGED <<signature, exception, recorded, issued, evidence>>
      /\ UNCHANGED observerVars
  BY <1>1 DEF Finalize, Goto, witnessVars
<1>3. /\ ChainOK(Append(q, end), c, recorded, issued)
      /\ HeadRoot(Append(q, end)) = end.state_root /\ ASequence(end.state_root)
      /\ Len(Append(q, end)) = Len(q) + 1
  <2>1. WitnessOK("session.end", body, NoSubject, recorded, issued) /\ "session.end" \in Kinds
    BY NoVerdict DEF Kinds, VerdictKinds
  <2> HIDE DEF body
  <2> QED BY <1>1, <2>1, ChainAppend
<1>4. ChainOK(Append(Append(q, end), checkpoint), c, recorded, issued)
  <2>1. WitnessOK("checkpoint", count, NoSubject, recorded, issued) /\ "checkpoint" \in Kinds
    BY NoVerdict DEF Kinds, VerdictKinds
  <2>2. checkpoint = Receipt(c, "checkpoint", count, HeadRoot(Append(q, end)),
                             Len(Append(q, end)), NoSubject)
    BY <1>3
  <2> HIDE DEF count, end, checkpoint
  <2> QED BY <1>3, <2>1, <2>2, ChainAppend
<1> HIDE DEF end, checkpoint
<1>5. chain'[c] = Append(Append(q, end), checkpoint) /\ pc'[c] = "returned"
  BY <1>1, <1>2, AppendTwo DEF GatewayInv, TypesInv
<1>6. ObserverInv' /\ UNCHANGED <<fetching, observed>>
  BY <1>2, ObserverStays
<1>7. TypesInv' /\ OthersStay(c)
  BY <1>2, <1>6 DEF GatewayInv, TypesInv, OthersStay, PCs
<1>8. Witness!TypeOK' /\ Keeps(recorded, issued, recorded', issued')
  BY <1>2, WitnessStays
<1>9. /\ ChainOK(chain'[c], c, recorded', issued')
      /\ HeadOK(pc'[c], chain'[c], prevRoot'[c], seq'[c])
      /\ ToldOK(pc'[c], signature'[c], fetching'[c], observed'[c], recorded', issued')
  BY <1>2, <1>4, <1>5 DEF HeadOK, ToldOK, Running
<1> QED BY <1>6, <1>7, <1>8, <1>9, StepOfOne

\* An exception, or a crash.
LEMMA StopsPreserve ==
    ASSUME GatewayInv, NEW c \in Cycles,
           \/ StartUnbound(c) \/ Undecodable(c) \/ GuardKeyRefused(c) \/ Equivocation(c)
           \/ StoreError(c) \/ VerdictRefused(c) \/ Crash(c)
    PROVE  GatewayInv'
<1>1. /\ \/ \E what \in Exceptions : Raise(c, what)
         \/ Goto(c, "crashed") /\ UNCHANGED exception
      /\ UNCHANGED receiptVars /\ UNCHANGED observerVars
  BY DEF StartUnbound, Undecodable, GuardKeyRefused, Equivocation, StoreError, VerdictRefused,
         Crash, Exceptions
<1>2. UNCHANGED <<recorded, issued>> /\ Witness!TypeOK'
  <2>1. CASE Equivocation(c)
    <3> DEFINE x == observed[c]
               t == Subject(x).timestamp
    <3>1. Judged(c) /\ x.asOf # Unkeyable /\ Witness!Refuse(t, Subject(x))
      BY <2>1 DEF Equivocation
    <3>2. t \in Timestamps /\ Subject(x) \in Subjects
      BY <3>1, JudgedIsKeyed, KeyedSubject
    <3>3. recorded[t] \in Subjects
      BY <3>1, <3>2 DEF Witness!Refuse, GatewayInv, Witness!TypeOK
    <3> QED BY <3>1, <3>2, <3>3 DEF Witness!Refuse, GatewayInv, Witness!TypeOK, Witness!Evidence
  <2>2. CASE ~ Equivocation(c)
    <3>1. UNCHANGED <<recorded, issued>> /\ UNCHANGED evidence
      BY <2>2 DEF StartUnbound, Undecodable, GuardKeyRefused, StoreError, VerdictRefused, Crash,
                  witnessVars
    <3> QED BY <3>1, WitnessStays
  <2> QED BY <2>1, <2>2
<1>3. /\ pc' \in [Cycles -> PCs] /\ pc'[c] \in {"raised", "crashed"}
      /\ \A d \in Cycles \ {c} : pc'[d] = pc[d]
      /\ exception' \in [Cycles -> Exceptions]
  BY <1>1 DEF Raise, Goto, GatewayInv, TypesInv, PCs
<1> QED BY <1>1, <1>2, <1>3, StopPreserves

\* What run_cycle and its fetch (gateway.py) preserve at every step, an
\* exception or a crash in the middle of a cycle included.
THEOREM GatewayInductive == Spec => []GatewayInv
<1>1. Init => GatewayInv
  <2> SUFFICES ASSUME Init PROVE GatewayInv
    OBVIOUS
  <2>1. ObserverInv
    BY LoopInit DEF Init
  <2>2. Witness!TypeOK /\ TypesInv
    BY DEF Init, Witness!Init, Witness!TypeOK, TypesInv, PCs, Exceptions
  <2>3. ASSUME NEW c \in Cycles
        PROVE  CycleInv(c)
    <3>1. chain[c] = <<>> /\ pc[c] = "idle" /\ prevRoot[c] = Genesis /\ seq[c] = 0
      BY DEF Init
    <3>2. Len(<<>>) = 0 /\ ASequence(<<>>)
      BY EmptySeq DEF ASequence
    <3>3. ChainOK(chain[c], c, recorded, issued)
      BY <3>1, <3>2 DEF ChainOK
    <3>4. HeadOK(pc[c], chain[c], prevRoot[c], seq[c])
      BY <3>1, <3>2 DEF HeadOK, HeadRoot, Genesis
    <3> QED BY <3>1, <3>3, <3>4 DEF CycleInv, ToldOK
  <2> QED BY <2>1, <2>2, <2>3 DEF GatewayInv
<1>2. ASSUME GatewayInv, [Next]_vars
      PROVE  GatewayInv'
  <2>1. ASSUME NEW c \in Cycles,
               Start(c) \/ StartUnbound(c) \/ RunCycle(c) \/ Crash(c)
        PROVE  GatewayInv'
    BY <1>2, <2>1, StartPreserves, FetchPreserves, FetchRaisesPreserves, PlainPreserves,
       VerdictPreserves, CommitPreserves, IssuePreserves, FinalizePreserves, StopsPreserve DEF RunCycle
  <2>2. CASE UNCHANGED vars
    <3>1. /\ UNCHANGED <<pc, chain, prevRoot, seq, signature, exception>>
          /\ UNCHANGED <<recorded, issued, evidence>> /\ UNCHANGED observerVars
      BY <2>2 DEF vars, cycleVars, witnessVars
    <3>2. ObserverInv' /\ UNCHANGED <<fetching, observed>>
      BY <1>2, <3>1, ObserverStays
    <3>3. Witness!TypeOK' /\ TypesInv'
      BY <1>2, <3>1, WitnessStays DEF GatewayInv, TypesInv
    <3>4. \A c \in Cycles : CycleInv(c)'
      BY <1>2, <3>1, <3>2 DEF GatewayInv, CycleInv
    <3> QED BY <3>2, <3>3, <3>4 DEF GatewayInv
  <2> QED BY <1>2, <2>1, <2>2 DEF Next
<1> QED BY <1>1, <1>2, PTL DEF Spec

-----------------------------------------------------------------------------
(* The theorems.                                                           *)

\* Types hold in every state.
THEOREM GatewayTypes == Spec => []TypeOK
<1>1. ASSUME GatewayInv
      PROVE  TypeOK
  <2>1. ASSUME NEW c \in Cycles, NEW i \in DOMAIN chain[c]
        PROVE  /\ chain[c][i].receipt_kind \in Kinds
               /\ chain[c][i].witness \in Subjects \cup {NoSubject}
    <3>1. i \in 1 .. Len(chain[c])
      BY <1>1, <2>1, SequenceLength DEF GatewayInv, CycleInv, ChainOK
    <3>2. ReceiptOK(chain[c][i], c, i, recorded, issued)
      BY <1>1, <3>1 DEF GatewayInv, CycleInv, ChainOK
    <3> QED BY <3>2, KeyedSubject DEF ReceiptOK, WitnessOK
  <2> QED BY <1>1, <2>1 DEF GatewayInv, ObserverInv, TypesInv, TypeOK
<1> QED BY <1>1, GatewayInductive, PTL

\* The fetches of the cycles (observer.py) report what happened.
THEOREM FetchesAreEarned == Spec => []OutcomeIsEarned
<1>1. GatewayInv => OutcomeIsEarned
  BY InvEarned DEF GatewayInv
<1> QED BY <1>1, GatewayInductive, PTL

\* What the witness's signature on a receipt of run_cycle (gateway.py) is
\* worth: it is on the verdicts, covers what they say, and is on record.
THEOREM ReceiptsAreWitnessed == Spec => []WitnessedAsBound
<1>1. ASSUME GatewayInv, NEW c \in Cycles, NEW i \in DOMAIN chain[c]
      PROVE  LET r == chain[c][i]
                 carriesVerdict == r.receipt_kind \in VerdictKinds
             IN  /\ carriesVerdict <=> r.witness # NoSubject
                 /\ carriesVerdict =>
                      /\ r.witness = [timestamp |-> r.body.observed_timestamp,
                                      bytes |-> r.body.bytes, passed |-> r.body.passed]
                      /\ r.body.passed <=> r.receipt_kind # "validation.failed"
                      /\ recorded[r.witness.timestamp] = r.witness
                      /\ r.witness \in issued[r.witness.timestamp]
  <2> DEFINE r == chain[c][i]
  <2>1. i \in 1 .. Len(chain[c])
    BY <1>1, SequenceLength DEF GatewayInv, CycleInv, ChainOK
  <2>2. WitnessOK(r.receipt_kind, r.body, r.witness, recorded, issued)
    BY <1>1, <2>1 DEF GatewayInv, CycleInv, ChainOK, ReceiptOK
  <2>3. CASE r.receipt_kind \in VerdictKinds
    <3>1. PICK x : /\ Keyed(x) /\ OnRecord(x, recorded) /\ Signed(x, issued)
                   /\ r.witness = Subject(x) /\ r.body = VerdictBody(x)
                   /\ x.form = "passed" <=> r.receipt_kind # "validation.failed"
      BY <2>2, <2>3 DEF WitnessOK
    <3> QED BY <2>3, <3>1, KeyedSubject DEF OnRecord, Signed
  <2>4. CASE r.receipt_kind \notin VerdictKinds
    BY <2>2, <2>4 DEF WitnessOK
  <2> QED BY <2>3, <2>4
<1>2. GatewayInv => WitnessedAsBound
  BY <1>1 DEF WitnessedAsBound, VerdictKinds
<1> QED BY <1>2, GatewayInductive, PTL

\* No two receipts of any cycles tell two stories about one timestamp: both
\* are of the subject that the witness has on record for it.
THEOREM OneVerdict == Spec => []OneVerdictPerTimestamp
<1>1. ASSUME GatewayInv, NEW c \in Cycles, NEW i \in DOMAIN chain[c],
             chain[c][i].witness # NoSubject
      PROVE  \E x : /\ Keyed(x) /\ chain[c][i].body = VerdictBody(x)
                    /\ recorded[VerdictBody(x).observed_timestamp] = Subject(x)
  <2>1. i \in 1 .. Len(chain[c])
    BY <1>1, SequenceLength DEF GatewayInv, CycleInv, ChainOK
  <2>2. WitnessOK(chain[c][i].receipt_kind, chain[c][i].body, chain[c][i].witness, recorded, issued)
    BY <1>1, <2>1 DEF GatewayInv, CycleInv, ChainOK, ReceiptOK
  <2>3. PICK x : Keyed(x) /\ OnRecord(x, recorded) /\ chain[c][i].body = VerdictBody(x)
    BY <1>1, <2>2 DEF WitnessOK
  <2> QED BY <2>3, KeyedSubject DEF OnRecord
<1>2. ASSUME NEW x, NEW y, Keyed(x), Keyed(y), Subject(x) = Subject(y)
      PROVE  VerdictBody(x) = VerdictBody(y)
  BY <1>2 DEF Subject, VerdictBody
<1>3. ASSUME GatewayInv, NEW c \in Cycles, NEW d \in Cycles,
             NEW i \in DOMAIN chain[c], NEW j \in DOMAIN chain[d],
             chain[c][i].witness # NoSubject, chain[d][j].witness # NoSubject,
             chain[c][i].body.observed_timestamp = chain[d][j].body.observed_timestamp
      PROVE  chain[c][i].body = chain[d][j].body
  <2>1. PICK x : /\ Keyed(x) /\ chain[c][i].body = VerdictBody(x)
                 /\ recorded[VerdictBody(x).observed_timestamp] = Subject(x)
    BY <1>1, <1>3
  <2>2. PICK y : /\ Keyed(y) /\ chain[d][j].body = VerdictBody(y)
                 /\ recorded[VerdictBody(y).observed_timestamp] = Subject(y)
    BY <1>1, <1>3
  <2>3. Subject(x) = Subject(y)
    BY <1>3, <2>1, <2>2
  <2> QED BY <1>2, <2>1, <2>2, <2>3
<1>4. GatewayInv => OneVerdictPerTimestamp
  BY <1>3 DEF OneVerdictPerTimestamp
<1> QED BY <1>4, GatewayInductive, PTL

\* The receipts of a cycle are linked, back to the genesis root, and no two
\* receipts of any cycles have the same root.
THEOREM ChainsLink == Spec => []ChainsAreLinked
<1>1. ASSUME GatewayInv, NEW c \in Cycles, NEW i \in DOMAIN chain[c]
      PROVE  /\ i \in 1 .. Len(chain[c]) /\ i \in Int
             /\ chain[c][i].sequence = i - 1 /\ RootOK(chain[c][i], c, i)
             /\ chain[c][i].previous_state_root =
                   IF i = 1 THEN Genesis ELSE chain[c][i - 1].state_root
  <2>1. i \in 1 .. Len(chain[c]) /\ Len(chain[c]) \in Nat
    BY <1>1, SequenceLength DEF GatewayInv, CycleInv, ChainOK
  <2> QED BY <1>1, <2>1 DEF GatewayInv, CycleInv, ChainOK, ReceiptOK
<1>2. ASSUME NEW r, NEW s, NEW c, NEW d, NEW i \in Int, NEW j \in Int,
             RootOK(r, c, i), RootOK(s, d, j), r.state_root = s.state_root
      PROVE  c = d /\ i = j
  <2> DEFINE e == <<c, r.receipt_kind, i - 1, r.body, r.witness>>
             f == <<d, s.receipt_kind, j - 1, s.body, s.witness>>
  <2>1. PICK p : ASequence(p) /\ r.state_root = Append(p, e)
    BY <1>2 DEF RootOK
  <2>2. PICK q : ASequence(q) /\ s.state_root = Append(q, f)
    BY <1>2 DEF RootOK
  <2>3. e = f
    <3> HIDE DEF e, f
    <3>1. Len(p) \in Nat /\ Len(q) \in Nat /\ Append(p, e) = Append(q, f)
      BY <1>2, <2>1, <2>2, SequenceLength
    <3>2. Len(Append(p, e)) = Len(p) + 1 /\ Append(p, e)[Len(p) + 1] = e
      BY <2>1, AppendSequence
    <3>3. Len(Append(q, f)) = Len(q) + 1 /\ Append(q, f)[Len(q) + 1] = f
      BY <2>2, AppendSequence
    <3>4. Len(p) = Len(q)
      <4> DEFINE a == Append(p, e)
                 b == Append(q, f)
                 m == Len(p)
                 n == Len(q)
      <4>1. a = b /\ Len(a) = m + 1 /\ Len(b) = n + 1 /\ m \in Nat /\ n \in Nat
        BY <3>1, <3>2, <3>3
      <4> HIDE DEF a, b, m, n
      <4>2. m + 1 = n + 1
        BY <4>1
      <4>3. m = n
        BY <4>1, <4>2
      <4> QED BY <4>3 DEF m, n
    <3> QED BY <3>1, <3>2, <3>3, <3>4
  <2>4. c = d /\ i - 1 = j - 1
    BY <2>3
  <2> QED BY <2>4
<1>3. GatewayInv => ChainsAreLinked
  BY <1>1, <1>2 DEF ChainsAreLinked
<1> QED BY <1>3, GatewayInductive, PTL

-----------------------------------------------------------------------------
(* The flows, and what the chain tells.                                    *)

\* Where a cycle is bound for, as far as its fetch and its snapshot tell.
Paths == {"unavailable", "exception", "failed", "passed"}
PathOf(fetched, body) ==
    IF fetched # "fetched" THEN "unavailable"
    ELSE IF body.form \in {"passed", "failed"} THEN body.form ELSE "exception"
Flow(path) ==
    CASE path = "unavailable" -> <<"session.start", "data.request", "source.unavailable",
                                   "session.end", "checkpoint">>
      [] path = "exception" -> <<"session.start", "data.request", "data.response",
                                 "validator.exception", "session.end", "checkpoint">>
      [] path = "failed" -> <<"session.start", "data.request", "data.response",
                              "validation.failed", "session.end", "checkpoint">>
      [] path = "passed" -> <<"session.start", "data.request", "data.response",
                              "validation.result", "observation", "session.end",
                              "checkpoint">>

\* The bodies of the receipts, but for the last two.
BodyOK(r, sig, history, body) ==
    /\ r.receipt_kind \in {"session.start", "source.unavailable"} => r.body = <<>>
    /\ r.receipt_kind = "data.request" => r.body = [attempts |-> history]
    /\ r.receipt_kind \in {"data.response", "validator.exception"} => r.body = [bytes |-> body]
    /\ r.receipt_kind \in VerdictKinds => r.body = VerdictBody(body) /\ r.witness = sig

\* The receipts so far are those of the flow.
Told(q, path, sig, history, body) ==
    /\ ASequence(q) /\ Len(q) <= Len(Flow(path))
    /\ \A i \in 1 .. Len(q) :
          q[i].receipt_kind = Flow(path)[i] /\ BodyOK(q[i], sig, history, body)

\* How far the chain is when run_cycle is where it is.
Position(where, path, n) ==
    /\ where = "idle" => n = 0
    /\ where = "fetch" => n = 1
    /\ where = "request" => n = 2
    /\ where \in {"validate", "issue", "verdict"} => n = 3 /\ path # "unavailable"
    /\ where = "observe" => n = 4 /\ path = "passed"
    /\ where = "finalize" => n + 2 = Len(Flow(path))
    /\ IF where = "returned" THEN n = Len(Flow(path)) ELSE n + 2 <= Len(Flow(path))

\* What has been signed, once it is decided.
SignatureOK(where, sig, path, body) ==
    /\ where \in {"idle", "fetch", "request", "validate", "issue"} => sig = NoSubject
    /\ where \in {"finalize", "returned"} =>
          IF path \in {"failed", "passed"} THEN sig = Subject(body) /\ Keyed(body)
                                           ELSE sig = NoSubject

\* The last two receipts, and the output.
ClosingOK(q, sig, path, body, out) ==
    LET n == Len(q)
    IN  /\ q[n - 1].body = [observation_succeeded |-> path = "passed"]
        /\ q[n].body = [head_state_root |-> q[n - 1].state_root, receipt_count |-> n]
        /\ out = [observation_succeeded |-> path = "passed", bytes |-> body,
                  subject |-> sig, head |-> q[n].state_root]

StoryOK(where, q, sig, fetched, history, body, out) ==
    LET path == PathOf(fetched, body)
    IN  /\ Told(q, path, sig, history, body)
        /\ Position(where, path, Len(q))
        /\ Len(q) > 2 => fetched \in {"fetched", "exhausted"}
        /\ SignatureOK(where, sig, path, body)
        /\ where = "returned" => ClosingOK(q, sig, path, body, out)

StoryInv == /\ DOMAIN output = Cycles
            /\ \A c \in Cycles :
                  StoryOK(pc[c], chain[c], signature[c], fetching[c], attempts[c], observed[c],
                          output[c])

\* The four flows, element by element.
LEMMA FlowFacts ==
    /\ \A fetched, body : PathOf(fetched, body) \in Paths
    /\ \A p \in Paths :
          /\ Len(Flow(p)) \in 5 .. 7 /\ DOMAIN Flow(p) = 1 .. Len(Flow(p))
          /\ Flow(p)[1] = "session.start" /\ Flow(p)[2] = "data.request"
          /\ \A i \in 1 .. Len(Flow(p)) :
                /\ Flow(p)[i] \in Kinds
                /\ Flow(p)[i] = "checkpoint" <=> i = Len(Flow(p))
                /\ Flow(p)[i] = "session.end" <=> i = Len(Flow(p)) - 1
                /\ Flow(p)[i] \in VerdictKinds => i > 3
    /\ Len(Flow("unavailable")) = 5 /\ Flow("unavailable")[3] = "source.unavailable"
    /\ \A p \in Paths \ {"unavailable"} : Flow(p)[3] = "data.response" /\ Len(Flow(p)) > 5
    /\ Len(Flow("exception")) = 6 /\ Flow("exception")[4] = "validator.exception"
    /\ Len(Flow("failed")) = 6 /\ Flow("failed")[4] = "validation.failed"
    /\ Len(Flow("passed")) = 7 /\ Flow("passed")[4] = "validation.result"
    /\ Flow("passed")[5] = "observation"
<1>1. \A fetched, body : PathOf(fetched, body) \in Paths
  BY DEF PathOf, Paths
<1>2. /\ Len(Flow("unavailable")) = 5 /\ DOMAIN Flow("unavailable") = 1 .. 5
      /\ Flow("unavailable")[1] = "session.start" /\ Flow("unavailable")[2] = "data.request"
      /\ Flow("unavailable")[3] = "source.unavailable" /\ Flow("unavailable")[4] = "session.end"
      /\ Flow("unavailable")[5] = "checkpoint"
  BY DEF Flow
<1>3. /\ Len(Flow("exception")) = 6 /\ DOMAIN Flow("exception") = 1 .. 6
      /\ Flow("exception")[1] = "session.start" /\ Flow("exception")[2] = "data.request"
      /\ Flow("exception")[3] = "data.response" /\ Flow("exception")[4] = "validator.exception"
      /\ Flow("exception")[5] = "session.end" /\ Flow("exception")[6] = "checkpoint"
  BY DEF Flow
<1>4. /\ Len(Flow("failed")) = 6 /\ DOMAIN Flow("failed") = 1 .. 6
      /\ Flow("failed")[1] = "session.start" /\ Flow("failed")[2] = "data.request"
      /\ Flow("failed")[3] = "data.response" /\ Flow("failed")[4] = "validation.failed"
      /\ Flow("failed")[5] = "session.end" /\ Flow("failed")[6] = "checkpoint"
  BY DEF Flow
<1>5. /\ Len(Flow("passed")) = 7 /\ DOMAIN Flow("passed") = 1 .. 7
      /\ Flow("passed")[1] = "session.start" /\ Flow("passed")[2] = "data.request"
      /\ Flow("passed")[3] = "data.response" /\ Flow("passed")[4] = "validation.result"
      /\ Flow("passed")[5] = "observation" /\ Flow("passed")[6] = "session.end"
      /\ Flow("passed")[7] = "checkpoint"
  BY DEF Flow
<1> DEFINE Facts(p) ==
          /\ Len(Flow(p)) \in 5 .. 7 /\ DOMAIN Flow(p) = 1 .. Len(Flow(p))
          /\ Flow(p)[1] = "session.start" /\ Flow(p)[2] = "data.request"
          /\ \A i \in 1 .. Len(Flow(p)) :
                /\ Flow(p)[i] \in Kinds
                /\ Flow(p)[i] = "checkpoint" <=> i = Len(Flow(p))
                /\ Flow(p)[i] = "session.end" <=> i = Len(Flow(p)) - 1
                /\ Flow(p)[i] \in VerdictKinds => i > 3
<1>6. Facts("unavailable")
  <2>1. ASSUME NEW i \in 1 .. 5
        PROVE  /\ Flow("unavailable")[i] \in Kinds
               /\ Flow("unavailable")[i] = "checkpoint" <=> i = 5
               /\ Flow("unavailable")[i] = "session.end" <=> i = 5 - 1
               /\ Flow("unavailable")[i] \in VerdictKinds => i > 3
    <3>1. i = 1 \/ i = 2 \/ i = 3 \/ i = 4 \/ i = 5
      OBVIOUS
    <3> QED BY <1>2, <3>1 DEF Kinds, VerdictKinds
  <2>2. Len(Flow("unavailable")) = 5 /\ 5 \in 5 .. 7 /\ DOMAIN Flow("unavailable") = 1 .. 5
    BY <1>2
  <2>3. Flow("unavailable")[1] = "session.start" /\ Flow("unavailable")[2] = "data.request"
    BY <1>2
  <2> QED BY <2>1, <2>2, <2>3
<1>7. Facts("exception")
  <2>1. ASSUME NEW i \in 1 .. 6
        PROVE  /\ Flow("exception")[i] \in Kinds
               /\ Flow("exception")[i] = "checkpoint" <=> i = 6
               /\ Flow("exception")[i] = "session.end" <=> i = 6 - 1
               /\ Flow("exception")[i] \in VerdictKinds => i > 3
    <3>1. i = 1 \/ i = 2 \/ i = 3 \/ i = 4 \/ i = 5 \/ i = 6
      OBVIOUS
    <3> QED BY <1>3, <3>1 DEF Kinds, VerdictKinds
  <2>2. Len(Flow("exception")) = 6 /\ 6 \in 5 .. 7 /\ DOMAIN Flow("exception") = 1 .. 6
    BY <1>3
  <2>3. Flow("exception")[1] = "session.start" /\ Flow("exception")[2] = "data.request"
    BY <1>3
  <2> QED BY <2>1, <2>2, <2>3
<1>8. Facts("failed")
  <2>1. ASSUME NEW i \in 1 .. 6
        PROVE  /\ Flow("failed")[i] \in Kinds
               /\ Flow("failed")[i] = "checkpoint" <=> i = 6
               /\ Flow("failed")[i] = "session.end" <=> i = 6 - 1
               /\ Flow("failed")[i] \in VerdictKinds => i > 3
    <3>1. i = 1 \/ i = 2 \/ i = 3 \/ i = 4 \/ i = 5 \/ i = 6
      OBVIOUS
    <3> QED BY <1>4, <3>1 DEF Kinds, VerdictKinds
  <2>2. Len(Flow("failed")) = 6 /\ 6 \in 5 .. 7 /\ DOMAIN Flow("failed") = 1 .. 6
    BY <1>4
  <2>3. Flow("failed")[1] = "session.start" /\ Flow("failed")[2] = "data.request"
    BY <1>4
  <2> QED BY <2>1, <2>2, <2>3
<1>9. Facts("passed")
  <2>1. ASSUME NEW i \in 1 .. 7
        PROVE  /\ Flow("passed")[i] \in Kinds
               /\ Flow("passed")[i] = "checkpoint" <=> i = 7
               /\ Flow("passed")[i] = "session.end" <=> i = 7 - 1
               /\ Flow("passed")[i] \in VerdictKinds => i > 3
    <3>1. i = 1 \/ i = 2 \/ i = 3 \/ i = 4 \/ i = 5 \/ i = 6 \/ i = 7
      OBVIOUS
    <3> QED BY <1>5, <3>1 DEF Kinds, VerdictKinds
  <2>2. Len(Flow("passed")) = 7 /\ 7 \in 5 .. 7 /\ DOMAIN Flow("passed") = 1 .. 7
    BY <1>5
  <2>3. Flow("passed")[1] = "session.start" /\ Flow("passed")[2] = "data.request"
    BY <1>5
  <2> QED BY <2>1, <2>2, <2>3
<1> HIDE DEF Facts
<1>10. \A p \in Paths : Facts(p)
  BY <1>6, <1>7, <1>8, <1>9 DEF Paths
<1>11. \A p \in Paths \ {"unavailable"} : Flow(p)[3] = "data.response" /\ Len(Flow(p)) > 5
  BY <1>3, <1>4, <1>5 DEF Paths
<1> QED BY <1>1, <1>2, <1>3, <1>4, <1>5, <1>10, <1>11 DEF Facts

\* The flow's next receipt.
LEMMA ToldNext ==
    ASSUME NEW p \in Paths, NEW q, NEW sig, NEW history, NEW body,
           Told(q, p, sig, history, body), Len(q) < Len(Flow(p)),
           NEW r, r.receipt_kind = Flow(p)[Len(q) + 1], BodyOK(r, sig, history, body)
    PROVE  /\ Told(Append(q, r), p, sig, history, body)
           /\ Len(Append(q, r)) = Len(q) + 1
<1>1. ASequence(q) /\ Len(q) \in Nat
  BY SequenceLength DEF Told
<1>2. /\ ASequence(Append(q, r)) /\ Len(Append(q, r)) = Len(q) + 1
      /\ \A i \in 1 .. Len(q) : Append(q, r)[i] = q[i]
      /\ Append(q, r)[Len(q) + 1] = r
  BY <1>1, AppendSequence
<1>3. \A i \in 1 .. Len(q) + 1 : i \in 1 .. Len(q) \/ i = Len(q) + 1
  BY <1>1
<1>4. Len(Flow(p)) \in Nat
  BY FlowFacts
<1> QED BY <1>1, <1>2, <1>3, <1>4 DEF Told

\* What stands between the opening and the closing of a flow.
LEMMA FlowOf ==
    ASSUME NEW m \in Seq(Kinds), NEW f \in Seq(Kinds), Len(f) = Len(m) + 4,
           f[1] = "session.start", f[2] = "data.request",
           \A i \in 1 .. Len(m) : f[i + 2] = m[i],
           f[Len(m) + 3] = "session.end", f[Len(m) + 4] = "checkpoint"
    PROVE  Opening \o m \o Closing = f
<1> DEFINE n == Len(m)
           o == Opening \o m
<1>1. /\ Opening \in Seq(Kinds) /\ Len(Opening) = 2
      /\ Opening[1] = "session.start" /\ Opening[2] = "data.request"
  <2>1. "session.start" \in Kinds /\ "data.request" \in Kinds
    BY DEF Kinds
  <2> QED BY <2>1 DEF Opening
<1>2. /\ Closing \in Seq(Kinds) /\ Len(Closing) = 2
      /\ Closing[1] = "session.end" /\ Closing[2] = "checkpoint"
  <2>1. "session.end" \in Kinds /\ "checkpoint" \in Kinds
    BY DEF Kinds
  <2> QED BY <2>1 DEF Closing
<1>3. n \in Nat
  BY LenProperties
<1>4. /\ o \in Seq(Kinds) /\ Len(o) = n + 2
      /\ \A i \in 1 .. n + 2 : o[i] = IF i <= 2 THEN Opening[i] ELSE m[i - 2]
  <2>1. /\ o \in Seq(Kinds) /\ Len(o) = Len(Opening) + n
        /\ \A i \in 1 .. Len(Opening) + n :
              o[i] = IF i <= Len(Opening) THEN Opening[i] ELSE m[i - Len(Opening)]
    <3>1. Opening \in Seq(Kinds)
      BY <1>1
    <3> QED BY <3>1, ConcatProperties, Zenon
  <2>2. Len(Opening) = 2 /\ Len(Opening) + n = n + 2
    BY <1>1, <1>3
  <2> QED BY <2>1, <2>2, Zenon
<1> HIDE DEF o
<1> DEFINE w == o \o Closing
<1>5. /\ w \in Seq(Kinds) /\ Len(w) = n + 4
      /\ \A i \in 1 .. n + 4 : w[i] = IF i <= n + 2 THEN o[i] ELSE Closing[i - (n + 2)]
  <2>1. /\ w \in Seq(Kinds) /\ Len(w) = Len(o) + Len(Closing)
        /\ \A i \in 1 .. Len(o) + Len(Closing) :
              w[i] = IF i <= Len(o) THEN o[i] ELSE Closing[i - Len(o)]
    <3>1. Closing \in Seq(Kinds) /\ o \in Seq(Kinds)
      BY <1>2, <1>4
    <3> QED BY <3>1, ConcatProperties
  <2>2. Len(o) = n + 2 /\ Len(o) + Len(Closing) = n + 4
    BY <1>2, <1>3, <1>4
  <2>3. \A i \in 1 .. n + 4 : w[i] = IF i <= n + 2 THEN o[i] ELSE Closing[i - (n + 2)]
    <3> HIDE DEF w, o, n
    <3> QED BY <2>1, <2>2, Zenon
  <2> QED BY <2>1, <2>2, <2>3, Zenon
<1> HIDE DEF w, n
<1>6. ASSUME NEW i \in 1 .. n + 4
      PROVE  w[i] = f[i]
  <2>1. CASE i \in 1 .. 2
    <3>1. i \in 1 .. n + 2 /\ i \in 1 .. n + 4 /\ i <= 2 /\ i <= n + 2 /\ (i = 1 \/ i = 2)
      BY <1>3, <2>1
    <3>2. w[i] = Opening[i]
      BY <1>4, <1>5, <3>1
    <3> QED BY <1>1, <3>1, <3>2
  <2>2. CASE i \in 3 .. n + 2
    <3>1. i - 2 \in 1 .. n /\ (i - 2) + 2 = i /\ i \in 1 .. n + 2 /\ ~ i <= 2 /\ i <= n + 2
      BY <1>3, <2>2
    <3>2. w[i] = m[i - 2]
      BY <1>4, <1>5, <3>1
    <3>3. f[(i - 2) + 2] = m[i - 2]
      BY <3>1 DEF n
    <3> QED BY <3>1, <3>2, <3>3
  <2>3. CASE i \in {n + 3, n + 4}
    <3>1. w[n + 3] = Closing[1] /\ w[n + 4] = Closing[2]
      BY <1>3, <1>5
    <3> QED BY <1>2, <2>3, <3>1 DEF n
  <2> QED BY <1>3, <2>1, <2>2, <2>3
<1>7. w = f
  <2>1. w \in Seq(Kinds) /\ Len(w) = Len(f) /\ \A i \in 1 .. Len(w) : w[i] = f[i]
    BY <1>5, <1>6 DEF n
  <2> QED BY <2>1, SeqEqual
<1> QED BY <1>7 DEF w, o

\* A flow is a sequence of kinds.
LEMMA FlowInKinds == \A p \in Paths : Flow(p) \in Seq(Kinds)
<1>0. /\ "session.start" \in Kinds /\ "data.request" \in Kinds /\ "session.end" \in Kinds
      /\ "checkpoint" \in Kinds /\ "source.unavailable" \in Kinds /\ "data.response" \in Kinds
      /\ "validator.exception" \in Kinds /\ "validation.failed" \in Kinds
      /\ "validation.result" \in Kinds /\ "observation" \in Kinds
  BY DEF Kinds
<1>1. Flow("unavailable") \in Seq(Kinds) /\ Flow("exception") \in Seq(Kinds)
  BY <1>0 DEF Flow
<1>2. Flow("failed") \in Seq(Kinds) /\ Flow("passed") \in Seq(Kinds)
  BY <1>0 DEF Flow
<1> QED BY <1>1, <1>2 DEF Paths

\* The four flows are those that the documents give.
LEMMA FlowsAre == Flows = {Flow(p) : p \in Paths}
<1>0. /\ "session.start" \in Kinds /\ "data.request" \in Kinds /\ "session.end" \in Kinds
      /\ "checkpoint" \in Kinds /\ "source.unavailable" \in Kinds /\ "data.response" \in Kinds
      /\ "validator.exception" \in Kinds /\ "validation.failed" \in Kinds
      /\ "validation.result" \in Kinds /\ "observation" \in Kinds
  BY DEF Kinds
<1>1. Opening \o <<"source.unavailable">> \o Closing = Flow("unavailable")
  <2> DEFINE m == <<"source.unavailable">>
             f == Flow("unavailable")
  <2>1. m \in Seq(Kinds) /\ Len(m) = 1 /\ m[1] = "source.unavailable"
    BY <1>0
  <2>2. /\ f \in Seq(Kinds) /\ Len(f) = 5
        /\ f[1] = "session.start" /\ f[2] = "data.request" /\ f[3] = "source.unavailable"
        /\ f[4] = "session.end" /\ f[5] = "checkpoint"
    BY <1>0 DEF Flow
  <2> HIDE DEF m, f
  <2>3. \A i \in 1 .. Len(m) : f[i + 2] = m[i]
    <3>1. \A i \in 1 .. Len(m) : i = 1
      BY <2>1
    <3> QED BY <2>1, <2>2, <3>1
  <2>4. Opening \o m \o Closing = f
    <3>1. Len(f) = Len(m) + 4 /\ f[Len(m) + 3] = "session.end" /\ f[Len(m) + 4] = "checkpoint"
      BY <2>1, <2>2
    <3> QED BY <2>1, <2>2, <2>3, <3>1, FlowOf, Zenon
  <2> QED BY <2>4 DEF m, f
<1>2. Opening \o <<"data.response", "validator.exception">> \o Closing = Flow("exception")
  <2> DEFINE m == <<"data.response", "validator.exception">>
             f == Flow("exception")
  <2>1. m \in Seq(Kinds) /\ Len(m) = 2 /\ m[1] = "data.response" /\ m[2] = "validator.exception"
    BY <1>0
  <2>2. /\ f \in Seq(Kinds) /\ Len(f) = 6
        /\ f[1] = "session.start" /\ f[2] = "data.request" /\ f[3] = "data.response"
        /\ f[4] = "validator.exception" /\ f[5] = "session.end" /\ f[6] = "checkpoint"
    BY <1>0 DEF Flow
  <2> HIDE DEF m, f
  <2>3. \A i \in 1 .. Len(m) : f[i + 2] = m[i]
    <3>1. \A i \in 1 .. Len(m) : i = 1 \/ i = 2
      BY <2>1
    <3> QED BY <2>1, <2>2, <3>1
  <2>4. Opening \o m \o Closing = f
    <3>1. Len(f) = Len(m) + 4 /\ f[Len(m) + 3] = "session.end" /\ f[Len(m) + 4] = "checkpoint"
      BY <2>1, <2>2
    <3> QED BY <2>1, <2>2, <2>3, <3>1, FlowOf, Zenon
  <2> QED BY <2>4 DEF m, f
<1>3. Opening \o <<"data.response", "validation.failed">> \o Closing = Flow("failed")
  <2> DEFINE m == <<"data.response", "validation.failed">>
             f == Flow("failed")
  <2>1. m \in Seq(Kinds) /\ Len(m) = 2 /\ m[1] = "data.response" /\ m[2] = "validation.failed"
    BY <1>0
  <2>2. /\ f \in Seq(Kinds) /\ Len(f) = 6
        /\ f[1] = "session.start" /\ f[2] = "data.request" /\ f[3] = "data.response"
        /\ f[4] = "validation.failed" /\ f[5] = "session.end" /\ f[6] = "checkpoint"
    BY <1>0 DEF Flow
  <2> HIDE DEF m, f
  <2>3. \A i \in 1 .. Len(m) : f[i + 2] = m[i]
    <3>1. \A i \in 1 .. Len(m) : i = 1 \/ i = 2
      BY <2>1
    <3> QED BY <2>1, <2>2, <3>1
  <2>4. Opening \o m \o Closing = f
    <3>1. Len(f) = Len(m) + 4 /\ f[Len(m) + 3] = "session.end" /\ f[Len(m) + 4] = "checkpoint"
      BY <2>1, <2>2
    <3> QED BY <2>1, <2>2, <2>3, <3>1, FlowOf, Zenon
  <2> QED BY <2>4 DEF m, f
<1>4. Opening \o <<"data.response", "validation.result", "observation">> \o Closing = Flow("passed")
  <2> DEFINE m == <<"data.response", "validation.result", "observation">>
             f == Flow("passed")
  <2>1. m \in Seq(Kinds) /\ Len(m) = 3 /\ m[1] = "data.response" /\ m[2] = "validation.result" /\ m[3] = "observation"
    BY <1>0
  <2>2. /\ f \in Seq(Kinds) /\ Len(f) = 7
        /\ f[1] = "session.start" /\ f[2] = "data.request" /\ f[3] = "data.response"
        /\ f[4] = "validation.result" /\ f[5] = "observation" /\ f[6] = "session.end" /\ f[7] = "checkpoint"
    BY <1>0 DEF Flow
  <2> HIDE DEF m, f
  <2>3. \A i \in 1 .. Len(m) : f[i + 2] = m[i]
    <3>1. \A i \in 1 .. Len(m) : i = 1 \/ i = 2 \/ i = 3
      BY <2>1
    <3> QED BY <2>1, <2>2, <3>1
  <2>4. Opening \o m \o Closing = f
    <3>1. Len(f) = Len(m) + 4 /\ f[Len(m) + 3] = "session.end" /\ f[Len(m) + 4] = "checkpoint"
      BY <2>1, <2>2
    <3> QED BY <2>1, <2>2, <2>3, <3>1, FlowOf, Zenon
  <2> QED BY <2>4 DEF m, f
<1>5. Flows = {Flow("unavailable"), Flow("exception"), Flow("failed"), Flow("passed")}
  BY <1>1, <1>2, <1>3, <1>4, Zenon DEF Flows
<1> HIDE DEF Flow
<1> QED BY <1>5, Zenon DEF Paths

-----------------------------------------------------------------------------
(* The steps.                                                              *)

\* What StoryInv says of the other cycles is not touched.
OthersTell(c) ==
    \A d \in Cycles \ {c} :
        /\ pc'[d] = pc[d] /\ chain'[d] = chain[d] /\ signature'[d] = signature[d]
        /\ fetching'[d] = fetching[d] /\ attempts'[d] = attempts[d]
        /\ observed'[d] = observed[d] /\ output'[d] = output[d]

\* A step of one cycle that keeps its own part of StoryInv keeps it all.
LEMMA TellOfOne ==
    ASSUME StoryInv, NEW c \in Cycles, OthersTell(c), DOMAIN output' = Cycles,
           StoryOK(pc'[c], chain'[c], signature'[c], fetching'[c], attempts'[c], observed'[c],
                   output'[c])
    PROVE  StoryInv'
<1>1. ASSUME NEW d \in Cycles
      PROVE  StoryOK(pc'[d], chain'[d], signature'[d], fetching'[d], attempts'[d],
                     observed'[d], output'[d])
  <2>1. CASE d = c
    BY <2>1
  <2>2. CASE d # c
    BY <2>2 DEF StoryInv, OthersTell
  <2> QED BY <2>1, <2>2
<1> QED BY <1>1 DEF StoryInv

\* A step that appends the flow's next receipt.
LEMMA NextTold ==
    ASSUME GatewayInv, StoryInv, NEW c \in Cycles,
           NEW kind, NEW body, NEW witness, NEW where,
           AppendReceipt(c, kind, body, witness), Goto(c, where), where # "returned",
           UNCHANGED <<signature, output>>, UNCHANGED observerVars,
           NEW p, p = PathOf(fetching[c], observed[c]),
           NEW m \in Nat, Len(chain[c]) + 1 = m, m <= Len(Flow(p)), kind = Flow(p)[m],
           \A r : r.receipt_kind = kind /\ r.body = body /\ r.witness = witness
                     => BodyOK(r, signature[c], attempts[c], observed[c]),
           Position(where, p, m),
           m > 2 => fetching[c] \in {"fetched", "exhausted"},
           SignatureOK(where, signature[c], p, observed[c])
    PROVE  StoryInv'
<1> DEFINE q == chain[c]
           r == Receipt(c, kind, body, prevRoot[c], seq[c], witness)
<1>1. /\ chain' = [chain EXCEPT ![c] = Append(q, r)]
      /\ r.receipt_kind = kind /\ r.body = body /\ r.witness = witness
  BY ReceiptFields DEF AppendReceipt
<1> HIDE DEF r
<1>2. /\ chain'[c] = Append(q, r) /\ pc'[c] = where
      /\ \A d \in Cycles \ {c} : chain'[d] = chain[d] /\ pc'[d] = pc[d]
  BY <1>1 DEF GatewayInv, TypesInv, Goto
<1>3. UNCHANGED <<fetching, attempts, observed>>
  BY DEF observerVars
<1>4. p \in Paths /\ Told(q, p, signature[c], attempts[c], observed[c])
  BY FlowFacts DEF StoryInv, StoryOK
<1>5. /\ Told(Append(q, r), p, signature[c], attempts[c], observed[c])
      /\ Len(Append(q, r)) = m
  <2>1. Len(q) \in Nat /\ Len(Flow(p)) \in Nat
    BY <1>4, FlowFacts, SequenceLength DEF Told
  <2>2. Len(q) < Len(Flow(p)) /\ Len(q) + 1 = m
    BY <2>1
  <2>3. r.receipt_kind = Flow(p)[Len(q) + 1]
    BY <1>1, <2>2
  <2> QED BY <1>1, <1>4, <2>2, <2>3, ToldNext
<1>6. StoryOK(where, Append(q, r), signature[c], fetching[c], attempts[c], observed[c], output[c])
  BY <1>5 DEF StoryOK
<1>7. OthersTell(c) /\ DOMAIN output' = Cycles
  BY <1>2, <1>3 DEF OthersTell, StoryInv
<1> QED BY <1>2, <1>3, <1>6, <1>7, TellOfOne

\* What run_cycle (gateway.py) does, action by action: the first receipt.
LEMMA StartTells ==
    ASSUME GatewayInv, StoryInv, NEW c \in Cycles, Start(c)
    PROVE  StoryInv'
<1> DEFINE q == chain[c]
           r == Receipt(c, "session.start", <<>>, prevRoot[c], seq[c], NoSubject)
<1>1. /\ pc[c] = "idle" /\ Goto(c, "fetch") /\ Fetch(c)
      /\ AppendReceipt(c, "session.start", <<>>, NoSubject)
      /\ UNCHANGED <<signature, output>>
  BY DEF Start
<1>2. /\ chain' = [chain EXCEPT ![c] = Append(q, r)]
      /\ r.receipt_kind = "session.start" /\ r.body = <<>> /\ r.witness = NoSubject
  BY <1>1, ReceiptFields DEF AppendReceipt
<1> HIDE DEF r
<1>3. /\ chain'[c] = Append(q, r) /\ pc'[c] = "fetch"
      /\ \A d \in Cycles \ {c} : chain'[d] = chain[d] /\ pc'[d] = pc[d]
  BY <1>1, <1>2 DEF GatewayInv, TypesInv, Goto
<1>4. /\ fetching[c] = "no" /\ fetching'[c] = "yes" /\ UNCHANGED <<attempts, observed>>
      /\ \A d \in Cycles \ {c} : fetching'[d] = fetching[d]
  BY <1>1 DEF Fetch, GatewayInv, ObserverInv, ObserverTypeOK, Cycles
<1>5. /\ PathOf(fetching[c], observed[c]) = "unavailable"
      /\ PathOf(fetching'[c], observed[c]) = "unavailable"
  BY <1>4 DEF PathOf
<1>6. /\ Told(q, "unavailable", signature[c], attempts[c], observed[c])
      /\ Len(q) = 0 /\ signature[c] = NoSubject
  BY <1>1, <1>5 DEF StoryInv, StoryOK, Position, SignatureOK
<1>7. BodyOK(r, signature[c], attempts[c], observed[c])
  BY <1>2 DEF BodyOK, VerdictKinds
<1>8. "unavailable" \in Paths /\ Len(Flow("unavailable")) = 5
      /\ Flow("unavailable")[1] = "session.start"
  BY FlowFacts DEF Paths
<1>9. /\ Told(Append(q, r), "unavailable", signature[c], attempts[c], observed[c])
      /\ Len(Append(q, r)) = 1
  <2>1. Len(q) < Len(Flow("unavailable"))
        /\ r.receipt_kind = Flow("unavailable")[Len(q) + 1] /\ Len(q) + 1 = 1
    BY <1>2, <1>6, <1>8
  <2> QED BY <1>6, <1>7, <1>8, <2>1, ToldNext
<1>10. StoryOK("fetch", Append(q, r), signature[c], fetching'[c], attempts[c], observed[c], output[c])
  <2>0. Len(Flow("unavailable")) = 5
    BY <1>8
  <2>1. 1 + 2 <= Len(Flow("unavailable"))
    BY <2>0
  <2>2. Position("fetch", "unavailable", 1)
    BY <2>1 DEF Position
  <2>3. SignatureOK("fetch", signature[c], "unavailable", observed[c])
    BY <1>6 DEF SignatureOK
  <2>4. ~ Len(Append(q, r)) > 2
    BY <1>9
  <2> QED BY <1>5, <1>9, <2>2, <2>3, <2>4 DEF StoryOK
<1>11. OthersTell(c) /\ DOMAIN output' = Cycles
  BY <1>1, <1>3, <1>4 DEF OthersTell, StoryInv
<1> QED BY <1>1, <1>3, <1>4, <1>10, <1>11, TellOfOne

\* The fetch goes on: the chain has one receipt, whatever the path is now.
LEMMA FetchTells ==
    ASSUME GatewayInv, StoryInv, NEW c \in Cycles, FetchAttempt(c)
    PROVE  StoryInv'
<1>1. /\ pc[c] = "fetch" /\ ObserverStep(c)
      /\ UNCHANGED <<pc, chain, signature, output>>
  BY DEF FetchAttempt, cycleVars
<1>2. \A d \in Cycles \ {c} : /\ fetching'[d] = fetching[d] /\ attempts'[d] = attempts[d]
                              /\ observed'[d] = observed[d]
  BY <1>1 DEF ObserverStep, AttemptOk, AttemptFails, Attempt, GatewayInv, ObserverInv,
              ObserverTypeOK, Cycles
<1> DEFINE q == chain[c]
           p == PathOf(fetching[c], observed[c])
<1>3. PICK later : later = PathOf(fetching'[c], observed'[c])
  OBVIOUS
<1>4. p \in Paths /\ later \in Paths
  BY <1>3, FlowFacts
<1>5. /\ Told(q, p, signature[c], attempts[c], observed[c]) /\ Len(q) = 1
      /\ signature[c] = NoSubject
  BY <1>1 DEF StoryInv, StoryOK, Position, SignatureOK
<1>6. /\ q[1].receipt_kind = "session.start" /\ q[1].body = <<>> /\ ASequence(q)
  <2>1. 1 \in 1 .. Len(q) /\ Flow(p)[1] = "session.start"
    BY <1>4, <1>5, FlowFacts
  <2> QED BY <1>5, <2>1 DEF Told, BodyOK
<1>7. Told(q, later, signature[c], attempts'[c], observed'[c])
  <2>1. BodyOK(q[1], signature[c], attempts'[c], observed'[c])
    BY <1>6 DEF BodyOK, VerdictKinds
  <2>2. Flow(later)[1] = "session.start" /\ Len(Flow(later)) \in 5 .. 7
    BY <1>4, FlowFacts
  <2>3. \A i \in 1 .. Len(q) : i = 1
    BY <1>5
  <2> QED BY <1>5, <1>6, <2>1, <2>2, <2>3 DEF Told
<1>8. Position("fetch", later, Len(q))
  <2>1. Len(Flow(later)) \in 5 .. 7
    BY <1>4, FlowFacts
  <2>2. 1 + 2 <= Len(Flow(later))
    BY <2>1
  <2> QED BY <1>5, <2>2 DEF Position
<1>9. StoryOK("fetch", q, signature[c], fetching'[c], attempts'[c], observed'[c], output[c])
  BY <1>3, <1>5, <1>7, <1>8 DEF StoryOK, SignatureOK
<1>10. OthersTell(c) /\ DOMAIN output' = Cycles
  BY <1>1, <1>2 DEF OthersTell, StoryInv
<1> QED BY <1>1, <1>9, <1>10, TellOfOne

\* The fetch raises: the chain keeps its one receipt.
LEMMA FetchRaisesTells ==
    ASSUME GatewayInv, StoryInv, NEW c \in Cycles, FetchRaises(c)
    PROVE  StoryInv'
<1> DEFINE p == PathOf(fetching[c], observed[c])
<1>1. /\ pc[c] = "fetch" /\ fetching[c] = "yes"
      /\ pc' = [pc EXCEPT ![c] = "raised"] /\ fetching' = [fetching EXCEPT ![c] = "raised"]
      /\ UNCHANGED <<chain, signature, output>> /\ UNCHANGED <<attempts, observed>>
  BY DEF FetchRaises, AttemptRaises, Raise, Goto, receiptVars
<1>2. fetching'[c] = "raised" /\ PathOf("raised", observed[c]) = p
  BY <1>1 DEF PathOf, GatewayInv, ObserverInv, ObserverTypeOK, Cycles
<1>3. /\ Told(chain[c], p, signature[c], attempts[c], observed[c])
      /\ Position("fetch", p, Len(chain[c])) /\ Len(chain[c]) = 1
  BY <1>1 DEF StoryInv, StoryOK, Position
<1> HIDE DEF p
<1>4. Position("raised", p, Len(chain[c])) /\ SignatureOK("raised", signature[c], p, observed[c])
  BY <1>3 DEF Position, SignatureOK
<1>5. StoryOK("raised", chain[c], signature[c], "raised", attempts[c], observed[c], output[c])
  BY <1>2, <1>3, <1>4 DEF StoryOK
<1>6. OthersTell(c) /\ DOMAIN output' = Cycles /\ pc'[c] = "raised"
  BY <1>1 DEF OthersTell, StoryInv, GatewayInv, TypesInv, ObserverInv, ObserverTypeOK, Cycles
<1> QED BY <1>1, <1>2, <1>5, <1>6, TellOfOne

\* What is known of a cycle before it takes a step.
LEMMA BeforeStep ==
    ASSUME GatewayInv, StoryInv, NEW c \in Cycles, NEW p, p = PathOf(fetching[c], observed[c])
    PROVE  /\ p \in Paths
           /\ Told(chain[c], p, signature[c], attempts[c], observed[c])
           /\ Position(pc[c], p, Len(chain[c]))
           /\ Len(chain[c]) > 2 => fetching[c] \in {"fetched", "exhausted"}
           /\ SignatureOK(pc[c], signature[c], p, observed[c])
           /\ Len(chain[c]) \in Nat /\ Len(Flow(p)) \in 5 .. 7
<1>1. p \in Paths
  BY FlowFacts
<1>2. StoryOK(pc[c], chain[c], signature[c], fetching[c], attempts[c], observed[c], output[c])
  BY DEF StoryInv
<1>3. Len(chain[c]) \in Nat
  BY SequenceLength DEF GatewayInv, CycleInv, ChainOK
<1> QED BY <1>1, <1>2, <1>3, FlowFacts DEF StoryOK

\* The data.request, with the history of the attempts.
LEMMA RequestTells ==
    ASSUME GatewayInv, StoryInv, NEW c \in Cycles, Request(c)
    PROVE  StoryInv'
<1> DEFINE p == PathOf(fetching[c], observed[c])
           body == [attempts |-> attempts[c]]
<1>1. /\ pc[c] = "fetch" /\ Goto(c, "request")
      /\ AppendReceipt(c, "data.request", body, NoSubject)
      /\ UNCHANGED <<signature, output>> /\ UNCHANGED observerVars
      /\ fetching[c] \in {"fetched", "exhausted"}
  BY DEF Request
<1> HIDE DEF p
<1>2. /\ p \in Paths /\ Len(chain[c]) = 1 /\ signature[c] = NoSubject
      /\ Len(Flow(p)) \in 5 .. 7
  BY <1>1, BeforeStep DEF p, Position, SignatureOK
<1>3. Flow(p)[2] = "data.request"
  BY <1>2, FlowFacts
<1>4. Len(chain[c]) + 1 = 2 /\ 2 <= Len(Flow(p)) /\ 2 + 2 <= Len(Flow(p))
  <2> DEFINE n == Len(chain[c])
             l == Len(Flow(p))
  <2>1. n = 1
    BY <1>2
  <2>2. l \in 5 .. 7
    BY <1>2
  <2> HIDE DEF n, l
  <2>3. n + 1 = 2 /\ 2 <= l /\ 2 + 2 <= l
    BY <2>1, <2>2
  <2> QED BY <2>3 DEF n, l
<1>5. \A r : r.receipt_kind = "data.request" /\ r.body = body /\ r.witness = NoSubject
                => BodyOK(r, signature[c], attempts[c], observed[c])
  BY DEF BodyOK, VerdictKinds
<1>6. Position("request", p, 2)
  BY <1>4 DEF Position
<1>7. SignatureOK("request", signature[c], p, observed[c])
  BY <1>2 DEF SignatureOK
<1> HIDE DEF body
<1>8. p = PathOf(fetching[c], observed[c]) /\ "request" # "returned" /\ 2 \in Nat
  BY DEF p
<1> QED BY <1>1, <1>3, <1>4, <1>5, <1>6, <1>7, <1>8, NextTold

\* The source was not to be had.
LEMMA UnavailableTells ==
    ASSUME GatewayInv, StoryInv, NEW c \in Cycles, Unavailable(c)
    PROVE  StoryInv'
<1> DEFINE p == "unavailable"
<1>1. /\ pc[c] = "request" /\ Goto(c, "finalize")
      /\ AppendReceipt(c, "source.unavailable", <<>>, NoSubject)
      /\ UNCHANGED <<signature, output>> /\ UNCHANGED observerVars
      /\ fetching[c] = "exhausted"
  BY DEF Unavailable
<1>2. p = PathOf(fetching[c], observed[c])
  BY <1>1 DEF PathOf
<1>3. Len(chain[c]) = 2 /\ signature[c] = NoSubject
  BY <1>1, <1>2, BeforeStep DEF Position, SignatureOK
<1>4. Flow(p)[3] = "source.unavailable"
  BY FlowFacts
<1>5. Len(chain[c]) + 1 = 3 /\ 3 <= Len(Flow(p)) /\ 3 + 2 = Len(Flow(p)) /\ 3 + 2 <= Len(Flow(p))
  <2> DEFINE n == Len(chain[c])
             l == Len(Flow(p))
  <2>1. n = 2
    BY <1>3
  <2>2. l = 5
    BY FlowFacts
  <2> HIDE DEF n, l
  <2>3. n + 1 = 3 /\ 3 <= l /\ 3 + 2 = l /\ 3 + 2 <= l
    BY <2>1, <2>2
  <2> QED BY <2>3 DEF n, l
<1>6. \A r : r.receipt_kind = "source.unavailable" /\ r.body = <<>> /\ r.witness = NoSubject
                => BodyOK(r, signature[c], attempts[c], observed[c])
  BY DEF BodyOK, VerdictKinds
<1>7. Position("finalize", p, 3)
  BY <1>5 DEF Position
<1>8. SignatureOK("finalize", signature[c], p, observed[c])
  BY <1>3 DEF SignatureOK
<1>9. "finalize" # "returned" /\ 3 \in Nat
  OBVIOUS
<1> HIDE DEF p
<1> QED BY <1>1, <1>2, <1>4, <1>5, <1>6, <1>7, <1>8, <1>9, NextTold

\* The data.response, with the bytes.
LEMMA RespondTells ==
    ASSUME GatewayInv, StoryInv, NEW c \in Cycles, Respond(c)
    PROVE  StoryInv'
<1> DEFINE p == PathOf(fetching[c], observed[c])
           body == [bytes |-> observed[c]]
<1>1. /\ pc[c] = "request" /\ Goto(c, "validate")
      /\ AppendReceipt(c, "data.response", body, NoSubject)
      /\ UNCHANGED <<signature, output>> /\ UNCHANGED observerVars
      /\ fetching[c] = "fetched"
  BY DEF Respond
<1>2. p # "unavailable"
  BY <1>1 DEF PathOf
<1> HIDE DEF p
<1>3. /\ p \in Paths /\ Len(chain[c]) = 2 /\ signature[c] = NoSubject
      /\ Len(Flow(p)) \in 5 .. 7
  BY <1>1, BeforeStep DEF p, Position, SignatureOK
<1>4. Flow(p)[3] = "data.response"
  BY <1>2, <1>3, FlowFacts
<1>5. Len(chain[c]) + 1 = 3 /\ 3 <= Len(Flow(p)) /\ 3 + 2 <= Len(Flow(p))
  <2> DEFINE n == Len(chain[c])
             l == Len(Flow(p))
  <2>1. n = 2
    BY <1>3
  <2>2. l \in 5 .. 7
    BY <1>3
  <2> HIDE DEF n, l
  <2>3. n + 1 = 3 /\ 3 <= l /\ 3 + 2 <= l
    BY <2>1, <2>2
  <2> QED BY <2>3 DEF n, l
<1>6. \A r : r.receipt_kind = "data.response" /\ r.body = body /\ r.witness = NoSubject
                => BodyOK(r, signature[c], attempts[c], observed[c])
  BY DEF BodyOK, VerdictKinds
<1>7. Position("validate", p, 3)
  BY <1>2, <1>5 DEF Position
<1>8. SignatureOK("validate", signature[c], p, observed[c])
  BY <1>3 DEF SignatureOK
<1> HIDE DEF body
<1>9. p = PathOf(fetching[c], observed[c]) /\ "validate" # "returned" /\ 3 \in Nat
  BY DEF p
<1> QED BY <1>1, <1>4, <1>5, <1>6, <1>7, <1>8, <1>9, NextTold

\* The validator raised.
LEMMA ExceptionTells ==
    ASSUME GatewayInv, StoryInv, NEW c \in Cycles, ValidatorException(c)
    PROVE  StoryInv'
<1> DEFINE p == "exception"
           body == [bytes |-> observed[c]]
<1>1. /\ pc[c] = "validate" /\ Goto(c, "finalize")
      /\ AppendReceipt(c, "validator.exception", body, NoSubject)
      /\ UNCHANGED <<signature, output>> /\ UNCHANGED observerVars
      /\ observed[c].form \in {"malformed", "raises"}
  BY DEF ValidatorException
<1>2. fetching[c] = "fetched"
  BY <1>1 DEF GatewayInv, CycleInv, ToldOK
<1>3. p = PathOf(fetching[c], observed[c])
  BY <1>1, <1>2 DEF PathOf
<1>4. Len(chain[c]) = 3 /\ signature[c] = NoSubject
  BY <1>1, <1>3, BeforeStep DEF Position, SignatureOK
<1>5. Flow(p)[4] = "validator.exception"
  BY FlowFacts
<1>6. Len(chain[c]) + 1 = 4 /\ 4 <= Len(Flow(p)) /\ 4 + 2 = Len(Flow(p)) /\ 4 + 2 <= Len(Flow(p))
  <2> DEFINE n == Len(chain[c])
             l == Len(Flow(p))
  <2>1. n = 3
    BY <1>4
  <2>2. l = 6
    BY FlowFacts
  <2> HIDE DEF n, l
  <2>3. n + 1 = 4 /\ 4 <= l /\ 4 + 2 = l /\ 4 + 2 <= l
    BY <2>1, <2>2
  <2> QED BY <2>3 DEF n, l
<1>7. \A r : r.receipt_kind = "validator.exception" /\ r.body = body /\ r.witness = NoSubject
                => BodyOK(r, signature[c], attempts[c], observed[c])
  BY DEF BodyOK, VerdictKinds
<1>8. Position("finalize", p, 4)
  BY <1>6 DEF Position
<1>9. SignatureOK("finalize", signature[c], p, observed[c])
  BY <1>4 DEF SignatureOK
<1>10. "finalize" # "returned" /\ 4 \in Nat /\ fetching[c] \in {"fetched", "exhausted"}
  BY <1>2
<1> HIDE DEF p, body
<1> QED BY <1>1, <1>3, <1>5, <1>6, <1>7, <1>8, <1>9, <1>10, NextTold

\* The witness puts the subject on record.
LEMMA CommitTells ==
    ASSUME GatewayInv, StoryInv, NEW c \in Cycles, Commit(c)
    PROVE  StoryInv'
<1> DEFINE p == PathOf(fetching[c], observed[c])
<1>1. /\ pc[c] = "validate" /\ Goto(c, "issue")
      /\ UNCHANGED receiptVars /\ UNCHANGED observerVars
  BY DEF Commit, Judged
<1>2. /\ UNCHANGED <<chain, signature, output>> /\ UNCHANGED <<fetching, attempts, observed>>
  BY <1>1 DEF receiptVars, observerVars
<1>3. /\ Told(chain[c], p, signature[c], attempts[c], observed[c])
      /\ Position("validate", p, Len(chain[c]))
      /\ Len(chain[c]) > 2 => fetching[c] \in {"fetched", "exhausted"}
      /\ SignatureOK("validate", signature[c], p, observed[c])
  BY <1>1, BeforeStep
<1>4. /\ Position("issue", p, Len(chain[c]))
      /\ SignatureOK("issue", signature[c], p, observed[c])
  BY <1>3 DEF Position, SignatureOK
<1>5. StoryOK("issue", chain[c], signature[c], fetching[c], attempts[c], observed[c], output[c])
  BY <1>3, <1>4 DEF StoryOK
<1>6. /\ OthersTell(c) /\ DOMAIN output' = Cycles /\ pc'[c] = "issue"
  BY <1>1, <1>2 DEF OthersTell, StoryInv, Goto, GatewayInv, TypesInv
<1> QED BY <1>2, <1>5, <1>6, TellOfOne

\* The witness signs, and the signature is kept for the verdict.
LEMMA IssueTells ==
    ASSUME GatewayInv, StoryInv, NEW c \in Cycles, Issue(c)
    PROVE  StoryInv'
<1> DEFINE p == PathOf(fetching[c], observed[c])
           s == Subject(observed[c])
<1>1. /\ pc[c] = "issue" /\ Goto(c, "verdict")
      /\ signature' = [signature EXCEPT ![c] = s]
      /\ UNCHANGED <<chain, output>> /\ UNCHANGED observerVars
  BY DEF Issue
<1>2. UNCHANGED <<fetching, attempts, observed>>
  BY <1>1 DEF observerVars
<1>3. /\ p \in Paths /\ Told(chain[c], p, signature[c], attempts[c], observed[c])
      /\ Position("issue", p, Len(chain[c]))
      /\ Len(chain[c]) > 2 => fetching[c] \in {"fetched", "exhausted"}
  BY <1>1, BeforeStep
<1> HIDE DEF p, s
<1>4. Len(chain[c]) = 3 /\ Position("verdict", p, Len(chain[c]))
  BY <1>3 DEF Position
<1>5. Told(chain[c], p, s, attempts[c], observed[c])
  <2>1. ASSUME NEW i \in 1 .. Len(chain[c])
        PROVE  chain[c][i].receipt_kind \notin VerdictKinds
    <3>1. i \in 1 .. Len(Flow(p)) /\ ~ i > 3
      BY <1>3, <1>4, FlowFacts DEF Told
    <3>2. chain[c][i].receipt_kind = Flow(p)[i]
      BY <1>3 DEF Told
    <3> QED BY <1>3, <3>1, <3>2, FlowFacts
  <2> QED BY <1>3, <2>1 DEF Told, BodyOK
<1>6. StoryOK("verdict", chain[c], s, fetching[c], attempts[c], observed[c], output[c])
  BY <1>3, <1>4, <1>5 DEF StoryOK, SignatureOK, p
<1>7. /\ OthersTell(c) /\ DOMAIN output' = Cycles /\ pc'[c] = "verdict" /\ signature'[c] = s
  BY <1>1, <1>2 DEF OthersTell, StoryInv, Goto, GatewayInv, TypesInv
<1> QED BY <1>1, <1>2, <1>6, <1>7, TellOfOne

\* The verdict, with the signature of the witness.
LEMMA VerdictTells ==
    ASSUME GatewayInv, StoryInv, NEW c \in Cycles, Verdict(c)
    PROVE  StoryInv'
<1> DEFINE x == observed[c]
           p == x.form
           kind == IF x.form = "passed" THEN "validation.result" ELSE "validation.failed"
           where == IF x.form = "passed" THEN "observe" ELSE "finalize"
<1>1. /\ pc[c] = "verdict" /\ Goto(c, where)
      /\ AppendReceipt(c, kind, VerdictBody(x), signature[c])
      /\ UNCHANGED <<signature, output>> /\ UNCHANGED observerVars
  BY DEF Verdict
<1>2. fetching[c] = "fetched" /\ Keyed(x) /\ signature[c] = Subject(x)
  BY <1>1 DEF GatewayInv, CycleInv, ToldOK
<1>3. p \in {"passed", "failed"} /\ p = PathOf(fetching[c], observed[c])
  BY <1>2 DEF PathOf, Keyed
<1>4. Len(chain[c]) = 3
  BY <1>1, <1>3, BeforeStep DEF Position
<1>5. /\ p = "passed" => /\ Flow(p)[4] = "validation.result"
                         /\ kind = "validation.result" /\ where = "observe"
      /\ p = "failed" => /\ Flow(p)[4] = "validation.failed"
                         /\ kind = "validation.failed" /\ where = "finalize"
  BY FlowFacts
<1>0. /\ p = "passed" => Len(Flow(p)) = 7
      /\ p = "failed" => Len(Flow(p)) = 6
  BY FlowFacts
<1> HIDE DEF p, kind, where
<1>6. kind = Flow(p)[4] /\ kind \in {"validation.result", "validation.failed"}
  BY <1>3, <1>5
<1>11. Len(chain[c]) + 1 = 4 /\ 4 <= Len(Flow(p)) /\ 4 + 2 <= Len(Flow(p))
  <2> DEFINE n == Len(chain[c])
             l == Len(Flow(p))
  <2>1. n = 3
    BY <1>4
  <2>2. l \in {6, 7}
    BY <1>0, <1>3
  <2> HIDE DEF n, l
  <2>3. n + 1 = 4 /\ 4 <= l /\ 4 + 2 <= l
    BY <2>1, <2>2
  <2> QED BY <2>3 DEF n, l
<1>7. \A r : r.receipt_kind = kind /\ r.body = VerdictBody(x) /\ r.witness = signature[c]
                => BodyOK(r, signature[c], attempts[c], x)
  BY <1>6 DEF BodyOK
<1>8. Position(where, p, 4)
  <2>1. CASE p = "passed"
    BY <1>5, <1>11, <2>1 DEF Position
  <2>2. CASE p = "failed"
    <3>1. 4 + 2 = Len(Flow(p))
      BY <1>0, <2>2
    <3> QED BY <1>5, <1>11, <2>2, <3>1 DEF Position
  <2> QED BY <1>3, <2>1, <2>2
<1>9. SignatureOK(where, signature[c], p, x) /\ where # "returned"
  BY <1>2, <1>3, <1>5 DEF SignatureOK
<1>10. 4 \in Nat /\ fetching[c] \in {"fetched", "exhausted"}
  BY <1>2
<1>12. \A r : r.receipt_kind = kind /\ r.body = VerdictBody(x) /\ r.witness = signature[c]
                 => BodyOK(r, signature[c], attempts[c], observed[c])
  BY <1>7
<1>13. kind = Flow(p)[4] /\ Len(chain[c]) + 1 = 4 /\ 4 <= Len(Flow(p))
  BY <1>6, <1>11
<1>14. /\ p = PathOf(fetching[c], observed[c])
       /\ where # "returned" /\ SignatureOK(where, signature[c], p, observed[c])
  BY <1>3, <1>9
<1> HIDE DEF x
<1> QED BY <1>1, <1>8, <1>10, <1>12, <1>13, <1>14, NextTold

\* The observation, after a verdict that passed.
LEMMA ObservationTells ==
    ASSUME GatewayInv, StoryInv, NEW c \in Cycles, Observation(c)
    PROVE  StoryInv'
<1> DEFINE x == observed[c]
           p == "passed"
<1>1. /\ pc[c] = "observe" /\ Goto(c, "finalize")
      /\ AppendReceipt(c, "observation", VerdictBody(x), signature[c])
      /\ UNCHANGED <<signature, output>> /\ UNCHANGED observerVars
  BY DEF Observation
<1>2. fetching[c] = "fetched" /\ Keyed(x) /\ signature[c] = Subject(x) /\ x.form = "passed"
  BY <1>1 DEF GatewayInv, CycleInv, ToldOK
<1>3. p = PathOf(fetching[c], observed[c])
  BY <1>2 DEF PathOf
<1>4. Len(chain[c]) = 4
  BY <1>1, <1>3, BeforeStep DEF Position
<1>5. Flow(p)[5] = "observation"
  BY FlowFacts
<1>6. Len(chain[c]) + 1 = 5 /\ 5 <= Len(Flow(p)) /\ 5 + 2 = Len(Flow(p)) /\ 5 + 2 <= Len(Flow(p))
  <2> DEFINE n == Len(chain[c])
             l == Len(Flow(p))
  <2>1. n = 4
    BY <1>4
  <2>2. l = 7
    BY FlowFacts
  <2> HIDE DEF n, l
  <2>3. n + 1 = 5 /\ 5 <= l /\ 5 + 2 = l /\ 5 + 2 <= l
    BY <2>1, <2>2
  <2> QED BY <2>3 DEF n, l
<1>7. \A r : r.receipt_kind = "observation" /\ r.body = VerdictBody(x) /\ r.witness = signature[c]
                => BodyOK(r, signature[c], attempts[c], x)
  BY DEF BodyOK
<1>8. Position("finalize", p, 5)
  BY <1>6 DEF Position
<1>9. SignatureOK("finalize", signature[c], p, x)
  BY <1>2 DEF SignatureOK
<1>10. "finalize" # "returned" /\ 5 \in Nat /\ fetching[c] \in {"fetched", "exhausted"}
  BY <1>2
<1> HIDE DEF p
<1> QED BY <1>1, <1>3, <1>5, <1>6, <1>7, <1>8, <1>9, <1>10, NextTold

\* _finalize: the last two receipts and the output.
LEMMA FinalizeTells ==
    ASSUME GatewayInv, StoryInv, NEW c \in Cycles, Finalize(c)
    PROVE  StoryInv'
<1> DEFINE p == PathOf(fetching[c], observed[c])
           q == chain[c]
           n == Len(q)
           succeeded == signature[c] # NoSubject /\ observed[c].form = "passed"
           end == Receipt(c, "session.end", [observation_succeeded |-> succeeded],
                          prevRoot[c], seq[c], NoSubject)
           checkpoint == Receipt(c, "checkpoint", CheckpointBody(end, n),
                                 end.state_root, seq[c] + 1, NoSubject)
           out == [observation_succeeded |-> succeeded, bytes |-> observed[c],
                   subject |-> signature[c], head |-> checkpoint.state_root]
<1>1. /\ pc[c] = "finalize" /\ Goto(c, "returned")
      /\ chain' = [chain EXCEPT ![c] = q \o <<end, checkpoint>>]
      /\ output' = [output EXCEPT ![c] = out]
      /\ UNCHANGED signature /\ UNCHANGED observerVars
  BY DEF Finalize
<1>2. UNCHANGED <<fetching, attempts, observed>>
  BY <1>1 DEF observerVars
<1>3. /\ p \in Paths /\ Told(q, p, signature[c], attempts[c], observed[c])
      /\ Position("finalize", p, n) /\ n \in Nat
      /\ n > 2 => fetching[c] \in {"fetched", "exhausted"}
      /\ SignatureOK("finalize", signature[c], p, observed[c])
      /\ Len(Flow(p)) \in 5 .. 7
  BY <1>1, BeforeStep
<1>4. n + 2 = Len(Flow(p)) /\ fetching[c] \in {"fetched", "exhausted"}
  <2>1. n + 2 = Len(Flow(p))
    BY <1>3 DEF Position
  <2> DEFINE l == Len(Flow(p))
  <2>2. n \in Nat /\ n + 2 = l /\ l \in 5 .. 7
    BY <1>3, <2>1
  <2> HIDE DEF n, l
  <2>3. n > 2
    BY <2>2
  <2> QED BY <1>3, <2>1, <2>3
<1>5. succeeded <=> p = "passed"
  <2>1. CASE p = "passed"
    <3>1. observed[c].form = "passed"
      BY <2>1 DEF PathOf
    <3>2. signature[c] = Subject(observed[c]) /\ Keyed(observed[c])
      BY <1>3, <2>1 DEF SignatureOK
    <3> QED BY <2>1, <3>1, <3>2, KeyedSubject
  <2>2. CASE p # "passed"
    <3>1. p = "failed" => observed[c].form # "passed"
      BY DEF PathOf
    <3>2. p # "failed" => signature[c] = NoSubject
      BY <1>3, <2>2 DEF SignatureOK
    <3> QED BY <2>2, <3>1, <3>2
  <2> QED BY <2>1, <2>2
<1>6. /\ end.receipt_kind = "session.end"
      /\ end.body = [observation_succeeded |-> succeeded]
      /\ checkpoint.receipt_kind = "checkpoint" /\ checkpoint.body = CheckpointBody(end, n)
  BY ReceiptFields
<1>7. end.body = [observation_succeeded |-> p = "passed"]
  BY <1>5, <1>6
<1>8. checkpoint.body = [head_state_root |-> end.state_root, receipt_count |-> n + 2]
  BY <1>6 DEF CheckpointBody
<1>9. out = [observation_succeeded |-> p = "passed", bytes |-> observed[c],
             subject |-> signature[c], head |-> checkpoint.state_root]
  BY <1>5
<1> HIDE DEF end, checkpoint, out, succeeded, p
<1> DEFINE w == Append(Append(q, end), checkpoint)
<1>10. q \o <<end, checkpoint>> = w /\ ASequence(q)
  <2>1. ASequence(q)
    BY <1>3 DEF Told
  <2> QED BY <2>1, AppendTwo
<1>11. /\ Told(Append(q, end), p, signature[c], attempts[c], observed[c])
       /\ Len(Append(q, end)) = n + 1
  <2>1. n < Len(Flow(p)) /\ n + 1 \in 1 .. Len(Flow(p)) /\ n + 1 = Len(Flow(p)) - 1
    <3> HIDE DEF n
    <3> QED BY <1>3, <1>4
  <2>2. end.receipt_kind = Flow(p)[n + 1]
    BY <1>3, <1>6, <2>1, FlowFacts
  <2>3. BodyOK(end, signature[c], attempts[c], observed[c])
    BY <1>6 DEF BodyOK, VerdictKinds
  <2> QED BY <1>3, <2>1, <2>2, <2>3, ToldNext
<1>12. /\ Told(w, p, signature[c], attempts[c], observed[c])
       /\ Len(w) = n + 2
  <2> DEFINE v == Append(q, end)
  <2>1. /\ Len(v) < Len(Flow(p)) /\ Len(v) + 1 \in 1 .. Len(Flow(p))
        /\ Len(v) + 1 = Len(Flow(p)) /\ Len(v) + 1 = n + 2
    <3> HIDE DEF n, v
    <3> QED BY <1>3, <1>4, <1>11 DEF v
  <2>2. checkpoint.receipt_kind = Flow(p)[Len(v) + 1]
    BY <1>3, <1>6, <2>1, FlowFacts
  <2>3. BodyOK(checkpoint, signature[c], attempts[c], observed[c])
    BY <1>6 DEF BodyOK, VerdictKinds
  <2> HIDE DEF v
  <2>4. Told(v, p, signature[c], attempts[c], observed[c])
    BY <1>11 DEF v
  <2>5. /\ Told(Append(v, checkpoint), p, signature[c], attempts[c], observed[c])
        /\ Len(Append(v, checkpoint)) = Len(v) + 1
    BY <1>3, <2>1, <2>2, <2>3, <2>4, ToldNext
  <2> QED BY <2>1, <2>5 DEF v
<1>13. w[n + 1] = end /\ w[n + 2] = checkpoint
  <2>1. /\ ASequence(Append(q, end)) /\ Append(q, end)[n + 1] = end
        /\ Len(Append(q, end)) = n + 1
    BY <1>10, AppendSequence
  <2>2. /\ \A i \in 1 .. n + 1 : w[i] = Append(q, end)[i]
        /\ w[(n + 1) + 1] = checkpoint
    BY <2>1, AppendSequence
  <2>3. n + 1 \in 1 .. n + 1 /\ (n + 1) + 1 = n + 2
    BY <1>3
  <2> QED BY <2>1, <2>2, <2>3
<1> HIDE DEF w
<1>14. ClosingOK(w, signature[c], p, observed[c], out)
  <2>1. Len(w) - 1 = n + 1
    BY <1>3, <1>12
  <2>2. w[Len(w) - 1] = end /\ w[Len(w)] = checkpoint
    BY <1>12, <1>13, <2>1
  <2> QED BY <1>7, <1>8, <1>9, <1>12, <2>2, Zenon DEF ClosingOK
<1>15. /\ Position("returned", p, Len(w))
       /\ SignatureOK("returned", signature[c], p, observed[c])
  BY <1>3, <1>4, <1>12 DEF Position, SignatureOK
<1>16. StoryOK("returned", w, signature[c], fetching[c], attempts[c], observed[c], out)
  BY <1>4, <1>12, <1>14, <1>15 DEF StoryOK, p
<1>17. /\ chain'[c] = w /\ output'[c] = out /\ pc'[c] = "returned"
       /\ OthersTell(c) /\ DOMAIN output' = Cycles
  BY <1>1, <1>2, <1>10 DEF OthersTell, StoryInv, Goto, GatewayInv, TypesInv
<1> QED BY <1>1, <1>2, <1>16, <1>17, TellOfOne

\* An exception, or a crash.
LEMMA StopsTell ==
    ASSUME GatewayInv, StoryInv, NEW c \in Cycles,
           \/ StartUnbound(c) \/ Undecodable(c) \/ GuardKeyRefused(c) \/ Equivocation(c)
           \/ StoreError(c) \/ VerdictRefused(c) \/ Crash(c)
    PROVE  StoryInv'
<1> DEFINE p == PathOf(fetching[c], observed[c])
<1>1. /\ \/ \E what \in Exceptions : Raise(c, what)
         \/ Goto(c, "crashed")
      /\ UNCHANGED receiptVars /\ UNCHANGED observerVars
      /\ pc[c] \in Running \cup {"idle"}
  BY DEF StartUnbound, Undecodable, GuardKeyRefused, Equivocation, StoreError, VerdictRefused,
         Crash, Exceptions, Judged, Running
<1>2. /\ UNCHANGED <<chain, signature, output>> /\ UNCHANGED <<fetching, attempts, observed>>
  BY <1>1 DEF receiptVars, observerVars
<1>3. PICK where \in {"raised", "crashed"} : Goto(c, where)
  BY <1>1 DEF Raise
<1>4. /\ Told(chain[c], p, signature[c], attempts[c], observed[c])
      /\ Position(pc[c], p, Len(chain[c])) /\ pc[c] # "returned"
      /\ Len(chain[c]) > 2 => fetching[c] \in {"fetched", "exhausted"}
  BY <1>1, BeforeStep DEF Running
<1> HIDE DEF p
<1>5. /\ Position(where, p, Len(chain[c]))
      /\ SignatureOK(where, signature[c], p, observed[c]) /\ where # "returned"
  BY <1>3, <1>4 DEF Position, SignatureOK
<1>6. StoryOK(where, chain[c], signature[c], fetching[c], attempts[c], observed[c], output[c])
  BY <1>4, <1>5 DEF StoryOK, p
<1>7. /\ OthersTell(c) /\ DOMAIN output' = Cycles /\ pc'[c] = where
  BY <1>2, <1>3 DEF OthersTell, StoryInv, Goto, GatewayInv, TypesInv
<1> QED BY <1>2, <1>6, <1>7, TellOfOne

\* Where run_cycle (gateway.py) is says how far its chain is on which flow,
\* and what the chain tells.
THEOREM StoryInductive == Spec => []StoryInv
<1>1. Init => StoryInv
  <2> SUFFICES ASSUME Init PROVE StoryInv
    OBVIOUS
  <2>1. ASSUME NEW c \in Cycles
        PROVE  StoryOK(pc[c], chain[c], signature[c], fetching[c], attempts[c], observed[c],
                       output[c])
    <3>1. /\ chain[c] = <<>> /\ pc[c] = "idle" /\ signature[c] = NoSubject /\ fetching[c] = "no"
      BY <2>1 DEF Init, ObserverInit, Cycles
    <3>2. Len(<<>>) = 0 /\ ASequence(<<>>)
      BY EmptySeq DEF ASequence
    <3>3. PathOf(fetching[c], observed[c]) = "unavailable"
      BY <3>1 DEF PathOf
    <3>4. 0 <= Len(Flow("unavailable")) /\ 0 + 2 <= Len(Flow("unavailable"))
      <4>1. Len(Flow("unavailable")) = 5
        BY FlowFacts
      <4> QED BY <4>1
    <3>5. /\ Told(<<>>, "unavailable", NoSubject, attempts[c], observed[c])
          /\ Position("idle", "unavailable", 0)
          /\ SignatureOK("idle", NoSubject, "unavailable", observed[c])
      BY <3>2, <3>4 DEF Told, Position, SignatureOK
    <3> QED BY <3>1, <3>2, <3>3, <3>5 DEF StoryOK
  <2> QED BY <2>1 DEF Init, StoryInv
<1>2. ASSUME GatewayInv, StoryInv, [Next]_vars
      PROVE  StoryInv'
  <2>1. ASSUME NEW c \in Cycles,
               Start(c) \/ StartUnbound(c) \/ RunCycle(c) \/ Crash(c)
        PROVE  StoryInv'
    BY <1>2, <2>1, StartTells, FetchTells, FetchRaisesTells, RequestTells, UnavailableTells,
       RespondTells, ExceptionTells, CommitTells, IssueTells, VerdictTells, ObservationTells, FinalizeTells,
       StopsTell DEF RunCycle
  <2>2. CASE UNCHANGED vars
    <3>1. /\ UNCHANGED <<pc, chain, signature, output>>
          /\ UNCHANGED <<fetching, attempts, observed>>
      BY <2>2 DEF vars, cycleVars, observerVars
    <3> QED BY <1>2, <3>1 DEF StoryInv
  <2> QED BY <1>2, <2>1, <2>2 DEF Next
<1> QED BY <1>1, <1>2, GatewayInductive, PTL DEF Spec

-----------------------------------------------------------------------------
(* What follows for the chain and the output.                              *)

\* Two sequences with the same first n elements.
LEMMA SamePrefix ==
    ASSUME NEW S, NEW s, NEW t, NEW n \in Nat,
           \A i \in 1 .. n : s[i] = t[i] /\ t[i] \in S
    PROVE  SubSeq(s, 1, n) = SubSeq(t, 1, n)
<1>1. /\ 1 \in Int /\ n \in Int /\ n - 1 + 1 = n /\ (1 <= n \/ n = 0)
      /\ \A i \in 1 .. n : s[i] \in S /\ t[i] \in S
  OBVIOUS
<1>2. /\ SubSeq(s, 1, n) \in Seq(S)
      /\ Len(SubSeq(s, 1, n)) = IF 1 <= n THEN n - 1 + 1 ELSE 0
      /\ \A i \in 1 .. n - 1 + 1 : SubSeq(s, 1, n)[i] = s[1 + i - 1]
  BY <1>1, SubSeqProperties
<1>3. /\ SubSeq(t, 1, n) \in Seq(S)
      /\ Len(SubSeq(t, 1, n)) = IF 1 <= n THEN n - 1 + 1 ELSE 0
      /\ \A i \in 1 .. n - 1 + 1 : SubSeq(t, 1, n)[i] = t[1 + i - 1]
  BY <1>1, SubSeqProperties
<1>4. /\ Len(SubSeq(s, 1, n)) = n /\ Len(SubSeq(t, 1, n)) = n
      /\ \A i \in 1 .. n : SubSeq(s, 1, n)[i] = SubSeq(t, 1, n)[i]
  BY <1>1, <1>2, <1>3
<1> QED BY <1>2, <1>3, <1>4, SeqEqual

\* The kinds of a chain, which are those of its flow.
LEMMA KindsOfFlow ==
    ASSUME GatewayInv, StoryInv, NEW c \in Cycles, NEW p, p = PathOf(fetching[c], observed[c])
    PROVE  /\ KindsOf(c) \in Seq(Kinds) /\ Len(KindsOf(c)) = Len(chain[c])
           /\ Len(chain[c]) \in Nat /\ Len(chain[c]) <= Len(Flow(p))
           /\ \A i \in 1 .. Len(chain[c]) : KindsOf(c)[i] = Flow(p)[i] /\ Flow(p)[i] \in Kinds
<1> DEFINE n == Len(chain[c])
<1>1. /\ p \in Paths /\ Told(chain[c], p, signature[c], attempts[c], observed[c])
      /\ Len(Flow(p)) \in 5 .. 7
  BY BeforeStep
<1>2. n \in Nat /\ DOMAIN chain[c] = 1 .. n
  BY <1>1, SequenceLength DEF Told
<1>3. n <= Len(Flow(p)) /\ \A i \in 1 .. n : chain[c][i].receipt_kind = Flow(p)[i]
  BY <1>1 DEF Told
<1>4. ASSUME NEW i \in 1 .. n
      PROVE  Flow(p)[i] \in Kinds
  <2> DEFINE l == Len(Flow(p))
  <2>1. l \in 5 .. 7 /\ n <= l
    BY <1>1, <1>3
  <2> HIDE DEF n, l
  <2>2. i \in 1 .. l
    BY <1>2, <2>1
  <2> QED BY <1>1, <2>2, FlowFacts DEF l
<1>5. KindsOf(c) = [i \in 1 .. n |-> chain[c][i].receipt_kind]
  BY <1>2 DEF KindsOf
<1>6. \A i \in 1 .. n : KindsOf(c)[i] = Flow(p)[i] /\ KindsOf(c)[i] \in Kinds
  BY <1>3, <1>4, <1>5
<1> HIDE DEF n
<1>7. KindsOf(c) \in [1 .. n -> Kinds]
  BY <1>5, <1>6
<1>8. KindsOf(c) \in Seq(Kinds) /\ Len(KindsOf(c)) = n
  BY <1>2, <1>7
<1> QED BY <1>2, <1>3, <1>4, <1>6, <1>8 DEF n

\* A chain under way is the beginning of one documented flow, and the chain
\* that run_cycle (gateway.py) returns is all of it.
THEOREM FlowsAreTold == Spec => []FlowsAreDocumented
<1>1. ASSUME GatewayInv, StoryInv, NEW c \in Cycles
      PROVE  /\ \E f \in Flows : IsPrefix(KindsOf(c), f)
             /\ pc[c] = "returned" <=> KindsOf(c) \in Flows
  <2> DEFINE p == PathOf(fetching[c], observed[c])
             k == KindsOf(c)
             n == Len(chain[c])
             f == Flow(p)
  <2>1. /\ k \in Seq(Kinds) /\ Len(k) = n /\ n \in Nat /\ n <= Len(f)
        /\ \A i \in 1 .. n : k[i] = f[i] /\ f[i] \in Kinds
    BY <1>1, KindsOfFlow
  <2>2. p \in Paths /\ f \in Flows /\ Position(pc[c], p, n) /\ Len(f) \in 5 .. 7
    BY <1>1, BeforeStep, FlowsAre
  <2>3. IsPrefix(k, f)
    <3>1. SubSeq(k, 1, n) = SubSeq(f, 1, n)
      BY <2>1, SamePrefix
    <3> QED BY <2>1, <3>1 DEF IsPrefix
  <2>4. CASE pc[c] = "returned"
    <3>1. n = Len(f)
      BY <2>2, <2>4 DEF Position
    <3>2. f \in Seq(Kinds)
      BY <2>2, FlowInKinds
    <3>3. k = f
      BY <2>1, <3>1, <3>2, SeqEqual
    <3> QED BY <2>2, <2>3, <2>4, <3>3
  <2>5. CASE pc[c] # "returned"
    <3> SUFFICES ASSUME NEW o \in Paths, k = Flow(o)
                 PROVE  FALSE
      BY <2>2, <2>3, <2>5, FlowsAre
    <3>1. n + 2 <= Len(f)
      BY <2>2, <2>5 DEF Position
    <3>2. /\ n = Len(Flow(o)) /\ n \in 5 .. 7
      BY <2>1, FlowFacts
    <3>3. n \in 1 .. n /\ n \in 1 .. Len(f) /\ n # Len(f) /\ n \in 1 .. Len(Flow(o))
      <4> DEFINE l == Len(f)
      <4>1. l \in 5 .. 7 /\ n + 2 <= l /\ n \in 5 .. 7
        BY <2>2, <3>1, <3>2
      <4> HIDE DEF l, n
      <4>2. n \in 1 .. n /\ n \in 1 .. l /\ n # l
        BY <4>1
      <4> QED BY <3>2, <4>2 DEF l
    <3>4. Flow(o)[n] = "checkpoint"
      BY <3>2, <3>3, FlowFacts
    <3>5. f[n] # "checkpoint"
      BY <2>2, <3>3, FlowFacts
    <3> QED BY <2>1, <3>3, <3>4, <3>5
  <2> QED BY <2>2, <2>3, <2>4, <2>5
<1>2. GatewayInv /\ StoryInv => FlowsAreDocumented
  BY <1>1 DEF FlowsAreDocumented
<1> QED BY <1>2, GatewayInductive, StoryInductive, PTL

\* What data.request tells of the attempts is what the rest of the chain
\* (run_cycle, gateway.py) says of the fetch.
THEOREM RequestsTell == Spec => []RequestTellsAttempts
<1>1. ASSUME GatewayInv, StoryInv, NEW c \in Cycles, Len(chain[c]) > 2
      PROVE  LET history == chain[c][2].body.attempts
                 oks == {i \in DOMAIN history : history[i] = "ok"}
             IN  IF chain[c][3].receipt_kind = "source.unavailable"
                 THEN oks = {} /\ Len(history) = RETRY_ATTEMPTS
                 ELSE oks = {Len(history)}
  <2> DEFINE p == PathOf(fetching[c], observed[c])
             history == attempts[c]
             succeeded == {i \in 1 .. Len(history) : history[i] = "ok"}
  <2>1. /\ p \in Paths /\ Told(chain[c], p, signature[c], attempts[c], observed[c])
        /\ fetching[c] \in {"fetched", "exhausted"}
        /\ Len(chain[c]) \in Nat
    BY <1>1, BeforeStep
  <2>2. 2 \in 1 .. Len(chain[c]) /\ 3 \in 1 .. Len(chain[c])
    BY <1>1, <2>1
  <2>3. Flow(p)[2] = "data.request" /\ (Flow(p)[3] = "source.unavailable" <=> p = "unavailable")
    BY <2>1, FlowFacts
  <2>4. /\ chain[c][2].body.attempts = history
        /\ chain[c][3].receipt_kind = "source.unavailable" <=> p = "unavailable"
    <3>1. chain[c][2].receipt_kind = "data.request" /\ chain[c][3].receipt_kind = Flow(p)[3]
      BY <2>1, <2>2, <2>3 DEF Told
    <3>2. chain[c][2].body = [attempts |-> attempts[c]]
      BY <2>1, <2>2, <3>1 DEF Told, BodyOK
    <3> QED BY <2>3, <3>1, <3>2
  <2>5. p = "unavailable" <=> fetching[c] = "exhausted"
    BY <2>1 DEF PathOf
  <2>6. /\ fetching[c] = "exhausted" <=> Len(history) = RETRY_ATTEMPTS /\ succeeded = {}
        /\ fetching[c] = "fetched" <=> succeeded # {}
        /\ succeeded # {} => succeeded = {Len(history)}
    BY <1>1, InvEarned DEF GatewayInv, OutcomeIsEarned, Cycles
  <2>7. DOMAIN history = 1 .. Len(history)
    <3>1. history \in Seq(Failures \cup {"ok"})
      BY <1>1 DEF GatewayInv, ObserverInv, ObserverTypeOK, Cycles
    <3> QED BY <3>1, LenProperties
  <2> HIDE DEF p
  <2> QED BY <2>1, <2>4, <2>5, <2>6, <2>7
<1>2. GatewayInv /\ StoryInv => RequestTellsAttempts
  BY <1>1 DEF RequestTellsAttempts
<1> QED BY <1>2, GatewayInductive, StoryInductive, PTL

\* Which flow a kind is of.
LEMMA KindsTell ==
    /\ \A p \in Paths :
          /\ (\E i \in 1 .. Len(Flow(p)) : Flow(p)[i] = "observation") <=> p = "passed"
          /\ (\E i \in 1 .. Len(Flow(p)) : Flow(p)[i] = "source.unavailable")
                <=> p = "unavailable"
    /\ \A p \in {"failed", "passed"} : 4 \in 1 .. Len(Flow(p)) /\ Flow(p)[4] \in VerdictKinds
    /\ \A p \in {"unavailable", "exception"} : \A i \in 1 .. Len(Flow(p)) :
          Flow(p)[i] \notin VerdictKinds
<1>1. \A i \in 1 .. 5 : i = 1 \/ i = 2 \/ i = 3 \/ i = 4 \/ i = 5
  OBVIOUS
<1>2. \A i \in 1 .. 6 : i = 1 \/ i = 2 \/ i = 3 \/ i = 4 \/ i = 5 \/ i = 6
  OBVIOUS
<1>3. \A i \in 1 .. 7 : i = 1 \/ i = 2 \/ i = 3 \/ i = 4 \/ i = 5 \/ i = 6 \/ i = 7
  OBVIOUS
<1>4. /\ Len(Flow("unavailable")) = 5 /\ 3 \in 1 .. 5
      /\ Flow("unavailable")[3] = "source.unavailable"
      /\ \A i \in 1 .. 5 : Flow("unavailable")[i] \in
            {"session.start", "data.request", "source.unavailable", "session.end", "checkpoint"}
  <2>1. /\ Len(Flow("unavailable")) = 5
        /\ Flow("unavailable")[1] = "session.start" /\ Flow("unavailable")[2] = "data.request"
        /\ Flow("unavailable")[3] = "source.unavailable"
        /\ Flow("unavailable")[4] = "session.end" /\ Flow("unavailable")[5] = "checkpoint"
    BY DEF Flow
  <2> QED BY <1>1, <2>1
<1>5. /\ Len(Flow("exception")) = 6
      /\ \A i \in 1 .. 6 : Flow("exception")[i] \in
            {"session.start", "data.request", "data.response", "validator.exception",
             "session.end", "checkpoint"}
  <2>1. /\ Len(Flow("exception")) = 6
        /\ Flow("exception")[1] = "session.start" /\ Flow("exception")[2] = "data.request"
        /\ Flow("exception")[3] = "data.response" /\ Flow("exception")[4] = "validator.exception"
        /\ Flow("exception")[5] = "session.end" /\ Flow("exception")[6] = "checkpoint"
    BY DEF Flow
  <2> QED BY <1>2, <2>1
<1>6. /\ Len(Flow("failed")) = 6 /\ 4 \in 1 .. 6 /\ Flow("failed")[4] = "validation.failed"
      /\ \A i \in 1 .. 6 : Flow("failed")[i] \in
            {"session.start", "data.request", "data.response", "validation.failed",
             "session.end", "checkpoint"}
  <2>1. /\ Len(Flow("failed")) = 6
        /\ Flow("failed")[1] = "session.start" /\ Flow("failed")[2] = "data.request"
        /\ Flow("failed")[3] = "data.response" /\ Flow("failed")[4] = "validation.failed"
        /\ Flow("failed")[5] = "session.end" /\ Flow("failed")[6] = "checkpoint"
    BY DEF Flow
  <2> QED BY <1>2, <2>1
<1>7. /\ Len(Flow("passed")) = 7 /\ 4 \in 1 .. 7 /\ Flow("passed")[4] = "validation.result"
      /\ 5 \in 1 .. 7 /\ Flow("passed")[5] = "observation"
      /\ \A i \in 1 .. 7 : Flow("passed")[i] # "source.unavailable"
  <2>1. /\ Len(Flow("passed")) = 7
        /\ Flow("passed")[1] = "session.start" /\ Flow("passed")[2] = "data.request"
        /\ Flow("passed")[3] = "data.response" /\ Flow("passed")[4] = "validation.result"
        /\ Flow("passed")[5] = "observation" /\ Flow("passed")[6] = "session.end"
        /\ Flow("passed")[7] = "checkpoint"
    BY DEF Flow
  <2> QED BY <1>3, <2>1
<1>8. \A p \in Paths :
          /\ (\E i \in 1 .. Len(Flow(p)) : Flow(p)[i] = "observation") <=> p = "passed"
          /\ (\E i \in 1 .. Len(Flow(p)) : Flow(p)[i] = "source.unavailable")
                <=> p = "unavailable"
  <2>1. /\ ~ \E i \in 1 .. Len(Flow("unavailable")) : Flow("unavailable")[i] = "observation"
        /\ \E i \in 1 .. Len(Flow("unavailable")) : Flow("unavailable")[i] = "source.unavailable"
    BY <1>4
  <2>2. /\ ~ \E i \in 1 .. Len(Flow("exception")) : Flow("exception")[i] = "observation"
        /\ ~ \E i \in 1 .. Len(Flow("exception")) : Flow("exception")[i] = "source.unavailable"
    BY <1>5
  <2>3. /\ ~ \E i \in 1 .. Len(Flow("failed")) : Flow("failed")[i] = "observation"
        /\ ~ \E i \in 1 .. Len(Flow("failed")) : Flow("failed")[i] = "source.unavailable"
    BY <1>6
  <2>4. /\ \E i \in 1 .. Len(Flow("passed")) : Flow("passed")[i] = "observation"
        /\ ~ \E i \in 1 .. Len(Flow("passed")) : Flow("passed")[i] = "source.unavailable"
    BY <1>7
  <2> QED BY <2>1, <2>2, <2>3, <2>4 DEF Paths
<1>9. \A p \in {"failed", "passed"} : 4 \in 1 .. Len(Flow(p)) /\ Flow(p)[4] \in VerdictKinds
  BY <1>6, <1>7 DEF VerdictKinds
<1>10. \A p \in {"unavailable", "exception"} : \A i \in 1 .. Len(Flow(p)) :
          Flow(p)[i] \notin VerdictKinds
  BY <1>4, <1>5 DEF VerdictKinds
<1> QED BY <1>8, <1>9, <1>10

\* The CycleOutput agrees with the chain it comes with, and the checkpoint
\* with the chain it closes (_finalize, gateway.py).
THEOREM OutputsAgree == Spec => []OutputAgreesWithChain
<1>1. ASSUME GatewayInv, StoryInv, NEW c \in Cycles, pc[c] = "returned"
      PROVE  LET n == Len(chain[c])
                 has(kind) == \E i \in 1..n : chain[c][i].receipt_kind = kind
                 out == output[c]
             IN  /\ out.observation_succeeded <=> has("observation")
                 /\ out.observation_succeeded = chain[c][n - 1].body.observation_succeeded
                 /\ out.bytes = NoBody <=> has("source.unavailable")
                 /\ \A i \in 1..n : "bytes" \in DOMAIN chain[c][i].body
                                       => chain[c][i].body.bytes = out.bytes
                 /\ {chain[c][i].witness : i \in 1..n} = {NoSubject, out.subject}
                 /\ out.head = chain[c][n].state_root
                 /\ chain[c][n].body = [head_state_root |-> chain[c][n - 1].state_root,
                                        receipt_count |-> n]
  <2> DEFINE p == PathOf(fetching[c], observed[c])
             q == chain[c]
             n == Len(q)
             out == output[c]
             sig == signature[c]
  <2>1. /\ p \in Paths /\ Told(q, p, sig, attempts[c], observed[c])
        /\ Position("returned", p, n) /\ SignatureOK("returned", sig, p, observed[c])
        /\ n \in Nat /\ Len(Flow(p)) \in 5 .. 7
    BY <1>1, BeforeStep
  <2>2. ClosingOK(q, sig, p, observed[c], out)
    BY <1>1 DEF StoryInv, StoryOK
  <2>3. /\ q[n - 1].body = [observation_succeeded |-> p = "passed"]
        /\ q[n].body = [head_state_root |-> q[n - 1].state_root, receipt_count |-> n]
        /\ out = [observation_succeeded |-> p = "passed", bytes |-> observed[c],
                  subject |-> sig, head |-> q[n].state_root]
    BY <2>2 DEF ClosingOK
  <2>4. n = Len(Flow(p)) /\ \A i \in 1 .. n : q[i].receipt_kind = Flow(p)[i]
    BY <2>1 DEF Told, Position
  <2>5. n \in 5 .. 7
    BY <2>1, <2>4
  <2>6. \A i \in 1 .. n : BodyOK(q[i], sig, attempts[c], observed[c])
    BY <2>1 DEF Told
  <2> HIDE DEF p, q, n, out, sig
  <2>7. /\ out.observation_succeeded <=> p = "passed"
        /\ out.observation_succeeded = q[n - 1].body.observation_succeeded
        /\ out.bytes = observed[c] /\ out.subject = sig /\ out.head = q[n].state_root
    <3> DEFINE passed == p = "passed"
    <3>1. /\ q[n - 1].body = [observation_succeeded |-> passed]
          /\ out = [observation_succeeded |-> passed, bytes |-> observed[c],
                    subject |-> sig, head |-> q[n].state_root]
      BY <2>3
    <3>2. passed <=> p = "passed"
      OBVIOUS
    <3> HIDE DEF passed
    <3>3. q[n - 1].body.observation_succeeded = passed
      BY <3>1, SMT
    <3>4. out.observation_succeeded = passed
      BY <3>1, Zenon
    <3>5. out.bytes = observed[c] /\ out.subject = sig /\ out.head = q[n].state_root
      BY <3>1, Zenon
    <3>6. out.observation_succeeded <=> p = "passed"
      BY <3>2, <3>4
    <3>7. out.observation_succeeded = q[n - 1].body.observation_succeeded
      BY <3>3, <3>4
    <3> QED BY <3>5, <3>6, <3>7
  <2>8. /\ (\E i \in 1 .. n : q[i].receipt_kind = "observation") <=> p = "passed"
        /\ (\E i \in 1 .. n : q[i].receipt_kind = "source.unavailable") <=> p = "unavailable"
    <3>1. /\ (\E i \in 1 .. n : Flow(p)[i] = "observation") <=> p = "passed"
          /\ (\E i \in 1 .. n : Flow(p)[i] = "source.unavailable") <=> p = "unavailable"
      <4>1. p \in Paths /\ n = Len(Flow(p))
        BY <2>1, <2>4
      <4> QED BY <4>1, KindsTell, Zenon
    <3>2. \A i \in 1 .. n : q[i].receipt_kind = Flow(p)[i]
      BY <2>4
    <3> QED BY <3>1, <3>2, Zenon
  <2>9. observed[c] = NoBody <=> p = "unavailable"
    <3>1. observed[c] # NoBody <=> fetching[c] = "fetched"
      BY <1>1, InvEarned DEF GatewayInv, OutcomeIsEarned, Cycles
    <3> QED BY <3>1 DEF p, PathOf
  <2>10. ASSUME NEW i \in 1 .. n, "bytes" \in DOMAIN q[i].body
         PROVE  q[i].body.bytes = observed[c]
    <3>1. i # n
      BY <2>3, <2>10
    <3>2. i # n - 1
      BY <2>3, <2>10
    <3>3. Flow(p)[i] \notin {"session.end", "checkpoint"} /\ Flow(p)[i] \in Kinds
      BY <2>1, <2>4, <3>1, <3>2, FlowFacts
    <3>4. q[i].receipt_kind \in Kinds \ {"session.end", "checkpoint"}
      BY <2>4, <3>3
    <3>5. CASE q[i].receipt_kind \in {"session.start", "source.unavailable"}
      BY <2>6, <2>10, <3>5 DEF BodyOK
    <3>6. CASE q[i].receipt_kind = "data.request"
      BY <2>6, <2>10, <3>6 DEF BodyOK
    <3>7. CASE q[i].receipt_kind \in {"data.response", "validator.exception"}
      BY <2>6, <3>7 DEF BodyOK
    <3>8. CASE q[i].receipt_kind \in VerdictKinds
      BY <2>6, <3>8 DEF BodyOK, VerdictBody
    <3> QED BY <3>4, <3>5, <3>6, <3>7, <3>8 DEF Kinds, VerdictKinds
  <2>11. {q[i].witness : i \in 1 .. n} = {NoSubject, sig}
    <3>1. \A i \in 1 .. n : q[i].receipt_kind \notin VerdictKinds => q[i].witness = NoSubject
      BY <1>1 DEF GatewayInv, CycleInv, ChainOK, ReceiptOK, WitnessOK, q, n
    <3>2. \A i \in 1 .. n : q[i].receipt_kind \in VerdictKinds => q[i].witness = sig
      BY <2>6 DEF BodyOK
    <3>3. 1 \in 1 .. n /\ q[1].witness = NoSubject
      <4>1. 1 \in 1 .. n
        BY <2>5
      <4>2. q[1].receipt_kind = "session.start"
        BY <2>1, <2>4, <4>1, FlowFacts
      <4> QED BY <3>1, <4>1, <4>2 DEF VerdictKinds
    <3>4. \E i \in 1 .. n : q[i].witness = sig
      <4>1. CASE p \in {"failed", "passed"}
        <5>1. 4 \in 1 .. n /\ q[4].receipt_kind \in VerdictKinds
          BY <2>4, <4>1, KindsTell
        <5> QED BY <3>2, <5>1
      <4>2. CASE p \notin {"failed", "passed"}
        <5>1. sig = NoSubject
          BY <2>1, <4>2 DEF SignatureOK
        <5> QED BY <3>3, <5>1
      <4> QED BY <4>1, <4>2
    <3> QED BY <3>1, <3>2, <3>3, <3>4
  <2>12. /\ out.bytes = NoBody <=> \E i \in 1 .. n : q[i].receipt_kind = "source.unavailable"
         /\ out.observation_succeeded <=> \E i \in 1 .. n : q[i].receipt_kind = "observation"
         /\ \A i \in 1 .. n : "bytes" \in DOMAIN q[i].body => q[i].body.bytes = out.bytes
         /\ {q[i].witness : i \in 1 .. n} = {NoSubject, out.subject}
    BY <2>7, <2>8, <2>9, <2>10, <2>11
  <2> QED BY <2>3, <2>7, <2>12, Zenon DEF p, q, n, out, sig
<1>2. GatewayInv /\ StoryInv => OutputAgreesWithChain
  BY <1>1 DEF OutputAgreesWithChain
<1> QED BY <1>2, GatewayInductive, StoryInductive, PTL
=============================================================================

--------------------------- MODULE ValidatorProofs ---------------------------
(***************************************************************************)
(* Theorems about Validator, for any set of snapshots, tolerance and slot: *)
(* what a snapshot that passes is known to satisfy, and which ones never   *)
(* raise.  The inductive invariant ties each result to its check; the rest *)
(* is about what each check computes.                                      *)
(***************************************************************************)
EXTENDS Validator, Functions, FiniteSetTheorems, SequenceTheorems, TLAPS

\* Every result is one that its check can come to.
ResultsInv ==
    /\ TypeOK
    /\ \A i \in 1 .. Len(results) : results[i] \in ResultsOf(CheckNames[i], document)
    /\ outcome = "passed" =>
          check = 6 /\ \A i \in 1 .. 5 : Pass \in ResultsOf(CheckNames[i], document)
    /\ outcome = "failed" => \E i \in 1 .. 5 : Fail \in ResultsOf(CheckNames[i], document)
    /\ outcome = "raised" => \E i \in 1 .. 5 : Raise \in ResultsOf(CheckNames[i], document)

\* What is computed with passes or fails; it does not raise.
LEMMA TwoVerdicts ==
    /\ \A x, y : AtMost(x, y) \subseteq {Pass, Fail}
    /\ \A r, z : Reproduced(r, z) \subseteq {Pass, Fail}
    /\ \A t, r, x : Near(t, r, x) \subseteq {Pass, Fail}
    /\ \A t, v : IsClose(t, v) \subseteq {Pass, Fail}
    /\ \A t, v : SameCount(t, v) \subseteq {Pass, Fail}
<1>1. \A x, y : AtMost(x, y) \subseteq {Pass, Fail}
  BY DEF AtMost, Verdict
<1>2. \A r, z : Within(r, z) \subseteq {Pass, Fail}
  BY <1>1 DEF Within
<1>3. \A r, z : Reproduced(r, z) \subseteq {Pass, Fail}
  BY <1>2 DEF Reproduced, Verdict
<1>4. \A t, r, x : Near(t, r, x) \subseteq {Pass, Fail}
  BY <1>1 DEF Near, OrElse
<1>5. \A t, v : IsClose(t, v) \subseteq {Pass, Fail}
  BY <1>4 DEF IsClose, Verdict
<1>6. \A t, v : SameCount(t, v) \subseteq {Pass, Fail}
  <2> SUFFICES ASSUME NEW t, NEW v PROVE SameCount(t, v) \subseteq {Pass, Fail}
    OBVIOUS
  <2> QED BY DEF SameCount, Verdict
<1> QED BY <1>1, <1>3, <1>4, <1>5, <1>6

LEMMA FiveChecks == Len(CheckNames) = 5
BY DEF CheckNames

\* A check returns, or raises.
LEMMA CheckResults ==
    ASSUME NEW d \in Document, NEW i \in 1 .. 5
    PROVE  ResultsOf(CheckNames[i], d) \subseteq {Pass, Fail, Raise}
<1>1. SchemaIntegrity(d) \subseteq {Pass, Fail, Raise}
  BY DEF SchemaIntegrity, Verdict
<1>2. SelfContained(d) \subseteq {Pass, Fail, Raise}
  BY DEF SelfContained, Verdict
<1>3. ZScoreReproducibility(d) \subseteq {Pass, Fail, Raise}
  BY TwoVerdicts DEF ZScoreReproducibility, NoFloat
<1>4. ArchiveCoherence(d) \subseteq {Pass, Fail, Raise}
  <2>1. \A t, v : Comparison(t, v) \subseteq {Pass, Fail, Raise}
    BY TwoVerdicts DEF Comparison
  <2>2. \A X, Y : X \subseteq {Pass, Fail, Raise} /\ Y \subseteq {Pass, Fail, Raise}
                    => AndThen(X, Y) \subseteq {Pass, Fail, Raise}
    BY DEF AndThen
  <2>3. AndThen(Comparison(d.s, d.std), Comparison(d.tail, d.z)) \subseteq {Pass, Fail, Raise}
    BY <2>1, <2>2
  <2>4. AndThen(Comparison(d.p, d.mean),
                AndThen(Comparison(d.s, d.std), Comparison(d.tail, d.z)))
          \subseteq {Pass, Fail, Raise}
    BY <2>1, <2>2, <2>3
  <2>5. SameCount(d.c, d.count) \subseteq {Pass, Fail, Raise}
    BY TwoVerdicts
  <2>6. AndThen(SameCount(d.c, d.count),
          AndThen(Comparison(d.p, d.mean),
                AndThen(Comparison(d.s, d.std), Comparison(d.tail, d.z))))
          \subseteq {Pass, Fail, Raise}
    BY <2>2, <2>4, <2>5
  <2> QED BY <2>6 DEF ArchiveCoherence, NoFloat
<1>5. ArchiveCoverage(d) \subseteq {Pass, Fail, Raise}
  BY DEF ArchiveCoverage, Verdict
<1>6. i = 1 \/ i = 2 \/ i = 3 \/ i = 4 \/ i = 5
  OBVIOUS
<1> QED BY <1>1, <1>2, <1>3, <1>4, <1>5, <1>6 DEF ResultsOf, CheckNames

\* Where each check stands.
LEMMA ChecksInOrder ==
    ASSUME NEW d
    PROVE  /\ ResultsOf(CheckNames[1], d) = SchemaIntegrity(d)
           /\ ResultsOf(CheckNames[2], d) = SelfContained(d)
           /\ ResultsOf(CheckNames[3], d) = ZScoreReproducibility(d)
           /\ ResultsOf(CheckNames[4], d) = ArchiveCoherence(d)
           /\ ResultsOf(CheckNames[5], d) = ArchiveCoverage(d)
BY DEF ResultsOf, CheckNames

\* Whatever the snapshot, validate (validator.py) has the results of the checks
\* it has run, in their order, and concludes from all five.
THEOREM ResultsInductive == Spec => []ResultsInv
<1>1. Init => ResultsInv
  <2> SUFFICES ASSUME Init PROVE ResultsInv
    OBVIOUS
  <2>1. results \in Seq({Pass, Fail}) /\ Len(results) = 0
    BY EmptySeq DEF Init
  <2> QED BY <2>1, FiveChecks, ValidatorAssumption DEF Init, ResultsInv, TypeOK
<1>2. ASSUME ResultsInv, [Next]_vars
      PROVE  ResultsInv'
  <2>1. CASE RunCheck
    <3>1. PICK r : /\ r \in ResultsOf(CheckNames[check], document) \ {Raise}
                   /\ results' = Append(results, r)
      BY <2>1 DEF RunCheck
    <3>2. /\ outcome = "running" /\ outcome' = "running" /\ document' = document
          /\ check' = check + 1 /\ check \in 1 .. 5
          /\ results \in Seq({Pass, Fail}) /\ Len(results) = check - 1
          /\ document \in Document
      BY <1>2, <2>1, FiveChecks DEF RunCheck, ResultsInv, TypeOK
    <3>3. r \in {Pass, Fail}
      BY <3>1, <3>2, CheckResults
    <3>4. /\ results' \in Seq({Pass, Fail}) /\ Len(results') = check
          /\ \A i \in 1 .. check - 1 : results'[i] = results[i]
          /\ results'[check] = r
      BY <3>1, <3>2, <3>3, AppendProperties
    <3>5. ASSUME NEW i \in 1 .. Len(results')
          PROVE  results'[i] \in ResultsOf(CheckNames[i], document)
      <4>1. CASE i = check
        BY <3>1, <3>4, <4>1
      <4>2. CASE i # check
        <5>1. i \in 1 .. Len(results) /\ results'[i] = results[i]
          BY <3>2, <3>4, <4>2
        <5> QED BY <1>2, <5>1 DEF ResultsInv
      <4> QED BY <4>1, <4>2
    <3>6. TypeOK'
      BY <3>2, <3>4, FiveChecks DEF TypeOK
    <3> QED BY <3>2, <3>5, <3>6 DEF ResultsInv
  <2>2. CASE CheckRaises
    <3>1. /\ outcome' = "raised" /\ UNCHANGED <<document, check, results>>
          /\ check \in 1 .. 5 /\ Raise \in ResultsOf(CheckNames[check], document)
      BY <1>2, <2>2, FiveChecks DEF CheckRaises, ResultsInv, TypeOK
    <3> QED BY <1>2, <3>1 DEF ResultsInv, TypeOK
  <2>3. CASE Conclude
    <3>1. /\ UNCHANGED <<document, check, results>>
          /\ check = 6 /\ Len(results) = 5 /\ results \in Seq({Pass, Fail})
      BY <1>2, <2>3, FiveChecks DEF Conclude, ResultsInv, TypeOK
    <3>2. DOMAIN results = 1 .. 5 /\ \A i \in 1 .. 5 : results[i] \in {Pass, Fail}
      BY <3>1, LenProperties, ElementOfSeq
    <3>3. CASE \A i \in 1 .. 5 : results[i] = Pass
      <4>1. outcome' = "passed"
        BY <2>3, <3>2, <3>3 DEF Conclude, Verdict, Pass
      <4>2. \A i \in 1 .. 5 : Pass \in ResultsOf(CheckNames[i], document)
        BY <1>2, <3>1, <3>3 DEF ResultsInv
      <4> QED BY <1>2, <3>1, <4>1, <4>2 DEF ResultsInv, TypeOK
    <3>4. CASE \E i \in 1 .. 5 : results[i] # Pass
      <4>1. outcome' = "failed"
        BY <2>3, <3>2, <3>4 DEF Conclude, Verdict, Pass, Fail
      <4>2. \E i \in 1 .. 5 : Fail \in ResultsOf(CheckNames[i], document)
        BY <1>2, <3>1, <3>2, <3>4 DEF ResultsInv
      <4> QED BY <1>2, <3>1, <4>1, <4>2 DEF ResultsInv, TypeOK
    <3> QED BY <3>3, <3>4
  <2>4. CASE UNCHANGED vars
    BY <1>2, <2>4 DEF vars, ResultsInv, TypeOK
  <2> QED BY <1>2, <2>1, <2>2, <2>3, <2>4 DEF Next
<1> QED BY <1>1, <1>2, PTL DEF Spec

\* Types hold in every state.
THEOREM ValidatorTypes == Spec => []TypeOK
<1>1. ResultsInv => TypeOK
  BY DEF ResultsInv
<1> QED BY <1>1, ResultsInductive, PTL

-----------------------------------------------------------------------------
(* The z-score.                                                            *)

LEMMA DocumentNumbers ==
    ASSUME NEW d \in Document
    PROVE  \A v \in Numbers(d) : v \in Value
BY DEF Document, Record, Numbers

\* From a bound on a distance to one on each side of it.
LEMMA TwoSides ==
    ASSUME NEW x \in Int, NEW y \in Int, NEW k \in Nat, NEW slack \in Int,
           Abs(x - y) * k <= slack
    PROVE  k * x <= k * y + slack /\ k * x >= k * y - slack
<1>1. k * x - k * y = (x - y) * k /\ k * x \in Int /\ k * y \in Int /\ (x - y) * k \in Int
  OBVIOUS
<1>2. (x - y) * k <= Abs(x - y) * k /\ -((x - y) * k) <= Abs(x - y) * k
  BY DEF Abs
<1>3. Abs(x - y) * k \in Int
  BY DEF Abs
<1> QED BY <1>1, <1>2, <1>3

\* What AtMost allows is no more than at most.
LEMMA AtMostBounds ==
    ASSUME NEW x \in Int, NEW y \in Int, Pass \in AtMost(x, y)
    PROVE  x <= y
BY DEF AtMost, Verdict, Pass, Fail

\* A snapshot that check_zscore_reproducibility (validator.py) passes has no
\* NaN, and a finite z-score only from a finite count and mean: within the
\* tolerance, above and below.
THEOREM ZScoresAreReproduced == Spec => []ZScoreIsReproduced
<1>1. ASSUME ResultsInv, outcome = "passed"
      PROVE  ZScoreIsReproduced
  <2> DEFINE d == document
             distance == Unit * (d.count.n - d.mean.n)
             slack == d.std.n * Larger(Unit, Abs(d.z.n))
             r == Recomputed(d.count, d.mean, d.std)
  <2>1. d \in Document /\ Pass \in ZScoreReproducibility(d)
    BY <1>1, ChecksInOrder DEF ResultsInv, TypeOK
  <2>2. \A v \in {d.count, d.mean, d.std, d.z} :
           /\ v \in Value /\ v.n \in Int
           /\ v.kind = "infinite" => v.n \in {-1, 1}
    BY <2>1, DocumentNumbers DEF Numbers, Value
  <2>3. Floats(<<d.count, d.mean, d.std, d.z>>)
    BY <2>1 DEF ZScoreReproducibility, NoFloat, Pass, Fail, Raise
  <2>4. \A v \in {d.count, d.mean, d.std, d.z} : v.kind \in FloatKinds
    <3> DEFINE values == <<d.count, d.mean, d.std, d.z>>
    <3>1. /\ 1 \in DOMAIN values /\ 2 \in DOMAIN values
          /\ 3 \in DOMAIN values /\ 4 \in DOMAIN values
      OBVIOUS
    <3>2. \A i \in DOMAIN values : values[i].kind \in FloatKinds
      BY <2>3 DEF Floats
    <3> QED BY <3>1, <3>2
  <2>5. /\ d.std.kind # "nan" => d.std.n > 0
        /\ Pass \in Reproduced(r, d.z)
    BY <2>1, <2>2, <2>3 DEF ZScoreReproducibility, Verdict, Pass, Fail
  <2>6. r.kind # "nan" /\ d.z.kind # "nan"
    BY <2>5 DEF Reproduced, Pass, Fail
  <2>7. "nan" \notin {d.count.kind, d.mean.kind, d.std.kind}
    BY <2>6 DEF Recomputed, NaN
  <2>8. /\ \A v \in {d.count, d.mean, d.std, d.z} : v.kind \in {"number", "infinite"}
        /\ d.std.n > 0
    BY <2>4, <2>5, <2>6, <2>7 DEF FloatKinds
  <2>9. ASSUME d.z.kind = "number"
        PROVE  /\ d.count.kind = "number" /\ d.mean.kind = "number"
               /\ d.std.kind = "number" => r = Ratio(d.count.n - d.mean.n, d.std.n)
               /\ d.std.kind = "infinite" => r = Ratio(0, 1)
               /\ Pass \in Within(r, d.z)
    <3>1. r.kind # "infinite" /\ Pass \in Within(r, d.z)
      BY <2>5, <2>6, <2>9 DEF Reproduced, Pass, Fail
    <3>2. d.count.kind = "number" /\ d.mean.kind = "number"
      BY <2>6, <2>8, <3>1 DEF Recomputed, NaN, Infinite
    <3> QED BY <3>1, <3>2, <2>8 DEF Recomputed
  <2>10. distance \in Int /\ d.z.n * d.std.n \in Int /\ slack \in Int /\ ToleranceInv \in Nat
    BY <2>2, ValidatorAssumption DEF Unit, Larger, Abs
  <2>11. ASSUME d.z.kind = "number", d.std.kind = "number"
         PROVE  /\ ToleranceInv * distance <= ToleranceInv * d.z.n * d.std.n + slack
                /\ ToleranceInv * distance >= ToleranceInv * d.z.n * d.std.n - slack
    <3>1. Pass \in AtMost(Abs(distance - d.z.n * d.std.n) * ToleranceInv, slack)
      BY <2>9, <2>11 DEF Within, Ratio
    <3>2. Abs(distance - d.z.n * d.std.n) * ToleranceInv \in Int
      BY <2>10 DEF Abs
    <3>3. Abs(distance - d.z.n * d.std.n) * ToleranceInv <= slack
      <4> HIDE DEF distance, slack
      <4> QED BY <2>10, <3>1, <3>2, AtMostBounds
    <3>4. /\ ToleranceInv * distance <= ToleranceInv * (d.z.n * d.std.n) + slack
          /\ ToleranceInv * distance >= ToleranceInv * (d.z.n * d.std.n) - slack
      <4> HIDE DEF distance, slack
      <4> QED BY <2>10, <3>3, TwoSides
    <3>5. ToleranceInv * (d.z.n * d.std.n) = ToleranceInv * d.z.n * d.std.n
      BY <2>2, <2>10
    <3> QED BY <3>4, <3>5
  <2>12. ASSUME d.z.kind = "number", d.std.kind = "infinite"
         PROVE  ToleranceInv * Abs(d.z.n) <= Larger(Unit, Abs(d.z.n))
    <3>1. Pass \in AtMost(Abs(Unit * 0 - d.z.n * 1) * ToleranceInv,
                          1 * Larger(Unit, Abs(d.z.n)))
      BY <2>9, <2>12 DEF Within, Ratio
    <3>2. /\ Abs(Unit * 0 - d.z.n * 1) = Abs(d.z.n)
          /\ 1 * Larger(Unit, Abs(d.z.n)) = Larger(Unit, Abs(d.z.n))
          /\ Abs(d.z.n) \in Int /\ Larger(Unit, Abs(d.z.n)) \in Int
      BY <2>2 DEF Abs, Larger, Unit
    <3>3. Abs(d.z.n) * ToleranceInv \in Int /\ Abs(d.z.n) * ToleranceInv = ToleranceInv * Abs(d.z.n)
      BY <2>10, <3>2
    <3> QED BY <3>1, <3>2, <3>3, AtMostBounds
  <2> QED BY <2>8, <2>9, <2>11, <2>12 DEF ZScoreIsReproduced
<1>2. ResultsInv => ZScoreIsReproduced
  BY <1>1 DEF ZScoreIsReproduced
<1> QED BY <1>2, ResultsInductive, PTL

-----------------------------------------------------------------------------
(* The last sample.                                                        *)

\* The bound of TailIsCurrent on one value.
CloseTo(t, v) ==
    RelativeInv * (2 * Abs(t - v) - Hundredth)
      <= Larger(RelativeInv * (2 * Hundredth), Larger(2 * Abs(t), 2 * Abs(v) + Hundredth))

\* A value near the rounding of another is close to that other.
LEMMA NearIsClose ==
    ASSUME NEW t \in Int, NEW v \in Int, NEW r \in Int, NEW k \in Nat \ {0},
           2 * Abs(v - r) <= 10,
           Abs(t - r) <= 10 \/ Abs(t - r) * k <= Larger(Abs(t), Abs(r))
    PROVE  k * (2 * Abs(t - v) - 10)
             <= Larger(k * (2 * 10), Larger(2 * Abs(t), 2 * Abs(v) + 10))
<1> DEFINE x == Abs(t - r)
           y == 2 * Abs(t - v) - 10
           m == Larger(2 * Abs(t), 2 * Abs(v) + 10)
<1>0. SUFFICES k * y <= Larger(k * (2 * 10), m)
  OBVIOUS
<1>1. x \in Int /\ y \in Int /\ m \in Int /\ y <= 2 * x
  BY DEF Abs, Larger
<1>2. 2 * Larger(Abs(t), Abs(r)) <= m /\ Larger(Abs(t), Abs(r)) \in Int
  BY DEF Abs, Larger
<1>3. k * y <= k * (2 * x) /\ k * y \in Int /\ k * (2 * x) = 2 * (x * k) /\ x * k \in Int
  <2> HIDE DEF x, y
  <2> QED BY <1>1
<1>4. CASE x <= 10
  <2>1. y <= 2 * 10
    BY <1>1, <1>4
  <2>2. k * y <= k * (2 * 10) /\ k * (2 * 10) \in Int
    <3> HIDE DEF x, y
    <3> QED BY <1>1, <2>1
  <2> HIDE DEF y, m
  <2> QED BY <1>1, <1>3, <2>2 DEF Larger
<1>5. CASE x * k <= Larger(Abs(t), Abs(r))
  <2>1. k * y <= m
    <3> HIDE DEF x, y, m
    <3> QED BY <1>1, <1>2, <1>3, <1>5
  <2>2. k * (2 * 10) \in Int
    OBVIOUS
  <2> HIDE DEF y, m
  <2> QED BY <1>1, <1>3, <2>1, <2>2 DEF Larger
<1> QED BY <1>4, <1>5

\* A comparison that passes is of values at most a half and a whole
\* hundredth apart, or the relative tolerance.
LEMMA CloseIsClose ==
    ASSUME NEW tail \in Value, NEW v \in Value,
           tail.kind = "number", v.kind = "number", Pass \in Comparison(tail, v)
    PROVE  CloseTo(tail.n, v.n)
<1>1. tail.n \in Int /\ v.n \in Int /\ RelativeInv \in Nat \ {0}
  BY ValidatorAssumption DEF Value
<1>2. Pass \in IsClose(tail, v)
  BY DEF Comparison, FloatKinds, Verdict, Pass, Fail, Raise
<1>3. PICK r \in Rounded(v.n) : Pass \in Near(tail.n, r, Hundredth)
  BY <1>2 DEF IsClose
<1>4. r \in Int /\ 2 * Abs(v.n - r) <= Hundredth
  BY <1>1, <1>3 DEF Rounded, Abs, Hundredth
<1>5. Abs(tail.n - r) <= Hundredth
        \/ Abs(tail.n - r) * RelativeInv <= Larger(Abs(tail.n), Abs(r))
  <2> DEFINE x == Abs(tail.n - r)
             y == Abs(tail.n - r) * RelativeInv
             m == Larger(Abs(tail.n), Abs(r))
  <2>1. Pass \in AtMost(x, Hundredth) \/ Pass \in AtMost(y, m)
    BY <1>3 DEF Near, OrElse, Pass, Fail
  <2>2. x \in Int /\ y \in Int /\ m \in Int /\ Hundredth \in Int
    BY <1>1, <1>4 DEF Abs, Larger, Hundredth
  <2> HIDE DEF x, y, m
  <2>3. x <= Hundredth \/ y <= m
    BY <2>1, <2>2, AtMostBounds
  <2> QED BY <2>3 DEF x, y, m
<1> QED BY <1>1, <1>4, <1>5, NearIsClose DEF CloseTo, Hundredth

LEMMA BothPass ==
    ASSUME NEW X, NEW Y, Pass \in AndThen(X, Y)
    PROVE  Pass \in X /\ Pass \in Y
BY DEF AndThen

\* The last sample of an archive that check_archive_coherence (validator.py)
\* passes is the current snapshot, up to the rounding and the tolerances,
\* the absolute one and the relative one.
THEOREM TailsAreCurrent == Spec => []TailIsCurrent
<1>1. ASSUME ResultsInv, outcome = "passed", Finite(document)
      PROVE  /\ document.c = document.count
             /\ CloseTo(document.p.n, document.mean.n)
             /\ CloseTo(document.s.n, document.std.n)
             /\ CloseTo(document.tail.n, document.z.n)
  <2> DEFINE d == document
             third == AndThen(Comparison(d.s, d.std), Comparison(d.tail, d.z))
             second == AndThen(Comparison(d.p, d.mean), third)
  <2>1. d \in Document /\ Pass \in ArchiveCoherence(d)
    BY <1>1, ChecksInOrder DEF ResultsInv, TypeOK
  <2>2. \A v \in Numbers(d) : v \in Value /\ v.kind = "number"
    BY <1>1, <2>1, DocumentNumbers DEF Finite
  <2>3. Pass \in AndThen(SameCount(d.c, d.count), second)
    BY <2>1 DEF ArchiveCoherence, NoFloat, Pass, Fail, Raise
  <2>4. /\ Pass \in SameCount(d.c, d.count)
        /\ Pass \in Comparison(d.p, d.mean)
        /\ Pass \in Comparison(d.s, d.std)
        /\ Pass \in Comparison(d.tail, d.z)
    <3>1. Pass \in SameCount(d.c, d.count) /\ Pass \in second
      BY <2>3, BothPass
    <3>2. Pass \in Comparison(d.p, d.mean) /\ Pass \in third
      BY <3>1, BothPass
    <3> QED BY <3>1, <3>2, BothPass
  <2>5. d.c = d.count
    BY <2>4 DEF SameCount, Verdict, Pass, Fail
  <2>6. \A v \in {d.p, d.s, d.tail, d.mean, d.std, d.z} : v \in Value /\ v.kind = "number"
    BY <2>2 DEF Numbers
  <2> QED BY <2>4, <2>5, <2>6, CloseIsClose
<1>2. ResultsInv => TailIsCurrent
  BY <1>1 DEF TailIsCurrent, CloseTo
<1> QED BY <1>2, ResultsInductive, PTL

-----------------------------------------------------------------------------
(* The archive.                                                            *)

LEMMA Multiples ==
    ASSUME NEW k \in Nat \ {0}
    PROVE  /\ \A x \in Int : x = k * (x \div k) + (x % k) /\ x \div k \in Int
           /\ \A m \in Int : (k * m) % k = 0 /\ (k * m) \div k = m
           /\ \A x, y \in Int : x <= y => x \div k <= y \div k
           /\ \A m, n \in Int : m <= n => k * m <= k * n
           /\ \A m, n \in Int : k * m <= k * n => m <= n
<1>1. \A x \in Int : x = k * (x \div k) + (x % k) /\ x \div k \in Int
  OBVIOUS
<1>2. \A m \in Int : (k * m) % k = 0 /\ (k * m) \div k = m
  OBVIOUS
<1>3. \A x, y \in Int : x <= y => x \div k <= y \div k
  OBVIOUS
<1>4. \A m, n \in Int : m <= n => k * m <= k * n
  OBVIOUS
<1>5. \A m, n \in Int : k * m <= k * n => m <= n
  OBVIOUS
<1> QED BY <1>1, <1>2, <1>3, <1>4, <1>5

\* From a to b there is one instant more than there are slots.
LEMMA InstantsOfSpan ==
    ASSUME NEW a \in Int, NEW b \in Int, a <= b
    PROVE  Cardinality({t \in a .. b : (t - a) % Slot = 0}) = (b - a) \div Slot + 1
<1> DEFINE n == (b - a) \div Slot
           S == {t \in a .. b : (t - a) % Slot = 0}
           f == [i \in 1 .. n + 1 |-> a + Slot * (i - 1)]
<1>1. Slot \in Nat \ {0}
  BY ValidatorAssumption
<1>2. n \in Nat /\ b - a \in Nat
  <2>1. 0 <= b - a /\ b - a \in Int
    OBVIOUS
  <2>2. (Slot * 0) \div Slot = 0 /\ Slot * 0 = 0
    BY <1>1, Multiples
  <2> QED BY <1>1, <2>1, <2>2, Multiples
<1> HIDE DEF n
<1>3. \A i \in 1 .. n + 1 : f[i] \in S
  <2> SUFFICES ASSUME NEW i \in 1 .. n + 1 PROVE f[i] \in S
    OBVIOUS
  <2>1. f[i] = a + Slot * (i - 1) /\ i - 1 \in 0 .. n
    BY <1>2
  <2>2. (Slot * (i - 1)) % Slot = 0 /\ Slot * (i - 1) <= Slot * n /\ 0 <= Slot * (i - 1)
    BY <1>1, <1>2, <2>1, Multiples
  <2>3. Slot * n <= b - a
    <3>1. b - a = Slot * n + ((b - a) % Slot)
      BY <1>1, Multiples DEF n
    <3>2. (b - a) % Slot >= 0 /\ (b - a) % Slot \in Int
      BY <1>1
    <3> QED BY <1>1, <1>2, <3>1, <3>2
  <2>4. Slot * (i - 1) \in Int /\ Slot * n \in Int
    BY <1>1, <1>2
  <2>5. f[i] - a = Slot * (i - 1) /\ f[i] \in a .. b
    BY <2>1, <2>2, <2>3, <2>4
  <2> QED BY <2>2, <2>5
<1>4. \A i, j \in 1 .. n + 1 : f[i] = f[j] => i = j
  <2> SUFFICES ASSUME NEW i \in 1 .. n + 1, NEW j \in 1 .. n + 1, f[i] = f[j]
               PROVE  i = j
    OBVIOUS
  <2>1. i - 1 \in Int /\ j - 1 \in Int /\ i \in Int /\ j \in Int
    BY <1>2
  <2>2. Slot * (i - 1) = Slot * (j - 1)
    <3>1. Slot * (i - 1) \in Int /\ Slot * (j - 1) \in Int
      BY <1>1, <2>1
    <3> QED BY <3>1
  <2>3. i - 1 = j - 1
    BY <1>1, <2>1, <2>2, Multiples
  <2> QED BY <2>1, <2>3
<1>5. \A t \in S : \E i \in 1 .. n + 1 : f[i] = t
  <2> SUFFICES ASSUME NEW t \in a .. b, (t - a) % Slot = 0
               PROVE  \E i \in 1 .. n + 1 : f[i] = t
    OBVIOUS
  <2> DEFINE q == (t - a) \div Slot
  <2>1. t - a = Slot * q /\ q \in Int
    BY <1>1, Multiples
  <2>2. 0 <= q
    <3>1. Slot * 0 <= Slot * q
      BY <1>1, <2>1
    <3> HIDE DEF q
    <3> QED BY <1>1, <2>1, <3>1, Multiples
  <2>3. q <= n
    BY <1>1, Multiples DEF n
  <2> HIDE DEF q
  <2>4. q + 1 \in 1 .. n + 1 /\ q + 1 - 1 = q
    BY <1>2, <2>1, <2>2, <2>3
  <2>5. f[q + 1] = t
    BY <2>1, <2>4
  <2> QED BY <2>4, <2>5
<1>6. ExistsBijection(1 .. n + 1, S)
  <2>1. f \in [1 .. n + 1 -> S] /\ DOMAIN f = 1 .. n + 1
    BY <1>3
  <2> HIDE DEF f, S
  <2>2. f \in Bijection(1 .. n + 1, S)
    BY <1>4, <1>5, <2>1 DEF Bijection, Injection, Surjection, IsInjective
  <2> QED BY <2>2 DEF ExistsBijection
<1>7. n + 1 \in Nat
  BY <1>2
<1> HIDE DEF S
<1>8. Cardinality(S) = n + 1
  BY <1>6, <1>7, FS_CountingElements
<1> QED BY <1>8 DEF n, S

LEMMA InstantsOfArchive ==
    ASSUME NEW d, d.t0.t \in Int, d.generatedAt.t \in Int, Span(d) > 0
    PROVE  Cardinality(Instants(d)) = (Span(d) \div Slot) + 1
<1> DEFINE a == d.t0.t
           b == d.generatedAt.t
<1>1. a \in Int /\ b \in Int /\ a <= b
  BY DEF Span
<1>2. Instants(d) = {t \in a .. b : (t - a) % Slot = 0} /\ Span(d) = b - a
  BY DEF Instants, Span
<1> HIDE DEF a, b
<1> QED BY <1>1, <1>2, InstantsOfSpan

\* An archive that check_archive_coverage (validator.py) passes lacks at
\* most one instant more than a hundredth of them.
THEOREM ArchivesAreCovered == Spec => []ArchiveIsCovered
<1>1. ASSUME ResultsInv, outcome = "passed"
      PROVE  /\ Span(document) >= Slot
             /\ 100 * (document.samples + 1) >= 99 * Cardinality(Instants(document))
  <2> DEFINE d == document
             n == Span(d) \div Slot
  <2>1. d \in Document /\ Pass \in ArchiveCoverage(d)
    BY <1>1, ChecksInOrder DEF ResultsInv, TypeOK
  <2>2. d.samples \in Nat /\ d.t0.t \in Int /\ d.generatedAt.t \in Int /\ Slot \in Nat \ {0}
    BY <2>1, ValidatorAssumption DEF Document, Record, Time
  <2>3. Span(d) > 0 /\ Covered(d.samples, n)
    BY <2>1 DEF ArchiveCoverage, Verdict, Pass, Fail, Raise
  <2>4. n > 0 /\ 100 * d.samples >= 99 * n /\ n \in Int
    <3>1. Span(d) \in Int
      BY <2>2 DEF Span
    <3>2. n \in Int
      BY <2>2, <3>1
    <3> QED BY <2>3, <3>2 DEF Covered
  <2>5. Cardinality(Instants(d)) = n + 1
    BY <2>2, <2>3, InstantsOfArchive
  <2>6. Span(d) >= Slot
    <3> DEFINE x == Span(d)
    <3>0. x \in Int
      BY <2>2 DEF Span
    <3>1. x = Slot * n + (x % Slot)
      <4>1. \A y \in Int : y = Slot * (y \div Slot) + (y % Slot)
        BY <2>2, Multiples
      <4> QED BY <3>0, <4>1
    <3>2. Span(d) % Slot \in Int /\ Span(d) % Slot >= 0
      BY <2>2, <3>0
    <3> HIDE DEF n
    <3>3. Slot * n >= Slot * 1 /\ Slot * n \in Int
      BY <2>2, <2>4, Multiples
    <3> QED BY <2>2, <3>0, <3>1, <3>2, <3>3
  <2> HIDE DEF n
  <2> QED BY <2>2, <2>4, <2>5, <2>6
<1>2. ResultsInv => ArchiveIsCovered
  BY <1>1 DEF ArchiveIsCovered
<1> QED BY <1>2, ResultsInductive, PTL

-----------------------------------------------------------------------------
(* What never raises, and what passes.                                     *)

\* Values that are missing or out of range make a check fail, not raise.
THEOREM NothingMissingRaises == Spec => []MissingNeverRaises
<1>1. ASSUME ResultsInv,
             "other" \notin Containers(document),
             \A v \in Numbers(document) : v.kind \in FloatKinds \cup {"absent", "empty"},
             ~ document.p.quoted, ~ document.s.quoted, ~ document.tail.quoted,
             document.t0.kind \in {"aware", "text", "blank", "absent"},
             document.generatedAt.kind \in {"aware", "text", "blank", "absent", "falsy"}
      PROVE  outcome # "raised"
  <2> DEFINE d == document
  <2>1. Raise \notin SchemaIntegrity(d)
    BY <1>1 DEF SchemaIntegrity, Containers, Verdict, Pass, Fail, Raise
  <2>2. Raise \notin SelfContained(d)
    BY <1>1 DEF SelfContained, Verdict, Pass, Fail, Raise
  <2>3. \A v \in Numbers(d) : v.kind # "huge"
    BY <1>1 DEF FloatKinds
  <2>4. Raise \notin ZScoreReproducibility(d)
    <3>1. NoFloat(<<d.count, d.mean, d.std, d.z>>) = Fail
      BY <2>3 DEF NoFloat, Numbers
    <3> QED BY <3>1, TwoVerdicts DEF ZScoreReproducibility, Pass, Fail, Raise
  <2>5. Raise \notin ArchiveCoherence(d)
    <3>1. NoFloat(<<d.mean, d.std, d.z>>) = Fail
      BY <2>3 DEF NoFloat, Numbers
    <3>2. ASSUME d.p.kind \notin {"absent", "empty"}, d.s.kind \notin {"absent", "empty"},
                 d.tail.kind \notin {"absent", "empty"}
          PROVE  \A t \in {d.p, d.s, d.tail} : \A v : Raise \notin Comparison(t, v)
      <4>1. \A t \in {d.p, d.s, d.tail} : t.kind \in FloatKinds /\ ~ t.quoted
        BY <1>1, <3>2 DEF Numbers
      <4> QED BY <4>1, TwoVerdicts DEF Comparison, Pass, Fail, Raise
    <3>3. \A X, Y : Raise \notin X /\ Raise \notin Y => Raise \notin AndThen(X, Y)
      BY DEF AndThen
    <3>4. Raise \notin SameCount(d.c, d.count)
      BY TwoVerdicts DEF Pass, Fail, Raise
    <3>5. CASE \A v \in {d.c, d.p, d.s, d.tail} : v.kind \notin {"absent", "empty"}
      <4>1. /\ Raise \notin Comparison(d.p, d.mean)
            /\ Raise \notin Comparison(d.s, d.std)
            /\ Raise \notin Comparison(d.tail, d.z)
        BY <3>2, <3>5
      <4>2. Raise \notin AndThen(SameCount(d.c, d.count),
                          AndThen(Comparison(d.p, d.mean),
                          AndThen(Comparison(d.s, d.std), Comparison(d.tail, d.z))))
        BY <3>3, <3>4, <4>1
      <4> QED BY <3>1, <4>2 DEF ArchiveCoherence, Fail, Raise
    <3>6. CASE \E v \in {d.c, d.p, d.s, d.tail} : v.kind \in {"absent", "empty"}
      BY <3>6 DEF ArchiveCoherence, Fail, Raise
    <3> QED BY <3>5, <3>6
  <2>6. Raise \notin ArchiveCoverage(d)
    BY <1>1 DEF ArchiveCoverage, Verdict, Pass, Fail, Raise
  <2>7. \A i \in 1 .. 5 : i = 1 \/ i = 2 \/ i = 3 \/ i = 4 \/ i = 5
    OBVIOUS
  <2>8. \A i \in 1 .. 5 : Raise \notin ResultsOf(CheckNames[i], d)
    BY <2>1, <2>2, <2>4, <2>5, <2>6, <2>7, ChecksInOrder
  <2> QED BY <1>1, <2>8 DEF ResultsInv
<1>2. ResultsInv => MissingNeverRaises
  BY <1>1 DEF MissingNeverRaises
<1> QED BY <1>2, ResultsInductive, PTL

\* A rounded value is close to what it is the rounding of.
LEMMA RoundingPasses ==
    ASSUME NEW tail \in Value, NEW v \in Value,
           tail.kind = "number", ~ tail.quoted, v.kind = "number", IsRounding(tail, v)
    PROVE  Comparison(tail, v) = {Pass}
<1>1. tail.n \in Int /\ v.n \in Int
  BY DEF Value
<1>2. Rounded(v.n) = {tail.n}
  BY <1>1 DEF Rounded, IsRounding, Abs, Hundredth
<1>3. Abs(tail.n - tail.n) = 0
  BY <1>1 DEF Abs
<1>4. Near(tail.n, tail.n, Hundredth) = {Pass}
  <2> DEFINE y == Abs(tail.n - tail.n) * RelativeInv
             m == Larger(Abs(tail.n), Abs(tail.n))
  <2>1. AtMost(Abs(tail.n - tail.n), Hundredth) = {Pass}
    BY <1>3 DEF AtMost, Hundredth, Verdict
  <2>2. AtMost(y, m) \subseteq {Pass, Fail} /\ AtMost(y, m) # {}
    BY DEF AtMost, Verdict
  <2>3. Near(tail.n, tail.n, Hundredth) = OrElse(AtMost(y, m), {Pass})
    BY <2>1 DEF Near
  <2> HIDE DEF y, m
  <2> QED BY <2>2, <2>3 DEF OrElse
<1>5. IsClose(tail, v) = {Pass}
  BY <1>2, <1>4 DEF IsClose
<1> QED BY <1>5 DEF Comparison, FloatKinds, Verdict

\* An honest snapshot never fails, and never raises.
THEOREM HonestSnapshotsPass == Spec => []HonestSnapshotPasses
<1>1. ASSUME ResultsInv,
             WellFormed(document), Finite(document),
             document.std.n > 0,
             document.z.n * document.std.n = Unit * (document.count.n - document.mean.n),
             document.c = document.count,
             IsRounding(document.p, document.mean), IsRounding(document.s, document.std),
             IsRounding(document.tail, document.z),
             Span(document) >= Slot, document.samples = Cardinality(Instants(document))
      PROVE  outcome \in {"running", "passed"}
  <2> DEFINE d == document
  <2>1. d \in Document /\ outcome \in {"running", "passed", "failed", "raised"}
    BY <1>1 DEF ResultsInv, TypeOK
  <2>2. /\ d.cohort = "object" /\ d.current = "object" /\ d.archive = "object"
        /\ d.t0.kind = "aware" /\ d.generatedAt.kind = "aware"
        /\ d.keys /\ d.tracked /\ d.fields /\ d.sigmas /\ d.columns
    BY <1>1 DEF WellFormed, Containers
  <2>3. \A v \in {d.count, d.mean, d.std, d.z, d.c, d.p, d.s, d.tail} :
           v \in Value /\ v.kind = "number" /\ v.n \in Int /\ ~ v.quoted
    BY <1>1, <2>1, DocumentNumbers DEF WellFormed, Finite, Numbers, Value
  <2>4. SchemaIntegrity(d) = {Pass}
    BY <2>2, <2>3 DEF SchemaIntegrity, Present, Verdict
  <2>5. SelfContained(d) = {Pass}
    BY <2>2, <2>3 DEF SelfContained, Containers, Verdict
  <2>6. ZScoreReproducibility(d) = {Pass}
    <3>1. Floats(<<d.count, d.mean, d.std, d.z>>)
      BY <2>3 DEF Floats, FloatKinds
    <3>2. Recomputed(d.count, d.mean, d.std) = Ratio(d.count.n - d.mean.n, d.std.n)
      BY <2>3 DEF Recomputed
    <3>3. Within(Ratio(d.count.n - d.mean.n, d.std.n), d.z) = {Pass}
      <4> DEFINE slack == d.std.n * Larger(Unit, Abs(d.z.n))
      <4>1. Unit * (d.count.n - d.mean.n) \in Int
        BY <2>3 DEF Unit
      <4>2. Abs(Unit * (d.count.n - d.mean.n) - d.z.n * d.std.n) = 0
        BY <1>1, <4>1 DEF Abs
      <4>3. /\ Larger(Unit, Abs(d.z.n)) \in Nat /\ Larger(Unit, Abs(d.z.n)) > 0
            /\ d.std.n \in Nat /\ d.std.n > 0
        BY <1>1, <2>3 DEF Larger, Abs, Unit
      <4>4. slack \in Int /\ slack > 0
        <5>1. \A x, y \in Nat : x > 0 /\ y > 0 => x * y \in Int /\ x * y > 0
          OBVIOUS
        <5> QED BY <4>3, <5>1
      <4>5. 0 * ToleranceInv = 0
        BY ValidatorAssumption
      <4>6. Within(Ratio(d.count.n - d.mean.n, d.std.n), d.z) = AtMost(0, slack)
        BY <4>2, <4>5 DEF Within, Ratio
      <4> HIDE DEF slack
      <4>7. (0 = slack) = FALSE /\ 0 < slack
        BY <4>4
      <4> QED BY <4>6, <4>7 DEF AtMost, Verdict
    <3>4. Reproduced(Recomputed(d.count, d.mean, d.std), d.z) = {Pass}
      BY <2>3, <3>2, <3>3 DEF Reproduced, Ratio
    <3> QED BY <1>1, <2>2, <2>3, <3>1, <3>4 DEF ZScoreReproducibility, Verdict
  <2>7. ArchiveCoherence(d) = {Pass}
    <3>1. Floats(<<d.mean, d.std, d.z>>)
      BY <2>3 DEF Floats, FloatKinds
    <3>2. /\ Comparison(d.p, d.mean) = {Pass}
          /\ Comparison(d.s, d.std) = {Pass}
          /\ Comparison(d.tail, d.z) = {Pass}
      BY <1>1, <2>3, RoundingPasses
    <3>3. SameCount(d.c, d.count) = {Pass}
      BY <1>1, <2>3 DEF SameCount, Verdict
    <3>4. AndThen({Pass}, {Pass}) = {Pass}
      BY DEF AndThen
    <3> QED BY <2>2, <2>3, <3>1, <3>2, <3>3, <3>4 DEF ArchiveCoherence
  <2>8. ArchiveCoverage(d) = {Pass}
    <3> DEFINE n == Span(d) \div Slot
    <3>1. d.t0.t \in Int /\ d.generatedAt.t \in Int /\ Slot \in Nat \ {0}
      BY <2>1, ValidatorAssumption DEF Document, Record, Time
    <3>2. Span(d) \in Int /\ Span(d) > 0 /\ Slot * 1 = Slot
      BY <1>1, <3>1 DEF Span
    <3>3. n \in Int /\ n >= 1
      <4> DEFINE span == Span(d)
      <4>1. span \in Int /\ Slot \in Int /\ Slot <= span
        BY <1>1, <3>1, <3>2
      <4> HIDE DEF span
      <4>2. (Slot * 1) \div Slot = 1
        BY <3>1, Multiples
      <4>3. Slot \div Slot = 1
        BY <3>2, <4>2
      <4>4. span \div Slot \in Int /\ Slot \div Slot <= span \div Slot
        BY <3>1, <4>1, Multiples
      <4>5. span \div Slot >= 1
        BY <4>3, <4>4
      <4> QED BY <4>4, <4>5 DEF span
    <3>4. d.samples = n + 1
      BY <1>1, <3>1, <3>2, InstantsOfArchive
    <3>5. Covered(d.samples, n)
      <4> HIDE DEF n
      <4> QED BY <3>3, <3>4 DEF Covered
    <3> QED BY <2>2, <2>3, <3>2, <3>5 DEF ArchiveCoverage, Verdict
  <2>9. \A i \in 1 .. 5 : i = 1 \/ i = 2 \/ i = 3 \/ i = 4 \/ i = 5
    OBVIOUS
  <2>10. \A i \in 1 .. 5 : ResultsOf(CheckNames[i], d) = {Pass}
    BY <2>4, <2>5, <2>6, <2>7, <2>8, <2>9, ChecksInOrder
  <2>11. Fail \notin {Pass} /\ Raise \notin {Pass}
    BY DEF Pass, Fail, Raise
  <2> QED BY <1>1, <2>1, <2>10, <2>11 DEF ResultsInv
<1>2. ResultsInv => HonestSnapshotPasses
  BY <1>1 DEF HonestSnapshotPasses
<1> QED BY <1>2, ResultsInductive, PTL
=============================================================================

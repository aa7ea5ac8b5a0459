------------------------------ MODULE Validator ------------------------------
(***************************************************************************)
(* The validator (src/witness/validator.py): validate runs five checks on  *)
(* a parsed snapshot.  It passes if all five do, fails if one does not,    *)
(* and an exception of any check is an exception of validate: the gateway  *)
(* then writes validator.exception, not validation.failed.                 *)
(*                                                                         *)
(* A snapshot is JSON of an unknown producer, so every value may be of any *)
(* kind.  Numbers are integers in thousandths, and the arithmetic on       *)
(* finite ones is that of the integers: it does not overflow, and where    *)
(* the last bit of a float decides (a tie of a rounding, the two sides of  *)
(* a tolerance equal) either outcome may come.  Infinities, NaN and what   *)
(* is no number are modelled.                                              *)
(***************************************************************************)
EXTENDS Integers, Sequences, FiniteSets

CONSTANTS
    Documents,      \* the snapshots that may be validated
    ToleranceInv,   \* 1 / Z_SCORE_TOLERANCE: 10^6
    RelativeInv,    \* 1 / rel_tol, which math.isclose has by default: 10^9
    Slot            \* seconds of an archive slot: 1800

Unit == 1000        \* numbers are in thousandths
Hundredth == 10

(* Values: a number (true and false are 1 and 0, as in Python), Infinity   *)
(* and -Infinity (n is the sign), NaN, an int that is too large for a      *)
(* float, null or an object, a string that is no number; an empty list in  *)
(* the place of a list, and no value at all.  float() takes a string, so   *)
(* the first three may also be quoted.                                     *)
Kinds == {"number", "infinite", "nan", "huge", "null", "text", "empty", "absent"}
FloatKinds == {"number", "infinite", "nan"}
Value == {v \in [kind : Kinds, n : Int, quoted : BOOLEAN] :
             /\ v.kind = "infinite" => v.n \in {-1, 1}
             /\ v.quoted => v.kind \in FloatKinds}

(* Times: ISO-8601 with an offset, without one, a string that is not       *)
(* ISO-8601, the empty string, a value that is no string, one of those     *)
(* that is false (null, 0), and no value.                                  *)
TimeKinds == {"aware", "naive", "text", "blank", "number", "falsy", "absent"}
Time == [kind : TimeKinds, t : Int]

Shapes == {"object", "other", "absent"}

(* A snapshot: which of the containers is an object, whether the fields no *)
(* check computes with are there, and the values of those it does.  The    *)
(* archive is its number of samples (of column c) and its last one.        *)
Record == [
    keys : BOOLEAN,        \* mode and liveStatus are there
    cohort : Shapes, tracked : BOOLEAN,
    current : Shapes, fields : BOOLEAN, sigmas : BOOLEAN,
    count : Value, mean : Value, std : Value, z : Value,
    archive : Shapes, columns : BOOLEAN, samples : Nat,
    t0 : Time, c : Value, p : Value, s : Value, tail : Value,
    generatedAt : Time]
Document == {d \in Record : d.samples = 0 <=> d.c.kind \in {"empty", "absent"}}

ASSUME ValidatorAssumption ==
    /\ Documents \subseteq Document
    /\ ToleranceInv \in Nat \ {0}
    /\ RelativeInv \in Nat \ {0}
    /\ Slot \in Nat \ {0}

VARIABLES
    document,   \* d
    check,      \* the check that is next
    results,    \* the results so far, in order
    outcome     \* of validate: running, passed, failed, raised

vars == <<document, check, results, outcome>>

CheckNames == <<"schema_integrity", "self_contained", "zscore_reproducibility",
                "archive_coherence", "archive_coverage">>

\* What a check can come to.
Pass == "passed"
Fail == "failed"
Raise == "raised"
Verdict(b) == IF b THEN Pass ELSE Fail

Abs(i) == IF i < 0 THEN -i ELSE i
Larger(i, j) == IF i < j THEN j ELSE i

\* x <= y of floats: where the two are equal, the last bit of each decides.
AtMost(x, y) == {Verdict(x < y)} \cup IF x = y THEN {Pass} ELSE {}

\* A conjunction stops at the first conjunct that does not hold, and a
\* disjunction at the first that does.
AndThen(first, second) == (first \ {Pass}) \cup IF Pass \in first THEN second ELSE {}
OrElse(first, second) == (first \ {Fail}) \cup IF Fail \in first THEN second ELSE {}

-----------------------------------------------------------------------------
(* check_schema_integrity and check_self_contained.                        *)

Containers(d) == {d.cohort, d.current, d.archive}
Present(v) == v.kind # "absent"

\* A key is looked for in what may be no object.
SchemaIntegrity(d) ==
    IF ~ d.keys \/ "absent" \in {d.cohort, d.current} \/ d.generatedAt.kind = "absent"
    THEN {Fail}
    ELSE IF d.current = "other" THEN {Fail, Raise}
    ELSE IF ~ (d.fields /\ d.sigmas /\ \A v \in {d.count, d.mean, d.std, d.z} : Present(v))
    THEN {Fail}
    ELSE IF d.archive = "other" THEN {Fail, Raise}
    ELSE {Verdict(/\ d.archive = "object" /\ d.columns /\ d.t0.kind # "absent"
                  /\ \A v \in {d.c, d.p, d.s, d.tail} : Present(v))}

\* Mutant of SelfContained: d["cohort"] for d.get("cohort", {}).
SelfContainedIndexed(d) ==
    IF "other" \in Containers(d) \/ d.cohort = "absent" THEN {Raise}
    ELSE {Verdict(/\ d.tracked
                  /\ d.current = "object" /\ d.sigmas
                  /\ d.archive = "object" /\ d.c.kind \notin {"absent", "empty"}
                  /\ d.count.kind \notin {"absent", "null"})}

\* .get of what is no object raises.
SelfContained(d) ==
    IF "other" \in Containers(d) THEN {Raise}
    ELSE {Verdict(/\ d.cohort = "object" /\ d.tracked
                  /\ d.current = "object" /\ d.sigmas
                  /\ d.archive = "object" /\ d.c.kind \notin {"absent", "empty"}
                  /\ d.count.kind \notin {"absent", "null"})}

-----------------------------------------------------------------------------
(* check_zscore_reproducibility.                                           *)

\* float() of each, in order: the first that is no float decides, and what
\* is too large for one is not an error that the checks catch.
Floats(values) == \A i \in DOMAIN values : values[i].kind \in FloatKinds
NoFloat(values) ==
    IF \E i \in DOMAIN values :
          /\ values[i].kind = "huge"
          /\ \A j \in 1 .. i - 1 : values[j].kind \in FloatKinds
    THEN Raise ELSE Fail

\* (actual - baseline) / std, for a std that is not at or below 0: a ratio,
\* a signed infinity, or NaN.
NaN == [kind |-> "nan", num |-> 0, den |-> 1]
Ratio(num, den) == [kind |-> "ratio", num |-> num, den |-> den]
Infinite(sign) == [kind |-> "infinite", num |-> sign, den |-> 1]
Recomputed(count, mean, std) ==
    IF "nan" \in {count.kind, mean.kind, std.kind} THEN NaN
    ELSE IF count.kind = "infinite" /\ mean.kind = "infinite"
    THEN IF count.n = mean.n \/ std.kind = "infinite" THEN NaN ELSE Infinite(count.n)
    ELSE IF "infinite" \in {count.kind, mean.kind}
    THEN IF std.kind = "infinite" THEN NaN
         ELSE Infinite(IF count.kind = "infinite" THEN count.n ELSE -mean.n)
    ELSE IF std.kind = "infinite" THEN Ratio(0, 1)
    ELSE Ratio(count.n - mean.n, std.n)

\* Mutant of Within: the difference without its absolute value.
WithinSigned(r, z) ==
    AtMost((Unit * r.num - z.n * r.den) * ToleranceInv, r.den * Larger(Unit, Abs(z.n)))

\* abs(recomputed - published) <= Z_SCORE_TOLERANCE * max(1, abs(published)).
Within(r, z) ==
    AtMost(Abs(Unit * r.num - z.n * r.den) * ToleranceInv, r.den * Larger(Unit, Abs(z.n)))

\* An infinite z has an infinite tolerance, and any difference but NaN is
\* within it.
Reproduced(r, z) ==
    IF r.kind = "nan" \/ z.kind = "nan" THEN {Fail}
    ELSE IF z.kind = "infinite" THEN {Verdict(~ (r.kind = "infinite" /\ r.num = z.n))}
    ELSE IF r.kind = "infinite" THEN {Fail}
    ELSE Within(r, z)

ZScoreReproducibility(d) ==
    LET values == <<d.count, d.mean, d.std, d.z>>
    IN  IF d.current # "object" THEN {Fail}
        ELSE IF ~ Floats(values) THEN {NoFloat(values)}
        ELSE IF d.std.kind # "nan" /\ d.std.n <= 0 THEN {Fail}
        ELSE Reproduced(Recomputed(d.count, d.mean, d.std), d.z)

-----------------------------------------------------------------------------
(* check_archive_coherence.                                                *)

\* Mutant of Rounded: cut, not rounded.
RoundedDown(n) == {(n \div Hundredth) * Hundredth}

\* round(x, 2): a tie goes up or down as the float is.
Rounded(n) ==
    LET down == (n \div Hundredth) * Hundredth
        rest == n % Hundredth
    IN  CASE rest * 2 < Hundredth -> {down}
          [] rest * 2 = Hundredth -> {down, down + Hundredth}
          [] OTHER -> {down + Hundredth}

\* |t - r| <= max(rel_tol * max(|t|, |r|), tolerance).
Near(t, r, tolerance) ==
    OrElse(AtMost(Abs(t - r) * RelativeInv, Larger(Abs(t), Abs(r))),
           AtMost(Abs(t - r), tolerance))

\* Mutant of IsClose: ten times the tolerance.
IsCloseTenth(tail, v) ==
    IF tail.kind = "number" /\ v.kind = "number"
    THEN UNION {Near(tail.n, r, 10 * Hundredth) : r \in Rounded(v.n)}
    ELSE {Verdict(tail.kind = v.kind /\ tail.kind = "infinite" /\ tail.n = v.n)}

\* math.isclose(tail, round(v, 2), abs_tol=0.01), with the rel_tol it has
\* by default.
IsClose(tail, v) ==
    IF tail.kind = "number" /\ v.kind = "number"
    THEN UNION {Near(tail.n, r, Hundredth) : r \in Rounded(v.n)}
    ELSE {Verdict(tail.kind = v.kind /\ tail.kind = "infinite" /\ tail.n = v.n)}

\* One comparison of the conjunction: a tail that is no float raises, a
\* string too.
Comparison(tail, v) ==
    IF tail.kind \notin FloatKinds \/ tail.quoted THEN {Raise} ELSE IsClose(tail, v)

\* tail_c == cur_c: equal values of one kind.  NaN is equal to nothing, and
\* strings of one number may be written in two ways.
SameCount(tail, v) ==
    IF tail # v THEN {Fail}
    ELSE IF v.quoted THEN {Pass, Fail} ELSE {Verdict(v.kind # "nan")}

ArchiveCoherence(d) ==
    LET values == <<d.mean, d.std, d.z>>
    IN  IF \/ d.archive # "object" \/ d.current # "object"
           \/ \E v \in {d.c, d.p, d.s, d.tail} : v.kind \in {"absent", "empty"}
           \/ d.count.kind = "absent"
        THEN {Fail}
        ELSE IF ~ Floats(values) THEN {NoFloat(values)}
        ELSE AndThen(SameCount(d.c, d.count),
             AndThen(Comparison(d.p, d.mean),
             AndThen(Comparison(d.s, d.std), Comparison(d.tail, d.z))))

-----------------------------------------------------------------------------
(* check_archive_coverage.                                                 *)

Span(d) == d.generatedAt.t - d.t0.t

\* Mutant of Covered: coverage is rounded to two places first.
CoveredRounded(samples, expected) ==
    expected > 0 /\ 1000 * samples >= 985 * expected

\* samples / expected >= COVERAGE_THRESHOLD; no coverage of no slots.
Covered(samples, expected) == expected > 0 /\ 100 * samples >= 99 * expected

\* A time that is no string has no replace; a time with an offset and one
\* without have no difference.
ArchiveCoverage(d) ==
    IF d.archive # "object" \/ d.t0.kind = "absent" \/ d.c.kind = "absent" THEN {Fail}
    ELSE IF d.generatedAt.kind \in {"absent", "falsy", "blank"} THEN {Fail}
    ELSE IF d.t0.kind \in {"number", "falsy"} THEN {Raise}
    ELSE IF d.t0.kind \in {"text", "blank"} THEN {Fail}
    ELSE IF d.generatedAt.kind = "number" THEN {Raise}
    ELSE IF d.generatedAt.kind = "text" THEN {Fail}
    ELSE IF d.t0.kind # d.generatedAt.kind THEN {Raise}
    ELSE {Verdict(Span(d) > 0 /\ Covered(d.samples, Span(d) \div Slot))}

-----------------------------------------------------------------------------
(* validate.                                                               *)

Init ==
    /\ document \in Documents
    /\ check = 1
    /\ results = <<>>
    /\ outcome = "running"

ResultsOf(name, d) ==
    CASE name = "schema_integrity" -> SchemaIntegrity(d)
      [] name = "self_contained" -> SelfContained(d)
      [] name = "zscore_reproducibility" -> ZScoreReproducibility(d)
      [] name = "archive_coherence" -> ArchiveCoherence(d)
      [] name = "archive_coverage" -> ArchiveCoverage(d)

\* The next check returns a result.
RunCheck ==
    /\ outcome = "running" /\ check <= Len(CheckNames)
    /\ \E r \in ResultsOf(CheckNames[check], document) \ {Raise} :
          results' = Append(results, r)
    /\ check' = check + 1
    /\ UNCHANGED <<document, outcome>>

\* Or an exception, which leaves validate.
CheckRaises ==
    /\ outcome = "running" /\ check <= Len(CheckNames)
    /\ Raise \in ResultsOf(CheckNames[check], document)
    /\ outcome' = "raised"
    /\ UNCHANGED <<document, check, results>>

\* all(c.passed for c in checks).
Conclude ==
    /\ outcome = "running" /\ check > Len(CheckNames)
    /\ outcome' = Verdict(\A i \in DOMAIN results : results[i] = Pass)
    /\ UNCHANGED <<document, check, results>>

Next == RunCheck \/ CheckRaises \/ Conclude

Spec == Init /\ [][Next]_vars

-----------------------------------------------------------------------------
(* Properties.                                                             *)

TypeOK ==
    /\ document \in Document
    /\ check \in 1 .. Len(CheckNames) + 1
    /\ results \in Seq({Pass, Fail}) /\ Len(results) = check - 1
    /\ outcome \in {"running", "passed", "failed", "raised"}

Numbers(d) == {d.count, d.mean, d.std, d.z, d.c, d.p, d.s, d.tail}
Finite(d) == \A v \in Numbers(d) : v.kind = "number"

\* No NaN passes check_zscore_reproducibility.  A published z-score that is
\* finite and passes is one of a finite count and a finite mean; times its
\* deviation it is the distance of the two, up to the tolerance, so a z of
\* 0 is a count at the mean and the signs agree.  If the deviation is
\* infinite, the z-score is 0 up to the tolerance.
ZScoreIsReproduced ==
    LET d == document
        distance == Unit * (d.count.n - d.mean.n)
        slack == d.std.n * Larger(Unit, Abs(d.z.n))
    IN  outcome = "passed" =>
        /\ \A v \in {d.count, d.mean, d.std, d.z} : v.kind \in {"number", "infinite"}
        /\ d.std.n > 0
        /\ d.z.kind = "number" =>
              /\ d.count.kind = "number" /\ d.mean.kind = "number"
              /\ d.std.kind = "number" =>
                    /\ ToleranceInv * distance <= ToleranceInv * d.z.n * d.std.n + slack
                    /\ ToleranceInv * distance >= ToleranceInv * d.z.n * d.std.n - slack
              /\ d.std.kind = "infinite" =>
                    ToleranceInv * Abs(d.z.n) <= Larger(Unit, Abs(d.z.n))

\* The last sample of an archive that check_archive_coherence passes has
\* the current count, and its three other values are the current ones up to
\* the rounding (half a hundredth) and the larger of the two tolerances:
\* one hundredth, and the relative one.
TailIsCurrent ==
    outcome = "passed" /\ Finite(document) =>
        /\ document.c = document.count
        /\ \A pair \in {<<document.p, document.mean>>, <<document.s, document.std>>,
                        <<document.tail, document.z>>} :
              LET t == pair[1].n
                  v == pair[2].n
              IN  RelativeInv * (2 * Abs(t - v) - Hundredth)
                    <= Larger(RelativeInv * (2 * Hundredth),
                              Larger(2 * Abs(t), 2 * Abs(v) + Hundredth))

\* The instants at which an archive that misses none has a sample: one more
\* than the slots between the first and the last.
Instants(d) == {t \in d.t0.t .. d.generatedAt.t : (t - d.t0.t) % Slot = 0}

\* An archive that passes lacks at most one instant more than a hundredth
\* of them, and spans at least one slot.
ArchiveIsCovered ==
    outcome = "passed" =>
        /\ Span(document) >= Slot
        /\ 100 * (document.samples + 1) >= 99 * Cardinality(Instants(document))

WellFormed(d) ==
    /\ d.keys /\ d.tracked /\ d.fields /\ d.sigmas /\ d.columns
    /\ Containers(d) = {"object"}
    /\ d.t0.kind = "aware" /\ d.generatedAt.kind = "aware"
    /\ \A v \in Numbers(d) : ~ v.quoted

IsRounding(tail, v) == tail.n % Hundredth = 0 /\ 2 * Abs(tail.n - v.n) < Hundredth

\* An honest snapshot passes: one with all its fields, a z-score that is
\* exact, a last sample that is the current one rounded, and every sample.
HonestSnapshotPasses ==
    LET d == document
    IN  /\ WellFormed(d) /\ Finite(d)
        /\ d.std.n > 0 /\ d.z.n * d.std.n = Unit * (d.count.n - d.mean.n)
        /\ d.c = d.count
        /\ IsRounding(d.p, d.mean) /\ IsRounding(d.s, d.std) /\ IsRounding(d.tail, d.z)
        /\ Span(d) >= Slot /\ d.samples = Cardinality(Instants(d))
        => outcome \in {"running", "passed"}

\* validator.exception is not for what is missing or out of range: a
\* snapshot whose values, where there are any, are of the right types never
\* raises, so it is told as validation.failed with every check's detail.
MissingNeverRaises ==
    LET d == document
    IN  /\ "other" \notin Containers(d)
        /\ \A v \in Numbers(d) : v.kind \in FloatKinds \cup {"absent", "empty"}
        /\ ~ d.p.quoted /\ ~ d.s.quoted /\ ~ d.tail.quoted
        /\ d.t0.kind \in {"aware", "text", "blank", "absent"}
        /\ d.generatedAt.kind \in {"aware", "text", "blank", "absent", "falsy"}
        => outcome # "raised"

=============================================================================

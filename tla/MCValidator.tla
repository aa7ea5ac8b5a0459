----------------------------- MODULE MCValidator -----------------------------
(***************************************************************************)
(* Snapshots for Validator: one that passes, and families around it, each  *)
(* of which varies the values that one of the checks computes with.        *)
(***************************************************************************)
EXTENDS Validator

V(k, n) == [kind |-> k, n |-> n, quoted |-> FALSE]
Quoted(v) == [v EXCEPT !.quoted = TRUE]
N(n) == V("number", n)
T(k, t) == [kind |-> k, t |-> t]

\* count 3, mean 1.004, deviation 0.998, z 2; a slot is 2 and the archive
\* has 101 samples over 100 slots.
Honest == [
    keys |-> TRUE, cohort |-> "object", tracked |-> TRUE,
    current |-> "object", fields |-> TRUE, sigmas |-> TRUE,
    count |-> N(3000), mean |-> N(1004), std |-> N(998), z |-> N(2000),
    archive |-> "object", columns |-> TRUE, samples |-> 101,
    t0 |-> T("aware", 0), c |-> N(3000), p |-> N(1000), s |-> N(1000), tail |-> N(2000),
    generatedAt |-> T("aware", 200)]

Odd == {V("infinite", 1), V("infinite", -1), V("nan", 0), V("huge", 0), V("null", 0),
        V("text", 0), V("absent", 0), Quoted(N(2000)), Quoted(V("nan", 0))}

\* Snapshots without a flaw.
RoundOf(n) == N(CHOOSE r \in Rounded(n) : TRUE)
Flawless ==
    {[Honest EXCEPT !.count = N(m + z * s), !.c = N(m + z * s), !.mean = N(m),
                    !.p = RoundOf(m), !.std = N(s), !.s = RoundOf(s),
                    !.z = N(Unit * z), !.tail = N(Unit * z)] :
        m \in {0, 996, 1004, 1007}, s \in {1, 998, 1000, 2003}, z \in -3 .. 3}

\* The z-score about its tolerance, and inputs that are no finite numbers.
ZScores ==
    {[Honest EXCEPT !.z = z, !.tail = z] : z \in {N(n) : n \in 1500 .. 2600} \cup Odd}
    \cup {[Honest EXCEPT !.count = v, !.c = v, !.mean = m, !.p = m, !.std = s, !.s = s,
                         !.z = z, !.tail = z] :
            v \in ({N(3000)} \cup Odd) \ {V("absent", 0)}, m \in {N(1000), V("infinite", 1), V("huge", 0), V("nan", 0)},
            s \in {N(1000), N(0), N(-1000), V("infinite", 1), V("null", 0)},
            z \in {N(0), N(-2000), N(2000), V("infinite", 1), V("infinite", -1), V("absent", 0)}}
    \cup {[Honest EXCEPT !.std = V("infinite", 1), !.s = V("infinite", 1), !.z = N(z), !.tail = N(z)] :
            z \in -150 .. 150}
    \cup {[Honest EXCEPT ![f] = Quoted(Honest[f]), ![g] = Quoted(Honest[g])] :
            f, g \in {"count", "mean", "std", "z", "c", "p", "s", "tail"}}

\* The last sample about the rounded current values, and what is no number.
Tails ==
    {[Honest EXCEPT !.p = N(1000 + i), !.mean = N(m), !.std = N(3000 - m),
                    !.s = RoundOf(3000 - m), !.z = N(1000), !.tail = N(1000)] :
        i \in -30 .. 30, m \in 999 .. 1006}
    \cup {[Honest EXCEPT !.p = N(30000 + i), !.mean = N(m), !.std = N(33000 - m),
                         !.s = RoundOf(33000 - m), !.count = N(33000), !.c = N(33000),
                         !.z = N(1000), !.tail = N(1000)] :
            i \in -50 .. 50, m \in 29997 .. 30003}
    \cup {[Honest EXCEPT !.tail = N(-30000 + i), !.z = N(-30000), !.std = N(1000),
                         !.mean = N(31000), !.p = N(31000), !.count = N(1000), !.c = N(1000)] :
            i \in -50 .. 50}
    \cup {[Honest EXCEPT !.p = v, !.c = w] :
            v \in Odd \cup {N(1000), V("empty", 0)},
            w \in {N(3000), N(4000), V("null", 0)}}
    \cup {[Honest EXCEPT !.p = v, !.c = v, !.s = v, !.tail = v, !.samples = 0] :
            v \in {V("empty", 0), V("absent", 0)}}

\* Samples and spans about the threshold, and times of every kind.
Archives ==
    {[Honest EXCEPT !.samples = n, !.generatedAt.t = t] :
        n \in {1, 2, 97, 98, 99, 100, 101}, t \in {-1, 0, 1, 2, 3, 199, 200, 201, 202, 204}}
    \cup {[Honest EXCEPT !.samples = n, !.generatedAt.t = 2000] : n \in 984 .. 1001}
    \cup {[Honest EXCEPT !.t0.kind = k, !.generatedAt.kind = l] :
            k, l \in TimeKinds}

\* What is missing or of another shape.
Broken ==
    {[Honest EXCEPT !.keys = k, !.cohort = h, !.tracked = h = "object", !.current = u,
                    !.archive = a, !.columns = k, !.sigmas = f, !.fields = f] :
        k, f \in BOOLEAN, h, u, a \in Shapes}

MCDocuments == Flawless \cup ZScores \cup Tails \cup Archives \cup Broken
=============================================================================

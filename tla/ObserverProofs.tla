--------------------------- MODULE ObserverProofs ---------------------------
(***************************************************************************)
(* Theorems about the retry loop of Observer, for any number of callers    *)
(* and any answers of the source.                                          *)
(*                                                                         *)
(* LoopInv says where the loop of fetch is: how many attempts it has made, *)
(* that only the last of them can have succeeded, and how long it slept.   *)
(***************************************************************************)
EXTENDS Observer, TLAPS

\* The seconds slept before attempt n ended.
Slept(n) == IF n < 2 THEN 0 ELSE IF n = 2 THEN 1 ELSE 4

Place(state, n) ==
    /\ n \in 0 .. 3
    /\ state = "no" => n = 0
    /\ state \in {"yes", "raised"} => n < 3
    /\ state = "fetched" => n > 0
    /\ state = "exhausted" => n = 3

\* One call, with its history, its sleep and its bytes.
CallOK(state, history, slept, body) ==
    /\ Place(state, Len(history))
    /\ \A i \in 1 .. Len(history) :
          history[i] = "ok" <=> state = "fetched" /\ i = Len(history)
    /\ slept = Slept(IF state = "raised" THEN Len(history) + 1 ELSE Len(history))
    /\ body # NoBody <=> state = "fetched"

LoopInv ==
    \A c \in Callers : CallOK(fetching[c], attempts[c], waited[c], observed[c])

ObserverInv == ObserverTypeOK /\ LoopInv

-----------------------------------------------------------------------------
\* The sleep before an attempt adds up to what was slept when it has ended.
LEMMA SleptNext ==
    ASSUME NEW n \in 0 .. 2
    PROVE  /\ Backoff(n + 1) \in Nat
           /\ Slept(n + 1) = Slept(n) + Backoff(n + 1)
<1>1. CASE n = 0
  BY <1>1 DEF Slept, Backoff
<1>2. CASE n = 1
  BY <1>2 DEF Slept, Backoff, RETRY_BACKOFF_SECONDS
<1>3. CASE n = 2
  BY <1>3 DEF Slept, Backoff, RETRY_BACKOFF_SECONDS
<1> QED
  BY <1>1, <1>2, <1>3

LEMMA LoopInit == ObserverInit => ObserverInv
BY DEF ObserverInit, ObserverInv, ObserverTypeOK, LoopInv, CallOK, Place, Slept

\* What an attempt with a given result does to one caller's history.
LEMMA AttemptGrows ==
    ASSUME ObserverInv, NEW c \in Callers, NEW result \in Failures \cup {"ok"},
           Attempt(c, result)
    PROVE  /\ Len(attempts[c]) \in 0 .. 2
           /\ attempts' \in [Callers -> Seq(Failures \cup {"ok"})]
           /\ waited' \in [Callers -> Nat]
           /\ Len(attempts'[c]) = Len(attempts[c]) + 1
           /\ \A i \in 1 .. Len(attempts[c]) : attempts'[c][i] = attempts[c][i]
           /\ attempts'[c][Len(attempts[c]) + 1] = result
           /\ waited'[c] = Slept(Len(attempts[c]) + 1)
           /\ \A d \in Callers \ {c} :
                 attempts'[d] = attempts[d] /\ waited'[d] = waited[d]
<1>1. /\ attempts \in [Callers -> Seq(Failures \cup {"ok"})]
      /\ waited \in [Callers -> Nat]
      /\ attempts[c] \in Seq(Failures \cup {"ok"})
  BY DEF ObserverInv, ObserverTypeOK
<1>2. Len(attempts[c]) \in 0 .. 2
  BY DEF ObserverInv, LoopInv, CallOK, Place, Attempt
<1>3. /\ attempts' = [attempts EXCEPT ![c] = Append(attempts[c], result)]
      /\ waited' = [waited EXCEPT ![c] = waited[c] + Backoff(Len(attempts[c]) + 1)]
  BY DEF Attempt
<1>4. /\ Backoff(Len(attempts[c]) + 1) \in Nat
      /\ Slept(Len(attempts[c]) + 1) = Slept(Len(attempts[c])) + Backoff(Len(attempts[c]) + 1)
  BY <1>2, SleptNext
<1>5. waited[c] = Slept(Len(attempts[c]))
  BY DEF ObserverInv, LoopInv, CallOK, Attempt
<1>6. /\ waited' \in [Callers -> Nat]
      /\ waited'[c] = Slept(Len(attempts[c]) + 1)
      /\ \A d \in Callers \ {c} : waited'[d] = waited[d]
  BY <1>1, <1>3, <1>4, <1>5
<1>7. /\ attempts' \in [Callers -> Seq(Failures \cup {"ok"})]
      /\ attempts'[c] = Append(attempts[c], result)
      /\ \A d \in Callers \ {c} : attempts'[d] = attempts[d]
  BY <1>1, <1>3
<1> QED
  BY <1>1, <1>2, <1>6, <1>7

LEMMA LoopStep == ObserverInv /\ [ObserverNext]_observerVars => ObserverInv'
<1> SUFFICES ASSUME ObserverInv, [ObserverNext]_observerVars
             PROVE  ObserverInv'
  OBVIOUS
<1>1. ASSUME NEW c \in Callers, Fetch(c)
      PROVE  ObserverInv'
  <2>1. ObserverTypeOK'
    BY <1>1 DEF Fetch, ObserverInv, ObserverTypeOK
  <2>2. CallOK("no", attempts[c], waited[c], observed[c])
    BY <1>1 DEF Fetch, ObserverInv, LoopInv
  <2>3. CallOK("yes", attempts[c], waited[c], observed[c])
    BY <2>2 DEF CallOK, Place
  <2>4. LoopInv'
    BY <1>1, <2>3 DEF Fetch, ObserverInv, ObserverTypeOK, LoopInv
  <2> QED
    BY <2>1, <2>4 DEF ObserverInv
<1>2. ASSUME NEW c \in Callers, NEW b \in Bodies, AttemptOk(c, b)
      PROVE  ObserverInv'
  <2>1. Attempt(c, "ok")
    BY <1>2 DEF AttemptOk
  <2>2. /\ observed' = [observed EXCEPT ![c] = b]
        /\ fetching' = [fetching EXCEPT ![c] = "fetched"]
    BY <1>2 DEF AttemptOk
  <2>3. b # NoBody /\ fetching[c] = "yes"
    BY <2>1, ObserverAssumption DEF Attempt
  <2>4. ObserverTypeOK'
    BY <2>1, <2>2, AttemptGrows DEF ObserverInv, ObserverTypeOK
  <2>5. CallOK("yes", attempts[c], waited[c], observed[c])
    BY <2>3 DEF ObserverInv, LoopInv
  <2> DEFINE n == Len(attempts[c])
  <2>6. /\ n \in 0 .. 2
        /\ Len(attempts'[c]) = n + 1
        /\ \A i \in 1 .. n : attempts'[c][i] = attempts[c][i]
        /\ attempts'[c][n + 1] = "ok"
        /\ waited'[c] = Slept(n + 1)
        /\ \A d \in Callers \ {c} :
              attempts'[d] = attempts[d] /\ waited'[d] = waited[d]
    BY <2>1, AttemptGrows
  <2>7. \A i \in 1 .. n : attempts[c][i] # "ok"
    BY <2>5 DEF CallOK
  <2> HIDE DEF n
  <2>8. CallOK("fetched", attempts'[c], waited'[c], b)
    BY <2>3, <2>6, <2>7 DEF CallOK, Place
  <2>9. LoopInv'
    BY <2>2, <2>6, <2>8 DEF ObserverInv, ObserverTypeOK, LoopInv
  <2> QED
    BY <2>4, <2>9 DEF ObserverInv
<1>3. ASSUME NEW c \in Callers, NEW f \in Failures, AttemptFails(c, f)
      PROVE  ObserverInv'
  <2>1. Attempt(c, f) /\ f # "ok"
    BY <1>3, ObserverAssumption DEF AttemptFails
  <2>2. /\ observed' = observed
        /\ fetching' = [fetching EXCEPT ![c] =
                           IF Len(attempts'[c]) < 3 THEN "yes" ELSE "exhausted"]
    BY <1>3 DEF AttemptFails, RETRY_ATTEMPTS
  <2>3. fetching[c] = "yes"
    BY <2>1 DEF Attempt
  <2>4. ObserverTypeOK'
    BY <2>1, <2>2, AttemptGrows DEF ObserverInv, ObserverTypeOK
  <2>5. CallOK("yes", attempts[c], waited[c], observed[c])
    BY <2>3 DEF ObserverInv, LoopInv
  <2> DEFINE n == Len(attempts[c])
             next == IF n + 1 < 3 THEN "yes" ELSE "exhausted"
  <2>6. /\ n \in 0 .. 2
        /\ Len(attempts'[c]) = n + 1
        /\ \A i \in 1 .. n : attempts'[c][i] = attempts[c][i]
        /\ attempts'[c][n + 1] = f
        /\ waited'[c] = Slept(n + 1)
        /\ \A d \in Callers \ {c} :
              attempts'[d] = attempts[d] /\ waited'[d] = waited[d]
    BY <2>1, AttemptGrows
  <2>7. /\ \A i \in 1 .. n : attempts[c][i] # "ok"
        /\ observed[c] = NoBody
    BY <2>5 DEF CallOK
  <2>8. fetching' = [fetching EXCEPT ![c] = next]
    BY <2>2, <2>6
  <2> HIDE DEF n
  <2>9. CallOK(next, attempts'[c], waited'[c], observed[c])
    BY <2>1, <2>6, <2>7 DEF CallOK, Place
  <2> HIDE DEF next
  <2>10. LoopInv'
    BY <2>2, <2>6, <2>8, <2>9 DEF ObserverInv, ObserverTypeOK, LoopInv
  <2> QED
    BY <2>4, <2>10 DEF ObserverInv
<1>4. ASSUME NEW c \in Callers, AttemptRaises(c)
      PROVE  ObserverInv'
  <2> DEFINE n == Len(attempts[c])
  <2>1. CallOK("yes", attempts[c], waited[c], observed[c])
    BY <1>4 DEF AttemptRaises, ObserverInv, LoopInv
  <2>2. n \in 0 .. 2 /\ waited[c] = Slept(n)
    BY <2>1 DEF CallOK, Place
  <2>3. Backoff(n + 1) \in Nat /\ Slept(n + 1) = Slept(n) + Backoff(n + 1)
    BY <2>2, SleptNext
  <2>4. /\ waited' = [waited EXCEPT ![c] = waited[c] + Backoff(n + 1)]
        /\ fetching' = [fetching EXCEPT ![c] = "raised"]
        /\ UNCHANGED <<attempts, observed>>
    BY <1>4 DEF AttemptRaises
  <2>5. ObserverTypeOK'
    BY <2>3, <2>4 DEF ObserverInv, ObserverTypeOK
  <2>6. CallOK("raised", attempts[c], Slept(n + 1), observed[c])
    BY <2>1, <2>2 DEF CallOK, Place
  <2>7. LoopInv'
    BY <2>2, <2>3, <2>4, <2>6 DEF ObserverInv, ObserverTypeOK, LoopInv
  <2> QED
    BY <2>5, <2>7 DEF ObserverInv
<1>5. CASE UNCHANGED observerVars
  BY <1>5 DEF observerVars, ObserverInv, ObserverTypeOK, LoopInv
<1> QED
  BY <1>1, <1>2, <1>3, <1>4, <1>5 DEF ObserverNext, ObserverStep

LEMMA LoopInvariant == ObserverSpec => []ObserverInv
<1> QED
  BY LoopInit, LoopStep, PTL DEF ObserverSpec

\* The shape of a call's history says how its fetch came out.
LEMMA InvEarned == ObserverInv => OutcomeIsEarned
<1> SUFFICES ASSUME ObserverInv, NEW c \in Callers
             PROVE  LET n == Len(attempts[c])
                        succeeded == {i \in 1..n : attempts[c][i] = "ok"}
                    IN  /\ fetching[c] = "exhausted" <=> n = RETRY_ATTEMPTS /\ succeeded = {}
                        /\ fetching[c] = "fetched" <=> succeeded # {}
                        /\ succeeded # {} => succeeded = {n}
                        /\ observed[c] # NoBody <=> fetching[c] = "fetched"
  BY DEF OutcomeIsEarned
<1> DEFINE n == Len(attempts[c])
           succeeded == {i \in 1..n : attempts[c][i] = "ok"}
<1>1. /\ Place(fetching[c], n)
      /\ \A i \in 1 .. n : attempts[c][i] = "ok" <=> fetching[c] = "fetched" /\ i = n
      /\ observed[c] # NoBody <=> fetching[c] = "fetched"
      /\ fetching[c] \in {"no", "yes", "fetched", "exhausted", "raised"}
  BY DEF ObserverInv, ObserverTypeOK, LoopInv, CallOK
<1> HIDE DEF n
<1>2. CASE fetching[c] = "fetched"
  <2>1. n \in 1 .. n /\ succeeded = {n}
    BY <1>1, <1>2 DEF Place
  <2> QED
    BY <1>1, <1>2, <2>1 DEF n
<1>3. CASE fetching[c] # "fetched"
  <2>1. succeeded = {}
    BY <1>1, <1>3
  <2>2. fetching[c] = "exhausted" <=> n = RETRY_ATTEMPTS
    BY <1>1, <1>3 DEF Place, RETRY_ATTEMPTS
  <2> QED
    BY <1>1, <1>3, <2>1, <2>2 DEF n
<1> QED
  BY <1>2, <1>3

\* A fetch is exhausted exactly when RETRY_ATTEMPTS attempts have failed, and
\* what it hands over is from its one success, the last attempt it made.
THEOREM OutcomesAreEarned == ObserverSpec => []OutcomeIsEarned
BY InvEarned, LoopInvariant, PTL

\* However the source answers, a fetch has slept 0, 1 or 4 seconds.
THEOREM WaitsAreBounded == ObserverSpec => []WaitIsBounded
<1>1. ObserverInv => WaitIsBounded
  BY DEF ObserverInv, LoopInv, CallOK, WaitIsBounded, Slept
<1> QED
  BY <1>1, LoopInvariant, PTL
=============================================================================

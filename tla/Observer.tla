------------------------------ MODULE Observer ------------------------------
(***************************************************************************)
(* The observer (src/witness/observer.py): fetch a URL with a fixed number *)
(* of attempts and fixed waits between them, and commit to the bytes of    *)
(* the first 2xx answer.  Several calls of fetch run side by side; each    *)
(* answer of the source is chosen freely.                                  *)
(***************************************************************************)
EXTENDS Naturals, Sequences

CONSTANTS
    Callers,    \* the calls of fetch
    Bodies,     \* the bytes a 2xx answer may carry
    NoBody,     \* "nothing was fetched"
    Failures    \* how an attempt fails: another status, an httpx.HTTPError

ASSUME ObserverAssumption ==
    /\ NoBody \notin Bodies
    /\ "ok" \notin Failures

RETRY_ATTEMPTS == 3
RETRY_BACKOFF_SECONDS == <<1, 3, 7>>

VARIABLES
    fetching,   \* "no", "yes", "fetched", "exhausted" (ObserverError), or
                \* "raised" (an exception that fetch does not catch)
    attempts,   \* what each attempt so far came to: attempt_history
    waited,     \* seconds slept between attempts so far
    observed    \* the bytes fetched

observerVars == <<fetching, attempts, waited, observed>>

ObserverTypeOK ==
    /\ fetching \in [Callers -> {"no", "yes", "fetched", "exhausted", "raised"}]
    /\ attempts \in [Callers -> Seq(Failures \cup {"ok"})]
    /\ waited \in [Callers -> Nat]
    /\ observed \in [Callers -> Bodies \cup {NoBody}]

ObserverInit ==
    /\ fetching = [c \in Callers |-> "no"]
    /\ attempts = [c \in Callers |-> <<>>]
    /\ waited = [c \in Callers |-> 0]
    /\ observed = [c \in Callers |-> NoBody]

\* fetch is called.
Fetch(c) ==
    /\ fetching[c] = "no"
    /\ fetching' = [fetching EXCEPT ![c] = "yes"]
    /\ UNCHANGED <<attempts, waited, observed>>

\* Mutant of Backoff: indexed by the attempt instead of the attempt minus 2.
BackoffByAttempt(n) == IF n > 1 THEN RETRY_BACKOFF_SECONDS[n] ELSE 0

\* The sleep before the attempt that comes next: none before the first.
Backoff(n) == IF n > 1 THEN RETRY_BACKOFF_SECONDS[n - 1] ELSE 0

\* One turn of the loop: sleep, then GET.
Attempt(c, result) ==
    /\ fetching[c] = "yes"
    /\ attempts' = [attempts EXCEPT ![c] = Append(@, result)]
    /\ waited' = [waited EXCEPT ![c] = @ + Backoff(Len(attempts[c]) + 1)]

\* Mutant of AttemptOk: the loop is not left after a 2xx answer.
AttemptOkNoBreak(c, body) ==
    /\ Attempt(c, "ok")
    /\ observed' = [observed EXCEPT ![c] = body]
    /\ fetching' = [fetching EXCEPT ![c] =
                       IF Len(attempts'[c]) < RETRY_ATTEMPTS THEN "yes" ELSE "fetched"]

\* A 2xx answer: its bytes are kept and the loop is left.
AttemptOk(c, body) ==
    /\ Attempt(c, "ok")
    /\ observed' = [observed EXCEPT ![c] = body]
    /\ fetching' = [fetching EXCEPT ![c] = "fetched"]

\* Mutant of AttemptFails: one more attempt than RETRY_ATTEMPTS allows.
AttemptFailsOnceMore(c, failure) ==
    /\ Attempt(c, failure)
    /\ fetching' = [fetching EXCEPT ![c] =
                       IF Len(attempts'[c]) <= RETRY_ATTEMPTS THEN "yes" ELSE "exhausted"]
    /\ UNCHANGED observed

\* Anything else: the loop goes on, or runs out and raises ObserverError.
AttemptFails(c, failure) ==
    /\ Attempt(c, failure)
    /\ fetching' = [fetching EXCEPT ![c] =
                       IF Len(attempts'[c]) < RETRY_ATTEMPTS THEN "yes" ELSE "exhausted"]
    /\ UNCHANGED observed

\* client.get raises what is no httpx.HTTPError, such as httpx.InvalidURL:
\* it leaves fetch, and the attempt is on no list.
AttemptRaises(c) ==
    /\ fetching[c] = "yes"
    /\ fetching' = [fetching EXCEPT ![c] = "raised"]
    /\ waited' = [waited EXCEPT ![c] = @ + Backoff(Len(attempts[c]) + 1)]
    /\ UNCHANGED <<attempts, observed>>

ObserverStep(c) ==
    \/ \E b \in Bodies : AttemptOk(c, b)
    \/ \E f \in Failures : AttemptFails(c, f)

ObserverNext == \E c \in Callers : Fetch(c) \/ ObserverStep(c) \/ AttemptRaises(c)

ObserverSpec ==
    ObserverInit /\ [][ObserverNext]_observerVars
        /\ \A c \in Callers : WF_observerVars(ObserverStep(c) \/ AttemptRaises(c))

-----------------------------------------------------------------------------
\* What fetch reports is what happened: it gives up exactly when all of the
\* attempts failed, and otherwise hands over the bytes of the one attempt
\* that succeeded, which is the last one it made.
OutcomeIsEarned ==
    \A c \in Callers :
        LET n == Len(attempts[c])
            succeeded == {i \in 1..n : attempts[c][i] = "ok"}
        IN  /\ fetching[c] = "exhausted" <=> n = RETRY_ATTEMPTS /\ succeeded = {}
            /\ fetching[c] = "fetched" <=> succeeded # {}
            /\ succeeded # {} => succeeded = {n}
            /\ observed[c] # NoBody <=> fetching[c] = "fetched"

\* The pinned policy bounds how long a cycle can be held up by sleeping: the
\* waits before attempts 2 and 3 are the only ones, whatever the answers.
WaitIsBounded == \A c \in Callers : waited[c] \in {0, 1, 4}
=============================================================================

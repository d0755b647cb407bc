---------------------------- MODULE UploadCircuit ----------------------------
(***************************************************************************)
(* The circuit breaker of UploadService: after too many failures it is     *)
(* OPEN and refuses uploads; when its cooldown is over it turns HALF_OPEN  *)
(* and lets a few trial presigns through, of which one success closes it.  *)
(* The counters live in the memory of one process, whose requests          *)
(* interleave at every await. Source: upload.service.ts                    *)
(***************************************************************************)
EXTENDS Naturals, FiniteSets

CONSTANTS Requests,      \* requests that may be in flight at the same time
          Threshold,     \* circuitBreakerThreshold
          HalfOpenMax,   \* halfOpenMaxRequests
          MaxFailures    \* bound: the failure count stays here; only Threshold matters

ASSUME CircuitAssumption ==
    /\ IsFiniteSet(Requests)
    /\ Threshold \in Nat \ {0} /\ HalfOpenMax \in Nat \ {0}
    /\ MaxFailures \in Nat /\ MaxFailures >= Threshold

VARIABLES
    circuitState,  \* "CLOSED", "OPEN", "HALF_OPEN"
    failed,        \* failedUploadOperations
    halfOpenInFlight,  \* the trial presigns under way
    cooled,        \* circuitOpenedUntil is over
    request,       \* what each request is doing
    trial          \* history: presigns counted since the circuit turned HALF_OPEN

circuitVars == <<circuitState, failed, halfOpenInFlight, cooled, request, trial>>

\* A presign waits for its URL; a finalize for its transaction; a health check for
\* the bucket. A presign or a health check that failed reports its error before the
\* failure is weighed.
Phases == {"idle", "presign", "finalize", "health", "presignFailed", "healthFailed"}

CircuitTypeOK ==
    /\ circuitState \in {"CLOSED", "OPEN", "HALF_OPEN"}
    /\ failed \in 0 .. MaxFailures
    /\ halfOpenInFlight \in 0 .. HalfOpenMax
    /\ cooled \in BOOLEAN
    /\ request \in [Requests -> Phases]
    /\ trial \subseteq Requests

CircuitInit ==
    /\ circuitState = "CLOSED" /\ failed = 0 /\ halfOpenInFlight = 0 /\ cooled = TRUE
    /\ request = [r \in Requests |-> "idle"]
    /\ trial = {}

-----------------------------------------------------------------------------
\* ensureCircuitClosed: what it leaves, whether it lets the caller pass or not.
TurnsHalfOpen == circuitState = "OPEN" /\ cooled
StateAfter == IF TurnsHalfOpen THEN "HALF_OPEN" ELSE circuitState
TrialsAfter == IF TurnsHalfOpen THEN 0 ELSE halfOpenInFlight
TrialAfter == IF TurnsHalfOpen THEN {} ELSE trial
\* Mutant: the limit on trials is not looked at.
PassesFreely == StateAfter # "OPEN"

\* Whether it lets the caller pass.
Passes == /\ StateAfter # "OPEN"
          /\ StateAfter = "HALF_OPEN" => TrialsAfter < HalfOpenMax

\* Mutant: a trial is not counted.
PresignUncounted(r) ==
    /\ request[r] = "idle"
    /\ circuitState' = StateAfter /\ halfOpenInFlight' = TrialsAfter
    /\ IF Passes
       THEN /\ request' = [request EXCEPT ![r] = "presign"]
            /\ trial' = IF StateAfter = "HALF_OPEN" THEN TrialAfter \cup {r} ELSE TrialAfter
       ELSE request' = request /\ trial' = TrialAfter
    /\ UNCHANGED <<failed, cooled>>

\* createPresignedUpload is refused, or waits for its URL.
PresignTrial(r) ==
    /\ request[r] = "idle"
    /\ circuitState' = StateAfter
    /\ IF Passes
       THEN /\ request' = [request EXCEPT ![r] = "presign"]
            /\ halfOpenInFlight' =
                 IF StateAfter = "HALF_OPEN" THEN TrialsAfter + 1 ELSE TrialsAfter
            /\ trial' = IF StateAfter = "HALF_OPEN" THEN TrialAfter \cup {r} ELSE TrialAfter
       ELSE /\ halfOpenInFlight' = TrialsAfter
            /\ request' = request /\ trial' = TrialAfter
    /\ UNCHANGED <<failed, cooled>>

\* createUploadSession and finalizeUpload ask the circuit and count nothing; only
\* a finalize goes on to report a success.
AskCircuit(r, phase) ==
    /\ request[r] = "idle" /\ phase \in {"idle", "finalize"}
    /\ circuitState' = StateAfter /\ halfOpenInFlight' = TrialsAfter /\ trial' = TrialAfter
    /\ request' = [request EXCEPT ![r] = IF Passes THEN phase ELSE "idle"]
    /\ UNCHANGED <<failed, cooled>>

CheckHealth(r) ==
    /\ request[r] = "idle"
    /\ request' = [request EXCEPT ![r] = "health"]
    /\ UNCHANGED <<circuitState, failed, halfOpenInFlight, cooled, trial>>

\* Mutant: a success clears the count and leaves the circuit as it is.
SucceedsUnclosed(r) ==
    /\ request[r] \in {"presign", "finalize"}
    /\ failed' = 0 /\ UNCHANGED <<circuitState, halfOpenInFlight>> /\ cooled' = TRUE
    /\ request' = [request EXCEPT ![r] = "idle"]
    /\ trial' = trial \ {r}

\* markUploadSuccess closes the circuit, whatever happened since the call began.
Succeeds(r) ==
    /\ request[r] \in {"presign", "finalize"}
    /\ circuitState' = "CLOSED" /\ failed' = 0 /\ halfOpenInFlight' = 0 /\ cooled' = TRUE
    /\ request' = [request EXCEPT ![r] = "idle"]
    /\ trial' = {}

\* A finalize that fails, and a health check that succeeds, report nothing here.
EndsSilently(r) ==
    /\ request[r] \in {"finalize", "health"}
    /\ request' = [request EXCEPT ![r] = "idle"]
    /\ UNCHANGED <<circuitState, failed, halfOpenInFlight, cooled, trial>>

\* markUploadFailure counts the failure and then waits for the error to be reported.
Fails(r) ==
    /\ request[r] \in {"presign", "health"}
    /\ failed' = IF failed < MaxFailures THEN failed + 1 ELSE failed
    /\ request' = [request EXCEPT ![r] =
                    IF @ = "presign" THEN "presignFailed" ELSE "healthFailed"]
    /\ UNCHANGED <<circuitState, halfOpenInFlight, cooled, trial>>

\* Only now the count is weighed; a presign that finds the circuit HALF_OPEN then
\* gives its place back.
Reported(r) ==
    /\ request[r] \in {"presignFailed", "healthFailed"}
    /\ request' = [request EXCEPT ![r] = "idle"]
    /\ IF failed >= Threshold
       THEN circuitState' = "OPEN" /\ halfOpenInFlight' = 0 /\ cooled' = FALSE /\ trial' = {}
       ELSE /\ halfOpenInFlight' = IF request[r] = "presignFailed" /\ circuitState = "HALF_OPEN"
                              /\ halfOpenInFlight > 0
                           THEN halfOpenInFlight - 1 ELSE halfOpenInFlight
            /\ trial' = trial \ {r}
            /\ UNCHANGED <<circuitState, cooled>>
    /\ UNCHANGED failed

\* circuitOpenedUntil passes.
CooldownOver ==
    /\ circuitState = "OPEN" /\ ~cooled
    /\ cooled' = TRUE
    /\ UNCHANGED <<circuitState, failed, halfOpenInFlight, request, trial>>

-----------------------------------------------------------------------------
Settle(r) == Succeeds(r) \/ EndsSilently(r) \/ Fails(r) \/ Reported(r)

CircuitNext ==
    \/ \E r \in Requests :
          \/ PresignTrial(r) \/ CheckHealth(r) \/ Settle(r)
          \/ AskCircuit(r, "idle") \/ AskCircuit(r, "finalize")
    \/ CooldownOver

CircuitSpec == CircuitInit /\ [][CircuitNext]_circuitVars

\* A call to the bucket or to the database ends, with an answer or an error: no retry
\* of the client goes on for ever.
CircuitFairness == \A r \in Requests : WF_circuitVars(Settle(r))

-----------------------------------------------------------------------------
(* Properties. *)

\* The circuit refuses uploads only after enough failures in a row.
OpenAfterFailures == circuitState # "CLOSED" => failed >= Threshold

\* While the circuit is HALF_OPEN its counter is the number of trial presigns that
\* are still out, so it can neither let too many through nor stay full for ever.
TrialsCounted == circuitState = "HALF_OPEN" => halfOpenInFlight = Cardinality(trial)

\* The breaker opens for a reason, and in its trial state it counts exactly.
CircuitSound == CircuitTypeOK /\ OpenAfterFailures /\ TrialsCounted

\* A full HALF_OPEN circuit does not stay full: one of its trials ends.
TrialsEnd ==
    (circuitState = "HALF_OPEN" /\ halfOpenInFlight >= HalfOpenMax)
        ~> ~(circuitState = "HALF_OPEN" /\ halfOpenInFlight >= HalfOpenMax)
=============================================================================

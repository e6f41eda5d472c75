---------------------------- MODULE RetryBreaker ----------------------------
(***************************************************************************)
(* RetryHandler.execute() around CircuitBreaker.call()                     *)
(* (trading/core/retry_handler.py): several callers retry through one      *)
(* breaker.  The breaker decides under its lock, runs the call outside of  *)
(* it and counts the result when it comes, whatever state it is in then.   *)
(***************************************************************************)
EXTENDS Integers

CONSTANTS
    Callers,
    MaxAttempts,        \* RetryConfig.max_attempts
    FailureThreshold,   \* CircuitBreaker.failure_threshold
    SuccessThreshold    \* CircuitBreaker.success_threshold

VARIABLES
    breaker,    \* [state, failures, successes, cooled: the recovery time is over]
    retries,    \* [Callers -> [step, attempt, result]]
    streak      \* history: [bad, good] results in a row

breakerVars == <<breaker, retries, streak>>

ASSUME BreakerAssumption ==
    /\ MaxAttempts \in Nat \ {0} /\ FailureThreshold \in Nat \ {0}
    /\ SuccessThreshold \in Nat \ {0}

BreakerInit ==
    /\ breaker = [state |-> "CLOSED", failures |-> 0, successes |-> 0, cooled |-> FALSE]
    /\ retries = [c \in Callers |->
           [step |-> "idle", attempt |-> 0, result |-> "none"]]
    /\ streak = [bad |-> 0, good |-> 0]

---------------------------------------------------------------------------
(* The breaker. *)

(* Faulty variant: the successes of an earlier trial count again. *)
RunningKeptCount ==
    IF breaker.state = "OPEN" THEN [breaker EXCEPT !.state = "HALF_OPEN"] ELSE breaker

(* A call is let through: at once, or as a trial of an open breaker. *)
Running ==
    IF breaker.state = "OPEN" THEN [breaker EXCEPT !.state = "HALF_OPEN", !.successes = 0]
                              ELSE breaker

(* _on_success *)
AfterSuccess ==
    CASE breaker.state # "HALF_OPEN" -> [breaker EXCEPT !.failures = 0]
      [] breaker.state = "HALF_OPEN" /\ breaker.successes + 1 < SuccessThreshold ->
             [breaker EXCEPT !.successes = @ + 1]
      [] OTHER -> [breaker EXCEPT !.state = "CLOSED", !.failures = 0, !.successes = @ + 1]

(* _on_failure *)
AfterFailure ==
    [breaker EXCEPT
        !.failures = @ + 1, !.cooled = FALSE,
        !.state = IF @ = "HALF_OPEN" \/ breaker.failures + 1 >= FailureThreshold
                  THEN "OPEN" ELSE @]

---------------------------------------------------------------------------
(* The retries. *)

(* Non-retryable errors are raised as they are. *)
Retryable(error) == error # "fatal"

(* An attempt failed: raised as it is, out of attempts, or a delay and once *)
(* more.                                                                    *)
Retries(c, error) ==
    LET n == retries[c].attempt + 1
        ends(result) == [retries EXCEPT ![c].step = "end", ![c].result = result]
    IN  retries' = CASE ~Retryable(error) -> ends(error)
                     [] Retryable(error) /\ n >= MaxAttempts -> ends("exhausted")
                     [] OTHER -> [retries EXCEPT ![c].step = "waiting", ![c].attempt = n]

ExecuteRetried(c) ==
    /\ retries[c].step \in {"idle", "end"}
    /\ retries' = [retries EXCEPT ![c] = [step |-> "ready", attempt |-> 0, result |-> "none"]]
    /\ UNCHANGED <<breaker, streak>>

(* The call goes to the function ... *)
LetThrough(c) ==
    /\ retries[c].step = "ready"
    /\ breaker.state = "OPEN" => breaker.cooled
    /\ breaker' = Running
    /\ retries' = [retries EXCEPT ![c].step = "running"]
    /\ UNCHANGED streak

(* ... or the breaker is open, or the time is up, and both are retried like *)
(* any other error.                                                         *)
NotAttempted(c) ==
    /\ retries[c].step = "ready"
    /\ \/ breaker.state = "OPEN" /\ ~breaker.cooled /\ Retries(c, "open")
       \/ Retries(c, "timeout")
    /\ UNCHANGED <<breaker, streak>>

Succeeds(c) ==
    /\ retries[c].step = "running"
    /\ breaker' = AfterSuccess
    /\ streak' = [bad |-> 0, good |-> IF streak.good < SuccessThreshold THEN streak.good + 1
                                      ELSE streak.good]
    /\ retries' = [retries EXCEPT ![c].step = "end", ![c].result = "success"]

(* Bound: failures are counted up to one past the threshold. *)
Fails(c, error) ==
    /\ retries[c].step = "running"
    /\ breaker.failures <= FailureThreshold
    /\ breaker' = AfterFailure
    /\ streak' = [bad |-> streak.bad + 1, good |-> 0]
    /\ Retries(c, error)

DelayOver(c) ==
    /\ retries[c].step = "waiting"
    /\ retries' = [retries EXCEPT ![c].step = "ready"]
    /\ UNCHANGED <<breaker, streak>>

(* recovery_timeout_ms after the last failure. *)
Cools ==
    /\ breaker.state = "OPEN" /\ ~breaker.cooled
    /\ breaker' = [breaker EXCEPT !.cooled = TRUE]
    /\ UNCHANGED <<retries, streak>>

BreakerNext ==
    \/ \E c \in Callers : ExecuteRetried(c)
    \/ \E c \in Callers : LetThrough(c)
    \/ \E c \in Callers : NotAttempted(c)
    \/ \E c \in Callers : Succeeds(c)
    \/ \E c \in Callers, error \in {"error", "fatal"} : Fails(c, error)
    \/ \E c \in Callers : DelayOver(c)
    \/ Cools

BreakerSpec == BreakerInit /\ [][BreakerNext]_breakerVars

---------------------------------------------------------------------------
(* Late results and all: a closed breaker has seen fewer failures in a row *)
(* than its threshold, and counts exactly those; a trial counts only       *)
(* successes that no failure interrupted.                                  *)
BreakerTellsTruth ==
    /\ breaker.state = "CLOSED" =>
           breaker.failures = streak.bad /\ streak.bad < FailureThreshold
    /\ breaker.state = "HALF_OPEN" => breaker.successes <= streak.good

=============================================================================

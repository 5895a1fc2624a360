------------------------------ MODULE Provider ------------------------------
(***************************************************************************)
(* How one process calls a model: a sliding window admits Capacity callers *)
(* per Window and puts the others to sleep, the admitted caller tries a    *)
(* bounded number of times with growing delays, and a video is polled      *)
(* until a deadline.  A caller runs one job after another, so that calls   *)
(* keep arriving.  Time is relative: what is kept is how long ago a caller *)
(* was admitted and how long a sleeper still sleeps.                       *)
(***************************************************************************)
EXTENDS Integers, Sequences, SequencesExt

CONSTANTS
  Callers,      \* the slots of the process for jobs that use one model
  Capacity,     \* rate_limit_*_per_min
  Window,       \* 60 seconds
  MaxAttempts,  \* provider_retry_max_attempts
  BaseDelay,    \* provider_retry_base_delay_sec
  MaxDelay,     \* provider_retry_max_delay_sec
  PollDeadline, \* 600 seconds
  FirstPoll,    \* 5 seconds; each further interval is half as long again, in whole units
  MaxPoll       \* 30 seconds

ASSUME ProviderAssumption ==
  /\ Capacity \in Nat \ {0} /\ Window \in Nat \ {0} /\ MaxAttempts \in Nat \ {0}
  /\ BaseDelay \in Nat /\ MaxDelay \in Nat
  /\ PollDeadline \in Nat /\ FirstPoll \in Nat \ {0} /\ MaxPoll \in Nat
  /\ FirstPoll <= MaxPoll

VARIABLES
  window,    \* ages of the admissions the limiter remembers, oldest first
  admitted,  \* per age below Window: admissions of that age, remembered or not
  caller     \* per caller: program counter, rest of its sleep, attempts, time since the poll began

providerVars == <<window, admitted, caller>>

Ages == 0 .. Window - 1

NewCaller == [pc |-> "idle", sleep |-> 0, attempt |-> 0, spent |-> 0, interval |-> 0]

ProviderInit ==
  /\ window = << >>
  /\ admitted = [a \in Ages |-> 0]
  /\ caller = [c \in Callers |-> NewCaller]

CallerAt(c, pc) == caller[c].pc = pc /\ caller[c].sleep = 0

Proceed(c, pc) == caller' = [caller EXCEPT ![c].pc = pc]

\* The job ends; whether it delivers or which error it shows is not kept.
End(c) == caller' = [caller EXCEPT ![c] = NewCaller]

-----------------------------------------------------------------------------
(* The sliding window *)

\* popleft while the oldest is that old.
ForgetFrom(ages, old) ==
  LET n == CHOOSE k \in 0 .. Len(ages) :
             /\ \A i \in 1 .. k : ages[i] >= old
             /\ k < Len(ages) => ages[k + 1] < old
  IN SubSeq(ages, n + 1, Len(ages))

\* Mutant: an admission as old as the window minus one counts as forgotten.
PrunedEarly(ages) == ForgetFrom(ages, Window - 1)

Pruned(ages) == ForgetFrom(ages, Window)

\* How long until the oldest admission leaves the window.
EstimatedWait(ages) == IF Len(ages) < Capacity THEN 0 ELSE Window - ages[1]

\* One round of the loop, under the limiter's lock: admitted, or to sleep and try again.
\* Who slept longest has no precedence over who has just come.
Acquire(c) ==
  LET ages == Pruned(window)
      wait == EstimatedWait(ages)
  IN /\ CallerAt(c, "acquire")
     /\ IF wait = 0
        THEN /\ window' = Append(ages, 0)
             /\ admitted' = [admitted EXCEPT ![0] = @ + 1]
             /\ caller' = [caller EXCEPT ![c].pc = "call", ![c].attempt = 1]
        ELSE /\ window' = ages
             /\ caller' = [caller EXCEPT ![c].sleep = wait]
             /\ UNCHANGED admitted

-----------------------------------------------------------------------------
(* Errors and the retry *)

\* What the client library raises, by the status it carries.
Statuses == {"401", "403", "429", "408", "5xx", "other", "none"}

\* map_vertex_error
Mapped(status) ==
  CASE status = "401" -> "authentication_failed"
    [] status = "403" -> "permission_denied"
    [] status = "429" -> "rate_limited"
    [] status \in {"408", "5xx"} -> "transient_error"
    [] status = "other" -> "request_invalid"
    [] status = "none" -> "unknown_error"

Retryable(error) == error \in {"rate_limited", "transient_error"}

Delay(attempt) == Min({MaxDelay, BaseDelay * 2 ^ (attempt - 1)})

\* The next job starts with a call, or resumes the operation of an earlier run.
Start(c) ==
  /\ CallerAt(c, "idle")
  /\ Proceed(c, "acquire") \/ Proceed(c, "get")
  /\ UNCHANGED <<window, admitted>>

\* The call returns outputs, none, or the operation to poll.
CallEnds(c) ==
  /\ CallerAt(c, "call")
  /\ Proceed(c, "poll") \/ End(c)
  /\ UNCHANGED <<window, admitted>>

\* Mutant: the attempts are not counted.
NextAttemptUncounted(c) == caller[c].attempt

NextAttempt(c) == caller[c].attempt + 1

\* It fails: another attempt after a delay if it is worth one. The limiter is not asked again.
CallFails(c, status) ==
  /\ CallerAt(c, "call")
  /\ IF caller[c].attempt < MaxAttempts /\ Retryable(Mapped(status))
     THEN caller' = [caller EXCEPT ![c].sleep = Delay(caller[c].attempt), ![c].attempt = NextAttempt(c)]
     ELSE End(c)
  /\ UNCHANGED <<window, admitted>>

-----------------------------------------------------------------------------
(* The poll *)

NextInterval(i) == Min({MaxPoll, (i * 3) \div 2})

Interval(c) == IF caller[c].interval = 0 THEN FirstPoll ELSE caller[c].interval

\* The operation is not done: sleep once more, unless the deadline has passed.
PollAgain(c) ==
  /\ CallerAt(c, "poll")
  /\ IF caller[c].spent > PollDeadline THEN End(c)
     ELSE caller' = [caller EXCEPT ![c].pc = "get", ![c].sleep = Interval(c),
                                   ![c].interval = NextInterval(Interval(c))]
  /\ UNCHANGED <<window, admitted>>

\* What the provider says of the operation: still running, a video, or an error - of the
\* operation, of its output or of the question itself. Nothing retries the question, and
\* nothing limits how long the answer takes.
Get(c) ==
  /\ CallerAt(c, "get")
  /\ Proceed(c, "poll") \/ End(c)
  /\ UNCHANGED <<window, admitted>>

-----------------------------------------------------------------------------

Asleep(c) == caller[c].sleep > 0

\* One more, up to a bound above which the code does not tell numbers apart.
Older(n, bound) == Min({n + 1, bound})

\* A loop runs what is ready before it sleeps; what takes time are sleeps, and calls and
\* questions to the provider. The deadline counts from the first turn of the poll.
ProviderTick ==
  /\ \A c \in Callers : Asleep(c) \/ caller[c].pc \in {"idle", "call", "get"}
  /\ window' = [i \in DOMAIN window |-> Older(window[i], Window)]
  /\ admitted' = [a \in Ages |-> IF a = 0 THEN 0 ELSE admitted[a - 1]]
  /\ caller' = [c \in Callers |->
       [caller[c] EXCEPT !.sleep = IF Asleep(c) THEN @ - 1 ELSE 0,
                         !.spent = IF caller[c].interval > 0 THEN Older(@, PollDeadline + 1) ELSE @]]

\* What a job does once it has started.
JobStep(c) ==
  \/ Acquire(c) \/ CallEnds(c) \/ PollAgain(c) \/ Get(c)
  \/ \E status \in Statuses : CallFails(c, status)

CallerStep(c) == Start(c) \/ JobStep(c)

ProviderNext == ProviderTick \/ \E c \in Callers : CallerStep(c)

ProviderSpec == ProviderInit /\ [][ProviderNext]_providerVars

-----------------------------------------------------------------------------
(* Properties *)

\* The limiter's memory and the callers stay within their types.
ProviderTypeOK ==
  /\ window \in Seq(0 .. Window)
  /\ admitted \in [Ages -> Nat]
  /\ caller \in [Callers -> [pc : {"idle", "acquire", "call", "poll", "get"},
                             sleep : Nat, attempt : 0 .. MaxAttempts, spent : 0 .. PollDeadline + 1,
                             interval : 0 .. MaxPoll]]

Waits(c) == caller[c].pc = "acquire"

\* However the callers sleep and wake - several for the same slot - no more than Capacity
\* are admitted within any Window: the limiter forgets nothing that still counts. And none
\* sleeps while there are fewer: sleepers wake as soon as there is a slot.
AdmissionsPerWindow ==
  /\ SumFunction(admitted) <= Capacity
  /\ (\E c \in Callers : Waits(c) /\ Asleep(c)) => SumFunction(admitted) = Capacity

\* A call that was admitted, and a poll, ends: attempts and turns of the poll are bounded. A
\* caller that waits is admitted, unless others are admitted in its place again and again
\* for ever: the limiter keeps no queue, so that callers who never stop coming may starve
\* one that waits, and nothing else may.
EveryCallEnds ==
  \A c \in Callers :
    /\ caller[c].pc \in {"call", "poll", "get"} ~> caller[c].pc = "idle"
    /\ <>[]Waits(c) => \E d \in Callers \ {c} : []<>(caller[d].pc = "call")

=============================================================================

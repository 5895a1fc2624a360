------------------------------- MODULE Runner -------------------------------
(***************************************************************************)
(* The manual runner (worker.py, services/jobs/runner.py): processes that  *)
(* take pending jobs from the database and run handlers on them, and what  *)
(* a restart makes of the jobs an earlier process left behind - or a       *)
(* process still alive is working on.  A handler keeps the state it read;  *)
(* what it writes may hide what another process wrote.                     *)
(***************************************************************************)
EXTENDS Naturals, FiniteSets

CONSTANTS
  Work,        \* jobs
  Runners,     \* processes of worker.py
  Concurrency  \* job_runner_concurrency

ASSUME RunnerAssumption == Concurrency \in Nat \ {0} /\ IsFiniteSet(Work)

VARIABLES
  row,        \* per job: its state in the database
  orphaned,   \* jobs not updated for sweep_after, 5 minutes
  runner,     \* per process: where run_forever is
  handler,    \* per process and job: where the handler is, "none" without a task
  submitted   \* per job: submissions to the provider

runnerVars == <<row, orphaned, runner, handler, submitted>>

Final == {"completed", "failed"}
RowStates == Final \cup {"pending", "queued", "generating", "polling"}

RunnerInit ==
  /\ row = [j \in Work |-> "pending"]
  /\ orphaned = {}
  /\ runner = [r \in Runners |-> "down"]
  /\ handler = [r \in Runners |-> [j \in Work |-> "none"]]
  /\ submitted = [j \in Work |-> 0]

ActiveTasks(r) == {j \in Work : handler[r][j] # "none"}
Slots(r) == Concurrency - Cardinality(ActiveTasks(r))

\* Mutant: slots are counted once too many.
PicksOneMore(r, jobs) ==
  {picked \in SUBSET jobs : Cardinality(picked) <= Slots(r) + 1
                              /\ (picked = jobs \/ Cardinality(picked) = Slots(r) + 1)}

\* As many of jobs as there are slots; who comes first is a matter of timestamps.
Picks(r, jobs) ==
  {picked \in SUBSET jobs : Cardinality(picked) <= Slots(r)
                              /\ (picked = jobs \/ Cardinality(picked) = Slots(r))}

Spawned(r, jobs) == [handler EXCEPT ![r] = [j \in Work |-> IF j \in jobs THEN "new" ELSE @[j]]]

-----------------------------------------------------------------------------
(* The process *)

Boot(r) ==
  /\ runner[r] = "down"
  /\ runner' = [runner EXCEPT ![r] = "sweep"]
  /\ UNCHANGED <<row, orphaned, handler, submitted>>

\* Mutant: the sweep hands what it finds back to the runners.
SweptBack == "pending"

Swept == "failed"

\* Whatever did not end and was not updated for long has failed, except what the provider
\* was polled for: an operation can be resumed.
Sweep(r) ==
  LET orphans == {j \in orphaned : row[j] \notin Final \cup {"polling"}} IN
  /\ runner[r] = "sweep"
  /\ row' = [j \in Work |-> IF j \in orphans THEN Swept ELSE row[j]]
  /\ orphaned' = orphaned \ orphans
  /\ runner' = [runner EXCEPT ![r] = "resume"]
  /\ UNCHANGED <<handler, submitted>>

\* Once per process: operations beyond the slots wait for the next restart or for repair.
ResumePolling(r) ==
  /\ runner[r] = "resume"
  /\ \E picked \in Picks(r, {j \in Work : row[j] = "polling"}) : handler' = Spawned(r, picked)
  /\ runner' = [runner EXCEPT ![r] = "poll"]
  /\ UNCHANGED <<row, orphaned, submitted>>

\* The sweep or the resumption fails and is skipped.
SkipStartup(r) ==
  /\ runner[r] \in {"sweep", "resume"}
  /\ runner' = [runner EXCEPT ![r] = IF @ = "sweep" THEN "resume" ELSE "poll"]
  /\ UNCHANGED <<row, orphaned, handler, submitted>>

\* Pending jobs become queued under their row locks before their tasks start.
PollOnce(r) ==
  /\ runner[r] = "poll" /\ Slots(r) > 0
  /\ \E picked \in Picks(r, {j \in Work : row[j] = "pending"}) :
       /\ picked # {}
       /\ row' = [j \in Work |-> IF j \in picked THEN "queued" ELSE row[j]]
       /\ orphaned' = orphaned \ picked
       /\ handler' = Spawned(r, picked)
  /\ UNCHANGED <<runner, submitted>>

\* A crash, or a shutdown that cancels what its timeout did not see ended.
Stop(r) ==
  /\ runner[r] # "down"
  /\ runner' = [runner EXCEPT ![r] = "down"]
  /\ handler' = [handler EXCEPT ![r] = [j \in Work |-> "none"]]
  /\ UNCHANGED <<row, orphaned, submitted>>

-----------------------------------------------------------------------------
(* The handler *)

Continue(r, j, step) == handler' = [handler EXCEPT ![r][j] = step]

Write(j, state) == row' = [row EXCEPT ![j] = state] /\ orphaned' = orphaned \ {j}

\* The handler reads the job once and leaves it if it ended.
ReadJob(r, j) ==
  /\ handler[r][j] = "new"
  /\ Continue(r, j, IF row[j] \in Final THEN "none" ELSE row[j])
  /\ UNCHANGED <<row, orphaned, runner, submitted>>

Generating(r, j) ==
  /\ handler[r][j] \in {"pending", "queued"}
  /\ Continue(r, j, "generating") /\ Write(j, "generating")
  /\ UNCHANGED <<runner, submitted>>

Submit(r, j) ==
  /\ handler[r][j] = "generating"
  /\ Continue(r, j, "submitted")
  /\ submitted' = [submitted EXCEPT ![j] = @ + 1]
  /\ UNCHANGED <<row, orphaned, runner>>

\* A video's operation is saved before it is polled; images come with the answer.
SaveOperation(r, j) ==
  /\ handler[r][j] = "submitted"
  /\ Continue(r, j, "polling") /\ Write(j, "polling")
  /\ UNCHANGED <<runner, submitted>>

DeliverResult(r, j) ==
  /\ handler[r][j] \in {"submitted", "polling"}
  /\ Continue(r, j, "none") /\ Write(j, "completed")
  /\ UNCHANGED <<runner, submitted>>

\* An error fails the job, which is read again for it.
HandlerFails(r, j) ==
  /\ handler[r][j] \in {"pending", "queued", "generating", "submitted", "polling"}
  /\ Continue(r, j, "none")
  /\ IF row[j] \in Final THEN UNCHANGED <<row, orphaned>> ELSE Write(j, "failed")
  /\ UNCHANGED <<runner, submitted>>

Ages5Minutes(j) ==
  /\ row[j] \notin Final
  /\ orphaned' = orphaned \cup {j}
  /\ UNCHANGED <<row, runner, handler, submitted>>

-----------------------------------------------------------------------------

HandlerStep(r, j) ==
  \/ ReadJob(r, j) \/ Generating(r, j) \/ Submit(r, j) \/ SaveOperation(r, j)
  \/ DeliverResult(r, j) \/ HandlerFails(r, j)

RunnerNext ==
  \/ \E r \in Runners :
       \/ Boot(r) \/ Sweep(r) \/ ResumePolling(r) \/ SkipStartup(r) \/ PollOnce(r) \/ Stop(r)
       \/ \E j \in Work : HandlerStep(r, j)
  \/ \E j \in Work : Ages5Minutes(j)

RunnerSpec == RunnerInit /\ [][RunnerNext]_runnerVars

-----------------------------------------------------------------------------
(* Properties *)

\* Rows, processes and handlers stay within their types, and a process within its slots.
RunnerTypeOK ==
  /\ row \in [Work -> RowStates] /\ orphaned \subseteq Work
  /\ runner \in [Runners -> {"down", "sweep", "resume", "poll"}]
  /\ handler \in [Runners -> [Work -> {"none", "new", "pending", "queued", "generating", "submitted", "polling"}]]
  /\ submitted \in [Work -> Nat]
  /\ \A r \in Runners : Cardinality(ActiveTasks(r)) <= Concurrency

\* Whatever crashes and restarts, and although a sweep may fail a job that a live process
\* works on, no job is submitted to the provider - and paid for - twice.
SubmittedOnce == \A j \in Work : submitted[j] <= 1

=============================================================================

--------------------------- MODULE GenerationJobs ---------------------------
(***************************************************************************)
(* The life of one user's generation jobs: admission by the API, the       *)
(* transactional outbox and its dispatcher, the Celery broker, workers     *)
(* that run the mode handlers, the pipeline link, and suspension by a      *)
(* master.  Credits appear as the state of the one reservation each        *)
(* top-level job makes (CreditLedger models what is behind it).            *)
(*                                                                         *)
(* One action is one database transaction, or one call to the outside      *)
(* world, or one read a later step relies on.  Suspension spans two        *)
(* actions because workers meet its row locks.  `suspension` non-empty     *)
(* also means the user row is locked: whoever needs that lock waits.       *)
(***************************************************************************)
EXTENDS JobStates, Integers, FiniteSets, Functions

CONSTANTS
  Jobs,                \* job ids
  Kind,                \* t2i, t2v, i2v, or the parent / child of a pipeline
  Parent,              \* child: its pipeline parent; i2v: the job whose image it animates
  Workers,             \* Celery worker processes
  MaxDispatchAttempts, \* outbox_dispatcher_max_attempts
  Budget,              \* bound: how often each kind of disturbance may happen
  None

Kinds == {"t2i", "t2v", "i2v", "parent", "child"}
Disturbances == {"workerCrash", "dispatcherCrash", "brokerLoss", "refuse", "repair",
                 "providerFailure", "creditRefusal", "suspend"}

ASSUME JobAssumption ==
  /\ None \notin Jobs
  /\ Kind \in [Jobs -> Kinds]
  /\ Parent \in [Jobs -> Jobs \cup {None}]
  /\ \A j \in Jobs :
       /\ Kind[j] = "child" => Parent[j] # None /\ Kind[Parent[j]] = "parent"
       /\ Kind[j] = "i2v" => Parent[j] # None /\ Kind[Parent[j]] \in {"parent", "t2i"}
       /\ Kind[j] \in {"t2i", "t2v", "parent"} => Parent[j] = None
  /\ \A p \in Jobs : Kind[p] = "parent" =>
       \E c \in Jobs : {d \in Jobs : Kind[d] = "child" /\ Parent[d] = p} = {c}
ASSUME LimitAssumption ==
  /\ MaxDispatchAttempts \in Nat \ {0}
  /\ Budget \in [Disturbances -> Nat]

VARIABLES
  job,         \* jobs rows: state, blocked, op (operation name saved), source (asset id set)
  asset,       \* jobs whose output has an assets row; local_path is unique
  hold,        \* per job: the reservation it tops
  event,       \* per job: its outbox event
  batch,       \* outbox rows the dispatcher has locked, with what became of each
  broker,      \* per job: messages queued for it
  worker,      \* per worker: program counter, job, and the session's copy of its state
  user,        \* users.status as committed
  suspension,  \* open suspension transaction: rows locked and rows to cancel
  calls,       \* per job: generation requests sent to the provider
  budget       \* what is left of Budget

vars == <<job, asset, hold, event, batch, broker, worker, user, suspension, calls, budget>>

-----------------------------------------------------------------------------

IsImage(j) == Kind[j] \in {"t2i", "parent"}
IsI2V(j) == Kind[j] \in {"i2v", "child"}
ChildOf(p) == CHOOSE c \in Jobs : Kind[c] = "child" /\ Parent[c] = p

\* The job whose reservation pays for j.
Top(j) == IF Kind[j] = "child" THEN Parent[j] ELSE j

NoSuspension == [open |-> FALSE, locked |-> {}, cancels |-> {}]
Idle == [pc |-> "idle", job |-> None, copy |-> None]

UserLockFree == ~suspension.open

Spend(kind) ==
  /\ budget[kind] > 0
  /\ budget' = [budget EXCEPT ![kind] = @ - 1]

Init ==
  /\ job = [j \in Jobs |-> [state |-> "absent", blocked |-> FALSE, op |-> FALSE, source |-> FALSE]]
  /\ asset = {}
  /\ hold = [j \in Jobs |-> "absent"]
  /\ event = [j \in Jobs |-> [status |-> "absent", attempts |-> 0]]
  /\ batch = [j \in {} |-> "todo"]
  /\ broker = [j \in Jobs |-> 0]
  /\ worker = [w \in Workers |-> Idle]
  /\ user = "active"
  /\ suspension = NoSuspension
  /\ calls = [j \in Jobs |-> 0]
  /\ budget = Budget

-----------------------------------------------------------------------------
(* API: one transaction inserts the job, reserves and adds the event. *)

\* uq_jobs_active_i2v_source_asset, and the check under the asset lock before it.
UsersOf(p) ==
  {j \in Jobs : IsI2V(j) /\ Parent[j] = p /\ job[j].source /\ job[j].state \in Active}

Admit(j) ==
  /\ job[j].state = "absent"
  /\ user = "active" /\ UserLockFree
  /\ Kind[j] = "i2v" => Parent[j] \in asset /\ UsersOf(Parent[j]) = {}
  /\ job' = [job EXCEPT ![j] = [@ EXCEPT !.state = "pending", !.source = (Kind[j] = "i2v")]]
  /\ hold' = [hold EXCEPT ![j] = "held"]
  /\ event' = [event EXCEPT ![j].status = "pending"]
  /\ UNCHANGED <<asset, batch, broker, worker, user, suspension, calls, budget>>

CreateGeneration(j) == Kind[j] \in {"t2i", "t2v", "i2v"} /\ Admit(j)

\* A retry is a new job with a reservation of its own; the failed one stays as it is.
RetryGeneration(failed, j) ==
  /\ job[failed].state = "failed"
  /\ \/ Kind[failed] \in {"t2i", "parent"} /\ Kind[j] = "t2i"
     \/ Kind[failed] = "t2v" /\ Kind[j] = "t2v"
     \/ IsI2V(failed) /\ job[failed].source /\ Kind[j] = "i2v" /\ Parent[j] = Parent[failed]
  /\ Admit(j)

\* Mutant: parent and child are both announced at once.
CreatePipelineAnnouncingBoth(p) ==
  /\ Kind[p] = "parent"
  /\ job[p].state = "absent"
  /\ user = "active" /\ UserLockFree
  /\ job' = [job EXCEPT ![p].state = "pending",
                        ![ChildOf(p)] = [@ EXCEPT !.state = "pending", !.blocked = TRUE]]
  /\ hold' = [hold EXCEPT ![p] = "held"]
  /\ event' = [event EXCEPT ![p].status = "pending", ![ChildOf(p)].status = "pending"]
  /\ UNCHANGED <<asset, batch, broker, worker, user, suspension, calls, budget>>

CreatePipeline(p) ==
  /\ Kind[p] = "parent"
  /\ job[p].state = "absent"
  /\ user = "active" /\ UserLockFree
  /\ job' = [job EXCEPT ![p].state = "pending",
                        ![ChildOf(p)] = [@ EXCEPT !.state = "pending", !.blocked = TRUE]]
  /\ hold' = [hold EXCEPT ![p] = "held"]
  /\ event' = [event EXCEPT ![p].status = "pending"]
  /\ UNCHANGED <<asset, batch, broker, worker, user, suspension, calls, budget>>

-----------------------------------------------------------------------------
(* Outbox dispatcher: lock a batch, publish each event, commit once. *)

DispatchSelect ==
  LET ready == {j \in Jobs : event[j].status = "pending" /\ j \notin suspension.locked}
  IN /\ DOMAIN batch = {} /\ ready # {}
     /\ batch' = [j \in ready |-> "todo"]
     /\ UNCHANGED <<job, asset, hold, event, broker, worker, user, suspension, calls, budget>>

DispatchPublish(j) ==
  /\ j \in DOMAIN batch /\ batch[j] = "todo"
  /\ batch' = [batch EXCEPT ![j] = "published"]
  /\ broker' = [broker EXCEPT ![j] = @ + 1]
  /\ UNCHANGED <<job, asset, hold, event, worker, user, suspension, calls, budget>>

DispatchRefused(j) ==
  /\ j \in DOMAIN batch /\ batch[j] = "todo"
  /\ Spend("refuse")
  /\ batch' = [batch EXCEPT ![j] = "refused"]
  /\ UNCHANGED <<job, asset, hold, event, broker, worker, user, suspension, calls>>

\* Mutants: the broker's refusal is not looked at; attempts are counted one too far.
AfterDispatchUnchecked(e, outcome) == [attempts |-> e.attempts + 1, status |-> "published"]
AfterDispatchImpatient(e, outcome) ==
  [attempts |-> e.attempts + 1, status |-> IF outcome = "published" THEN "published" ELSE "failed"]

AfterDispatch(e, outcome) ==
  [attempts |-> e.attempts + 1,
   status |-> CASE outcome = "published" -> "published"
                [] outcome = "refused" /\ e.attempts + 1 >= MaxDispatchAttempts -> "failed"
                [] OTHER -> "pending"]

DispatchCommit ==
  /\ DOMAIN batch # {} /\ \A j \in DOMAIN batch : batch[j] # "todo"
  /\ event' = [j \in Jobs |-> IF j \in DOMAIN batch THEN AfterDispatch(event[j], batch[j])
                                                    ELSE event[j]]
  /\ batch' = [j \in {} |-> "todo"]
  /\ UNCHANGED <<job, asset, hold, broker, worker, user, suspension, calls, budget>>

\* What was published stays published; the rows are unlocked unchanged.
DispatcherCrash ==
  /\ DOMAIN batch # {}
  /\ Spend("dispatcherCrash")
  /\ batch' = [j \in {} |-> "todo"]
  /\ UNCHANGED <<job, asset, hold, event, broker, worker, user, suspension, calls>>

\* scripts/reenqueue_pending_jobs.py and scripts/reenqueue_polling_jobs.py
Reenqueue(j) ==
  /\ ~job[j].blocked
  /\ job[j].state = "pending" \/ (~IsImage(j) /\ job[j].state = "polling" /\ job[j].op)
  /\ Spend("repair")
  /\ broker' = [broker EXCEPT ![j] = @ + 1]
  /\ UNCHANGED <<job, asset, hold, event, batch, worker, user, suspension, calls>>

\* The broker keeps its queue in memory: a restart forgets it.
BrokerLoss ==
  /\ \E j \in Jobs : broker[j] > 0
  /\ Spend("brokerLoss")
  /\ broker' = [j \in Jobs |-> 0]
  /\ UNCHANGED <<job, asset, hold, event, batch, worker, user, suspension, calls>>

-----------------------------------------------------------------------------
(* The credit end of a job: terminalize_generation. *)

\* Mutant: a failed child returns the whole price, the image's included.
OutcomeForgettingParent(j, succeeded) == IF succeeded THEN "delivered" ELSE "released"

\* What ending j makes of the reservation behind it.
Outcome(j, succeeded) ==
  CASE succeeded -> "delivered"
    [] ~succeeded /\ Kind[j] = "child" /\ {j, Parent[j]} \cap asset # {} -> "partial"
    [] OTHER -> "released"

\* A reservation ends once; asking again for the end it had is a replay.
CanTerminalize(j, succeeded) == hold[Top(j)] \in {"held", Outcome(j, succeeded)}

Terminalized(h, j, succeeded) == [h EXCEPT ![Top(j)] = Outcome(j, succeeded)]

-----------------------------------------------------------------------------
(* Celery worker: receive and claim *)

Resumable(j) == ~IsImage(j) /\ job[j].state = "polling" /\ job[j].op

\* Mutants: redelivered work is claimed again; the claim does not respect row locks;
\* the claim does not look at the state.
ClaimableAnyState(j) == j \notin suspension.locked /\ ~job[j].blocked
ClaimableAgain(j) ==
  j \notin suspension.locked /\ ~job[j].blocked /\ job[j].state \in {"pending", "queued", "generating"}
ClaimableUnlocked(j) == ~job[j].blocked /\ job[j].state = "pending"

Claimable(j) == j \notin suspension.locked /\ ~job[j].blocked /\ job[j].state = "pending"

\* Mutant: a worker takes a message that is not there.
TakeAnyway(w, j) ==
  /\ worker[w] = Idle
  /\ broker' = [broker EXCEPT ![j] = @ - 1]
  /\ UNCHANGED <<asset, hold, event, batch, user, suspension, calls, budget>>

Take(w, j) ==
  /\ worker[w] = Idle /\ broker[j] > 0
  /\ broker' = [broker EXCEPT ![j] = @ - 1]
  /\ UNCHANGED <<asset, hold, event, batch, user, suspension, calls, budget>>

Claim(w, j) ==
  /\ Claimable(j)
  /\ Take(w, j)
  /\ job' = [job EXCEPT ![j].state = "queued"]
  /\ worker' = [worker EXCEPT ![w] = [Idle EXCEPT !.pc = "start", !.job = j]]

\* A polling job is run again without a change that tells one run from another.
Resume(w, j) ==
  /\ Resumable(j) /\ ~job[j].blocked
  /\ Take(w, j)
  /\ worker' = [worker EXCEPT ![w] = [Idle EXCEPT !.pc = "start", !.job = j]]
  /\ UNCHANGED job

\* The message is acknowledged without effect: the row is terminal, blocked, claimed
\* before - or locked by a suspension, which SKIP LOCKED reads as missing.
Discard(w, j) ==
  /\ ~Claimable(j) /\ ~(Resumable(j) /\ ~job[j].blocked)
  /\ Take(w, j)
  /\ UNCHANGED <<job, worker>>

-----------------------------------------------------------------------------
(* Celery worker: the mode handlers.  The session's copy of the row is what
   transition() checks; the write that follows does not look at the row again. *)

At(w, pc) == worker[w].pc = pc

Goto(w, pc, copy) == worker' = [worker EXCEPT ![w].pc = pc, ![w].copy = copy]

Finish(w) == worker' = [worker EXCEPT ![w] = Idle]

\* The handler's session reads the row.  Celery never hands it a PENDING one.
Start(w) ==
  LET copy == job[worker[w].job].state
  IN /\ At(w, "start")
     /\ CASE copy \in Terminal -> Finish(w)
          [] copy = "polling" /\ job[worker[w].job].op -> Goto(w, "poll", copy)
          [] OTHER -> Goto(w, "generate", copy)
     /\ UNCHANGED <<job, asset, hold, event, batch, broker, user, suspension, calls, budget>>

Generate(w) ==
  LET j == worker[w].job
  IN /\ At(w, "generate")
     /\ IF CanTransition(worker[w].copy, "generating")
          THEN /\ job' = [job EXCEPT ![j].state = "generating"]
               /\ Goto(w, "call", "generating")
          ELSE Goto(w, "failing", worker[w].copy) /\ UNCHANGED job
     /\ UNCHANGED <<asset, hold, event, batch, broker, user, suspension, calls, budget>>

\* One call is one run of with_retry, however many requests it sends before one is answered.
CallProvider(w) ==
  /\ At(w, "call")
  /\ calls' = [calls EXCEPT ![worker[w].job] = @ + 1]
  /\ Goto(w, "called", worker[w].copy)
  /\ UNCHANGED <<job, asset, hold, event, batch, broker, user, suspension, budget>>

\* Generation refused for good, or the operation polled ends in an error or a timeout.
ProviderFails(w) ==
  /\ At(w, "call") \/ At(w, "poll")
  /\ Spend("providerFailure")
  /\ Goto(w, "failing", worker[w].copy)
  /\ UNCHANGED <<job, asset, hold, event, batch, broker, user, suspension, calls>>

SaveSubmission(w) ==
  LET j == worker[w].job
  IN /\ At(w, "called")
     /\ IF IsImage(j)
          THEN /\ job' = [job EXCEPT ![j].state = "downloading"]
               /\ Goto(w, "deliver", "downloading")
          ELSE /\ job' = [job EXCEPT ![j].state = "polling", ![j].op = TRUE]
               /\ Goto(w, "poll", "polling")
     /\ UNCHANGED <<asset, hold, event, batch, broker, user, suspension, calls, budget>>

\* The video is there.  Only the unique index on active sources can stop the write.
SaveDownload(w) ==
  LET j == worker[w].job
  IN /\ At(w, "poll")
     /\ IF job[j].source /\ UsersOf(Parent[j]) \ {j} # {}
          THEN Goto(w, "failing", "polling") /\ UNCHANGED job
          ELSE /\ job' = [job EXCEPT ![j].state = "downloading"]
               /\ Goto(w, "deliver", "downloading")
     /\ UNCHANGED <<asset, hold, event, batch, broker, user, suspension, calls, budget>>

\* One transaction: the asset row, the settlement, COMPLETED.
Deliver(w) ==
  LET j == worker[w].job
  IN /\ At(w, "deliver")
     /\ j \notin asset
     /\ asset' = asset \cup {j}
     /\ job' = [job EXCEPT ![j].state = "completed"]
     /\ IF Kind[j] = "parent"
          THEN hold' = hold
          ELSE /\ UserLockFree /\ CanTerminalize(j, TRUE)
               /\ hold' = Terminalized(hold, j, TRUE)
     /\ IF IsImage(j) THEN Goto(w, "link", "completed") ELSE Finish(w)
     /\ UNCHANGED <<event, batch, broker, user, suspension, calls, budget>>

\* It rolls back: assets.local_path is taken, the reservation has ended otherwise, or
\* accounting refuses (an operation with a later clock came first, a lock timed out,
\* a deadlock was broken).
DeliverFails(w) ==
  LET j == worker[w].job
  IN /\ At(w, "deliver")
     /\ \/ j \in asset /\ budget' = budget
        \/ /\ Kind[j] # "parent" /\ UserLockFree
           /\ \/ ~CanTerminalize(j, TRUE) /\ budget' = budget
              \/ Spend("creditRefusal")
     /\ Goto(w, "failing", worker[w].copy)
     /\ UNCHANGED <<job, asset, hold, event, batch, broker, user, suspension, calls>>

\* The exception handler rolls back and reads the row again.
FailRead(w) ==
  LET j == worker[w].job  copy == job[j].state
  IN /\ At(w, "failing")
     /\ IF copy \in Terminal
          THEN IF IsImage(j) /\ copy = "failed" THEN Goto(w, "failchildren", copy)
                                                ELSE Finish(w)
          ELSE Goto(w, "fail", copy)
     /\ UNCHANGED <<job, asset, hold, event, batch, broker, user, suspension, calls, budget>>

\* One transaction: FAILED and the end of the reservation.
MarkFailed(w) ==
  LET j == worker[w].job
  IN /\ At(w, "fail")
     /\ UserLockFree /\ CanTerminalize(j, FALSE)
     /\ hold' = Terminalized(hold, j, FALSE)
     /\ job' = [job EXCEPT ![j].state = "failed"]
     /\ IF IsImage(j) THEN Goto(w, "failchildren", "failed") ELSE Finish(w)
     /\ UNCHANGED <<asset, event, batch, broker, user, suspension, calls, budget>>

\* Nobody catches what _mark_failed raises: the row stays and the message is spent.
MarkFailedRefused(w) ==
  /\ At(w, "fail") /\ UserLockFree
  /\ \/ ~CanTerminalize(worker[w].job, FALSE) /\ budget' = budget
     \/ Spend("creditRefusal")
  /\ Finish(w)
  /\ UNCHANGED <<job, asset, hold, event, batch, broker, user, suspension, calls>>

\* The process dies; the message it had not acknowledged goes back to the queue.
WorkerCrash(w) ==
  /\ worker[w] # Idle
  /\ Spend("workerCrash")
  /\ broker' = [broker EXCEPT ![worker[w].job] = @ + 1]
  /\ Finish(w)
  /\ UNCHANGED <<job, asset, hold, event, batch, user, suspension, calls>>

-----------------------------------------------------------------------------
(* Pipeline: what the parent's worker does for the child after its own commit. *)

Waiting(c) == job[c].state = "pending" /\ job[c].blocked

Cancelled(row) == [row EXCEPT !.state = "cancelled", !.blocked = FALSE]

LinkChild(w) ==
  LET p == worker[w].job  c == ChildOf(p)
  IN /\ At(w, "link") /\ Kind[p] = "parent"
     /\ UserLockFree /\ Waiting(c)
     /\ \/ /\ user = "active" /\ UsersOf(p) = {}
           /\ job' = [job EXCEPT ![c] = [@ EXCEPT !.source = TRUE, !.blocked = FALSE]]
           /\ event' = [event EXCEPT ![c].status = "pending"]
           /\ UNCHANGED hold
        \/ /\ user = "suspended" /\ CanTerminalize(c, FALSE)
           /\ job' = [job EXCEPT ![c] = Cancelled(@)]
           /\ hold' = Terminalized(hold, c, FALSE)
           /\ UNCHANGED event
     /\ Finish(w)
     /\ UNCHANGED <<asset, batch, broker, user, suspension, calls, budget>>

\* Nothing to link, or the link raised and was swallowed: the worker is done either way.
LinkNothing(w) ==
  LET p == worker[w].job
  IN /\ At(w, "link")
     /\ \/ Kind[p] = "t2i" /\ budget' = budget
        \/ /\ Kind[p] = "parent" /\ UserLockFree
           /\ \/ /\ \/ ~Waiting(ChildOf(p))
                    \/ user = "active" /\ UsersOf(p) # {}
                    \/ user = "suspended" /\ ~CanTerminalize(ChildOf(p), FALSE)
                 /\ budget' = budget
              \/ user = "suspended" /\ Waiting(ChildOf(p)) /\ Spend("creditRefusal")
     /\ Finish(w)
     /\ UNCHANGED <<job, asset, hold, event, batch, broker, user, suspension, calls>>

\* The parent's release has already ended the reservation they share.
FailChildren(w) ==
  LET p == worker[w].job
      children == {c \in Jobs : Kind[c] = "child" /\ Parent[c] = p
                                /\ job[c].blocked /\ job[c].state \in Active}
  IN /\ At(w, "failchildren") /\ UserLockFree
     /\ job' = [c \in Jobs |->
                  IF c \notin children THEN job[c]
                  ELSE IF user = "suspended" THEN Cancelled(job[c])
                  ELSE [job[c] EXCEPT !.state = "failed"]]
     /\ Finish(w)
     /\ UNCHANGED <<asset, hold, event, batch, broker, user, suspension, calls, budget>>

-----------------------------------------------------------------------------
(* A master suspends and reactivates the user. *)

PendingJobs == {j \in Jobs : job[j].state = "pending"}

Unpublished(j) == event[j].status # "published"

\* cancel_unpublished: a child still waiting for a live parent is left to the link.
Cancellable(j) ==
  /\ Unpublished(j)
  /\ Parent[j] # None =>
       \/ Parent[j] \in PendingJobs /\ Unpublished(Parent[j])
       \/ job[Parent[j]].state \in Terminal

\* The user row first, then the events of pending jobs (waiting out a dispatcher that
\* has one of them), then those jobs.
SuspendLock ==
  /\ ~suspension.open
  /\ DOMAIN batch \cap PendingJobs = {}
  /\ Spend("suspend")
  /\ suspension' = [open |-> TRUE, locked |-> PendingJobs,
                    cancels |-> {j \in PendingJobs : Cancellable(j)}]
  /\ UNCHANGED <<job, asset, hold, event, batch, broker, worker, user, calls>>

\* Mutant: a child never pays, its parent is taken to.
PayersTopOnly == {j \in suspension.cancels : Parent[j] = None}

\* The jobs among them whose reservation no other one ends.
Payers ==
  {j \in suspension.cancels :
     Parent[j] # None => /\ Parent[j] \notin suspension.cancels
                         /\ job[Parent[j]].state \notin {"failed", "cancelled"}}

SuspendCommit ==
  /\ suspension.open
  /\ \A j \in Payers : CanTerminalize(j, FALSE)
  /\ user' = "suspended"
  /\ job' = [j \in Jobs |-> IF j \in suspension.cancels THEN Cancelled(job[j]) ELSE job[j]]
  /\ hold' = [t \in Jobs |-> IF \E j \in Payers : Top(j) = t
                                THEN Outcome(CHOOSE j \in Payers : Top(j) = t, FALSE)
                                ELSE hold[t]]
  /\ event' = [j \in Jobs |->
       IF j \in suspension.cancels /\ event[j].status # "absent"
         THEN [event[j] EXCEPT !.status = "failed"]
         ELSE event[j]]
  /\ suspension' = NoSuspension
  /\ UNCHANGED <<asset, batch, broker, worker, calls, budget>>

\* Accounting refuses one of the terminal operations: nothing happened.
SuspendAbort ==
  /\ suspension.open
  /\ \/ (\E j \in Payers : ~CanTerminalize(j, FALSE)) /\ budget' = budget
     \/ Payers # {} /\ Spend("creditRefusal")
  /\ suspension' = NoSuspension
  /\ UNCHANGED <<job, asset, hold, event, batch, broker, worker, user, calls>>

Reactivate ==
  /\ user = "suspended" /\ UserLockFree
  /\ user' = "active"
  /\ UNCHANGED <<job, asset, hold, event, batch, broker, worker, suspension, calls, budget>>

-----------------------------------------------------------------------------

Request ==
  \E j \in Jobs :
    \/ CreateGeneration(j)
    \/ CreatePipeline(j)
    \/ \E failed \in Jobs : RetryGeneration(failed, j)

Dispatcher == DispatchSelect \/ (\E j \in Jobs : DispatchPublish(j)) \/ DispatchCommit

Handle(w) ==
  \/ Start(w) \/ Generate(w) \/ CallProvider(w) \/ SaveSubmission(w) \/ SaveDownload(w)
  \/ Deliver(w) \/ DeliverFails(w) \/ FailRead(w) \/ MarkFailed(w) \/ MarkFailedRefused(w)
  \/ LinkChild(w) \/ LinkNothing(w) \/ FailChildren(w)

WorkerStep(w) ==
  \/ \E j \in Jobs : Claim(w, j) \/ Resume(w, j) \/ Discard(w, j)
  \/ Handle(w) \/ ProviderFails(w)

Master == SuspendLock \/ SuspendCommit \/ SuspendAbort \/ Reactivate

Fault ==
  \/ DispatcherCrash \/ BrokerLoss
  \/ \E j \in Jobs : DispatchRefused(j) \/ Reenqueue(j)
  \/ \E w \in Workers : WorkerCrash(w)

Next == Request \/ Dispatcher \/ (\E w \in Workers : WorkerStep(w)) \/ Master \/ Fault

Spec == Init /\ [][Next]_vars

\* The dispatcher loops for ever, every worker takes the next message and every handler
\* goes on (calls to the provider are taken to end), and an open suspension ends.
Fairness ==
  /\ WF_vars(Dispatcher)
  /\ \A w \in Workers : WF_vars(WorkerStep(w))
  /\ WF_vars(SuspendCommit \/ SuspendAbort)

FairSpec == Spec /\ Fairness
-----------------------------------------------------------------------------
(* Properties *)

\* Rows, messages and workers stay within their types; above all, no message is
\* taken that is not there, so the broker's counts never go below zero.
TypeOK ==
  /\ job \in [Jobs -> [state : JobState \cup {"absent"}, blocked : BOOLEAN, op : BOOLEAN,
                       source : BOOLEAN]]
  /\ asset \subseteq Jobs
  /\ hold \in [Jobs -> {"absent", "held", "delivered", "partial", "released"}]
  /\ event \in [Jobs -> [status : {"absent", "pending", "published", "failed"}, attempts : Nat]]
  /\ DOMAIN batch \subseteq Jobs
  /\ \A j \in DOMAIN batch : batch[j] \in {"todo", "published", "refused"}
  /\ broker \in [Jobs -> Nat]
  /\ worker \in [Workers -> [pc : {"idle", "start", "generate", "call", "called", "poll",
                                  "deliver", "link", "failing", "fail", "failchildren"},
                             job : Jobs \cup {None}, copy : JobState \cup {None}]]
  /\ user \in {"active", "suspended"}
  /\ suspension \in [open : BOOLEAN, locked : SUBSET Jobs, cancels : SUBSET Jobs]
  /\ calls \in [Jobs -> Nat]
  /\ budget \in [Disturbances -> Nat]

\* The job that comes last under a reservation.
Last(t) == IF Kind[t] = "parent" THEN ChildOf(t) ELSE t

Payable == {t \in Jobs : Kind[t] # "child" /\ job[t].state # "absent"}

\* The user pays for exactly what has been delivered, whatever is duplicated, lost,
\* crashes or is suspended on the way: a full settlement if and only if the last
\* output is there, a partial one only for the image of a pipeline, a release only
\* if there is no output at all.
ChargeMatchesDelivery ==
  \A t \in Payable :
    /\ hold[t] = "delivered" <=> Last(t) \in asset
    /\ hold[t] = "partial" => t \in asset
    /\ hold[t] = "released" => t \notin asset

\* Several messages, resumed runs and workers that die never make the provider
\* generate twice for one job: that would be paid for twice.  (The attempts of one
\* with_retry, each after a failed one, count as one.)
AtMostOneProviderCall == \A j \in Jobs : calls[j] <= 1

\* What a suspension cancels never reached the provider and never will: no message
\* still in the queue can bring it back.
CancelledWorkNeverRan ==
  \A j \in Jobs : job[j].state = "cancelled" => calls[j] = 0 /\ j \notin asset

\* A pipeline's video never starts before the image of its parent is delivered.
ChildFollowsParent ==
  \A c \in Jobs : Kind[c] = "child" /\ (event[c].status # "absent" \/ calls[c] > 0) =>
    Parent[c] \in asset /\ job[c].source

\* A job that can run is announced somewhere: its event will be published, or a
\* message is on its way, or the operator sees a failed event.  Whichever process
\* dies between two commits, no job is forgotten silently.
NothingForgotten ==
  \A j \in PendingJobs :
    ~job[j].blocked => event[j].status \in {"pending", "failed"} \/ broker[j] > 0

Underway(t) ==
  job[t].state \in Active \/ (job[t].state = "completed" /\ job[Last(t)].state \in Active)

\* While no message is duplicated, credits are held as long as the work behind them
\* can still deliver and not a step longer: neither does a job end without ending
\* its reservation nor the other way round.
HoldEndsWithWork == \A t \in Payable : hold[t] = "held" <=> Underway(t)

\* A job that ended stays as it ended.
TerminalStatesAreFinal ==
  [][\A j \in Jobs : job[j].state \in Terminal => job'[j].state = job[j].state]_vars

\* Every job a user was charged for in advance ends, and so does the reservation.
EveryJobEnds ==
  \A j \in Jobs : job[j].state # "absent" ~>
    job[j].state \in Terminal /\ hold[Top(j)] # "held"

=============================================================================

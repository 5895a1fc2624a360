-------------------------- MODULE GenerationJobsProofs --------------------------
(***************************************************************************)
(* Proofs about GenerationJobs, for any number of jobs and workers, any    *)
(* pipelines, and disturbances of every kind as often as they may happen.  *)
(***************************************************************************)
EXTENDS GenerationJobs, TLAPS

Row == [state : JobState \cup {"absent"}, blocked : BOOLEAN, op : BOOLEAN, source : BOOLEAN]
Holds == {"absent", "held", "delivered", "partial", "released"}
EventRow == [status : {"absent", "pending", "published", "failed"}, attempts : Nat]
Counters == {"idle", "start", "generate", "call", "called", "poll", "deliver", "link",
             "failing", "fail", "failchildren"}
WorkerRow == [pc : Counters, job : Jobs \cup {None}, copy : JobState \cup {None}]

\* TypeOK, with names for the sets.
Typed ==
  /\ job \in [Jobs -> Row] /\ asset \subseteq Jobs /\ hold \in [Jobs -> Holds]
  /\ event \in [Jobs -> EventRow]
  /\ DOMAIN batch \subseteq Jobs
  /\ \A j \in DOMAIN batch : batch[j] \in {"todo", "published", "refused"}
  /\ broker \in [Jobs -> Nat]
  /\ worker \in [Workers -> WorkerRow]
  /\ user \in {"active", "suspended"}
  /\ suspension \in [open : BOOLEAN, locked : SUBSET Jobs, cancels : SUBSET Jobs]
  /\ calls \in [Jobs -> Nat]
  /\ budget \in [Disturbances -> Nat]

-----------------------------------------------------------------------------
(* The invariant *)

\* No generation has been asked for yet, or none ever will be.
Unstarted == {"absent", "pending", "cancelled"}

\* Generation has been asked for, or it failed.
Started == {"polling", "downloading", "completed", "failed"}

\* What a handler that stands at r.pc knows of its job: from its claim to its submission the
\* row is as the handler left it; afterwards any number of runs may write it.
Fits(r) ==
  LET j == r.job  state == job[j].state
  IN /\ state = "queued" => r.pc = "start" \/ (r.pc = "generate" /\ r.copy = "queued")
     /\ state = "generating" =>
          (r.pc = "call" /\ calls[j] = 0) \/ r.pc \in {"called", "failing", "fail"}
     /\ state \in Started => r.pc \notin {"call", "called"} /\ (r.pc = "generate" => r.copy = "downloading")
     /\ state \in Started /\ IsImage(j) =>
          \/ state = "downloading" /\ r.pc \in {"deliver", "failing", "fail"}
          \/ state = "completed" /\ r.pc = "link"
          \/ state = "failed" /\ r.pc = "failchildren"

WorkersFit ==
  \A w \in Workers :
    IF worker[w].pc = "idle" THEN worker[w] = Idle
    ELSE worker[w].job \in Jobs /\ job[worker[w].job].state \notin Unstarted /\ Fits(worker[w])

\* One worker at a time, until a video is submitted; for an image always.
Alone ==
  \A w, v \in Workers :
    /\ worker[w].job = worker[v].job /\ worker[w].job \in Jobs
    /\ IsImage(worker[w].job) \/ job[worker[w].job].state \in {"queued", "generating"}
    => w = v

\* What the state of a row says of calls, output and the operation.
RowsFit ==
  \A j \in Jobs :
    /\ job[j].state \in Unstarted \cup {"queued"} => calls[j] = 0
    /\ job[j].state \in Unstarted \cup {"queued", "generating"} => j \notin asset
    /\ job[j].state # "enhancing" /\ calls[j] <= 1
    /\ job[j].state = "polling" => job[j].op /\ ~IsImage(j)
    /\ IsImage(j) => (j \in asset <=> job[j].state = "completed")
    /\ job[j].blocked => job[j].state \in {"pending", "failed"} /\ \A w \in Workers : worker[w].job # j

\* A child comes with its parent, and until its image is linked nothing happens to it.
Linked(c) == Parent[c] \in asset /\ job[c].source

ChildrenWait ==
  \A c \in Jobs : Kind[c] = "child" =>
    /\ job[c].state = "absent" <=> job[Parent[c]].state = "absent"
    /\ ~Linked(c) => /\ job[c].state \in {"absent", "pending", "cancelled", "failed"}
                     /\ job[c].state = "pending" => job[c].blocked
                     /\ event[c].status = "absent" /\ calls[c] = 0 /\ c \notin asset
                     /\ \A w \in Workers : worker[w].job # c

\* The dispatcher holds events that exist.
BatchExists == \A j \in DOMAIN batch : event[j].status # "absent"

\* What a suspension has locked stays as it read it; a child is only cancelled with its
\* parent, or after it ended.
LockedRest ==
  /\ ~suspension.open => suspension = NoSuspension
  /\ suspension.cancels \subseteq suspension.locked
  /\ \A j \in suspension.locked : job[j].state = "pending"
  /\ \A j \in suspension.cancels :
       Kind[j] = "child" => Parent[j] \in suspension.cancels \/ job[Parent[j]].state \in Terminal

\* A pipeline that can still deliver has not given its credits back.
ReleasedIsOver ==
  \A p \in Jobs : Kind[p] = "parent" /\ hold[p] = "released" => job[p].state \in {"failed", "cancelled"}

\* The inductive invariant.
IInv ==
  /\ Typed /\ WorkersFit /\ Alone /\ RowsFit /\ ChildrenWait /\ BatchExists /\ LockedRest
  /\ ReleasedIsOver /\ ChargeMatchesDelivery

-----------------------------------------------------------------------------
(* Types *)

\* A parent has one child.
LEMMA ChildType ==
  ASSUME NEW p \in Jobs, Kind[p] = "parent"
  PROVE  /\ ChildOf(p) \in Jobs /\ Kind[ChildOf(p)] = "child" /\ Parent[ChildOf(p)] = p
         /\ \A c \in Jobs : Kind[c] = "child" /\ Parent[c] = p => c = ChildOf(p)
<1>1. PICK c \in Jobs : {d \in Jobs : Kind[d] = "child" /\ Parent[d] = p} = {c}
  BY JobAssumption
<1>2. Kind[c] = "child" /\ Parent[c] = p
  BY <1>1
<1> QED
  BY <1>1, <1>2 DEF ChildOf

\* Whose reservation pays.
LEMMA TopType ==
  ASSUME NEW j \in Jobs
  PROVE  /\ Top(j) \in Jobs /\ Kind[Top(j)] # "child"
         /\ Kind[j] = "child" => Parent[j] \in Jobs /\ Kind[Parent[j]] = "parent"
         /\ Kind[j] # "child" => Top(j) = j
  BY JobAssumption DEF Top

\* The ends of a reservation.
LEMMA OutcomeType ==
  ASSUME NEW j \in Jobs, NEW succeeded \in BOOLEAN
  PROVE  /\ Outcome(j, succeeded) \in Holds
         /\ Outcome(j, succeeded) \notin {"absent", "held"}
         /\ succeeded <=> Outcome(j, succeeded) = "delivered"
  BY DEF Outcome, Holds

\* Ending a reservation keeps the type of the others.
LEMMA TerminalizedType ==
  ASSUME Typed, NEW j \in Jobs, NEW succeeded \in BOOLEAN
  PROVE  Terminalized(hold, j, succeeded) \in [Jobs -> Holds]
  BY OutcomeType DEF Terminalized, Typed

\* A row whose state is written, or that waits, or is cancelled.
LEMMA RowType ==
  ASSUME NEW row \in Row, NEW state \in JobState
  PROVE  /\ [row EXCEPT !.state = state] \in Row
         /\ [row EXCEPT !.state = state].state = state
         /\ [row EXCEPT !.state = state].blocked = row.blocked
         /\ [row EXCEPT !.state = state].op = row.op
         /\ [row EXCEPT !.state = state].source = row.source
         /\ [row EXCEPT !.state = state, !.blocked = TRUE] \in Row
         /\ [row EXCEPT !.state = state, !.blocked = TRUE].state = state
         /\ [row EXCEPT !.state = state, !.blocked = TRUE].blocked
         /\ [row EXCEPT !.state = state, !.blocked = TRUE].source = row.source
         /\ Cancelled(row) \in Row /\ Cancelled(row).state = "cancelled" /\ ~Cancelled(row).blocked
         /\ Cancelled(row).source = row.source
  BY DEF Row, JobState, Cancelled

\* What is left of a budget.
LEMMA SpendType ==
  ASSUME Typed, NEW kind \in Disturbances, Spend(kind)
  PROVE  budget' \in [Disturbances -> Nat]
  BY DEF Typed, Spend

-----------------------------------------------------------------------------
(* Kinds of steps *)

\* A step that starts or ends jobs nobody works on, and may send a worker home.
LEMMA RestStep ==
  ASSUME IInv, UNCHANGED <<asset, calls>>,
         \A w \in Workers : worker'[w] = worker[w] \/ worker'[w] = Idle,
         \A j \in Jobs :
           job'[j] = job[j] \/ /\ job[j].state \in {"absent", "pending"}
                               /\ job'[j].state \in {"pending", "cancelled", "failed"}
                               /\ job'[j].blocked => job'[j].state # "cancelled"
  PROVE  WorkersFit' /\ Alone' /\ RowsFit'
<1> USE DEF IInv
<1>1. None \notin Jobs /\ Idle.pc = "idle" /\ Idle.job = None
  BY JobAssumption DEF Idle
<1>2. \A j \in Jobs : job[j].state \in {"absent", "pending"} => \A w \in Workers : worker[w].job # j
  BY <1>1 DEF WorkersFit, Unstarted
<1>3. \A w \in Workers : worker[w].pc # "idle" => job'[worker[w].job] = job[worker[w].job]
  BY <1>2 DEF WorkersFit
<1>4. \A w \in Workers : worker'[w].pc # "idle" => worker'[w] = worker[w] /\ (Fits(worker[w]) => Fits(worker[w])')
  <2> SUFFICES ASSUME NEW w \in Workers, worker'[w].pc # "idle", Fits(worker[w])
               PROVE  worker'[w] = worker[w] /\ Fits(worker[w])'
    BY <1>1
  <2>1. worker'[w] = worker[w] /\ job'[worker[w].job] = job[worker[w].job]
    BY <1>1, <1>3
  <2> QED
    BY <2>1 DEF Fits, IsImage
<1>5. WorkersFit'
  BY <1>1, <1>3, <1>4 DEF WorkersFit
<1>6. Alone'
  <2> SUFFICES ASSUME NEW w \in Workers, NEW v \in Workers, worker'[w].job = worker'[v].job,
                      worker'[w].job \in Jobs,
                      IsImage(worker'[w].job) \/ job'[worker'[w].job].state \in {"queued", "generating"}
               PROVE  w = v
    BY DEF Alone, IsImage
  <2>1. worker'[w] = worker[w] /\ worker'[v] = worker[v]
    BY <1>1
  <2>2. job'[worker[w].job] = job[worker[w].job]
    BY <1>2, <2>1
  <2> QED
    BY <2>1, <2>2 DEF Alone
<1>7. RowsFit'
  <2> SUFFICES ASSUME NEW j \in Jobs
               PROVE  /\ job'[j].state \in Unstarted \cup {"queued"} => calls[j] = 0
                      /\ job'[j].state \in Unstarted \cup {"queued", "generating"} => j \notin asset
                      /\ job'[j].state # "enhancing" /\ calls[j] <= 1
                      /\ job'[j].state = "polling" => job'[j].op /\ ~IsImage(j)
                      /\ IsImage(j) => (j \in asset <=> job'[j].state = "completed")
                      /\ job'[j].blocked => /\ job'[j].state \in {"pending", "failed"}
                                            /\ \A w \in Workers : worker'[w].job # j
    BY DEF RowsFit, IsImage
  <2>1. \A w \in Workers : worker'[w].job = worker[w].job \/ worker'[w].job = None
    BY <1>1
  <2>2. CASE job'[j] = job[j]
    BY <1>1, <2>1, <2>2 DEF RowsFit
  <2>3. CASE job'[j] # job[j]
    <3>1. job[j].state \in {"absent", "pending"} /\ job'[j].state \in {"pending", "cancelled", "failed"}
          /\ (job'[j].blocked => job'[j].state # "cancelled")
      BY <2>3
    <3>2. calls[j] = 0 /\ j \notin asset /\ \A w \in Workers : worker'[w].job # j
      BY <1>1, <1>2, <2>1, <3>1 DEF RowsFit, Unstarted
    <3> QED
      BY <3>1, <3>2
  <2> QED
    BY <2>2, <2>3
<1> QED
  BY <1>5, <1>6, <1>7

\* What is charged follows from holds, outputs and how far parents are.
LEMMA ChargeSame ==
  ASSUME IInv, UNCHANGED <<hold, asset>>,
         \A j \in Jobs : /\ job[j].state = "absent" <=> job'[j].state = "absent"
                         /\ IsImage(j) /\ job[j].state \in {"failed", "cancelled"} =>
                              job'[j].state \in {"failed", "cancelled"}
  PROVE  ReleasedIsOver' /\ ChargeMatchesDelivery'
<1>1. Payable' = Payable
  BY DEF Payable
<1>2. ReleasedIsOver'
  BY DEF IInv, ReleasedIsOver, IsImage
<1> QED
  BY <1>1, <1>2 DEF IInv, ChargeMatchesDelivery, Last, ChildOf

\* A step that leaves rows, workers and outputs alone.
LEMMA QuietStep ==
  ASSUME IInv, UNCHANGED <<job, asset, hold, calls, worker>>,
         Typed', BatchExists', LockedRest',
         \A j \in Jobs : event[j].status = "absent" => event'[j].status = "absent"
  PROVE  IInv'
<1>1. WorkersFit' /\ Alone' /\ RowsFit'
  BY RestStep
<1>2. ChildrenWait'
  BY DEF IInv, ChildrenWait, Linked
<1>3. ReleasedIsOver' /\ ChargeMatchesDelivery'
  BY ChargeSame
<1> QED
  BY <1>1, <1>2, <1>3 DEF IInv

-----------------------------------------------------------------------------
(* The dispatcher, the broker and the master *)

\* Events are picked and published, messages come and go, a dispatcher dies.
LEMMA DispatchStep ==
  ASSUME IInv,
         \/ DispatchSelect \/ DispatchCommit \/ DispatcherCrash \/ BrokerLoss
         \/ \E j \in Jobs : DispatchPublish(j) \/ DispatchRefused(j) \/ Reenqueue(j)
  PROVE  IInv'
<1> USE DEF IInv
<1>1. LockedRest' /\ UNCHANGED <<job, asset, hold, calls, worker, suspension, user>>
  BY DEF DispatchSelect, DispatchCommit, DispatcherCrash, BrokerLoss, DispatchPublish, DispatchRefused,
     Reenqueue, LockedRest
<1>2. ASSUME Typed', BatchExists',
             \A j \in Jobs : event[j].status = "absent" => event'[j].status = "absent"
      PROVE  IInv'
  BY <1>1, <1>2, QuietStep
<1>3. CASE DispatchSelect
  <2>1. batch' = [j \in {i \in Jobs : event[i].status = "pending" /\ i \notin suspension.locked} |-> "todo"]
        /\ UNCHANGED <<event, broker, budget>>
    BY <1>3 DEF DispatchSelect
  <2>2. Typed'
    BY <1>1, <2>1 DEF Typed
  <2>3. BatchExists'
    BY <2>1 DEF BatchExists
  <2> QED
    BY <1>2, <2>1, <2>2, <2>3
<1>4. ASSUME NEW j \in Jobs, DispatchPublish(j) \/ DispatchRefused(j) PROVE IInv'
  <2>1. PICK outcome \in {"published", "refused"} : batch' = [batch EXCEPT ![j] = outcome]
    BY <1>4 DEF DispatchPublish, DispatchRefused
  <2>2. broker' \in [Jobs -> Nat] /\ event' = event
    BY <1>4 DEF DispatchPublish, DispatchRefused, Typed
  <2>3. budget' \in [Disturbances -> Nat]
    BY <1>4, SpendType DEF DispatchPublish, DispatchRefused, Typed, Disturbances
  <2>4. Typed'
    BY <1>1, <2>1, <2>2, <2>3 DEF Typed
  <2>5. BatchExists'
    BY <2>1, <2>2 DEF BatchExists
  <2> QED
    BY <1>2, <2>2, <2>4, <2>5
<1>5. CASE DispatchCommit
  <2>1. event' = [j \in Jobs |-> IF j \in DOMAIN batch THEN AfterDispatch(event[j], batch[j]) ELSE event[j]]
        /\ batch' = [j \in {} |-> "todo"] /\ UNCHANGED <<broker, budget>>
    BY <1>5 DEF DispatchCommit
  <2>2. \A j \in DOMAIN batch : AfterDispatch(event[j], batch[j]) \in EventRow
    BY DEF AfterDispatch, EventRow, Typed
  <2>3. event' \in [Jobs -> EventRow]
    BY <2>1, <2>2 DEF Typed
  <2>4. DOMAIN batch' = {}
    BY <2>1
  <2>5. Typed' /\ BatchExists'
    BY <1>1, <2>1, <2>3, <2>4 DEF Typed, BatchExists
  <2>6. \A j \in Jobs : event[j].status = "absent" => event'[j].status = "absent"
    BY <2>1 DEF BatchExists
  <2> QED
    BY <1>2, <2>5, <2>6
<1>6. CASE DispatcherCrash \/ BrokerLoss
  <2>1. budget' \in [Disturbances -> Nat]
    BY <1>6, SpendType DEF DispatcherCrash, BrokerLoss, Disturbances
  <2>2. broker' \in [Jobs -> Nat] /\ event' = event
    BY <1>6 DEF DispatcherCrash, BrokerLoss, Typed
  <2>3. DOMAIN batch' = {} \/ batch' = batch
    BY <1>6 DEF DispatcherCrash, BrokerLoss
  <2> QED
    BY <1>1, <1>2, <2>1, <2>2, <2>3 DEF Typed, BatchExists
<1>7. ASSUME NEW j \in Jobs, Reenqueue(j) PROVE IInv'
  <2>1. budget' \in [Disturbances -> Nat]
    BY <1>7, SpendType DEF Reenqueue, Disturbances
  <2>2. broker' \in [Jobs -> Nat] /\ UNCHANGED <<event, batch>>
    BY <1>7 DEF Reenqueue, Typed
  <2> QED
    BY <1>1, <1>2, <2>1, <2>2 DEF Typed, BatchExists
<1> QED
  BY <1>3, <1>4, <1>5, <1>6, <1>7

\* A suspension reads what it locks, or gives up; a user is active again.
LEMMA MasterStep ==
  ASSUME IInv, SuspendLock \/ SuspendAbort \/ Reactivate
  PROVE  IInv'
<1> USE DEF IInv
<1>1. UNCHANGED <<job, asset, hold, calls, worker, event, batch, broker>>
  BY DEF SuspendLock, SuspendAbort, Reactivate
<1>2. budget' \in [Disturbances -> Nat]
  BY SpendType DEF SuspendLock, SuspendAbort, Reactivate, Disturbances, Typed
<1>3. CASE SuspendLock
  <2>1. suspension' = [open |-> TRUE, locked |-> PendingJobs, cancels |-> {j \in PendingJobs : Cancellable(j)}]
        /\ user' = user
    BY <1>3 DEF SuspendLock
  <2>2. Typed'
    BY <1>1, <1>2, <2>1 DEF Typed, PendingJobs
  <2>3. LockedRest'
    <3>1. \A j \in PendingJobs : Cancellable(j) /\ Kind[j] = "child" =>
            (Parent[j] \in PendingJobs /\ Cancellable(Parent[j])) \/ job[Parent[j]].state \in Terminal
      BY JobAssumption DEF Cancellable, PendingJobs
    <3> QED
      BY <1>1, <2>1, <3>1 DEF LockedRest, PendingJobs
  <2> QED
    BY <1>1, <2>2, <2>3, QuietStep DEF BatchExists
<1>4. CASE SuspendAbort
  <2>1. suspension' = NoSuspension /\ user' = user
    BY <1>4 DEF SuspendAbort
  <2>2. Typed' /\ LockedRest'
    BY <1>1, <1>2, <2>1 DEF Typed, LockedRest, NoSuspension
  <2> QED
    BY <1>1, <2>2, QuietStep DEF BatchExists
<1>5. CASE Reactivate
  BY <1>1, <1>2, <1>5, QuietStep DEF Reactivate, Typed, LockedRest, BatchExists
<1> QED
  BY <1>3, <1>4, <1>5

-----------------------------------------------------------------------------
(* Admission *)

\* A new job, with its reservation and its event.
LEMMA AdmitStep ==
  ASSUME IInv, NEW j \in Jobs, Kind[j] # "child", Kind[j] # "parent", Admit(j)
  PROVE  IInv'
<1> USE DEF IInv
<1>1. /\ job[j].state = "absent" /\ ~suspension.open
      /\ job' = [job EXCEPT ![j] = [@ EXCEPT !.state = "pending", !.source = (Kind[j] = "i2v")]]
      /\ hold' = [hold EXCEPT ![j] = "held"]
      /\ event' = [event EXCEPT ![j].status = "pending"]
      /\ UNCHANGED <<asset, batch, broker, worker, user, suspension, calls, budget>>
  BY DEF Admit, UserLockFree
<1>2. /\ job'[j].state = "pending" /\ job'[j].blocked = job[j].blocked
      /\ \A i \in Jobs : i # j => job'[i] = job[i]
      /\ hold'[j] = "held" /\ \A i \in Jobs : i # j => hold'[i] = hold[i]
      /\ \A i \in Jobs : i # j => event'[i] = event[i]
      /\ event'[j].status = "pending"
  BY <1>1 DEF Typed, Row, EventRow
<1>3. Typed'
  <2>1. [job[j] EXCEPT !.state = "pending", !.source = (Kind[j] = "i2v")] \in Row
    <3>1. job[j] \in Row
      BY DEF Typed
    <3> QED
      BY <3>1 DEF Row, JobState
  <2>2. [event[j] EXCEPT !.status = "pending"] \in EventRow
    BY DEF Typed, EventRow
  <2>3. job' \in [Jobs -> Row] /\ event' \in [Jobs -> EventRow] /\ hold' \in [Jobs -> Holds]
    BY <1>1, <2>1, <2>2 DEF Typed, Holds
  <2> QED
    BY <1>1, <2>3 DEF Typed
<1>4. WorkersFit' /\ Alone' /\ RowsFit'
  BY <1>1, <1>2, RestStep
<1>5. ChildrenWait'
  <2>1. \A c \in Jobs : Kind[c] = "child" => Parent[c] # j /\ c # j /\ Parent[c] \in Jobs
    BY TopType
  <2> QED
    BY <1>1, <1>2, <2>1 DEF ChildrenWait, Linked
<1>6. BatchExists' /\ LockedRest'
  BY <1>1, <1>2 DEF BatchExists, LockedRest, NoSuspension, Typed
<1>7. ReleasedIsOver'
  BY <1>2 DEF ReleasedIsOver
<1>8. ChargeMatchesDelivery'
  <2> SUFFICES ASSUME NEW t \in Jobs, Kind[t] # "child", job'[t].state # "absent"
               PROVE  /\ hold'[t] = "delivered" <=> Last(t) \in asset
                      /\ hold'[t] = "partial" => t \in asset
                      /\ hold'[t] = "released" => t \notin asset
    BY <1>1 DEF ChargeMatchesDelivery, Payable, Last, ChildOf
  <2>1. CASE t = j
    BY <1>1, <1>2, <2>1 DEF Last, RowsFit, Unstarted
  <2>2. CASE t # j
    BY <1>2, <2>2 DEF ChargeMatchesDelivery, Payable
  <2> QED
    BY <2>1, <2>2
<1> QED
  BY <1>3, <1>4, <1>5, <1>6, <1>7, <1>8

\* A parent with a child that waits for it, and one reservation for both.
LEMMA PipelineStep ==
  ASSUME IInv, NEW p \in Jobs, CreatePipeline(p)
  PROVE  IInv'
<1> USE DEF IInv
<1> DEFINE c == ChildOf(p)
<1>1. /\ Kind[p] = "parent" /\ job[p].state = "absent" /\ ~suspension.open
      /\ job' = [job EXCEPT ![p].state = "pending", ![c] = [@ EXCEPT !.state = "pending", !.blocked = TRUE]]
      /\ hold' = [hold EXCEPT ![p] = "held"]
      /\ event' = [event EXCEPT ![p].status = "pending"]
      /\ UNCHANGED <<asset, batch, broker, worker, user, suspension, calls, budget>>
  BY DEF CreatePipeline, UserLockFree
<1>2. c \in Jobs /\ Kind[c] = "child" /\ Parent[c] = p /\ c # p
      /\ \A d \in Jobs : Kind[d] = "child" /\ Parent[d] = p => d = c
  BY <1>1, ChildType
<1> HIDE DEF c
<1>3. job[c].state = "absent"
  BY <1>1, <1>2 DEF ChildrenWait
<1> DEFINE top == [job[p] EXCEPT !.state = "pending"]
           waits == [job[c] EXCEPT !.state = "pending", !.blocked = TRUE]
<1>a. job \in [Jobs -> Row] /\ job[p] \in Row /\ job[c] \in Row /\ "pending" \in JobState
  BY <1>2 DEF Typed, JobState
<1>b. /\ top \in Row /\ top.state = "pending" /\ top.blocked = job[p].blocked
      /\ waits \in Row /\ waits.state = "pending" /\ waits.blocked /\ waits.source = job[c].source
  <2>1. top \in Row /\ top.state = "pending" /\ top.blocked = job[p].blocked
    BY <1>a DEF Row
  <2>2. waits \in Row /\ waits.state = "pending"
    BY <1>a, RowType
  <2>3. waits.blocked /\ waits.source = job[c].source
    BY <1>a, RowType
  <2> QED
    BY <2>1, <2>2, <2>3
<1>c. job' = [job EXCEPT ![p] = top, ![c] = waits]
  BY <1>1, <1>2, <1>a
<1> HIDE DEF top, waits
<1>4. /\ job'[p].state = "pending" /\ job'[p].blocked = job[p].blocked
      /\ job'[c].state = "pending" /\ job'[c].blocked /\ job'[c].source = job[c].source
      /\ \A i \in Jobs \ {p, c} : job'[i] = job[i]
      /\ hold'[p] = "held" /\ \A i \in Jobs : i # p => hold'[i] = hold[i]
      /\ event'[p].status = "pending" /\ \A i \in Jobs : i # p => event'[i] = event[i]
  <2>1. job'[p] = top /\ job'[c] = waits /\ \A i \in Jobs \ {p, c} : job'[i] = job[i]
    BY <1>2, <1>a, <1>c
  <2>2. hold'[p] = "held" /\ \A i \in Jobs : i # p => hold'[i] = hold[i]
    BY <1>1 DEF Typed
  <2>3. event'[p].status = "pending" /\ \A i \in Jobs : i # p => event'[i] = event[i]
    BY <1>1 DEF Typed, EventRow
  <2> QED
    BY <1>b, <2>1, <2>2, <2>3
<1>5. Typed'
  <2>1. job' \in [Jobs -> Row]
    BY <1>2, <1>a, <1>b, <1>c
  <2>2. [event[p] EXCEPT !.status = "pending"] \in EventRow
    BY DEF Typed, EventRow
  <2>3. event' \in [Jobs -> EventRow] /\ hold' \in [Jobs -> Holds]
    BY <1>1, <2>2 DEF Typed, Holds
  <2> QED
    BY <1>1, <2>1, <2>3 DEF Typed
<1>6. WorkersFit' /\ Alone' /\ RowsFit'
  <2>1. \A i \in Jobs :
          \/ job'[i] = job[i]
          \/ /\ job[i].state \in {"absent", "pending"}
             /\ job'[i].state \in {"pending", "cancelled", "failed"}
             /\ job'[i].blocked => job'[i].state # "cancelled"
    <3>1. job'[p].state = "pending" /\ job'[c].state = "pending" /\ \A i \in Jobs \ {p, c} : job'[i] = job[i]
      BY <1>4
    <3> QED
      BY <1>1, <1>3, <3>1
  <2> QED
    BY <1>1, <2>1, RestStep
<1>7. ChildrenWait'
  <2> SUFFICES ASSUME NEW d \in Jobs, Kind[d] = "child"
               PROVE  /\ job'[d].state = "absent" <=> job'[Parent[d]].state = "absent"
                      /\ ~Linked(d)' => /\ job'[d].state \in {"absent", "pending", "cancelled", "failed"}
                                        /\ job'[d].state = "pending" => job'[d].blocked
                                        /\ event'[d].status = "absent" /\ calls[d] = 0 /\ d \notin asset
                                        /\ \A w \in Workers : worker[w].job # d
    BY <1>1, ZenonT(60) DEF ChildrenWait
  <2>1. Parent[d] \in Jobs /\ Kind[Parent[d]] = "parent"
    BY TopType
  <2>2. CASE d = c
    <3>1. ~Linked(d)
      BY <1>1, <1>2, <2>2 DEF Linked, RowsFit, Unstarted
    <3> QED
      BY <1>2, <1>4, <2>2, <3>1 DEF ChildrenWait
  <2>3. CASE d # c
    <3>1. Parent[d] # p /\ d # p /\ Parent[d] # c
      BY <1>1, <1>2, <2>1, <2>3
    <3>2. job'[d] = job[d] /\ job'[Parent[d]] = job[Parent[d]] /\ event'[d] = event[d]
      BY <1>4, <2>1, <2>3, <3>1
    <3>3. Linked(d)' <=> Linked(d)
      BY <1>1, <3>2 DEF Linked
    <3> QED
      BY <1>1, <3>2, <3>3 DEF ChildrenWait
  <2> QED
    BY <2>2, <2>3
<1>8. BatchExists' /\ LockedRest'
  BY <1>1, <1>4 DEF BatchExists, LockedRest, NoSuspension, Typed
<1>9. ReleasedIsOver'
  BY <1>2, <1>4 DEF ReleasedIsOver
<1>10. ChargeMatchesDelivery'
  <2> SUFFICES ASSUME NEW t \in Jobs, Kind[t] # "child", job'[t].state # "absent"
               PROVE  /\ hold'[t] = "delivered" <=> Last(t) \in asset
                      /\ hold'[t] = "partial" => t \in asset
                      /\ hold'[t] = "released" => t \notin asset
    BY <1>1 DEF ChargeMatchesDelivery, Payable, Last, ChildOf
  <2>1. CASE t = p
    BY <1>1, <1>2, <1>3, <1>4, <2>1 DEF Last, RowsFit, Unstarted, c
  <2>2. CASE t # p
    BY <1>2, <1>4, <2>2 DEF ChargeMatchesDelivery, Payable
  <2> QED
    BY <2>1, <2>2
<1> QED
  BY <1>5, <1>6, <1>7, <1>8, <1>9, <1>10

-----------------------------------------------------------------------------
(* Workers *)

\* Nobody but the children that wait has no worker to meet: a job a worker has is linked.
LEMMA WorkedIsLinked ==
  ASSUME IInv, NEW c \in Jobs, Kind[c] = "child",
         (\E w \in Workers : worker[w].job = c) \/ job[c].state = "polling"
  PROVE  Linked(c)
  BY DEF IInv, ChildrenWait

\* A worker goes on, begins, or is done, and no row changes.
LEMMA MoveStep ==
  ASSUME IInv, NEW w \in Workers, NEW r \in WorkerRow,
         worker' = [worker EXCEPT ![w] = r],
         UNCHANGED <<job, asset, hold, event, batch, user, suspension, calls>>,
         broker' \in [Jobs -> Nat], budget' \in [Disturbances -> Nat],
         r = Idle \/ /\ r.pc # "idle" /\ r.job \in Jobs /\ job[r.job].state \notin Unstarted
                     /\ Fits(r)
                     /\ r.job = worker[w].job \/ job[r.job].state = "polling"
  PROVE  IInv'
<1> USE DEF IInv
<1>1. worker'[w] = r /\ \A v \in Workers : v # w => worker'[v] = worker[v]
  BY DEF Typed
<1>2. Idle.pc = "idle" /\ Idle.job = None /\ None \notin Jobs
  BY JobAssumption DEF Idle
<1>3. Typed'
  BY DEF Typed
<1>4. \A v : Fits(v)' <=> Fits(v)
  BY DEF Fits, IsImage
<1>5. WorkersFit'
  <2> SUFFICES ASSUME NEW v \in Workers
               PROVE  IF worker'[v].pc = "idle" THEN worker'[v] = Idle
                      ELSE worker'[v].job \in Jobs /\ job[worker'[v].job].state \notin Unstarted /\ Fits(worker[v])'
    BY DEF WorkersFit
  <2>1. CASE v = w
    BY <1>1, <1>2, <2>1 DEF Fits, IsImage
  <2>2. CASE v # w
    BY <1>1, <1>4, <2>2 DEF WorkersFit
  <2> QED
    BY <2>1, <2>2
<1>6. Alone'
  <2> SUFFICES ASSUME NEW u \in Workers, NEW v \in Workers, worker'[u].job = worker'[v].job,
                      worker'[u].job \in Jobs,
                      IsImage(worker'[u].job) \/ job[worker'[u].job].state \in {"queued", "generating"}
               PROVE  u = v
    BY DEF Alone, IsImage
  <2>1. ~IsImage(worker'[u].job) \/ job[worker'[u].job].state # "polling"
    BY DEF RowsFit
  <2>2. job[worker'[u].job].state = "polling" => ~IsImage(worker'[u].job)
    BY <2>1
  <2>3. u = w \/ v = w => r.job = worker[w].job
    BY <1>1, <1>2, <2>2
  <2>4. worker'[u].job = worker[u].job /\ worker'[v].job = worker[v].job
    BY <1>1, <2>3
  <2> QED
    BY <2>4 DEF Alone
<1>7. \A c \in Jobs : (\A v \in Workers : worker[v].job # c) /\ job[c].state # "polling" =>
                      \A v \in Workers : worker'[v].job # c
  BY <1>1, <1>2
<1>8. RowsFit'
  <2>1. \A c \in Jobs : job[c].blocked => \A v \in Workers : worker'[v].job # c
    BY <1>7 DEF RowsFit
  <2> QED
    BY <2>1 DEF RowsFit, IsImage
<1>9. ChildrenWait'
  <2>1. \A c \in Jobs : Linked(c)' <=> Linked(c)
    BY DEF Linked
  <2>2. \A c \in Jobs : Kind[c] = "child" /\ ~Linked(c) => \A v \in Workers : worker'[v].job # c
    BY <1>7 DEF ChildrenWait
  <2> QED
    BY <2>1, <2>2 DEF ChildrenWait
<1>10. BatchExists' /\ LockedRest'
  BY DEF BatchExists, LockedRest
<1>11. ReleasedIsOver' /\ ChargeMatchesDelivery'
  BY ChargeSame
<1> QED
  BY <1>3, <1>5, <1>6, <1>8, <1>9, <1>10, <1>11

\* A worker writes the row it has, and its output with it.
LEMMA WriteStep ==
  ASSUME IInv, NEW w \in Workers, NEW j \in Jobs, worker[w].pc # "idle", worker[w].job = j,
         NEW row \in Row, NEW r \in WorkerRow,
         job' = [job EXCEPT ![j] = row], worker' = [worker EXCEPT ![w] = r],
         UNCHANGED <<event, batch, broker, user, suspension, calls, budget>>,
         hold' \in [Jobs -> Holds], asset' = asset \/ asset' = asset \cup {j},
         row.state \in {"generating"} \cup Started, row.source = job[j].source,
         row.blocked = job[j].blocked,
         job[j].state \in {"queued", "generating"} \/ row.state \in Started,
         row.state = "polling" => row.op /\ ~IsImage(j),
         row.state = "generating" => j \notin asset',
         IsImage(j) => (j \in asset' <=> row.state = "completed"),
         IsImage(j) => job[j].state \notin Terminal,
         r = Idle \/ (r.pc # "idle" /\ r.job = j /\ Fits(r)')
  PROVE  /\ Typed' /\ WorkersFit' /\ Alone' /\ RowsFit' /\ ChildrenWait' /\ BatchExists' /\ LockedRest'
         /\ \A i \in Jobs : /\ job[i].state = "absent" <=> job'[i].state = "absent"
                            /\ IsImage(i) /\ job[i].state \in {"failed", "cancelled"} =>
                                 job'[i].state \in {"failed", "cancelled"}
<1> USE DEF IInv
<1>1. worker'[w] = r /\ \A v \in Workers : v # w => worker'[v] = worker[v]
  BY DEF Typed
<1>2. Idle.pc = "idle" /\ Idle.job = None /\ None \notin Jobs
  BY JobAssumption DEF Idle
<1>3. job'[j] = row /\ \A i \in Jobs : i # j => job'[i] = job[i]
  BY DEF Typed
<1>4. row.state \notin Unstarted /\ job[j].state \notin Unstarted /\ ~job[j].blocked
      /\ job[j].state \in {"queued", "generating"} \cup Started
  <2>1. job[j].state \in JobState \cup {"absent"}
    BY DEF Typed, Row
  <2>2. job[j].state \notin Unstarted
    BY DEF WorkersFit
  <2> QED
    BY <2>1, <2>2 DEF Unstarted, Started, JobState, RowsFit
<1>5. Typed'
  BY DEF Typed
<1>6. \A v \in Workers : v # w /\ worker[v].job = j =>
        ~IsImage(j) /\ job[j].state \notin {"queued", "generating"}
  BY DEF Alone
<1>7. WorkersFit'
  <2> SUFFICES ASSUME NEW v \in Workers
               PROVE  IF worker'[v].pc = "idle" THEN worker'[v] = Idle
                      ELSE worker'[v].job \in Jobs /\ job'[worker'[v].job].state \notin Unstarted /\ Fits(worker[v])'
    BY DEF WorkersFit
  <2>1. CASE v = w
    BY <1>1, <1>2, <1>3, <1>4, <2>1 DEF Fits, IsImage
  <2>2. CASE v # w /\ worker[v].job # j
    BY <1>1, <1>3, <2>2 DEF WorkersFit, Fits, IsImage
  <2>3. CASE v # w /\ worker[v].job = j
    <3>1. ~IsImage(j) /\ job[j].state \notin {"queued", "generating"} /\ row.state \in Started
      BY <1>6, <2>3
    <3>2. worker[v].pc # "idle" /\ Fits(worker[v])
      BY <1>2, <2>3 DEF WorkersFit
    <3>3. Fits(worker[v])'
      BY <1>1, <1>3, <1>4, <2>3, <3>1, <3>2 DEF Fits, IsImage, Started
    <3> QED
      BY <1>1, <1>3, <1>4, <2>3, <3>2, <3>3
  <2> QED
    BY <2>1, <2>2, <2>3
<1>8. Alone'
  <2> SUFFICES ASSUME NEW u \in Workers, NEW v \in Workers, worker'[u].job = worker'[v].job,
                      worker'[u].job \in Jobs,
                      IsImage(worker'[u].job) \/ job'[worker'[u].job].state \in {"queued", "generating"}
               PROVE  u = v
    BY DEF Alone, IsImage
  <2>1. worker'[u].job = worker[u].job /\ worker'[v].job = worker[v].job
    BY <1>1, <1>2
  <2>2. job'[worker[u].job].state \in {"queued", "generating"} =>
          job[worker[u].job].state \in {"queued", "generating"}
    BY <1>3, <2>1 DEF Started
  <2> QED
    BY <2>1, <2>2 DEF Alone
<1>9. \A i \in Jobs : (\A v \in Workers : worker[v].job # i) => i # j /\ \A v \in Workers : worker'[v].job # i
  BY <1>1, <1>2
<1>10. RowsFit'
  <2> SUFFICES ASSUME NEW i \in Jobs
               PROVE  /\ job'[i].state \in Unstarted \cup {"queued"} => calls[i] = 0
                      /\ job'[i].state \in Unstarted \cup {"queued", "generating"} => i \notin asset'
                      /\ job'[i].state # "enhancing" /\ calls[i] <= 1
                      /\ job'[i].state = "polling" => job'[i].op /\ ~IsImage(i)
                      /\ IsImage(i) => (i \in asset' <=> job'[i].state = "completed")
                      /\ job'[i].blocked => /\ job'[i].state \in {"pending", "failed"}
                                            /\ \A v \in Workers : worker'[v].job # i
    BY DEF RowsFit, IsImage
  <2>1. CASE i = j
    BY <1>3, <1>4, <2>1 DEF RowsFit, Started, Unstarted
  <2>2. CASE i # j
    BY <1>3, <1>9, <2>2 DEF RowsFit
  <2> QED
    BY <2>1, <2>2
<1>11. \A i \in Jobs : /\ job[i].state = "absent" <=> job'[i].state = "absent"
                       /\ IsImage(i) /\ job[i].state \in Terminal => job'[i] = job[i]
  BY <1>3, <1>4 DEF Unstarted
<1>12. ChildrenWait'
  <2> SUFFICES ASSUME NEW c \in Jobs, Kind[c] = "child"
               PROVE  /\ job'[c].state = "absent" <=> job'[Parent[c]].state = "absent"
                      /\ ~Linked(c)' => /\ job'[c].state \in {"absent", "pending", "cancelled", "failed"}
                                        /\ job'[c].state = "pending" => job'[c].blocked
                                        /\ event[c].status = "absent" /\ calls[c] = 0 /\ c \notin asset'
                                        /\ \A v \in Workers : worker'[v].job # c
    BY DEF ChildrenWait
  <2>1. Parent[c] \in Jobs
    BY TopType
  <2>2. job'[c].state = "absent" <=> job'[Parent[c]].state = "absent"
    BY <1>11, <2>1 DEF ChildrenWait
  <2>3. Linked(c) => Linked(c)'
    BY <1>3 DEF Linked
  <2>4. ASSUME ~Linked(c)
        PROVE  /\ job'[c].state \in {"absent", "pending", "cancelled", "failed"}
               /\ job'[c].state = "pending" => job'[c].blocked
               /\ event[c].status = "absent" /\ calls[c] = 0 /\ c \notin asset'
               /\ \A v \in Workers : worker'[v].job # c
    <3>1. c # j /\ \A v \in Workers : worker'[v].job # c
      BY <1>9, <2>4 DEF ChildrenWait
    <3> QED
      BY <1>3, <2>4, <3>1 DEF ChildrenWait
  <2> QED
    BY <2>2, <2>3, <2>4
<1>13. BatchExists' /\ LockedRest'
  <2>1. \A i \in suspension.locked : i # j /\ i \in Jobs
    BY <1>4 DEF LockedRest, Unstarted, Typed
  <2>2. \A i \in suspension.cancels : Kind[i] = "child" /\ job[Parent[i]].state \in Terminal =>
          job'[Parent[i]] = job[Parent[i]]
    BY <1>11, <2>1, TopType DEF LockedRest, IsImage
  <2> QED
    BY <1>3, <2>1, <2>2 DEF BatchExists, LockedRest
<1>14. \A i \in Jobs : IsImage(i) /\ job[i].state \in {"failed", "cancelled"} =>
                         job'[i].state \in {"failed", "cancelled"}
  BY <1>11 DEF Terminal
<1> QED
  BY <1>5, <1>7, <1>8, <1>10, <1>11, <1>12, <1>13, <1>14

\* What is known of a worker at work.
LEMMA AtWork ==
  ASSUME IInv, NEW w \in Workers, worker[w].pc # "idle"
  PROVE  /\ worker[w] \in WorkerRow /\ worker[w].job \in Jobs /\ Fits(worker[w])
         /\ job[worker[w].job].state \in {"queued", "generating"} \cup Started
         /\ job[worker[w].job].state \notin Unstarted
         /\ job[worker[w].job] \in Row
<1>1. worker[w] \in WorkerRow /\ worker[w].job \in Jobs /\ Fits(worker[w])
      /\ job[worker[w].job].state \notin Unstarted
  BY DEF IInv, WorkersFit, Typed
<1>2. job[worker[w].job] \in Row
  BY <1>1 DEF IInv, Typed
<1>3. job[worker[w].job].state # "enhancing"
  BY <1>1 DEF IInv, RowsFit
<1> QED
  BY <1>1, <1>2, <1>3 DEF Row, JobState, Started, Unstarted

\* Where a worker goes.
LEMMA GotoMeans ==
  ASSUME IInv, NEW w \in Workers, NEW pc \in Counters, NEW copy \in JobState \cup {None}, Goto(w, pc, copy)
  PROVE  \E r \in WorkerRow :
           worker' = [worker EXCEPT ![w] = r] /\ r.pc = pc /\ r.copy = copy /\ r.job = worker[w].job
<1> DEFINE r == [worker[w] EXCEPT !.pc = pc, !.copy = copy]
<1>1. worker[w] \in WorkerRow
  BY DEF IInv, Typed
<1>2. r \in WorkerRow /\ r.pc = pc /\ r.copy = copy /\ r.job = worker[w].job
  BY <1>1 DEF WorkerRow
<1>3. worker' = [worker EXCEPT ![w] = r]
  BY DEF Goto
<1> QED
  BY <1>2, <1>3

\* A worker that is done.
LEMMA FinishStep ==
  ASSUME IInv, NEW w \in Workers, Finish(w),
         UNCHANGED <<job, asset, hold, event, batch, user, suspension, calls>>,
         broker' \in [Jobs -> Nat], budget' \in [Disturbances -> Nat]
  PROVE  IInv'
<1>1. Idle \in WorkerRow
  BY DEF Idle, WorkerRow, Counters
<1> QED
  BY <1>1, MoveStep DEF Finish

\* A worker that goes on.
LEMMA GoOnStep ==
  ASSUME IInv, NEW w \in Workers, NEW pc \in Counters, NEW copy \in JobState \cup {None}, Goto(w, pc, copy),
         worker[w].pc # "idle", pc # "idle",
         UNCHANGED <<job, asset, hold, event, batch, broker, user, suspension, calls>>,
         budget' \in [Disturbances -> Nat],
         LET j == worker[w].job  state == job[j].state
         IN /\ state = "queued" => pc = "start" \/ (pc = "generate" /\ copy = "queued")
            /\ state = "generating" => (pc = "call" /\ calls[j] = 0) \/ pc \in {"called", "failing", "fail"}
            /\ state \in Started => pc \notin {"call", "called"} /\ (pc = "generate" => copy = "downloading")
            /\ state \in Started /\ IsImage(j) =>
                 \/ state = "downloading" /\ pc \in {"deliver", "failing", "fail"}
                 \/ state = "completed" /\ pc = "link"
                 \/ state = "failed" /\ pc = "failchildren"
  PROVE  IInv'
<1>1. PICK r \in WorkerRow :
        worker' = [worker EXCEPT ![w] = r] /\ r.pc = pc /\ r.copy = copy /\ r.job = worker[w].job
  BY GotoMeans
<1>2. Fits(r)
  BY <1>1 DEF Fits
<1>3. worker[w].job \in Jobs /\ job[worker[w].job].state \notin Unstarted
  BY AtWork
<1>4. broker' \in [Jobs -> Nat]
  BY DEF IInv, Typed
<1> QED
  BY <1>1, <1>2, <1>3, <1>4, MoveStep

\* A message is discarded, or resumes a polling job.
LEMMA TakeStep ==
  ASSUME IInv, NEW w \in Workers, NEW j \in Jobs, Discard(w, j) \/ Resume(w, j)
  PROVE  IInv'
<1>1. broker' \in [Jobs -> Nat]
  BY DEF Discard, Resume, Take, IInv, Typed
<1>2. CASE Discard(w, j)
  <2>1. UNCHANGED <<job, asset, hold, event, batch, worker, user, suspension, calls, budget>>
    BY <1>2 DEF Discard, Take
  <2>2. Typed' /\ BatchExists' /\ LockedRest'
    BY <1>1, <2>1 DEF IInv, Typed, BatchExists, LockedRest
  <2> QED
    BY <2>1, <2>2, QuietStep
<1>3. CASE Resume(w, j)
  <2> DEFINE r == [Idle EXCEPT !.pc = "start", !.job = j]
  <2>1. r \in WorkerRow /\ r.pc = "start" /\ r.job = j
    BY DEF Idle, WorkerRow, Counters
  <2>2. worker' = [worker EXCEPT ![w] = r] /\ job[j].state = "polling" /\ ~IsImage(j)
        /\ UNCHANGED <<job, asset, hold, event, batch, user, suspension, calls, budget>>
    BY <1>3 DEF Resume, Take, Resumable
  <2> HIDE DEF r
  <2>3. Fits(r) /\ job[j].state \notin Unstarted
    BY <2>1, <2>2 DEF Fits, Unstarted
  <2>4. budget' \in [Disturbances -> Nat]
    BY <2>2 DEF IInv, Typed
  <2> QED
    BY <1>1, <2>1, <2>2, <2>3, <2>4, MoveStep
<1> QED
  BY <1>2, <1>3

\* The handler reads its row.
LEMMA StartStep ==
  ASSUME IInv, NEW w \in Workers, Start(w)
  PROVE  IInv'
<1> DEFINE j == worker[w].job
           copy == job[j].state
<1>1. worker[w].pc = "start" /\ UNCHANGED <<job, asset, hold, event, batch, broker, user, suspension, calls, budget>>
  BY DEF Start, At
<1>2. /\ j \in Jobs /\ Fits(worker[w]) /\ copy \in {"queued", "generating"} \cup Started
      /\ copy = "polling" => job[j].op /\ ~IsImage(j)
  BY <1>1, AtWork DEF IInv, RowsFit
<1>3. /\ copy # "generating" /\ (copy \in Started => ~IsImage(j))
  BY <1>1, <1>2 DEF Fits
<1>4. /\ copy \in JobState /\ broker' \in [Jobs -> Nat] /\ budget' \in [Disturbances -> Nat]
  BY <1>1, <1>2 DEF JobState, Started, IInv, Typed
<1>5. \/ Finish(w)
      \/ copy = "polling" /\ Goto(w, "poll", copy)
      \/ copy \in {"queued", "downloading"} /\ Goto(w, "generate", copy)
  BY <1>2, <1>3 DEF Start, Terminal, Started
<1>6. CASE Finish(w)
  BY <1>1, <1>4, <1>6, FinishStep
<1>7. CASE copy = "polling" /\ Goto(w, "poll", copy)
  BY <1>1, <1>3, <1>4, <1>7, GoOnStep DEF Counters, Started
<1>8. CASE copy \in {"queued", "downloading"} /\ Goto(w, "generate", copy)
  BY <1>1, <1>3, <1>4, <1>8, GoOnStep DEF Counters, Started
<1> QED
  BY <1>5, <1>6, <1>7, <1>8

\* Errors, and the read after them; refusals, crashes and what leaves nothing to do.
LEMMA FailureStep ==
  ASSUME IInv, NEW w \in Workers,
         ProviderFails(w) \/ DeliverFails(w) \/ FailRead(w) \/ MarkFailedRefused(w) \/ WorkerCrash(w) \/ LinkNothing(w)
  PROVE  IInv'
<1> DEFINE j == worker[w].job
           state == job[j].state
<1>1. worker[w].pc # "idle"
  <2>1. worker[w].pc = "idle" => worker[w] = Idle
    BY DEF IInv, WorkersFit
  <2> QED
    BY <2>1 DEF ProviderFails, DeliverFails, FailRead, MarkFailedRefused, WorkerCrash, LinkNothing, At
<1>2. /\ j \in Jobs /\ Fits(worker[w]) /\ state \in {"queued", "generating"} \cup Started
      /\ worker[w].copy \in JobState \cup {None}
  BY <1>1, AtWork DEF WorkerRow
<1>3. UNCHANGED <<job, asset, hold, event, batch, user, suspension, calls>>
  BY DEF ProviderFails, DeliverFails, FailRead, MarkFailedRefused, WorkerCrash, LinkNothing
<1>4. budget' \in [Disturbances -> Nat]
  <2>1. CASE budget' = budget
    BY <2>1 DEF IInv, Typed
  <2>2. CASE budget' # budget
    <3>1. \E kind \in Disturbances : Spend(kind)
      BY <2>2 DEF ProviderFails, DeliverFails, FailRead, MarkFailedRefused, WorkerCrash, LinkNothing, Disturbances
    <3> QED
      BY <3>1, SpendType DEF IInv
  <2> QED
    BY <2>1, <2>2
<1>5. broker' \in [Jobs -> Nat]
  <2>1. broker' = broker \/ broker' = [broker EXCEPT ![j] = @ + 1]
    BY DEF ProviderFails, DeliverFails, FailRead, MarkFailedRefused, WorkerCrash, LinkNothing
  <2> QED
    BY <1>2, <2>1 DEF IInv, Typed
<1>6. CASE Finish(w)
  BY <1>3, <1>4, <1>5, <1>6, FinishStep
<1>7. CASE ProviderFails(w) \/ DeliverFails(w)
  <2>1. Goto(w, "failing", worker[w].copy) /\ broker' = broker /\ worker[w].pc \in {"call", "poll", "deliver"}
    BY <1>7 DEF ProviderFails, DeliverFails, At
  <2>2. state # "queued" /\ (state \in Started /\ IsImage(j) => state = "downloading")
    BY <1>2, <2>1 DEF Fits
  <2> QED
    BY <1>1, <1>2, <1>3, <1>4, <2>1, <2>2, GoOnStep DEF Counters
<1>8. CASE FailRead(w)
  <2>1. worker[w].pc = "failing" /\ broker' = broker
    BY <1>8 DEF FailRead, At
  <2>2. state # "queued" /\ (state \in Started /\ IsImage(j) => state = "downloading")
    BY <1>2, <2>1 DEF Fits
  <2>3. Finish(w) \/ Goto(w, "fail", state)
    BY <1>8, <2>2 DEF FailRead, Started, Terminal
  <2>4. state \in JobState
    BY <1>2 DEF JobState, Started
  <2> QED
    BY <1>1, <1>3, <1>4, <1>6, <2>1, <2>2, <2>3, <2>4, GoOnStep DEF Counters
<1> QED
  BY <1>6, <1>7, <1>8 DEF MarkFailedRefused, WorkerCrash, LinkNothing

\* A worker claims a pending job: it is the only one that has it.
LEMMA ClaimStep ==
  ASSUME IInv, NEW w \in Workers, NEW j \in Jobs, Claim(w, j)
  PROVE  IInv'
<1> USE DEF IInv
<1> DEFINE r == [Idle EXCEPT !.pc = "start", !.job = j]
           row == [job[j] EXCEPT !.state = "queued"]
<1>1. /\ job[j].state = "pending" /\ ~job[j].blocked /\ j \notin suspension.locked
      /\ worker[w] = Idle
      /\ broker' \in [Jobs -> Nat]
      /\ job' = [job EXCEPT ![j] = row] /\ worker' = [worker EXCEPT ![w] = r]
      /\ UNCHANGED <<asset, hold, event, batch, user, suspension, calls, budget>>
  BY DEF Claim, Claimable, Take, Typed
<1>2. r \in WorkerRow /\ r.pc = "start" /\ r.job = j
  BY DEF Idle, WorkerRow, Counters
<1>3. row \in Row /\ row.state = "queued" /\ row.blocked = job[j].blocked /\ row.source = job[j].source
  BY DEF Typed, Row, JobState
<1> HIDE DEF r, row
<1>4. worker'[w] = r /\ \A v \in Workers : v # w => worker'[v] = worker[v]
  BY <1>1 DEF Typed
<1>5. job'[j] = row /\ \A i \in Jobs : i # j => job'[i] = job[i]
  BY <1>1 DEF Typed
<1>6. Idle.pc = "idle" /\ Idle.job = None /\ None \notin Jobs
  BY JobAssumption DEF Idle
<1>7. (\A v \in Workers : worker[v].job # j) /\ calls[j] = 0 /\ j \notin asset
  BY <1>1, <1>6 DEF WorkersFit, RowsFit, Unstarted
<1>8. Typed'
  BY <1>1, <1>2, <1>3 DEF Typed
<1>9. WorkersFit'
  <2> SUFFICES ASSUME NEW v \in Workers
               PROVE  IF worker'[v].pc = "idle" THEN worker'[v] = Idle
                      ELSE worker'[v].job \in Jobs /\ job'[worker'[v].job].state \notin Unstarted /\ Fits(worker[v])'
    BY DEF WorkersFit
  <2>1. CASE v = w
    BY <1>2, <1>3, <1>4, <1>5, <2>1 DEF Fits, Started, Unstarted
  <2>2. CASE v # w
    BY <1>1, <1>4, <1>5, <1>7, <2>2 DEF WorkersFit, Fits, IsImage
  <2> QED
    BY <2>1, <2>2
<1>10. Alone'
  BY <1>2, <1>4, <1>5, <1>7 DEF Alone, IsImage
<1>11. RowsFit'
  <2> SUFFICES ASSUME NEW i \in Jobs
               PROVE  /\ job'[i].state \in Unstarted \cup {"queued"} => calls[i] = 0
                      /\ job'[i].state \in Unstarted \cup {"queued", "generating"} => i \notin asset
                      /\ job'[i].state # "enhancing" /\ calls[i] <= 1
                      /\ job'[i].state = "polling" => job'[i].op /\ ~IsImage(i)
                      /\ IsImage(i) => (i \in asset <=> job'[i].state = "completed")
                      /\ job'[i].blocked => /\ job'[i].state \in {"pending", "failed"}
                                            /\ \A v \in Workers : worker'[v].job # i
    BY <1>1 DEF RowsFit, IsImage
  <2>1. CASE i = j
    BY <1>1, <1>3, <1>5, <1>7, <2>1
  <2>2. CASE i # j
    BY <1>2, <1>4, <1>5, <2>2 DEF RowsFit
  <2> QED
    BY <2>1, <2>2
<1>12. \A i \in Jobs : /\ job[i].state = "absent" <=> job'[i].state = "absent"
                       /\ job[i].state \in Terminal \cup {"failed", "cancelled"} => job'[i] = job[i]
  BY <1>1, <1>3, <1>5 DEF Terminal
<1>13. ChildrenWait'
  <2> SUFFICES ASSUME NEW c \in Jobs, Kind[c] = "child"
               PROVE  /\ job'[c].state = "absent" <=> job'[Parent[c]].state = "absent"
                      /\ ~Linked(c)' => /\ job'[c].state \in {"absent", "pending", "cancelled", "failed"}
                                        /\ job'[c].state = "pending" => job'[c].blocked
                                        /\ event[c].status = "absent" /\ calls[c] = 0 /\ c \notin asset
                                        /\ \A v \in Workers : worker'[v].job # c
    BY <1>1 DEF ChildrenWait
  <2>1. job'[c].state = "absent" <=> job'[Parent[c]].state = "absent"
    BY <1>12, TopType DEF ChildrenWait
  <2>2. Linked(c)' <=> Linked(c)
    BY <1>1, <1>3, <1>5 DEF Linked
  <2>3. ~Linked(c) => c # j
    BY <1>1 DEF ChildrenWait
  <2> QED
    BY <1>2, <1>4, <1>5, <2>1, <2>2, <2>3 DEF ChildrenWait
<1>14. BatchExists' /\ LockedRest'
  <2>1. \A i \in suspension.locked : i \in Jobs /\ i # j
    BY <1>1 DEF Typed
  <2>2. \A i \in suspension.cancels : Kind[i] = "child" /\ job[Parent[i]].state \in Terminal =>
          job'[Parent[i]].state \in Terminal
    BY <1>12, <2>1, TopType DEF LockedRest
  <2> QED
    BY <1>1, <1>5, <2>1, <2>2 DEF BatchExists, LockedRest
<1>15. ReleasedIsOver' /\ ChargeMatchesDelivery'
  BY <1>1, <1>12, ChargeSame
<1> QED
  BY <1>8, <1>9, <1>10, <1>11, <1>13, <1>14, <1>15

\* The provider is asked, for the first time.
LEMMA CallStep ==
  ASSUME IInv, NEW w \in Workers, CallProvider(w)
  PROVE  IInv'
<1> USE DEF IInv
<1> DEFINE j == worker[w].job
<1>1. /\ worker[w].pc = "call" /\ calls' = [calls EXCEPT ![j] = @ + 1]
      /\ Goto(w, "called", worker[w].copy)
      /\ UNCHANGED <<job, asset, hold, event, batch, broker, user, suspension, budget>>
  BY DEF CallProvider, At
<1>2. j \in Jobs /\ job[j].state = "generating" /\ calls[j] = 0 /\ worker[w].copy \in JobState \cup {None}
  BY <1>1, AtWork DEF Fits, WorkerRow
<1>3. PICK r \in WorkerRow : worker' = [worker EXCEPT ![w] = r] /\ r.pc = "called" /\ r.job = j
  BY <1>1, <1>2, GotoMeans DEF Counters
<1>4. worker'[w] = r /\ \A v \in Workers : v # w => worker'[v] = worker[v]
  BY <1>3 DEF Typed
<1>5. calls'[j] = 1 /\ \A i \in Jobs : i # j => calls'[i] = calls[i]
  BY <1>1, <1>2 DEF Typed
<1>6. \A v \in Workers : worker'[v].job = worker[v].job
  BY <1>3, <1>4
<1>7. Typed'
  BY <1>1, <1>2, <1>3 DEF Typed
<1>8. WorkersFit'
  <2> SUFFICES ASSUME NEW v \in Workers
               PROVE  IF worker'[v].pc = "idle" THEN worker'[v] = Idle
                      ELSE worker'[v].job \in Jobs /\ job[worker'[v].job].state \notin Unstarted /\ Fits(worker[v])'
    BY <1>1 DEF WorkersFit
  <2>1. CASE v = w
    BY <1>1, <1>2, <1>3, <1>4, <2>1 DEF Fits, Started, Unstarted
  <2>2. CASE v # w
    <3>1. worker[v].job # j
      BY <1>2, <2>2 DEF Alone
    <3> QED
      BY <1>1, <1>4, <1>5, <2>2, <3>1 DEF WorkersFit, Fits, IsImage
  <2> QED
    BY <2>1, <2>2
<1>9. Alone'
  BY <1>1, <1>6 DEF Alone, IsImage
<1>10. RowsFit'
  BY <1>1, <1>2, <1>5, <1>6 DEF RowsFit, IsImage, Unstarted
<1>11. ChildrenWait'
  <2>1. \A c \in Jobs : Linked(c)' <=> Linked(c)
    BY <1>1 DEF Linked
  <2>2. \A c \in Jobs : Kind[c] = "child" /\ ~Linked(c) => c # j
    BY DEF ChildrenWait
  <2> QED
    BY <1>1, <1>5, <1>6, <2>1, <2>2 DEF ChildrenWait
<1>12. BatchExists' /\ LockedRest'
  BY <1>1 DEF BatchExists, LockedRest
<1>13. ReleasedIsOver' /\ ChargeMatchesDelivery'
  BY <1>1, ChargeSame
<1> QED
  BY <1>7, <1>8, <1>9, <1>10, <1>11, <1>12, <1>13

\* Generation begins, is submitted, and is downloaded.
LEMMA ProgressStep ==
  ASSUME IInv, NEW w \in Workers, Generate(w) \/ SaveSubmission(w) \/ SaveDownload(w)
  PROVE  IInv'
<1> DEFINE j == worker[w].job
<1>1. worker[w].pc \in {"generate", "called", "poll"} /\ worker[w].pc # "idle"
      /\ UNCHANGED <<asset, hold, event, batch, broker, user, suspension, calls, budget>>
  BY DEF Generate, SaveSubmission, SaveDownload, At
<1>2. /\ j \in Jobs /\ Fits(worker[w]) /\ job[j].state \in {"queued", "generating"} \cup Started
      /\ worker[w].copy \in JobState \cup {None} /\ job[j] \in Row
  BY <1>1, AtWork DEF WorkerRow
<1>3. budget' \in [Disturbances -> Nat] /\ hold' \in [Jobs -> Holds]
  BY <1>1 DEF IInv, Typed
<1>4. ASSUME NEW state \in {"generating", "polling", "downloading"}, NEW row \in Row,
             NEW pc \in {"call", "poll", "deliver"},
             job' = [job EXCEPT ![j] = row],
             row.state = state, row.blocked = job[j].blocked, row.source = job[j].source,
             Goto(w, pc, state),
             job[j].state \in {"queued", "generating"} \/ state \in Started,
             state = "generating" => pc = "call" /\ job[j].state = "queued",
             state = "polling" => row.op /\ ~IsImage(j) /\ pc = "poll",
             state = "downloading" => pc = "deliver",
             IsImage(j) => job[j].state \in {"queued", "generating"}
      PROVE  IInv'
  <2>1. state \in JobState /\ row.state = state /\ row.blocked = job[j].blocked /\ row.source = job[j].source
    BY <1>4 DEF JobState
  <2>2. job' = [job EXCEPT ![j] = row]
    BY <1>4
  <2>3. PICK r \in WorkerRow : worker' = [worker EXCEPT ![w] = r] /\ r.pc = pc /\ r.copy = state /\ r.job = j
    <3>1. pc \in Counters /\ state \in JobState \cup {None} /\ Goto(w, pc, state)
      BY <1>4, <2>1 DEF Counters
    <3> QED
      BY <3>1, GotoMeans
  <2>4. job'[j] = row
    BY <1>2, <2>2 DEF IInv, Typed
  <2>5. calls[j] = 0 \/ job[j].state # "queued"
    BY <1>2 DEF IInv, RowsFit
  <2>6. Fits(r)'
    BY <1>1, <1>4, <2>1, <2>3, <2>4, <2>5 DEF Fits, Started, IsImage
  <2>7. /\ row.state \in {"generating"} \cup Started
        /\ row.state = "polling" => row.op /\ ~IsImage(j)
        /\ job[j].state \in {"queued", "generating"} \/ row.state \in Started
    BY <1>4, <2>1 DEF Started
  <2>8. /\ row.state = "generating" => j \notin asset
        /\ IsImage(j) => (j \in asset <=> row.state = "completed")
        /\ IsImage(j) => job[j].state \notin Terminal
    BY <1>2, <1>4, <2>1 DEF IInv, RowsFit, Terminal
  <2>9. /\ Typed' /\ WorkersFit' /\ Alone' /\ RowsFit' /\ ChildrenWait' /\ BatchExists' /\ LockedRest'
        /\ \A i \in Jobs : /\ job[i].state = "absent" <=> job'[i].state = "absent"
                           /\ IsImage(i) /\ job[i].state \in {"failed", "cancelled"} =>
                                job'[i].state \in {"failed", "cancelled"}
    <3>1. r.pc # "idle"
      BY <1>4, <2>3
    <3> QED
      BY <1>1, <1>2, <1>3, <2>1, <2>2, <2>3, <2>6, <2>7, <2>8, <3>1, WriteStep
  <2>10. ReleasedIsOver' /\ ChargeMatchesDelivery'
    BY <1>1, <2>9, ChargeSame
  <2> QED
    BY <2>9, <2>10 DEF IInv
<1>5. \A state \in {"generating", "downloading"} :
        LET row == [job[j] EXCEPT !.state = state]
        IN row \in Row /\ row.state = state /\ row.blocked = job[j].blocked /\ row.source = job[j].source
  BY <1>2 DEF Row, JobState
<1>6. LET row == [job[j] EXCEPT !.state = "polling", !.op = TRUE]
      IN row \in Row /\ row.state = "polling" /\ row.op /\ row.blocked = job[j].blocked /\ row.source = job[j].source
  BY <1>2 DEF Row, JobState
<1>7. CASE Generate(w)
  <2>1. worker[w].pc = "generate"
    BY <1>7 DEF Generate, At
  <2>2. \/ job[j].state = "queued" /\ worker[w].copy = "queued"
        \/ job[j].state \in Started /\ ~IsImage(j) /\ worker[w].copy = "downloading"
    BY <1>2, <2>1 DEF Fits
  <2>3. CanTransition("queued", "generating") /\ ~CanTransition("downloading", "generating")
    BY DEF CanTransition, AllowedTransitions, JobState
  <2>4. CASE job[j].state = "queued" /\ worker[w].copy = "queued"
    <3>1. job' = [job EXCEPT ![j].state = "generating"] /\ Goto(w, "call", "generating")
      BY <1>7, <2>3, <2>4 DEF Generate
    <3> DEFINE row == [job[j] EXCEPT !.state = "generating"]
    <3>2. row \in Row /\ row.state = "generating" /\ row.blocked = job[j].blocked /\ row.source = job[j].source
      BY <1>5
    <3>3. job' = [job EXCEPT ![j] = row]
      BY <3>1
    <3> HIDE DEF row
    <3> QED
      BY <1>4, <2>4, <3>1, <3>2, <3>3
  <2>5. CASE job[j].state \in Started /\ ~IsImage(j) /\ worker[w].copy = "downloading"
    <3>1. job' = job /\ Goto(w, "failing", "downloading")
      BY <1>7, <2>3, <2>5 DEF Generate
    <3> QED
      BY <1>1, <1>3, <2>5, <3>1, GoOnStep DEF Counters, Started, JobState
  <2> QED
    BY <2>2, <2>4, <2>5
<1>8. CASE SaveSubmission(w)
  <2>1. worker[w].pc = "called" /\ job[j].state = "generating"
    BY <1>2, <1>8 DEF SaveSubmission, At, Fits
  <2>2. CASE IsImage(j)
    <3>1. job' = [job EXCEPT ![j].state = "downloading"] /\ Goto(w, "deliver", "downloading")
      BY <1>8, <2>2 DEF SaveSubmission
    <3> DEFINE row == [job[j] EXCEPT !.state = "downloading"]
    <3>2. row \in Row /\ row.state = "downloading" /\ row.blocked = job[j].blocked /\ row.source = job[j].source
      BY <1>5
    <3>3. job' = [job EXCEPT ![j] = row]
      BY <3>1
    <3> HIDE DEF row
    <3> QED
      BY <1>4, <2>1, <3>1, <3>2, <3>3
  <2>3. CASE ~IsImage(j)
    <3>1. job' = [job EXCEPT ![j].state = "polling", ![j].op = TRUE] /\ Goto(w, "poll", "polling")
      BY <1>8, <2>3 DEF SaveSubmission
    <3> DEFINE row == [job[j] EXCEPT !.state = "polling", !.op = TRUE]
    <3>2. row \in Row /\ row.state = "polling" /\ row.op /\ row.blocked = job[j].blocked /\ row.source = job[j].source
      BY <1>6
    <3>3. job' = [job EXCEPT ![j] = row]
      BY <3>1
    <3> HIDE DEF row
    <3> QED
      BY <1>4, <2>1, <2>3, <3>1, <3>2, <3>3
  <2> QED
    BY <2>2, <2>3
<1>9. CASE SaveDownload(w)
  <2>1. worker[w].pc = "poll" /\ job[j].state \in Started /\ ~IsImage(j)
    BY <1>2, <1>9 DEF SaveDownload, At, Fits
  <2>2. \/ Goto(w, "failing", "polling") /\ job' = job
        \/ job' = [job EXCEPT ![j].state = "downloading"] /\ Goto(w, "deliver", "downloading")
    BY <1>9 DEF SaveDownload
  <2>3. CASE Goto(w, "failing", "polling") /\ job' = job
    BY <1>1, <1>3, <2>1, <2>3, GoOnStep DEF Counters, Started, JobState
  <2>4. CASE job' = [job EXCEPT ![j].state = "downloading"] /\ Goto(w, "deliver", "downloading")
    <3> DEFINE row == [job[j] EXCEPT !.state = "downloading"]
    <3>1. row \in Row /\ row.state = "downloading" /\ row.blocked = job[j].blocked /\ row.source = job[j].source
      BY <1>5
    <3>2. job' = [job EXCEPT ![j] = row]
      BY <2>4
    <3>3. "downloading" \in Started
      BY DEF Started
    <3> HIDE DEF row
    <3> QED
      BY <1>4, <2>1, <2>4, <3>1, <3>2, <3>3
  <2> QED
    BY <2>2, <2>3, <2>4
<1> QED
  BY <1>7, <1>8, <1>9

-----------------------------------------------------------------------------
(* Reservations end *)

\* Which job comes last under which reservation.
LEMMA LastOfTop ==
  ASSUME NEW j \in Jobs, NEW t \in Jobs, Kind[t] # "child"
  PROVE  /\ Last(t) \in Jobs
         /\ Kind[j] # "parent" => (Last(t) = j <=> t = Top(j))
         /\ Kind[j] = "parent" => Last(t) # j
         /\ t # Top(j) => t # j
<1>1. CASE Kind[t] = "parent"
  <2>1. Last(t) = ChildOf(t)
    BY <1>1 DEF Last
  <2>2. /\ ChildOf(t) \in Jobs /\ Kind[ChildOf(t)] = "child" /\ Parent[ChildOf(t)] = t
        /\ Kind[j] = "child" /\ Parent[j] = t => j = ChildOf(t)
    BY <1>1, ChildType
  <2> QED
    BY <1>1, <2>1, <2>2, TopType DEF Top
<1>2. CASE Kind[t] # "parent"
  BY <1>2, TopType DEF Last, Top
<1> QED
  BY <1>1, <1>2

\* A reservation that ends without the last output ends as what is there demands.
LEMMA EndCharge ==
  ASSUME IInv, NEW j \in Jobs, job[j].state # "absent", CanTerminalize(j, FALSE),
         Kind[j] = "parent" => j \notin asset
  PROVE  /\ Outcome(j, FALSE) \in {"partial", "released"}
         /\ Last(Top(j)) \notin asset
         /\ Outcome(j, FALSE) = "partial" => Top(j) \in asset
         /\ Outcome(j, FALSE) = "released" => Top(j) \notin asset
<1>1. Outcome(j, FALSE) \in {"partial", "released"}
  BY DEF Outcome
<1>2. Top(j) \in Jobs /\ Kind[Top(j)] # "child"
  BY TopType
<1>3. job[Top(j)].state # "absent"
  BY DEF Top, IInv, ChildrenWait
<1>4. Last(Top(j)) \notin asset
  BY <1>1, <1>2, <1>3 DEF CanTerminalize, IInv, ChargeMatchesDelivery, Payable
<1>5. Kind[j] # "parent" => j \notin asset
  BY <1>2, <1>4, LastOfTop
<1> QED
  BY <1>1, <1>4, <1>5 DEF Outcome, Top

\* Steps that end reservations and deliver nothing charge what they should.
LEMMA EndStep ==
  ASSUME IInv, UNCHANGED asset,
         \A j \in Jobs : job[j].state = "absent" <=> job'[j].state = "absent",
         \A t \in Jobs : Kind[t] # "child" =>
           \/ hold'[t] = hold[t]
           \/ \E j \in Jobs : /\ Top(j) = t /\ job[j].state # "absent" /\ CanTerminalize(j, FALSE)
                              /\ Kind[j] = "parent" => j \notin asset
                              /\ hold'[t] = Outcome(j, FALSE)
  PROVE  ChargeMatchesDelivery'
<1> SUFFICES ASSUME NEW t \in Jobs, Kind[t] # "child", job[t].state # "absent"
             PROVE  /\ hold'[t] = "delivered" <=> Last(t) \in asset
                    /\ hold'[t] = "partial" => t \in asset
                    /\ hold'[t] = "released" => t \notin asset
  BY DEF ChargeMatchesDelivery, Payable, Last, ChildOf
<1>1. CASE hold'[t] = hold[t]
  BY <1>1 DEF IInv, ChargeMatchesDelivery, Payable
<1>2. CASE \E j \in Jobs : /\ Top(j) = t /\ job[j].state # "absent" /\ CanTerminalize(j, FALSE)
                           /\ Kind[j] = "parent" => j \notin asset
                           /\ hold'[t] = Outcome(j, FALSE)
  BY <1>2, EndCharge
<1> QED
  BY <1>1, <1>2

\* The output is there, and paid for.
LEMMA DeliverStep ==
  ASSUME IInv, NEW w \in Workers, Deliver(w)
  PROVE  IInv'
<1> DEFINE j == worker[w].job
           row == [job[j] EXCEPT !.state = "completed"]
<1>1. /\ worker[w].pc = "deliver" /\ worker[w].pc # "idle" /\ j \notin asset /\ asset' = asset \cup {j}
      /\ job' = [job EXCEPT ![j] = row]
      /\ hold' = IF Kind[j] = "parent" THEN hold ELSE Terminalized(hold, j, TRUE)
      /\ IF IsImage(j) THEN Goto(w, "link", "completed") ELSE Finish(w)
      /\ UNCHANGED <<event, batch, broker, user, suspension, calls, budget>>
  BY DEF Deliver, At
<1>2. j \in Jobs /\ Fits(worker[w]) /\ job[j].state \in {"queued", "generating"} \cup Started /\ job[j] \in Row
  BY <1>1, AtWork
<1>3. job[j].state \in Started /\ (IsImage(j) => job[j].state = "downloading")
  BY <1>1, <1>2 DEF Fits
<1>4. row \in Row /\ row.state = "completed" /\ row.source = job[j].source /\ row.blocked = job[j].blocked
  BY <1>2, RowType DEF JobState
<1> HIDE DEF row
<1>5. job'[j] = row /\ \A i \in Jobs : i # j => job'[i] = job[i]
  BY <1>1, <1>2 DEF IInv, Typed
<1>6. hold' \in [Jobs -> Holds]
  BY <1>1, <1>2, TerminalizedType DEF IInv, Typed
<1>7. PICK r \in WorkerRow : /\ worker' = [worker EXCEPT ![w] = r]
                             /\ r = Idle \/ (r.pc = "link" /\ r.job = j)
  <2>1. CASE IsImage(j)
    BY <1>1, <2>1, GotoMeans DEF Counters, JobState
  <2>2. CASE ~IsImage(j)
    <3>1. Idle \in WorkerRow
      BY DEF Idle, WorkerRow, Counters
    <3> QED
      BY <1>1, <2>2, <3>1 DEF Finish
  <2> QED
    BY <2>1, <2>2
<1>8. r = Idle \/ (r.pc # "idle" /\ r.job = j /\ Fits(r)')
  BY <1>4, <1>5, <1>7 DEF Fits, IsImage, Started
<1>9. /\ row.state \in Started /\ row.state \notin {"polling", "generating"}
      /\ j \in asset' /\ (IsImage(j) => job[j].state \notin Terminal)
  BY <1>1, <1>3, <1>4 DEF Started, Terminal
<1>10. /\ Typed' /\ WorkersFit' /\ Alone' /\ RowsFit' /\ ChildrenWait' /\ BatchExists' /\ LockedRest'
       /\ \A i \in Jobs : job[i].state = "absent" <=> job'[i].state = "absent"
  BY <1>1, <1>2, <1>4, <1>6, <1>7, <1>8, <1>9, WriteStep
<1>11. Top(j) \in Jobs /\ Kind[Top(j)] # "child" /\ (Kind[j] # "child" => Top(j) = j)
  BY <1>2, TopType
<1>12. /\ \A t \in Jobs : t # Top(j) => hold'[t] = hold[t]
       /\ Kind[j] # "parent" => hold'[Top(j)] = "delivered"
       /\ Kind[j] = "parent" => hold' = hold /\ hold[j] # "released"
  <2>1. Kind[j] = "parent" => hold[j] # "released"
    BY <1>2, <1>3 DEF IInv, ReleasedIsOver, IsImage
  <2>2. Outcome(j, TRUE) = "delivered"
    BY DEF Outcome
  <2> QED
    BY <1>1, <1>11, <2>1, <2>2 DEF Terminalized, IInv, Typed
<1>13. ReleasedIsOver'
  BY <1>2, <1>5, <1>11, <1>12 DEF IInv, ReleasedIsOver
<1>14. ChargeMatchesDelivery'
  <2> SUFFICES ASSUME NEW t \in Jobs, Kind[t] # "child", job[t].state # "absent"
               PROVE  /\ hold'[t] = "delivered" <=> Last(t) \in asset'
                      /\ hold'[t] = "partial" => t \in asset'
                      /\ hold'[t] = "released" => t \notin asset'
    BY <1>10 DEF ChargeMatchesDelivery, Payable, Last, ChildOf
  <2>1. /\ hold[t] = "delivered" <=> Last(t) \in asset
        /\ hold[t] = "partial" => t \in asset
        /\ hold[t] = "released" => t \notin asset
    BY DEF IInv, ChargeMatchesDelivery, Payable
  <2>2. CASE t # Top(j)
    BY <1>1, <1>2, <1>11, <1>12, <2>1, <2>2, LastOfTop
  <2>3. CASE t = Top(j) /\ Kind[j] # "parent"
    BY <1>1, <1>2, <1>12, <2>3, LastOfTop
  <2>4. CASE t = Top(j) /\ Kind[j] = "parent"
    BY <1>1, <1>2, <1>11, <1>12, <2>1, <2>4, LastOfTop
  <2> QED
    BY <2>2, <2>3, <2>4
<1> QED
  BY <1>10, <1>13, <1>14 DEF IInv

\* The handler gives up, and the credits go back.
LEMMA MarkFailedStep ==
  ASSUME IInv, NEW w \in Workers, MarkFailed(w)
  PROVE  IInv'
<1> DEFINE j == worker[w].job
           row == [job[j] EXCEPT !.state = "failed"]
<1>1. /\ worker[w].pc = "fail" /\ worker[w].pc # "idle" /\ CanTerminalize(j, FALSE)
      /\ job' = [job EXCEPT ![j] = row]
      /\ hold' = Terminalized(hold, j, FALSE)
      /\ IF IsImage(j) THEN Goto(w, "failchildren", "failed") ELSE Finish(w)
      /\ UNCHANGED <<asset, event, batch, broker, user, suspension, calls, budget>>
  BY DEF MarkFailed, At
<1>2. j \in Jobs /\ Fits(worker[w]) /\ job[j].state \in {"queued", "generating"} \cup Started /\ job[j] \in Row
  BY <1>1, AtWork
<1>3. IsImage(j) => job[j].state \in {"generating", "downloading"} /\ j \notin asset
  BY <1>1, <1>2 DEF Fits, IInv, RowsFit
<1>4. row \in Row /\ row.state = "failed" /\ row.source = job[j].source /\ row.blocked = job[j].blocked
  BY <1>2, RowType DEF JobState
<1> HIDE DEF row
<1>5. job'[j] = row /\ \A i \in Jobs : i # j => job'[i] = job[i]
  BY <1>1, <1>2 DEF IInv, Typed
<1>6. hold' \in [Jobs -> Holds]
  BY <1>1, <1>2, TerminalizedType DEF IInv
<1>7. PICK r \in WorkerRow : /\ worker' = [worker EXCEPT ![w] = r]
                             /\ r = Idle \/ (r.pc = "failchildren" /\ r.job = j)
  <2>1. CASE IsImage(j)
    BY <1>1, <2>1, GotoMeans DEF Counters, JobState
  <2>2. CASE ~IsImage(j)
    <3>1. Idle \in WorkerRow
      BY DEF Idle, WorkerRow, Counters
    <3> QED
      BY <1>1, <2>2, <3>1 DEF Finish
  <2> QED
    BY <2>1, <2>2
<1>8. r = Idle \/ (r.pc # "idle" /\ r.job = j /\ Fits(r)')
  BY <1>4, <1>5, <1>7 DEF Fits, IsImage, Started
<1>9. /\ row.state \in Started /\ row.state \notin {"polling", "generating", "completed"}
      /\ IsImage(j) => job[j].state \notin Terminal
  BY <1>3, <1>4 DEF Started, Terminal
<1>10. /\ Typed' /\ WorkersFit' /\ Alone' /\ RowsFit' /\ ChildrenWait' /\ BatchExists' /\ LockedRest'
       /\ \A i \in Jobs : job[i].state = "absent" <=> job'[i].state = "absent"
  BY <1>1, <1>2, <1>3, <1>4, <1>6, <1>7, <1>8, <1>9, WriteStep
<1>11. Top(j) \in Jobs /\ Kind[Top(j)] # "child" /\ (Kind[j] # "child" => Top(j) = j)
  BY <1>2, TopType
<1>12. /\ \A t \in Jobs : t # Top(j) => hold'[t] = hold[t]
       /\ hold'[Top(j)] = Outcome(j, FALSE)
  BY <1>1, <1>11 DEF Terminalized, IInv, Typed
<1>13. Kind[j] = "child" => Outcome(j, FALSE) = "partial"
  BY <1>1, <1>2, WorkedIsLinked DEF Linked, Outcome
<1>14. ReleasedIsOver'
  BY <1>2, <1>4, <1>5, <1>11, <1>12, <1>13 DEF IInv, ReleasedIsOver
<1>15. job[j].state # "absent"
  BY <1>2 DEF Started
<1>16. ChargeMatchesDelivery'
  BY <1>1, <1>2, <1>3, <1>10, <1>12, <1>15, EndStep DEF IsImage
<1> QED
  BY <1>10, <1>14, <1>16 DEF IInv

-----------------------------------------------------------------------------
(* The children of a pipeline, and the jobs a suspension cancels *)

\* Pending rows are linked, cancelled or failed, and their events follow.
LEMMA RowsStep ==
  ASSUME IInv, UNCHANGED <<asset, calls, batch, broker, budget>>,
         worker' \in [Workers -> WorkerRow],
         \A w \in Workers : worker'[w] = worker[w] \/ worker'[w] = Idle,
         job' \in [Jobs -> Row], hold' \in [Jobs -> Holds], event' \in [Jobs -> EventRow],
         user' \in {"active", "suspended"}, suspension' = NoSuspension,
         \A j \in Jobs :
           \/ job'[j] = job[j]
           \/ /\ job[j].state = "pending" /\ job'[j].state \in {"pending", "cancelled", "failed"}
              /\ job'[j].blocked => job'[j].state # "cancelled"
              /\ job'[j].source = job[j].source \/ job'[j].source
              /\ job'[j].state = "pending" => Parent[j] \in asset /\ job'[j].source,
         \A j \in Jobs :
           \/ event[j].status = "absent" <=> event'[j].status = "absent"
           \/ event'[j].status # "absent" /\ Parent[j] \in asset /\ job'[j].source
  PROVE  /\ Typed' /\ WorkersFit' /\ Alone' /\ RowsFit' /\ ChildrenWait' /\ BatchExists' /\ LockedRest'
         /\ \A j \in Jobs : job[j].state = "absent" <=> job'[j].state = "absent"
<1> USE DEF IInv
<1>1. Typed'
  BY DEF Typed, NoSuspension
<1>2. WorkersFit' /\ Alone' /\ RowsFit'
  BY RestStep
<1>3. \A j \in Jobs : job[j].state = "absent" <=> job'[j].state = "absent"
  OBVIOUS
<1>4. ChildrenWait'
  <2> SUFFICES ASSUME NEW c \in Jobs, Kind[c] = "child"
               PROVE  /\ job'[c].state = "absent" <=> job'[Parent[c]].state = "absent"
                      /\ ~Linked(c)' => /\ job'[c].state \in {"absent", "pending", "cancelled", "failed"}
                                        /\ job'[c].state = "pending" => job'[c].blocked
                                        /\ event'[c].status = "absent" /\ calls[c] = 0 /\ c \notin asset
                                        /\ \A w \in Workers : worker'[w].job # c
    BY DEF ChildrenWait
  <2>1. job'[c].state = "absent" <=> job'[Parent[c]].state = "absent"
    BY <1>3, TopType DEF ChildrenWait
  <2>2. ASSUME ~Linked(c)'
        PROVE  /\ job'[c].state \in {"absent", "pending", "cancelled", "failed"}
               /\ job'[c].state = "pending" => job'[c].blocked
               /\ event'[c].status = "absent" /\ calls[c] = 0 /\ c \notin asset
               /\ \A w \in Workers : worker'[w].job # c
    <3>1. ~Linked(c) /\ ~(Parent[c] \in asset /\ job'[c].source)
      BY <2>2 DEF Linked
    <3>2. /\ job[c].state \in {"absent", "pending", "cancelled", "failed"}
          /\ job[c].state = "pending" => job[c].blocked
          /\ event[c].status = "absent" /\ calls[c] = 0 /\ c \notin asset
          /\ \A w \in Workers : worker[w].job # c
      BY <3>1 DEF ChildrenWait
    <3>3. \A w \in Workers : worker'[w].job # c
      BY <3>2, JobAssumption DEF Idle
    <3> QED
      BY <3>1, <3>2, <3>3
  <2> QED
    BY <2>1, <2>2
<1>5. BatchExists'
  BY DEF BatchExists, Typed
<1>6. LockedRest'
  BY DEF LockedRest, NoSuspension
<1> QED
  BY <1>1, <1>2, <1>3, <1>4, <1>5, <1>6

\* A worker that is done may leave other rows changed.
LEMMA FinishType ==
  ASSUME IInv, NEW w \in Workers, Finish(w)
  PROVE  worker' \in [Workers -> WorkerRow] /\ \A v \in Workers : worker'[v] = worker[v] \/ worker'[v] = Idle
<1>1. Idle \in WorkerRow
  BY DEF Idle, WorkerRow, Counters
<1> QED
  BY <1>1 DEF Finish, IInv, Typed

\* The child gets its image and its event, or is cancelled with a suspended user.
LEMMA LinkChildStep ==
  ASSUME IInv, NEW w \in Workers, LinkChild(w)
  PROVE  IInv'
<1> DEFINE p == worker[w].job
           c == ChildOf(p)
<1>1. /\ worker[w].pc = "link" /\ worker[w].pc # "idle" /\ Kind[p] = "parent" /\ ~suspension.open
      /\ Waiting(c) /\ Finish(w)
      /\ UNCHANGED <<asset, batch, broker, user, suspension, calls, budget>>
      /\ \/ /\ job' = [job EXCEPT ![c] = [@ EXCEPT !.source = TRUE, !.blocked = FALSE]]
            /\ event' = [event EXCEPT ![c].status = "pending"] /\ hold' = hold
         \/ /\ CanTerminalize(c, FALSE)
            /\ job' = [job EXCEPT ![c] = Cancelled(@)]
            /\ hold' = Terminalized(hold, c, FALSE) /\ event' = event
  BY DEF LinkChild, At, UserLockFree
<1>2. p \in Jobs /\ Fits(worker[w]) /\ job[p].state \in {"queued", "generating"} \cup Started
  BY <1>1, AtWork
<1>3. c \in Jobs /\ Kind[c] = "child" /\ Parent[c] = p /\ Top(c) = p
  BY <1>1, <1>2, ChildType DEF Top
<1>4. job[p].state = "completed" /\ p \in asset
  BY <1>1, <1>2 DEF Fits, IsImage, IInv, RowsFit
<1> HIDE DEF p, c
<1>5. suspension' = NoSuspension /\ user' \in {"active", "suspended"}
  BY <1>1 DEF IInv, LockedRest, Typed
<1>6. /\ job \in [Jobs -> Row] /\ job[c] \in Row /\ event[c] \in EventRow /\ event \in [Jobs -> EventRow]
      /\ job[c].state = "pending" /\ hold \in [Jobs -> Holds]
  BY <1>1, <1>3 DEF IInv, Typed, Waiting
<1>7. CASE /\ job' = [job EXCEPT ![c] = [@ EXCEPT !.source = TRUE, !.blocked = FALSE]]
           /\ event' = [event EXCEPT ![c].status = "pending"] /\ hold' = hold
  <2> DEFINE row == [job[c] EXCEPT !.source = TRUE, !.blocked = FALSE]
             news == [event[c] EXCEPT !.status = "pending"]
  <2>1. row \in Row /\ row.state = "pending" /\ row.source /\ ~row.blocked
    BY <1>6 DEF Row
  <2>2. news \in EventRow /\ news.status = "pending"
    BY <1>6 DEF EventRow
  <2>3. job' = [job EXCEPT ![c] = row] /\ event' = [event EXCEPT ![c] = news]
    BY <1>7
  <2> HIDE DEF row, news
  <2>4. /\ job' \in [Jobs -> Row] /\ job'[c] = row /\ \A i \in Jobs : i # c => job'[i] = job[i]
        /\ event' \in [Jobs -> EventRow] /\ event'[c] = news /\ \A i \in Jobs : i # c => event'[i] = event[i]
    BY <1>3, <1>6, <2>1, <2>2, <2>3
  <2>5. /\ Typed' /\ WorkersFit' /\ Alone' /\ RowsFit' /\ ChildrenWait' /\ BatchExists' /\ LockedRest'
        /\ \A j \in Jobs : job[j].state = "absent" <=> job'[j].state = "absent"
    <3>1. \A j \in Jobs :
            \/ job'[j] = job[j]
            \/ /\ job[j].state = "pending" /\ job'[j].state \in {"pending", "cancelled", "failed"}
               /\ job'[j].blocked => job'[j].state # "cancelled"
               /\ job'[j].source = job[j].source \/ job'[j].source
               /\ job'[j].state = "pending" => Parent[j] \in asset /\ job'[j].source
      BY <1>3, <1>4, <1>6, <2>1, <2>4
    <3>2. \A j \in Jobs :
            \/ event[j].status = "absent" <=> event'[j].status = "absent"
            \/ event'[j].status # "absent" /\ Parent[j] \in asset /\ job'[j].source
      BY <1>3, <1>4, <2>1, <2>2, <2>4
    <3>3. hold' \in [Jobs -> Holds]
      BY <1>6, <1>7
    <3>4. worker' \in [Workers -> WorkerRow] /\ \A v \in Workers : worker'[v] = worker[v] \/ worker'[v] = Idle
      BY <1>1, FinishType
    <3> QED
      BY <1>1, <1>5, <2>4, <3>1, <3>2, <3>3, <3>4, RowsStep
  <2>6. ReleasedIsOver' /\ ChargeMatchesDelivery'
    BY <1>1, <1>3, <1>7, <2>4, <2>5, ChargeSame DEF IsImage
  <2> QED
    BY <2>5, <2>6 DEF IInv
<1>8. CASE /\ CanTerminalize(c, FALSE)
           /\ job' = [job EXCEPT ![c] = Cancelled(@)]
           /\ hold' = Terminalized(hold, c, FALSE) /\ event' = event
  <2> DEFINE row == Cancelled(job[c])
  <2>1. row \in Row /\ row.state = "cancelled" /\ row.source = job[c].source /\ ~row.blocked
    BY <1>6, RowType DEF JobState
  <2>2. job' = [job EXCEPT ![c] = row]
    BY <1>8
  <2> HIDE DEF row
  <2>3. /\ job' \in [Jobs -> Row] /\ job'[c] = row /\ \A i \in Jobs : i # c => job'[i] = job[i]
        /\ hold' \in [Jobs -> Holds]
    BY <1>3, <1>6, <1>8, <2>1, <2>2, TerminalizedType DEF IInv
  <2>4. /\ Typed' /\ WorkersFit' /\ Alone' /\ RowsFit' /\ ChildrenWait' /\ BatchExists' /\ LockedRest'
        /\ \A j \in Jobs : job[j].state = "absent" <=> job'[j].state = "absent"
    BY <1>1, <1>3, <1>5, <1>6, <1>8, <2>1, <2>3, FinishType, RowsStep
  <2>5. /\ hold'[p] = Outcome(c, FALSE) /\ Outcome(c, FALSE) = "partial"
        /\ \A t \in Jobs : t # p => hold'[t] = hold[t]
    BY <1>2, <1>3, <1>4, <1>6, <1>8 DEF Terminalized, Outcome
  <2>6. ReleasedIsOver'
    BY <1>3, <2>3, <2>5 DEF IInv, ReleasedIsOver
  <2>7. ChargeMatchesDelivery'
    BY <1>1, <1>3, <1>6, <1>8, <2>4, <2>5, EndStep
  <2> QED
    BY <2>4, <2>6, <2>7 DEF IInv
<1> QED
  BY <1>1, <1>7, <1>8

\* The child that waits for an image that failed fails with it, or is cancelled.
LEMMA FailChildrenStep ==
  ASSUME IInv, NEW w \in Workers, FailChildren(w)
  PROVE  IInv'
<1>1. /\ ~suspension.open /\ Finish(w)
      /\ UNCHANGED <<asset, hold, event, batch, broker, user, suspension, calls, budget>>
      /\ job' \in [Jobs -> Row]
      /\ \A i \in Jobs :
           \/ job'[i] = job[i]
           \/ /\ Kind[i] = "child" /\ job[i].blocked /\ job[i].state \in Active
              /\ job'[i] = Cancelled(job[i]) \/ job'[i] = [job[i] EXCEPT !.state = "failed"]
  <2>1. \A i \in Jobs : job[i] \in Row /\ Cancelled(job[i]) \in Row /\ [job[i] EXCEPT !.state = "failed"] \in Row
    <3>1. \A i \in Jobs : job[i] \in Row
      BY DEF IInv, Typed
    <3>2. "failed" \in JobState
      BY DEF JobState
    <3> QED
      BY <3>1, <3>2, RowType
  <2> QED
    BY <2>1 DEF FailChildren, UserLockFree
<1>2. \A i \in Jobs :
        \/ job'[i] = job[i]
        \/ /\ Kind[i] = "child" /\ job[i].state = "pending" /\ job'[i].state \in {"cancelled", "failed"}
           /\ job'[i].blocked => job'[i].state # "cancelled"
           /\ job'[i].source = job[i].source
  <2> SUFFICES ASSUME NEW i \in Jobs, job'[i] # job[i]
               PROVE  /\ Kind[i] = "child" /\ job[i].state = "pending" /\ job'[i].state \in {"cancelled", "failed"}
                      /\ job'[i].blocked => job'[i].state # "cancelled"
                      /\ job'[i].source = job[i].source
    OBVIOUS
  <2>1. Kind[i] = "child" /\ job[i].state = "pending" /\ job[i] \in Row
    BY <1>1 DEF IInv, RowsFit, Active, Terminal, Typed
  <2>2. /\ [job[i] EXCEPT !.state = "failed"].state = "failed"
        /\ [job[i] EXCEPT !.state = "failed"].source = job[i].source
        /\ Cancelled(job[i]).state = "cancelled" /\ ~Cancelled(job[i]).blocked
        /\ Cancelled(job[i]).source = job[i].source
    BY <2>1, RowType DEF JobState
  <2>3. job'[i] = Cancelled(job[i]) \/ job'[i] = [job[i] EXCEPT !.state = "failed"]
    BY <1>1
  <2> QED
    BY <2>1, <2>2, <2>3
<1>3. /\ suspension' = NoSuspension /\ user' \in {"active", "suspended"}
      /\ hold' \in [Jobs -> Holds] /\ event' \in [Jobs -> EventRow]
  BY <1>1 DEF IInv, LockedRest, Typed
<1>4. /\ Typed' /\ WorkersFit' /\ Alone' /\ RowsFit' /\ ChildrenWait' /\ BatchExists' /\ LockedRest'
      /\ \A j \in Jobs : job[j].state = "absent" <=> job'[j].state = "absent"
  BY <1>1, <1>2, <1>3, FinishType, RowsStep
<1>5. ReleasedIsOver' /\ ChargeMatchesDelivery'
  BY <1>1, <1>2, <1>4, ChargeSame DEF IsImage
<1> QED
  BY <1>4, <1>5 DEF IInv

\* A suspension cancels what it locked, and ends each reservation behind it once.
LEMMA SuspendCommitStep ==
  ASSUME IInv, SuspendCommit
  PROVE  IInv'
<1>1. /\ \A j \in Payers : CanTerminalize(j, FALSE)
      /\ user' = "suspended" /\ suspension' = NoSuspension
      /\ job' = [j \in Jobs |-> IF j \in suspension.cancels THEN Cancelled(job[j]) ELSE job[j]]
      /\ UNCHANGED <<asset, batch, broker, worker, calls, budget>>
  BY DEF SuspendCommit
<1>2. \A j \in suspension.cancels : /\ j \in Jobs /\ job[j].state = "pending" /\ j \notin asset
                                    /\ job'[j] = Cancelled(job[j])
  BY <1>1 DEF IInv, LockedRest, Typed, RowsFit, Unstarted
<1>3. job' \in [Jobs -> Row] /\ worker' \in [Workers -> WorkerRow]
      /\ \A j \in Jobs :
           \/ job'[j] = job[j]
           \/ /\ job[j].state = "pending" /\ job'[j].state = "cancelled" /\ ~job'[j].blocked
              /\ job'[j].source = job[j].source
  <2>1. \A i \in Jobs : /\ job[i] \in Row /\ Cancelled(job[i]) \in Row /\ Cancelled(job[i]).state = "cancelled"
                        /\ ~Cancelled(job[i]).blocked /\ Cancelled(job[i]).source = job[i].source
    <3>1. \A i \in Jobs : job[i] \in Row
      BY DEF IInv, Typed
    <3>2. "failed" \in JobState
      BY DEF JobState
    <3> QED
      BY <3>1, <3>2, RowType
  <2>2. worker' \in [Workers -> WorkerRow]
    BY <1>1 DEF IInv, Typed
  <2> QED
    BY <1>1, <1>2, <2>1, <2>2
<1>4. event' \in [Jobs -> EventRow] /\ \A j \in Jobs : event[j].status = "absent" <=> event'[j].status = "absent"
  <2>1. \A j \in Jobs : /\ event[j] \in EventRow /\ [event[j] EXCEPT !.status = "failed"] \in EventRow
                        /\ [event[j] EXCEPT !.status = "failed"].status = "failed"
    BY DEF IInv, Typed, EventRow
  <2> QED
    BY <2>1 DEF SuspendCommit
<1>5. \A t \in Jobs :
        \/ hold'[t] = hold[t]
        \/ \E j \in Payers : Top(j) = t /\ hold'[t] = Outcome(j, FALSE)
  <2> SUFFICES ASSUME NEW t \in Jobs, hold'[t] # hold[t]
               PROVE  \E j \in Payers : Top(j) = t /\ hold'[t] = Outcome(j, FALSE)
    OBVIOUS
  <2>1. /\ \E j \in Payers : Top(j) = t
        /\ hold'[t] = Outcome(CHOOSE j \in Payers : Top(j) = t, FALSE)
    BY DEF SuspendCommit
  <2>2. (CHOOSE j \in Payers : Top(j) = t) \in Payers /\ Top(CHOOSE j \in Payers : Top(j) = t) = t
    BY <2>1
  <2> QED
    BY <2>1, <2>2
<1>6. \A j \in Payers : /\ j \in Jobs /\ job[j].state = "pending" /\ j \notin asset /\ CanTerminalize(j, FALSE)
                        /\ j \in suspension.cancels
  BY <1>1, <1>2 DEF Payers
<1>7. hold' \in [Jobs -> Holds]
  <2>1. \A t \in Jobs : hold'[t] \in Holds
    <3>1. \A j \in Payers : Outcome(j, FALSE) \in Holds
      BY DEF Outcome, Holds
    <3>2. \A t \in Jobs : hold[t] \in Holds
      BY DEF IInv, Typed
    <3> QED
      BY <1>5, <3>1, <3>2
  <2>2. hold' = [t \in Jobs |-> hold'[t]]
    BY DEF SuspendCommit
  <2> QED
    BY <2>1, <2>2
<1>8. /\ Typed' /\ WorkersFit' /\ Alone' /\ RowsFit' /\ ChildrenWait' /\ BatchExists' /\ LockedRest'
      /\ \A j \in Jobs : job[j].state = "absent" <=> job'[j].state = "absent"
  <2>1. \A j \in Jobs :
          \/ job'[j] = job[j]
          \/ /\ job[j].state = "pending" /\ job'[j].state \in {"pending", "cancelled", "failed"}
             /\ job'[j].blocked => job'[j].state # "cancelled"
             /\ job'[j].source = job[j].source \/ job'[j].source
             /\ job'[j].state = "pending" => Parent[j] \in asset /\ job'[j].source
    BY <1>3
  <2>2. user' \in {"active", "suspended"} /\ \A w \in Workers : worker'[w] = worker[w] \/ worker'[w] = Idle
    BY <1>1
  <2> QED
    BY <1>1, <1>3, <1>4, <1>7, <2>1, <2>2, RowsStep
<1>9. ReleasedIsOver'
  <2> SUFFICES ASSUME NEW p \in Jobs, Kind[p] = "parent", hold'[p] = "released"
               PROVE  job'[p].state \in {"failed", "cancelled"}
    BY DEF ReleasedIsOver
  <2>1. CASE hold'[p] = hold[p]
    BY <1>3, <2>1 DEF IInv, ReleasedIsOver
  <2>2. ASSUME NEW j \in Payers, Top(j) = p, Outcome(j, FALSE) = "released"
        PROVE  job'[p].state \in {"failed", "cancelled"}
    <3>1. CASE Kind[j] = "child"
      <4>1. Parent[j] = p /\ p \notin suspension.cancels /\ job[p].state \notin {"failed", "cancelled"}
        BY <2>2, <3>1, TopType, <1>6, JobAssumption DEF Payers, Top
      <4>2. job[p].state = "completed"
        BY <1>6, <3>1, <4>1 DEF IInv, LockedRest, Terminal
      <4>3. p \in asset
        BY <4>2 DEF IInv, RowsFit, IsImage
      <4> QED
        BY <2>2, <3>1, <4>1, <4>3 DEF Outcome
    <3>2. CASE Kind[j] # "child"
      <4>1. j = p
        BY <1>6, <2>2, <3>2, TopType
      <4> QED
        <5>1. job'[p] = Cancelled(job[p])
          BY <1>2, <1>6, <2>2, <4>1
        <5>2. Cancelled(job[p]).state = "cancelled"
          <6>1. job[p] \in Row
            BY DEF IInv, Typed
          <6> QED
            BY <6>1 DEF Cancelled, Row
        <5> QED
          BY <5>1, <5>2
    <3> QED
      BY <3>1, <3>2
  <2> QED
    BY <1>5, <2>1, <2>2
<1>10. ChargeMatchesDelivery'
  BY <1>1, <1>5, <1>6, <1>8, EndStep
<1> QED
  BY <1>8, <1>9, <1>10 DEF IInv

-----------------------------------------------------------------------------
(* The invariant *)

\* Nothing has been asked for.
LEMMA InitIInv == Init => IInv
<1> SUFFICES ASSUME Init
             PROVE  IInv
  OBVIOUS
<1> USE DEF Init
<1>1. Typed
  BY LimitAssumption DEF Typed, Row, Holds, EventRow, WorkerRow, Counters, NoSuspension, Idle
<1>2. WorkersFit /\ Alone
  BY JobAssumption DEF WorkersFit, Alone, Idle
<1>3. RowsFit /\ BatchExists /\ LockedRest /\ ReleasedIsOver
  BY JobAssumption DEF RowsFit, BatchExists, LockedRest, ReleasedIsOver, NoSuspension, Idle, Unstarted
<1>4. ChildrenWait
  BY TopType, JobAssumption DEF ChildrenWait, Idle
<1>5. ChargeMatchesDelivery
  BY DEF ChargeMatchesDelivery, Payable
<1> QED
  BY <1>1, <1>2, <1>3, <1>4, <1>5 DEF IInv

\* Every step keeps the invariant, and so does doing nothing.
LEMMA NextIInv == IInv /\ [Next]_vars => IInv'
<1> SUFFICES ASSUME IInv, [Next]_vars
             PROVE  IInv'
  OBVIOUS
<1>1. CASE Request
  <2>1. ASSUME NEW j \in Jobs, Kind[j] \in {"t2i", "t2v", "i2v"}, Admit(j) PROVE IInv'
    BY <2>1, AdmitStep
  <2> QED
    BY <1>1, <2>1, PipelineStep DEF Request, CreateGeneration, RetryGeneration
<1>2. CASE Dispatcher
  BY <1>2, DispatchStep DEF Dispatcher
<1>3. ASSUME NEW w \in Workers, WorkerStep(w) PROVE IInv'
  <2>1. CASE \E j \in Jobs : Claim(w, j) \/ Resume(w, j) \/ Discard(w, j)
    BY <2>1, ClaimStep, TakeStep
  <2>2. CASE Start(w) \/ CallProvider(w)
    BY <2>2, StartStep, CallStep
  <2>3. CASE Generate(w) \/ SaveSubmission(w) \/ SaveDownload(w)
    BY <2>3, ProgressStep
  <2>4. CASE Deliver(w) \/ MarkFailed(w)
    BY <2>4, DeliverStep, MarkFailedStep
  <2>5. CASE DeliverFails(w) \/ FailRead(w) \/ MarkFailedRefused(w) \/ LinkNothing(w) \/ ProviderFails(w)
    BY <2>5, FailureStep
  <2>6. CASE LinkChild(w) \/ FailChildren(w)
    BY <2>6, LinkChildStep, FailChildrenStep
  <2> QED
    BY <1>3, <2>1, <2>2, <2>3, <2>4, <2>5, <2>6 DEF WorkerStep, Handle
<1>4. CASE Master
  BY <1>4, MasterStep, SuspendCommitStep DEF Master
<1>5. CASE Fault
  BY <1>5, DispatchStep, FailureStep DEF Fault
<1>6. CASE UNCHANGED vars
  <2>1. Typed' /\ BatchExists' /\ LockedRest'
    BY <1>6 DEF vars, IInv, Typed, BatchExists, LockedRest
  <2> QED
    BY <1>6, <2>1, QuietStep DEF vars
<1> QED
  BY <1>1, <1>2, <1>3, <1>4, <1>5, <1>6 DEF Next

\* The inductive invariant holds in every state the jobs can reach.
THEOREM Invariant == Spec => []IInv
BY InitIInv, NextIInv, PTL DEF Spec

-----------------------------------------------------------------------------
(* What follows from it *)

\* Rows, holds, events, messages and workers have the types their columns and queues
\* have; a worker never takes a message that is not there.
THEOREM TypesHold == Spec => []TypeOK
<1>1. IInv => TypeOK
  BY DEF IInv, Typed, TypeOK, Row, Holds, EventRow, WorkerRow, Counters
<1> QED
  BY <1>1, Invariant, PTL

\* The claim under a row lock, the submission saved before polling and the state each
\* handler checks let no job ask the provider twice, whatever crashes and whatever
\* message is delivered again: handle_t2i, handle_t2v and handle_i2v submit a row once.
THEOREM OneProviderCall == Spec => []AtMostOneProviderCall
<1>1. IInv => AtMostOneProviderCall
  BY DEF IInv, RowsFit, AtMostOneProviderCall
<1> QED
  BY <1>1, Invariant, PTL

\* cancel_unpublished cancels only pending jobs it has locked, and the claim skips locked rows
\* and terminal ones: a cancelled job was never sent to the provider and has no output.
THEOREM CancelledNeverRan == Spec => []CancelledWorkNeverRan
<1>1. IInv => CancelledWorkNeverRan
  BY DEF IInv, RowsFit, Unstarted, CancelledWorkNeverRan
<1> QED
  BY <1>1, Invariant, PTL

\* Only link_completed_parent announces a pipeline's child, after the commit that made the
\* parent's image: no child has an event, or asks the provider, before that image.
THEOREM ChildWaits == Spec => []ChildFollowsParent
<1>1. IInv => ChildFollowsParent
  BY DEF IInv, ChildrenWait, Linked, ChildFollowsParent
<1> QED
  BY <1>1, Invariant, PTL

\* terminalize_generation ends a reservation in the transaction that completes, fails or
\* cancels the job: in full exactly when the last output is there, in part only for the
\* image of a pipeline, and given back only when there is no output.
THEOREM ChargesAreRight == Spec => []ChargeMatchesDelivery
<1>1. IInv => ChargeMatchesDelivery
  BY DEF IInv
<1> QED
  BY <1>1, Invariant, PTL

-----------------------------------------------------------------------------
(* Nothing is forgotten *)

\* A job that is not there, or that waits for its parent, has no event.
Silent == \A j \in Jobs : job[j].state = "absent" \/ job[j].blocked => event[j].status = "absent"

\* A pending job that does not wait has an event or a message, and what the dispatcher has
\* published but not marked yet has a message; no suspension and no loss interferes.
Announced ==
  /\ \A j \in Jobs : job[j].state = "pending" /\ ~job[j].blocked =>
       /\ event[j].status \in {"pending", "failed"} \/ broker[j] > 0
       /\ j \in DOMAIN batch /\ batch[j] = "published" => broker[j] > 0
  /\ ~suspension.open /\ budget["suspend"] = 0 /\ budget["brokerLoss"] = 0

\* A disturbance that may not happen any more does not, and never will again.
LEMMA SpentStaysSpent ==
  ASSUME IInv, [Next]_vars, NEW kind \in Disturbances, budget[kind] = 0
  PROVE  budget'[kind] = 0 /\ ~Spend(kind)
<1>1. budget \in [Disturbances -> Nat]
  BY DEF IInv, Typed
<1>2. ~Spend(kind)
  BY <1>1 DEF Spend
<1>3. ASSUME NEW other \in Disturbances, Spend(other) PROVE budget'[kind] = 0
  BY <1>1, <1>2, <1>3 DEF Spend
<1>4. budget' = budget \/ \E other \in Disturbances : Spend(other)
  <2>1. CASE Request
    BY <2>1 DEF Request, CreateGeneration, CreatePipeline, RetryGeneration, Admit
  <2>2. CASE Dispatcher \/ Fault
    BY <2>2 DEF Dispatcher, DispatchSelect, DispatchPublish, DispatchCommit, Fault, DispatcherCrash,
       BrokerLoss, DispatchRefused, Reenqueue, WorkerCrash, Disturbances
  <2>3. CASE Master
    BY <2>3 DEF Master, SuspendLock, SuspendCommit, SuspendAbort, Reactivate, Disturbances
  <2>4. ASSUME NEW w \in Workers, WorkerStep(w) PROVE budget' = budget \/ \E other \in Disturbances : Spend(other)
    <3>1. CASE \E j \in Jobs : Claim(w, j) \/ Resume(w, j) \/ Discard(w, j)
      BY <3>1 DEF Claim, Resume, Discard, Take
    <3>2. CASE Handle(w) \/ ProviderFails(w)
      BY <3>2 DEF Handle, Start, Generate, CallProvider, SaveSubmission, SaveDownload, Deliver, DeliverFails,
         FailRead, MarkFailed, MarkFailedRefused, LinkChild, LinkNothing, FailChildren, ProviderFails, Disturbances
    <3> QED
      BY <2>4, <3>1, <3>2 DEF WorkerStep
  <2>5. CASE UNCHANGED vars
    BY <2>5 DEF vars
  <2> QED
    BY <2>1, <2>2, <2>3, <2>4, <2>5 DEF Next
<1> QED
  BY <1>2, <1>3, <1>4

\* What a handler writes of rows: a state that is not pending, and nothing of waiting.
LEMMA HandlerWrites ==
  ASSUME IInv, NEW w \in Workers, Handle(w) \/ ProviderFails(w), ~LinkChild(w)
  PROVE  /\ UNCHANGED <<event, batch, broker, user, suspension>>
         /\ \A j \in Jobs : \/ job'[j] = job[j]
                            \/ /\ job'[j].state \notin {"absent", "pending"}
                               /\ job'[j].blocked => job[j].blocked
<1> USE DEF IInv
<1>1. job \in [Jobs -> Row]
  BY DEF Typed
<1>2. CASE Generate(w) \/ SaveSubmission(w) \/ SaveDownload(w) \/ Deliver(w) \/ MarkFailed(w)
  <2>1. UNCHANGED <<event, batch, broker, user, suspension>>
    BY <1>2 DEF Generate, SaveSubmission, SaveDownload, Deliver, MarkFailed
  <2>2. worker[w].pc # "idle"
    BY <1>2 DEF Generate, SaveSubmission, SaveDownload, Deliver, MarkFailed, At
  <2>3. worker[w].job \in Jobs /\ job[worker[w].job] \in Row
    BY <2>2, AtWork
  <2> DEFINE k == worker[w].job
  <2>4. \/ job' = job
        \/ job' = [job EXCEPT ![k].state = "generating"]
        \/ job' = [job EXCEPT ![k].state = "downloading"]
        \/ job' = [job EXCEPT ![k].state = "polling", ![k].op = TRUE]
        \/ job' = [job EXCEPT ![k].state = "completed"]
        \/ job' = [job EXCEPT ![k].state = "failed"]
    <3>1. CASE Generate(w)
      BY <3>1 DEF Generate
    <3>2. CASE SaveSubmission(w)
      BY <3>2 DEF SaveSubmission
    <3>3. CASE SaveDownload(w)
      BY <3>3 DEF SaveDownload
    <3>4. CASE Deliver(w) \/ MarkFailed(w)
      BY <3>4 DEF Deliver, MarkFailed
    <3> QED
      BY <1>2, <3>1, <3>2, <3>3, <3>4
  <2> HIDE DEF k
  <2>5. k \in Jobs
    BY <2>3 DEF k
  <2>6. \A j \in Jobs : \/ job'[j] = job[j]
                        \/ /\ job'[j].state \notin {"absent", "pending"}
                           /\ job'[j].blocked => job[j].blocked
    <3>1. job[k] \in Row
      BY <1>1, <2>5
    <3>2. \/ job' = job
          \/ /\ \A j \in Jobs : j # k => job'[j] = job[j]
             /\ job'[k].state \notin {"absent", "pending"} /\ job'[k].blocked = job[k].blocked
      <4>1. \A state \in {"generating", "downloading", "polling", "completed", "failed"} :
              /\ [job[k] EXCEPT !.state = state].state = state
              /\ [job[k] EXCEPT !.state = state].blocked = job[k].blocked
              /\ [job[k] EXCEPT !.state = state, !.op = TRUE].state = state
              /\ [job[k] EXCEPT !.state = state, !.op = TRUE].blocked = job[k].blocked
        BY <3>1 DEF Row
      <4>2. CASE job' = [job EXCEPT ![k].state = "generating"]
        BY <1>1, <2>5, <4>1, <4>2
      <4>3. CASE job' = [job EXCEPT ![k].state = "downloading"]
        BY <1>1, <2>5, <4>1, <4>3
      <4>4. CASE job' = [job EXCEPT ![k].state = "completed"]
        BY <1>1, <2>5, <4>1, <4>4
      <4>5. CASE job' = [job EXCEPT ![k].state = "failed"]
        BY <1>1, <2>5, <4>1, <4>5
      <4>6. CASE job' = [job EXCEPT ![k].state = "polling", ![k].op = TRUE]
        BY <1>1, <2>5, <4>1, <4>6
      <4> QED
        BY <2>4, <4>2, <4>3, <4>4, <4>5, <4>6
    <3> QED
      BY <3>2
  <2> QED
    BY <2>1, <2>6
<1>3. CASE FailChildren(w)
  <2>1. UNCHANGED <<event, batch, broker, user, suspension>>
    BY <1>3 DEF FailChildren
  <2>2. \A j \in Jobs : \/ job'[j] = job[j]
                        \/ job'[j] = Cancelled(job[j])
                        \/ job'[j] = [job[j] EXCEPT !.state = "failed"]
    BY <1>3 DEF FailChildren
  <2>3. \A row \in Row : /\ Cancelled(row).state = "cancelled" /\ ~Cancelled(row).blocked
                         /\ [row EXCEPT !.state = "failed"].state = "failed"
                         /\ [row EXCEPT !.state = "failed"].blocked = row.blocked
    BY DEF Cancelled, Row
  <2>4. \A j \in Jobs : job[j] \in Row
    BY <1>1
  <2>5. \A j \in Jobs : \/ job'[j] = job[j]
                        \/ /\ job'[j].state \notin {"absent", "pending"}
                           /\ job'[j].blocked => job[j].blocked
    <3> SUFFICES ASSUME NEW j \in Jobs
                 PROVE  \/ job'[j] = job[j]
                        \/ /\ job'[j].state \notin {"absent", "pending"}
                           /\ job'[j].blocked => job[j].blocked
      OBVIOUS
    <3>1. job[j] \in Row
      BY <2>4
    <3>2. CASE job'[j] = Cancelled(job[j])
      BY <2>3, <3>1, <3>2
    <3>3. CASE job'[j] = [job[j] EXCEPT !.state = "failed"]
      BY <2>3, <3>1, <3>3
    <3> QED
      BY <2>2, <3>2, <3>3
  <2> QED
    BY <2>1, <2>5
<1>4. CASE Start(w) \/ CallProvider(w) \/ DeliverFails(w) \/ FailRead(w) \/ MarkFailedRefused(w) \/ LinkNothing(w) \/ ProviderFails(w)
  BY <1>4 DEF Start, CallProvider, DeliverFails, FailRead, MarkFailedRefused, LinkNothing, ProviderFails
<1> QED
  BY <1>2, <1>3, <1>4 DEF Handle

\* Every step keeps what waits, and what is not there yet, without an event.
LEMMA SilentStep ==
  ASSUME IInv, Silent, [Next]_vars
  PROVE  Silent'
<1> USE DEF IInv
<1>1. job \in [Jobs -> Row] /\ event \in [Jobs -> EventRow]
  BY DEF Typed
<1>2. ASSUME \A j \in Jobs : /\ job'[j].state = "absent" => job[j].state = "absent"
                             /\ job'[j].blocked => job[j].blocked,
             \A j \in Jobs : event[j].status = "absent" => event'[j].status = "absent"
      PROVE  Silent'
  <2> SUFFICES ASSUME NEW j \in Jobs, job'[j].state = "absent" \/ job'[j].blocked
               PROVE  event'[j].status = "absent"
    BY DEF Silent
  <2>1. job[j].state = "absent" \/ job[j].blocked
    BY <1>2
  <2>2. event[j].status = "absent"
    BY <2>1 DEF Silent
  <2> QED
    BY <1>2, <2>2
<1>3. ASSUME NEW j \in Jobs, Admit(j) PROVE Silent'
  <2>1. /\ job'[j].state = "pending" /\ ~job'[j].blocked
        /\ \A i \in Jobs : i # j => job'[i] = job[i] /\ event'[i] = event[i]
    BY <1>1, <1>3 DEF Admit, RowsFit, Row, EventRow
  <2> QED
    BY <2>1 DEF Silent
<1>4. ASSUME NEW p \in Jobs, CreatePipeline(p) PROVE Silent'
  <2> DEFINE c == ChildOf(p)
  <2>1. c \in Jobs /\ c # p /\ job[c].state = "absent" /\ event[c].status = "absent"
    BY <1>4, ChildType DEF CreatePipeline, ChildrenWait, Silent
  <2> HIDE DEF c
  <2>2. /\ job[p].state = "absent" /\ ~job[p].blocked
        /\ job' = [job EXCEPT ![p].state = "pending", ![c] = [@ EXCEPT !.state = "pending", !.blocked = TRUE]]
        /\ event' = [event EXCEPT ![p].status = "pending"]
    BY <1>4 DEF CreatePipeline, RowsFit, c
  <2>3. /\ job'[p].state = "pending" /\ ~job'[p].blocked
        /\ \A i \in Jobs : /\ i \notin {p, c} => job'[i] = job[i]
                           /\ i # p => event'[i] = event[i]
    BY <1>1, <2>1, <2>2 DEF Row, EventRow
  <2> QED
    BY <2>1, <2>3 DEF Silent
<1>5. ASSUME NEW w \in Workers, NEW j \in Jobs, Claim(w, j) \/ Resume(w, j) \/ Discard(w, j) PROVE Silent'
  <2>1. /\ event' = event /\ \A i \in Jobs : i # j => job'[i] = job[i]
        /\ \/ job'[j] = job[j]
           \/ job'[j].state = "queued" /\ job'[j].blocked = job[j].blocked
    BY <1>1, <1>5 DEF Claim, Resume, Discard, Take, Row
  <2> QED
    BY <1>2, <2>1
<1>6. ASSUME NEW w \in Workers, Handle(w) \/ ProviderFails(w), ~LinkChild(w) PROVE Silent'
  BY <1>2, <1>6, HandlerWrites
<1>7. ASSUME NEW w \in Workers, LinkChild(w) PROVE Silent'
  <2>1. worker[w].pc # "idle" /\ Kind[worker[w].job] = "parent"
    BY <1>7 DEF LinkChild, At
  <2>2. worker[w].job \in Jobs
    BY <2>1, AtWork
  <2> DEFINE c == ChildOf(worker[w].job)
  <2>3. c \in Jobs
    BY <2>1, <2>2, ChildType
  <2>4. /\ job[c].state = "pending"
        /\ \/ /\ job' = [job EXCEPT ![c] = [@ EXCEPT !.source = TRUE, !.blocked = FALSE]]
              /\ event' = [event EXCEPT ![c].status = "pending"]
           \/ job' = [job EXCEPT ![c] = Cancelled(@)] /\ event' = event
    BY <1>7 DEF LinkChild, Waiting
  <2> HIDE DEF c
  <2>5. /\ \A j \in Jobs : j # c => job'[j] = job[j] /\ event'[j] = event[j]
        /\ ~job'[c].blocked /\ job'[c].state # "absent"
    <3>1. job[c] \in Row
      BY <1>1, <2>3
    <3>2. /\ [job[c] EXCEPT !.source = TRUE, !.blocked = FALSE].state = job[c].state
          /\ ~[job[c] EXCEPT !.source = TRUE, !.blocked = FALSE].blocked
          /\ Cancelled(job[c]).state = "cancelled" /\ ~Cancelled(job[c]).blocked
      BY <3>1 DEF Row, Cancelled
    <3> QED
      BY <1>1, <2>3, <2>4, <3>2
  <2> QED
    BY <2>5 DEF Silent
<1>8. CASE SuspendCommit
  <2>1. \A j \in Jobs : /\ job'[j] = job[j] \/ job'[j] = Cancelled(job[j])
                        /\ event[j].status = "absent" => event'[j] = event[j]
    BY <1>8 DEF SuspendCommit
  <2>2. \A j \in Jobs : Cancelled(job[j]).state = "cancelled" /\ ~Cancelled(job[j]).blocked
    BY <1>1 DEF Row, Cancelled
  <2>3. \A j \in Jobs : /\ job'[j].state = "absent" => job[j].state = "absent"
                        /\ job'[j].blocked => job[j].blocked
    BY <2>1, <2>2
  <2> QED
    BY <1>2, <2>1, <2>3
<1>9. CASE DispatchCommit
  <2>1. job' = job /\ \A j \in Jobs : j \notin DOMAIN batch => event'[j] = event[j]
    BY <1>9 DEF DispatchCommit
  <2> QED
    BY <1>2, <2>1 DEF BatchExists
<1>10. ASSUME UNCHANGED <<job, event>> PROVE Silent'
  BY <1>2, <1>10
<1>11. CASE Request
  BY <1>3, <1>4, <1>11 DEF Request, CreateGeneration, RetryGeneration
<1>12. CASE Dispatcher \/ Fault
  BY <1>9, <1>10, <1>12 DEF Dispatcher, DispatchSelect, DispatchPublish, Fault, DispatcherCrash, BrokerLoss,
     DispatchRefused, Reenqueue, WorkerCrash
<1>13. CASE Master
  BY <1>8, <1>10, <1>13 DEF Master, SuspendLock, SuspendAbort, Reactivate
<1>14. ASSUME NEW w \in Workers, WorkerStep(w) PROVE Silent'
  BY <1>5, <1>6, <1>7, <1>14 DEF WorkerStep
<1> QED
  BY <1>10, <1>11, <1>12, <1>13, <1>14 DEF Next, vars

\* A step that leaves events and the batch alone, takes no message and makes no job pending.
LEMMA AnnouncedSame ==
  ASSUME IInv, Announced, UNCHANGED <<event, batch, suspension>>,
         budget'["suspend"] = 0 /\ budget'["brokerLoss"] = 0, broker' \in [Jobs -> Nat],
         \A j \in Jobs : broker'[j] >= broker[j] \/ job'[j].state # "pending" \/ job'[j].blocked,
         \A j \in Jobs : \/ job'[j] = job[j]
                         \/ job'[j].state \notin {"absent", "pending"} /\ (job'[j].blocked => job[j].blocked)
  PROVE  Announced'
<1>1. broker \in [Jobs -> Nat]
  BY DEF IInv, Typed
<1> QED
  BY <1>1 DEF Announced

\* Every step keeps work announced.
LEMMA AnnouncedStep ==
  ASSUME IInv, Silent, Announced, [Next]_vars
  PROVE  Announced'
<1> USE DEF IInv
<1>1. "suspend" \in Disturbances /\ "brokerLoss" \in Disturbances
  BY DEF Disturbances
<1>2. budget'["suspend"] = 0 /\ budget'["brokerLoss"] = 0 /\ ~Spend("suspend") /\ ~Spend("brokerLoss")
  BY <1>1, SpentStaysSpent DEF Announced
<1>3. Typed'
  BY NextIInv
<1>4. broker \in [Jobs -> Nat] /\ broker' \in [Jobs -> Nat] /\ job \in [Jobs -> Row] /\ event \in [Jobs -> EventRow]
      /\ event' \in [Jobs -> EventRow] /\ job' \in [Jobs -> Row]
  BY <1>3 DEF Typed
<1>5. suspension.locked = {} /\ suspension.cancels = {} /\ ~suspension.open
  BY DEF Announced, LockedRest, NoSuspension
<1>6. ASSUME NEW j \in Jobs, Admit(j) PROVE Announced'
  <2>1. /\ job[j].state = "absent" /\ ~job[j].blocked /\ ~job'[j].blocked /\ job'[j].state = "pending"
        /\ event'[j].status = "pending" /\ UNCHANGED <<batch, broker, suspension>>
        /\ \A i \in Jobs : i # j => job'[i] = job[i] /\ event'[i] = event[i]
    BY <1>4, <1>6 DEF Admit, RowsFit, Row, EventRow
  <2>2. j \notin DOMAIN batch
    BY <2>1 DEF Silent, BatchExists
  <2> QED
    BY <1>2, <2>1, <2>2 DEF Announced
<1>7. ASSUME NEW p \in Jobs, CreatePipeline(p) PROVE Announced'
  <2> DEFINE c == ChildOf(p)
  <2>1. c \in Jobs /\ c # p /\ job[c].state = "absent" /\ event[c].status = "absent"
    BY <1>7, ChildType DEF CreatePipeline, ChildrenWait, Silent
  <2> HIDE DEF c
  <2>2. /\ job[p].state = "absent" /\ ~job[p].blocked
        /\ job' = [job EXCEPT ![p].state = "pending", ![c] = [@ EXCEPT !.state = "pending", !.blocked = TRUE]]
        /\ event' = [event EXCEPT ![p].status = "pending"] /\ UNCHANGED <<batch, broker, suspension>>
    BY <1>7 DEF CreatePipeline, RowsFit, c
  <2>3. /\ job'[p].state = "pending" /\ ~job'[p].blocked /\ job'[c].state = "pending" /\ job'[c].blocked
        /\ event'[p].status = "pending"
        /\ \A i \in Jobs : /\ i \notin {p, c} => job'[i] = job[i]
                           /\ i # p => event'[i] = event[i]
    BY <1>4, <2>1, <2>2 DEF Row, EventRow
  <2>4. p \notin DOMAIN batch
    BY <2>2 DEF Silent, BatchExists
  <2> QED
    BY <1>2, <2>1, <2>2, <2>3, <2>4 DEF Announced
<1>8. CASE DispatchSelect
  <2>1. UNCHANGED <<job, event, broker, suspension>> /\ \A j \in DOMAIN batch' : batch'[j] = "todo"
    BY <1>8 DEF DispatchSelect
  <2> QED
    BY <1>2, <2>1 DEF Announced
<1>9. ASSUME NEW j \in Jobs, DispatchPublish(j) PROVE Announced'
  <2>1. /\ UNCHANGED <<job, event, suspension>> /\ broker'[j] = broker[j] + 1 /\ DOMAIN batch' = DOMAIN batch
        /\ \A i \in Jobs : i # j => broker'[i] = broker[i] /\ batch'[i] = batch[i]
    BY <1>4, <1>9 DEF DispatchPublish
  <2> QED
    BY <1>2, <1>4, <2>1 DEF Announced
<1>10. ASSUME NEW j \in Jobs, DispatchRefused(j) PROVE Announced'
  <2>1. /\ UNCHANGED <<job, event, suspension, broker>> /\ DOMAIN batch' = DOMAIN batch
        /\ batch'[j] = "refused" /\ \A i \in Jobs : i # j => batch'[i] = batch[i]
    BY <1>10 DEF DispatchRefused
  <2> QED
    BY <1>2, <1>4, <2>1 DEF Announced
<1>11. CASE DispatchCommit
  <2>1. /\ UNCHANGED <<job, suspension, broker>> /\ DOMAIN batch' = {}
        /\ \A j \in Jobs : event'[j] = IF j \in DOMAIN batch THEN AfterDispatch(event[j], batch[j]) ELSE event[j]
    BY <1>11 DEF DispatchCommit
  <2>2. \A j \in DOMAIN batch : /\ event[j].status # "absent"
                                /\ AfterDispatch(event[j], batch[j]).status \in {"published", "pending", "failed"}
                                /\ AfterDispatch(event[j], batch[j]).status = "published" => batch[j] = "published"
    BY DEF AfterDispatch, BatchExists
  <2> QED
    BY <1>2, <2>1, <2>2 DEF Announced
<1>12. CASE DispatcherCrash
  BY <1>2, <1>12 DEF DispatcherCrash, Announced
<1>13. ASSUME NEW j \in Jobs, Reenqueue(j) PROVE Announced'
  <2>1. UNCHANGED <<job, event, batch, suspension>> /\ \A i \in Jobs : broker'[i] >= broker[i]
    BY <1>4, <1>13 DEF Reenqueue
  <2> QED
    BY <1>2, <1>4, <2>1, AnnouncedSame
<1>14. ASSUME NEW w \in Workers, NEW j \in Jobs, Claim(w, j) \/ Resume(w, j) \/ Discard(w, j) PROVE Announced'
  <2>1. UNCHANGED <<event, batch, suspension>> /\ \A i \in Jobs : i # j => broker'[i] = broker[i]
    BY <1>4, <1>14 DEF Claim, Resume, Discard, Take
  <2>2. /\ \A i \in Jobs : i # j => job'[i] = job[i]
        /\ \/ job'[j] = job[j] /\ (job[j].state # "pending" \/ job[j].blocked)
           \/ job'[j].state = "queued" /\ job'[j].blocked = job[j].blocked
    BY <1>4, <1>5, <1>14 DEF Claim, Resume, Discard, Claimable, Resumable, Row
  <2> QED
    BY <1>2, <1>4, <2>1, <2>2, AnnouncedSame
<1>15. ASSUME NEW w \in Workers, Handle(w) \/ ProviderFails(w), ~LinkChild(w) PROVE Announced'
  <2>1. /\ UNCHANGED <<event, batch, broker, suspension>>
        /\ \A j \in Jobs : \/ job'[j] = job[j]
                           \/ job'[j].state \notin {"absent", "pending"} /\ (job'[j].blocked => job[j].blocked)
    BY <1>15, HandlerWrites
  <2> QED
    BY <1>2, <1>4, <2>1, AnnouncedSame
<1>16. ASSUME NEW w \in Workers, LinkChild(w) PROVE Announced'
  <2> DEFINE p == worker[w].job
             c == ChildOf(p)
  <2>1. worker[w].pc # "idle" /\ Kind[p] = "parent"
    BY <1>16 DEF LinkChild, At
  <2>2. p \in Jobs
    BY <2>1, AtWork
  <2>3. c \in Jobs
    BY <2>1, <2>2, ChildType
  <2> HIDE DEF p, c
  <2>4. /\ UNCHANGED <<batch, broker, suspension>> /\ job[c].blocked
        /\ \/ /\ job' = [job EXCEPT ![c] = [@ EXCEPT !.source = TRUE, !.blocked = FALSE]]
              /\ event' = [event EXCEPT ![c].status = "pending"]
           \/ job' = [job EXCEPT ![c] = Cancelled(@)] /\ event' = event
    BY <1>16 DEF LinkChild, Waiting, c, p
  <2>5. c \notin DOMAIN batch
    BY <2>3, <2>4 DEF Silent, BatchExists
  <2>6. /\ \A j \in Jobs : j # c => job'[j] = job[j] /\ event'[j] = event[j]
        /\ ~job'[c].blocked
        /\ \/ event'[c].status = "pending" /\ job'[c].state = job[c].state
           \/ event'[c] = event[c] /\ job'[c].state = "cancelled"
    <3>1. job[c] \in Row /\ event[c] \in EventRow
      BY <1>4, <2>3
    <3>2. /\ [job[c] EXCEPT !.source = TRUE, !.blocked = FALSE].state = job[c].state
          /\ ~[job[c] EXCEPT !.source = TRUE, !.blocked = FALSE].blocked
          /\ Cancelled(job[c]).state = "cancelled" /\ ~Cancelled(job[c]).blocked
          /\ [event[c] EXCEPT !.status = "pending"].status = "pending"
      BY <3>1 DEF Row, EventRow, Cancelled
    <3> QED
      BY <1>4, <2>3, <2>4, <3>2
  <2>7. job[c].state # "absent"
    BY <2>3, <2>4 DEF RowsFit
  <2> QED
    BY <1>2, <2>3, <2>4, <2>5, <2>6, <2>7 DEF Announced
<1>17. ASSUME NEW w \in Workers, WorkerCrash(w) PROVE Announced'
  <2>1. UNCHANGED <<job, event, batch, suspension>> /\ \A i \in Jobs : broker'[i] >= broker[i]
    BY <1>4, <1>17 DEF WorkerCrash
  <2> QED
    BY <1>2, <1>4, <2>1, AnnouncedSame
<1>18. CASE UNCHANGED vars
  BY <1>18 DEF vars, Announced
<1>19. CASE Request
  BY <1>6, <1>7, <1>19 DEF Request, CreateGeneration, RetryGeneration
<1>20. CASE Master
  BY <1>2, <1>5, <1>20 DEF Master, SuspendLock, SuspendCommit, SuspendAbort, Reactivate, Announced
<1>21. ASSUME NEW w \in Workers, WorkerStep(w) PROVE Announced'
  BY <1>14, <1>15, <1>16, <1>21 DEF WorkerStep
<1>22. CASE Fault
  BY <1>2, <1>10, <1>12, <1>13, <1>17, <1>22 DEF Fault, BrokerLoss
<1>23. CASE Dispatcher
  BY <1>8, <1>9, <1>11, <1>23 DEF Dispatcher
<1> QED
  BY <1>18, <1>19, <1>20, <1>21, <1>22, <1>23 DEF Next

\* As long as the broker keeps its queue and nobody is suspended, whichever process dies between
\* two commits, a pending job has its event in the outbox, a message, or an event that failed for
\* good: dispatch_outbox_batch marks an event only after the broker took it, and a message is
\* acknowledged only after the row is claimed.  (What suspension locks is discarded: a run shows it.)
THEOREM NothingIsForgotten ==
  ASSUME Budget["brokerLoss"] = 0, Budget["suspend"] = 0
  PROVE  Spec => []NothingForgotten
<1>1. Init => IInv /\ Silent /\ Announced
  BY InitIInv DEF Init, Silent, Announced, NoSuspension
<1>2. IInv /\ Silent /\ Announced /\ [Next]_vars => (IInv /\ Silent /\ Announced)'
  BY NextIInv, SilentStep, AnnouncedStep
<1>3. IInv /\ Silent /\ Announced => NothingForgotten
  BY DEF Announced, NothingForgotten, PendingJobs
<1> QED
  BY <1>1, <1>2, <1>3, PTL DEF Spec

-----------------------------------------------------------------------------
(* One message at a time *)

Nobody(j) == \A w \in Workers : worker[w].job # j

\* The event of j is not published, and the dispatcher has not sent it either.
Unsent(j) ==
  /\ event[j].status \in {"absent", "pending"}
  /\ ~(j \in DOMAIN batch /\ batch[j] = "published")

\* A job has a message, or a worker, or an event that will bring one: only one of them.
OneMessageAtMost ==
  /\ \A j \in Jobs : /\ broker[j] \in {0, 1}
                     /\ broker[j] = 1 => Nobody(j)
                     /\ Unsent(j) => broker[j] = 0 /\ Nobody(j)
  /\ \A w, v \in Workers : worker[w].job = worker[v].job /\ worker[w].job \in Jobs => w = v
  /\ \A j \in DOMAIN batch : event[j].status = "pending" /\ j \notin suspension.locked
  /\ budget["dispatcherCrash"] = 0 /\ budget["repair"] = 0

\* Where a handler may still write the row it read: the row is live.
BusyAt == {"generate", "call", "called", "poll", "deliver", "failing", "fail"}

Busy ==
  \A w \in Workers : worker[w].pc \in BusyAt => job[worker[w].job].state \in Active

\* The child of a parent that is under way waits, and an animation has its image.
Families ==
  \A j \in Jobs :
    /\ Kind[j] = "child" /\ job[Parent[j]].state \in Active => job[j].state = "pending"
    /\ Kind[j] = "i2v" /\ job[j].state # "absent" => Parent[j] \in asset

\* The inductive invariant while no message is ever duplicated.
SoleInv == IInv /\ Silent /\ OneMessageAtMost /\ Busy /\ Families /\ HoldEndsWithWork

\* A step that sends and takes no message.
LEMMA MessagesSame ==
  ASSUME SoleInv, UNCHANGED broker,
         budget'["dispatcherCrash"] = 0 /\ budget'["repair"] = 0,
         \A j \in Jobs : Unsent(j)' => Unsent(j),
         \A w \in Workers : worker'[w].job = worker[w].job \/ worker'[w].job = None,
         \A j \in DOMAIN batch' : event'[j].status = "pending" /\ j \notin suspension'.locked
  PROVE  OneMessageAtMost'
<1>1. None \notin Jobs
  BY JobAssumption
<1>2. \A j \in Jobs : Nobody(j) => Nobody(j)'
  BY <1>1 DEF Nobody
<1> QED
  BY <1>1, <1>2 DEF SoleInv, OneMessageAtMost

\* A step that ends no work and no reservation.
LEMMA WorkSame ==
  ASSUME SoleInv, UNCHANGED hold, asset \subseteq asset',
         \A j \in Jobs : \/ job'[j].state = job[j].state
                         \/ /\ job[j].state \in Active /\ job'[j].state \in Active
                            /\ Kind[j] = "child" => job[Parent[j]].state \notin Active
  PROVE  Families' /\ HoldEndsWithWork'
<1>1. "absent" \notin Active /\ "completed" \notin Active
  BY DEF Active, JobState, Terminal
<1>2. Families'
  <2> SUFFICES ASSUME NEW j \in Jobs
               PROVE  /\ Kind[j] = "child" /\ job'[Parent[j]].state \in Active => job'[j].state = "pending"
                      /\ Kind[j] = "i2v" /\ job'[j].state # "absent" => Parent[j] \in asset'
    BY DEF Families
  <2>1. Kind[j] = "child" => Parent[j] \in Jobs
    BY JobAssumption
  <2> QED
    BY <1>1, <2>1 DEF SoleInv, Families
<1>3. HoldEndsWithWork'
  <2> SUFFICES ASSUME NEW t \in Jobs, Kind[t] # "child", job'[t].state # "absent"
               PROVE  hold'[t] = "held" <=> Underway(t)'
    BY DEF HoldEndsWithWork, Payable
  <2>1. Last(t) \in Jobs
    BY LastOfTop
  <2>2. job[t].state # "absent"
    BY <1>1
  <2>3. Underway(t)' <=> Underway(t)
    BY <1>1, <2>1 DEF Underway, Last, ChildOf
  <2> QED
    BY <2>2, <2>3 DEF SoleInv, HoldEndsWithWork, Payable
<1> QED
  BY <1>2, <1>3

\* A handler's own job: it ends once, and stays live as long as the handler goes on.
LEMMA HandlerActs ==
  ASSUME IInv, Busy, NEW w \in Workers, Handle(w) \/ ProviderFails(w), ~LinkChild(w), ~FailChildren(w)
  PROVE  /\ worker[w].pc # "idle" /\ \A v \in Workers : v # w => worker'[v] = worker[v]
         /\ worker'[w].job \in {worker[w].job, None}
         /\ worker'[w].pc \in BusyAt =>
              worker'[w].job = worker[w].job /\ job'[worker[w].job].state \in Active
         /\ job[worker[w].job].state \in Terminal => job' = job
         /\ \A i \in Jobs : i # worker[w].job => job'[i] = job[i]
         /\ \/ Deliver(w) \/ MarkFailed(w)
            \/ UNCHANGED <<job, asset, hold>>
            \/ /\ UNCHANGED <<asset, hold>> /\ job[worker[w].job].state \in Active
               /\ job'[worker[w].job].state \in Active
<1> DEFINE k == worker[w].job
<1> USE DEF IInv
<1>1. worker[w].pc # "idle"
  BY DEF Handle, ProviderFails, Start, Generate, CallProvider, SaveSubmission, SaveDownload, Deliver, DeliverFails,
     FailRead, MarkFailed, MarkFailedRefused, LinkChild, LinkNothing, FailChildren, At
<1>2. k \in Jobs /\ job[k] \in Row /\ worker[w] \in WorkerRow /\ job[k].state \in {"queued", "generating"} \cup Started
  BY <1>1, AtWork
<1>3. job \in [Jobs -> Row] /\ worker \in [Workers -> WorkerRow]
  BY DEF Typed
<1>4. \A v \in Workers : v # w => worker'[v] = worker[v]
  BY <1>3 DEF Handle, ProviderFails, Start, Generate, CallProvider, SaveSubmission, SaveDownload, Deliver, DeliverFails,
     FailRead, MarkFailed, MarkFailedRefused, LinkChild, LinkNothing, FailChildren, Goto, Finish
<1>5. Idle.pc = "idle" /\ Idle.job = None /\ "idle" \notin BusyAt
  BY DEF Idle, BusyAt
<1>6. Finish(w) => worker'[w] = Idle
  BY <1>3 DEF Finish
<1>7. \A pc, copy : Goto(w, pc, copy) => worker'[w].job = k /\ worker'[w].pc = pc
  BY <1>2, <1>3 DEF Goto, WorkerRow
<1>8. worker[w].pc \in BusyAt => job[k].state \in Active
  BY DEF Busy, BusyAt
<1>9. \A state : /\ job' = [job EXCEPT ![k].state = state] => job'[k].state = state
                 /\ job' = [job EXCEPT ![k].state = state, ![k].op = TRUE] => job'[k].state = state
  BY <1>2, <1>3 DEF Row
<1>10. {"generating", "polling", "downloading"} \subseteq Active /\ Active \cap Terminal = {}
  BY DEF Active, JobState, Terminal
<1>11. CASE Start(w) \/ FailRead(w)
  <2>1. UNCHANGED <<job, asset, hold>>
    BY <1>11 DEF Start, FailRead
  <2>2. job[k].state \notin Terminal => job[k].state \in Active
    BY <1>2 DEF Active, JobState, Started
  <2>3. \/ Finish(w)
        \/ Goto(w, "failchildren", job[k].state)
        \/ /\ job[k].state \notin Terminal
           /\ Goto(w, "poll", job[k].state) \/ Goto(w, "generate", job[k].state) \/ Goto(w, "fail", job[k].state)
    <3>1. CASE Start(w)
      <4>1. CASE job[k].state \in Terminal
        BY <3>1, <4>1 DEF Start, Terminal
      <4>2. CASE job[k].state \notin Terminal /\ job[k].state = "polling" /\ job[k].op
        BY <3>1, <4>2 DEF Start, Terminal
      <4>3. CASE job[k].state \notin Terminal /\ ~(job[k].state = "polling" /\ job[k].op)
        BY <3>1, <4>3 DEF Start
      <4> QED
        BY <4>1, <4>2, <4>3
    <3>2. CASE FailRead(w)
      BY <3>2 DEF FailRead
    <3> QED
      BY <1>11, <3>1, <3>2
  <2> QED
    BY <1>1, <1>4, <1>5, <1>6, <1>7, <2>1, <2>2, <2>3 DEF BusyAt
<1>12. CASE CallProvider(w) \/ ProviderFails(w) \/ DeliverFails(w)
  <2>1. UNCHANGED <<job, asset, hold>> /\ worker[w].pc \in BusyAt
    BY <1>12 DEF CallProvider, ProviderFails, DeliverFails, At, BusyAt
  <2>2. Goto(w, "called", worker[w].copy) \/ Goto(w, "failing", worker[w].copy)
    BY <1>12 DEF CallProvider, ProviderFails, DeliverFails
  <2> QED
    BY <1>1, <1>4, <1>7, <1>8, <2>1, <2>2
<1>13. CASE MarkFailedRefused(w) \/ LinkNothing(w)
  <2>1. UNCHANGED <<job, asset, hold>> /\ Finish(w)
    BY <1>13 DEF MarkFailedRefused, LinkNothing
  <2> QED
    BY <1>1, <1>4, <1>5, <1>6, <2>1
<1>14. CASE Generate(w)
  <2>1. worker[w].pc \in BusyAt /\ UNCHANGED <<asset, hold>>
    BY <1>14 DEF Generate, At, BusyAt
  <2>2. \/ job' = [job EXCEPT ![k].state = "generating"] /\ Goto(w, "call", "generating")
        \/ job' = job /\ Goto(w, "failing", worker[w].copy)
    BY <1>14 DEF Generate
  <2>3. job[k].state \in Active /\ job[k].state \notin Terminal
    BY <1>8, <1>10, <2>1
  <2>4. job'[k].state \in Active /\ \A i \in Jobs : i # k => job'[i] = job[i]
    BY <1>3, <1>9, <1>10, <2>2, <2>3
  <2>5. worker'[w].job = k
    BY <1>7, <2>2
  <2> HIDE DEF k
  <2>6. /\ worker[w].pc # "idle" /\ \A v \in Workers : v # w => worker'[v] = worker[v]
        /\ worker'[w].job \in {k, None}
        /\ worker'[w].pc \in BusyAt => worker'[w].job = k /\ job'[k].state \in Active
        /\ job[k].state \in Terminal => job' = job
    BY <1>1, <1>4, <2>3, <2>4, <2>5
  <2> QED
    BY <2>1, <2>3, <2>4, <2>6 DEF k
<1>15. CASE SaveSubmission(w)
  <2>1. worker[w].pc \in BusyAt /\ UNCHANGED <<asset, hold>>
    BY <1>15 DEF SaveSubmission, At, BusyAt
  <2>2. \/ job' = [job EXCEPT ![k].state = "downloading"] /\ Goto(w, "deliver", "downloading")
        \/ job' = [job EXCEPT ![k].state = "polling", ![k].op = TRUE] /\ Goto(w, "poll", "polling")
    BY <1>15 DEF SaveSubmission
  <2>3. job[k].state \in Active /\ job[k].state \notin Terminal
    BY <1>8, <1>10, <2>1
  <2>4. job'[k].state \in Active /\ \A i \in Jobs : i # k => job'[i] = job[i]
    BY <1>3, <1>9, <1>10, <2>2, <2>3
  <2>5. worker'[w].job = k
    BY <1>7, <2>2
  <2> HIDE DEF k
  <2>6. /\ worker[w].pc # "idle" /\ \A v \in Workers : v # w => worker'[v] = worker[v]
        /\ worker'[w].job \in {k, None}
        /\ worker'[w].pc \in BusyAt => worker'[w].job = k /\ job'[k].state \in Active
        /\ job[k].state \in Terminal => job' = job
    BY <1>1, <1>4, <2>3, <2>4, <2>5
  <2> QED
    BY <2>1, <2>3, <2>4, <2>6 DEF k
<1>16. CASE SaveDownload(w)
  <2>1. worker[w].pc \in BusyAt /\ UNCHANGED <<asset, hold>>
    BY <1>16 DEF SaveDownload, At, BusyAt
  <2>2. \/ job' = [job EXCEPT ![k].state = "downloading"] /\ Goto(w, "deliver", "downloading")
        \/ job' = job /\ Goto(w, "failing", "polling")
    BY <1>16 DEF SaveDownload
  <2>3. job[k].state \in Active /\ job[k].state \notin Terminal
    BY <1>8, <1>10, <2>1
  <2>4. job'[k].state \in Active /\ \A i \in Jobs : i # k => job'[i] = job[i]
    BY <1>3, <1>9, <1>10, <2>2, <2>3
  <2>5. worker'[w].job = k
    BY <1>7, <2>2
  <2> HIDE DEF k
  <2>6. /\ worker[w].pc # "idle" /\ \A v \in Workers : v # w => worker'[v] = worker[v]
        /\ worker'[w].job \in {k, None}
        /\ worker'[w].pc \in BusyAt => worker'[w].job = k /\ job'[k].state \in Active
        /\ job[k].state \in Terminal => job' = job
    BY <1>1, <1>4, <2>3, <2>4, <2>5
  <2> QED
    BY <2>1, <2>3, <2>4, <2>6 DEF k
<1>17. CASE Deliver(w) \/ MarkFailed(w)
  <2>1. worker[w].pc \in BusyAt
    BY <1>17 DEF Deliver, MarkFailed, At, BusyAt
  <2>2. job[k].state \notin Terminal
    BY <1>8, <1>10, <2>1
  <2>3. Finish(w) \/ Goto(w, "link", "completed") \/ Goto(w, "failchildren", "failed")
    BY <1>17 DEF Deliver, MarkFailed
  <2>4. worker'[w].job \in {k, None} /\ worker'[w].pc \notin BusyAt
    BY <1>5, <1>6, <1>7, <2>3 DEF BusyAt
  <2>5. \A i \in Jobs : i # k => job'[i] = job[i]
    BY <1>3, <1>17 DEF Deliver, MarkFailed
  <2> HIDE DEF k
  <2>6. /\ worker[w].pc # "idle" /\ \A v \in Workers : v # w => worker'[v] = worker[v]
        /\ worker'[w].job \in {k, None} /\ worker'[w].pc \notin BusyAt
        /\ job[k].state \notin Terminal
    BY <1>1, <1>4, <2>2, <2>4
  <2> QED
    BY <1>17, <2>5, <2>6 DEF k
<1> QED
  BY <1>11, <1>12, <1>13, <1>14, <1>15, <1>16, <1>17 DEF Handle

\* The action of TerminalStatesAreFinal.
KeptEnds == \A j \in Jobs : job[j].state \in Terminal => job'[j].state = job[j].state

\* What every step must show.
SoleNext == OneMessageAtMost' /\ Busy' /\ Families' /\ HoldEndsWithWork' /\ KeptEnds

\* The budgets that duplicate messages stay empty.
NoRepair == budget'["dispatcherCrash"] = 0 /\ budget'["repair"] = 0

\* What a job that does not exist yet, and one that only waits, has about it.
LEMMA AtRest ==
  ASSUME SoleInv, NEW j \in Jobs
  PROVE  /\ job[j].state \in {"absent", "pending"} => Nobody(j)
         /\ job[j].state = "absent" => /\ event[j].status = "absent" /\ j \notin DOMAIN batch
                                       /\ j \notin suspension.locked
<1>1. None \notin Jobs
  BY JobAssumption
<1> QED
  BY <1>1 DEF SoleInv, Silent, IInv, WorkersFit, Unstarted, Nobody, Idle, BatchExists, LockedRest

\* Workers go on with the rows they had.
LEMMA BusySame ==
  ASSUME SoleInv, UNCHANGED worker,
         \A j \in Jobs : job'[j] = job[j] \/ Nobody(j)
  PROVE  Busy'
<1>1. \A w \in Workers : worker[w].pc # "idle" => worker[w].job \in Jobs /\ ~Nobody(worker[w].job)
  BY DEF SoleInv, IInv, WorkersFit, Nobody
<1>2. "idle" \notin BusyAt
  BY DEF BusyAt
<1> QED
  BY <1>1, <1>2 DEF SoleInv, Busy

\* A new job: one event, no message, a reservation.
LEMMA SoleAdmit ==
  ASSUME SoleInv, NoRepair, NEW j \in Jobs, Kind[j] \in {"t2i", "t2v", "i2v"}, Admit(j)
  PROVE  SoleNext
<1> USE DEF SoleInv
<1>1. /\ job[j].state = "absent" /\ UNCHANGED <<asset, batch, broker, worker, user, suspension>>
      /\ job'[j].state = "pending" /\ hold'[j] = "held" /\ event'[j].status = "pending"
      /\ \A i \in Jobs : i # j => job'[i] = job[i] /\ hold'[i] = hold[i] /\ event'[i] = event[i]
      /\ Kind[j] = "i2v" => Parent[j] \in asset
  BY DEF Admit, IInv, Typed, Row, EventRow
<1>2. Nobody(j) /\ event[j].status = "absent" /\ j \notin DOMAIN batch
  BY <1>1, AtRest
<1>3. OneMessageAtMost'
  <2>1. \A i \in Jobs : Unsent(i)' => Unsent(i)
    BY <1>1, <1>2 DEF Unsent
  <2>2. \A i \in DOMAIN batch' : event'[i].status = "pending" /\ i \notin suspension'.locked
    BY <1>1, <1>2 DEF OneMessageAtMost, IInv, Typed
  <2> QED
    BY <1>1, <2>1, <2>2, MessagesSame DEF NoRepair
<1>4. Busy'
  BY <1>1, <1>2, BusySame
<1>5. "absent" \notin Active /\ "absent" \notin Terminal /\ "pending" \in Active /\ Active \cap Terminal = {}
  BY DEF Active, JobState, Terminal
<1>6. Families'
  <2>1. \A i \in Jobs : Kind[i] = "child" => i # j /\ Parent[i] # j /\ Parent[i] \in Jobs
    BY JobAssumption
  <2> QED
    BY <1>1, <2>1 DEF Families
<1>7. HoldEndsWithWork'
  <2> SUFFICES ASSUME NEW t \in Jobs, Kind[t] # "child", job'[t].state # "absent"
               PROVE  hold'[t] = "held" <=> Underway(t)'
    BY DEF HoldEndsWithWork, Payable
  <2>1. CASE t = j
    BY <1>1, <1>5, <2>1 DEF Underway
  <2>2. CASE t # j
    <3>1. Last(t) \in Jobs /\ Last(t) # j
      BY <2>2, LastOfTop, TopType
    <3> QED
      BY <1>1, <2>2, <3>1 DEF Underway, HoldEndsWithWork, Payable, Last, ChildOf
  <2> QED
    BY <2>1, <2>2
<1>8. KeptEnds
  BY <1>1, <1>5 DEF KeptEnds
<1> QED
  BY <1>3, <1>4, <1>6, <1>7, <1>8 DEF SoleNext

\* A pipeline: the parent is announced, the child waits for it.
LEMMA SolePipeline ==
  ASSUME SoleInv, NoRepair, NEW p \in Jobs, CreatePipeline(p)
  PROVE  SoleNext
<1> DEFINE c == ChildOf(p)
<1> USE DEF SoleInv
<1>1. c \in Jobs /\ Kind[p] = "parent" /\ Kind[c] = "child" /\ Parent[c] = p /\ c # p
      /\ \A i \in Jobs : Kind[i] = "child" /\ Parent[i] = p => i = c
  BY ChildType DEF CreatePipeline
<1>2. job[c].state = "absent" /\ job[p].state = "absent"
  BY <1>1 DEF CreatePipeline, IInv, ChildrenWait
<1>3. /\ UNCHANGED <<asset, batch, broker, worker, user, suspension>>
      /\ job' = [job EXCEPT ![p].state = "pending", ![c] = [@ EXCEPT !.state = "pending", !.blocked = TRUE]]
      /\ hold' = [hold EXCEPT ![p] = "held"] /\ event' = [event EXCEPT ![p].status = "pending"]
  BY DEF CreatePipeline
<1> HIDE DEF c
<1>4. job \in [Jobs -> Row] /\ event \in [Jobs -> EventRow] /\ hold \in [Jobs -> Holds]
  BY DEF IInv, Typed
<1>5. /\ job'[p].state = "pending" /\ job'[c].state = "pending" /\ hold'[p] = "held" /\ event'[p].status = "pending"
      /\ \A i \in Jobs : /\ i \notin {p, c} => job'[i] = job[i]
                         /\ i # p => hold'[i] = hold[i] /\ event'[i] = event[i]
  BY <1>1, <1>3, <1>4 DEF Row, EventRow
<1>6. /\ Nobody(p) /\ event[p].status = "absent" /\ p \notin DOMAIN batch
      /\ Nobody(c) /\ event[c].status = "absent" /\ c \notin DOMAIN batch
  BY <1>1, <1>2, AtRest
<1>7. OneMessageAtMost'
  <2>1. \A i \in Jobs : Unsent(i)' => Unsent(i)
    BY <1>3, <1>5, <1>6 DEF Unsent
  <2>2. \A i \in DOMAIN batch' : event'[i].status = "pending" /\ i \notin suspension'.locked
    BY <1>3, <1>5, <1>6 DEF OneMessageAtMost, IInv, Typed
  <2> QED
    BY <1>3, <2>1, <2>2, MessagesSame DEF NoRepair
<1>8. Busy'
  BY <1>3, <1>5, <1>6, BusySame
<1>9. "absent" \notin Active /\ "absent" \notin Terminal /\ "pending" \in Active /\ Active \cap Terminal = {}
  BY DEF Active, JobState, Terminal
<1>10. Families'
  <2>1. \A i \in Jobs : Kind[i] = "child" => Parent[i] # c /\ Parent[i] \in Jobs /\ (Parent[i] = p => i = c)
    BY <1>1, JobAssumption
  <2>2. asset' = asset
    BY <1>3
  <2>3. ASSUME NEW i \in Jobs
        PROVE  /\ Kind[i] = "child" /\ job'[Parent[i]].state \in Active => job'[i].state = "pending"
               /\ Kind[i] = "i2v" /\ job'[i].state # "absent" => Parent[i] \in asset'
    BY <1>1, <1>5, <2>1, <2>2 DEF Families
  <2> QED
    BY <2>3 DEF Families
<1>11. HoldEndsWithWork'
  <2> SUFFICES ASSUME NEW t \in Jobs, Kind[t] # "child", job'[t].state # "absent"
               PROVE  hold'[t] = "held" <=> Underway(t)'
    BY DEF HoldEndsWithWork, Payable
  <2>1. CASE t = p
    BY <1>5, <1>9, <2>1 DEF Underway
  <2>2. CASE t # p
    <3>1. Last(t) \in Jobs /\ Last(t) # p /\ Last(t) # c /\ t # c
      BY <1>1, <2>2, LastOfTop DEF Top
    <3> QED
      BY <1>5, <2>2, <3>1 DEF Underway, HoldEndsWithWork, Payable, Last, ChildOf
  <2> QED
    BY <2>1, <2>2
<1>12. KeptEnds
  BY <1>2, <1>5, <1>9 DEF KeptEnds
<1> QED
  BY <1>7, <1>8, <1>10, <1>11, <1>12 DEF SoleNext

\* Events are picked and published, queues are lost, a suspension reads or gives up.
LEMMA SoleDispatch ==
  ASSUME SoleInv, NoRepair,
         \/ DispatchSelect \/ DispatchCommit \/ BrokerLoss \/ UNCHANGED vars
         \/ SuspendLock \/ SuspendAbort \/ Reactivate
         \/ \E j \in Jobs : DispatchPublish(j) \/ DispatchRefused(j)
  PROVE  SoleNext
<1> USE DEF SoleInv
<1>1. UNCHANGED <<job, asset, hold, worker>>
  BY DEF DispatchSelect, DispatchCommit, BrokerLoss, vars, SuspendLock, SuspendAbort, Reactivate,
     DispatchPublish, DispatchRefused
<1>2. Families' /\ HoldEndsWithWork' /\ Busy' /\ KeptEnds
  BY <1>1, WorkSame, BusySame DEF KeptEnds
<1>3. broker \in [Jobs -> Nat] /\ event \in [Jobs -> EventRow] /\ DOMAIN batch \subseteq Jobs
  BY DEF IInv, Typed
<1>4. CASE DispatchSelect
  <2>1. /\ UNCHANGED <<broker, event, suspension>> /\ DOMAIN batch = {}
        /\ \A j \in DOMAIN batch' : j \in Jobs /\ event[j].status = "pending" /\ j \notin suspension.locked
    BY <1>4 DEF DispatchSelect
  <2>2. \A j \in Jobs : Unsent(j)' => Unsent(j)
    BY <2>1 DEF Unsent
  <2>3. OneMessageAtMost'
    BY <1>1, <2>1, <2>2, MessagesSame DEF NoRepair, OneMessageAtMost
  <2> QED
    BY <1>2, <2>3 DEF SoleNext
<1>5. ASSUME NEW j \in Jobs, DispatchPublish(j) PROVE SoleNext
  <2>1. /\ j \in DOMAIN batch /\ batch[j] = "todo" /\ UNCHANGED <<event, suspension>>
        /\ DOMAIN batch' = DOMAIN batch /\ batch'[j] = "published" /\ broker'[j] = broker[j] + 1
        /\ \A i \in Jobs : i # j => broker'[i] = broker[i] /\ batch'[i] = batch[i]
    BY <1>3, <1>5 DEF DispatchPublish
  <2>2. Unsent(j) /\ ~Unsent(j)' /\ \A i \in Jobs : Unsent(i)' => Unsent(i)
    BY <2>1 DEF Unsent, OneMessageAtMost
  <2>3. OneMessageAtMost'
    BY <1>1, <1>3, <2>1, <2>2 DEF OneMessageAtMost, NoRepair, Nobody
  <2> QED
    BY <1>2, <2>3 DEF SoleNext
<1>6. ASSUME NEW j \in Jobs, DispatchRefused(j) PROVE SoleNext
  <2>1. /\ UNCHANGED <<event, suspension, broker>>
        /\ DOMAIN batch' = DOMAIN batch /\ batch'[j] = "refused" /\ j \in DOMAIN batch /\ batch[j] = "todo"
        /\ \A i \in Jobs : i # j => batch'[i] = batch[i]
    BY <1>6 DEF DispatchRefused
  <2>2. \A i \in Jobs : Unsent(i)' => Unsent(i)
    BY <2>1 DEF Unsent
  <2>3. OneMessageAtMost'
    BY <1>1, <2>1, <2>2, MessagesSame DEF NoRepair, OneMessageAtMost
  <2> QED
    BY <1>2, <2>3 DEF SoleNext
<1>7. CASE DispatchCommit
  <2>1. /\ UNCHANGED <<suspension, broker>> /\ DOMAIN batch' = {}
        /\ \A j \in Jobs : event'[j] = IF j \in DOMAIN batch THEN AfterDispatch(event[j], batch[j]) ELSE event[j]
    BY <1>7 DEF DispatchCommit
  <2>2. \A j \in DOMAIN batch : batch[j] = "published" => AfterDispatch(event[j], batch[j]).status = "published"
    BY DEF AfterDispatch
  <2>3. \A i \in Jobs : Unsent(i)' => Unsent(i)
    BY <2>1, <2>2 DEF Unsent, OneMessageAtMost
  <2>5. OneMessageAtMost'
    BY <1>1, <2>1, <2>3, MessagesSame DEF NoRepair
  <2> QED
    BY <1>2, <2>5 DEF SoleNext
<1>8. CASE BrokerLoss
  <2>1. /\ UNCHANGED <<event, batch, suspension>> /\ \A j \in Jobs : broker'[j] = 0
    BY <1>8 DEF BrokerLoss
  <2>2. OneMessageAtMost'
    BY <1>1, <2>1 DEF OneMessageAtMost, NoRepair, Nobody, Unsent
  <2> QED
    BY <1>2, <2>2 DEF SoleNext
<1>9. CASE SuspendLock \/ SuspendAbort \/ Reactivate \/ UNCHANGED vars
  <2>1. /\ UNCHANGED <<event, batch, broker>>
    BY <1>9 DEF SuspendLock, SuspendAbort, Reactivate, vars
  <2>2. \A j \in DOMAIN batch : j \notin suspension'.locked
    <3>1. CASE SuspendLock
      <4>1. suspension'.locked = PendingJobs /\ DOMAIN batch \cap PendingJobs = {}
        BY <3>1 DEF SuspendLock
      <4> QED
        BY <4>1
    <3>2. CASE SuspendAbort
      <4>1. suspension'.locked = {}
        BY <3>2 DEF SuspendAbort, NoSuspension
      <4> QED
        BY <4>1
    <3>3. CASE Reactivate \/ UNCHANGED vars
      <4>1. suspension' = suspension
        BY <3>3 DEF Reactivate, vars
      <4> QED
        BY <4>1 DEF OneMessageAtMost
    <3> QED
      BY <1>9, <3>1, <3>2, <3>3
  <2>3. OneMessageAtMost'
    BY <1>1, <2>1, <2>2, MessagesSame DEF NoRepair, OneMessageAtMost, Unsent
  <2> QED
    BY <1>2, <2>3 DEF SoleNext
<1> QED
  BY <1>4, <1>5, <1>6, <1>7, <1>8, <1>9

\* A worker takes the one message of a job.
LEMMA SoleTake ==
  ASSUME SoleInv, NoRepair, NEW w \in Workers, NEW j \in Jobs,
         Claim(w, j) \/ Resume(w, j) \/ Discard(w, j)
  PROVE  SoleNext
<1> USE DEF SoleInv
<1>1. /\ broker[j] > 0 /\ worker[w] = Idle /\ broker' = [broker EXCEPT ![j] = @ - 1]
      /\ UNCHANGED <<asset, hold, event, batch, suspension>>
  BY DEF Claim, Resume, Discard, Take
<1>2. /\ broker[j] = 1 /\ Nobody(j) /\ ~Unsent(j) /\ broker'[j] = 0
      /\ \A i \in Jobs : i # j => broker'[i] = broker[i]
  BY <1>1 DEF OneMessageAtMost, IInv, Typed
<1>3. /\ \A v \in Workers : v # w => worker'[v] = worker[v]
      /\ \/ worker'[w] = Idle
         \/ worker'[w].job = j /\ worker'[w].pc = "start"
  <2>1. worker \in [Workers -> WorkerRow]
    BY DEF IInv, Typed
  <2>2. [Idle EXCEPT !.pc = "start", !.job = j].job = j /\ [Idle EXCEPT !.pc = "start", !.job = j].pc = "start"
    BY DEF Idle
  <2>3. \/ worker' = worker
        \/ worker' = [worker EXCEPT ![w] = [Idle EXCEPT !.pc = "start", !.job = j]]
    BY DEF Claim, Resume, Discard
  <2> QED
    BY <1>1, <2>1, <2>2, <2>3
<1>4. /\ \A i \in Jobs : i # j => job'[i] = job[i]
      /\ \/ job'[j] = job[j]
         \/ /\ Claimable(j) /\ job'[j].state = "queued"
  <2>1. job \in [Jobs -> Row]
    BY DEF IInv, Typed
  <2> QED
    BY <2>1 DEF Claim, Resume, Discard, Row
<1>5. None \notin Jobs /\ Idle.job = None /\ Idle.pc = "idle"
  BY JobAssumption DEF Idle
<1>6. OneMessageAtMost'
  <2>1. \A i \in Jobs : Unsent(i)' => Unsent(i)
    BY <1>1 DEF Unsent
  <2>2. \A i \in Jobs : i # j => (Nobody(i) => Nobody(i)')
    BY <1>3, <1>5 DEF Nobody
  <2>3. \A v, u \in Workers : worker'[v].job = worker'[u].job /\ worker'[v].job \in Jobs => v = u
    BY <1>1, <1>2, <1>3, <1>5 DEF OneMessageAtMost, Nobody
  <2>4. \A i \in Jobs : /\ broker'[i] \in {0, 1}
                        /\ broker'[i] = 1 => Nobody(i)'
                        /\ Unsent(i)' => broker'[i] = 0 /\ Nobody(i)'
    BY <1>2, <2>1, <2>2 DEF OneMessageAtMost
  <2> QED
    BY <1>1, <2>3, <2>4 DEF OneMessageAtMost, NoRepair
<1>7. Busy'
  <2>1. \A v \in Workers : worker[v].pc # "idle" => worker[v].job # j /\ worker[v].job \in Jobs
    BY <1>2 DEF IInv, WorkersFit, Nobody
  <2> QED
    BY <1>3, <1>4, <1>5, <2>1 DEF Busy, BusyAt
<1>8. {"pending", "queued"} \subseteq Active /\ Active \cap Terminal = {} /\ "completed" \in Terminal
  BY DEF Active, JobState, Terminal
<1>9. Families' /\ HoldEndsWithWork'
  <2>1. ASSUME job'[j] # job[j], Kind[j] = "child" PROVE job[Parent[j]].state \notin Active
    <3>1. Linked(j)
      BY <1>4, <2>1 DEF Claimable, IInv, ChildrenWait
    <3>2. job[Parent[j]].state = "completed"
      BY <2>1, <3>1, TopType DEF Linked, IInv, RowsFit, IsImage
    <3> QED
      BY <1>8, <3>2
  <2>2. \A i \in Jobs : \/ job'[i].state = job[i].state
                        \/ /\ job[i].state \in Active /\ job'[i].state \in Active
                           /\ Kind[i] = "child" => job[Parent[i]].state \notin Active
    BY <1>4, <1>8, <2>1 DEF Claimable
  <2> QED
    BY <1>1, <2>2, WorkSame
<1>10. KeptEnds
  BY <1>4, <1>8 DEF KeptEnds, Claimable
<1> QED
  BY <1>6, <1>7, <1>9, <1>10 DEF SoleNext

\* The message of a worker that dies comes back.
LEMMA SoleCrash ==
  ASSUME SoleInv, NoRepair, NEW w \in Workers, WorkerCrash(w)
  PROVE  SoleNext
<1> USE DEF SoleInv
<1>1. worker[w] # Idle /\ worker[w].job \in Jobs
  BY DEF WorkerCrash, IInv, WorkersFit
<1> PICK j \in Jobs : worker[w].job = j
  BY <1>1
<1>2. /\ broker' = [broker EXCEPT ![j] = @ + 1] /\ worker' = [worker EXCEPT ![w] = Idle]
      /\ UNCHANGED <<job, asset, hold, event, batch, suspension>> /\ ~Nobody(j)
  BY DEF WorkerCrash, Finish, Nobody
<1>3. None \notin Jobs /\ Idle.job = None /\ Idle.pc = "idle"
  BY JobAssumption DEF Idle
<1>4. worker'[w] = Idle /\ \A v \in Workers : v # w => worker'[v] = worker[v] /\ worker[v].job # j
  BY <1>2 DEF IInv, Typed, OneMessageAtMost
<1>5. /\ broker[j] = 0 /\ ~Unsent(j) /\ broker'[j] = 1
      /\ \A i \in Jobs : i # j => broker'[i] = broker[i]
  BY <1>2 DEF OneMessageAtMost, IInv, Typed
<1>6. OneMessageAtMost'
  <2>1. \A i \in Jobs : Unsent(i)' => Unsent(i)
    BY <1>2 DEF Unsent
  <2>2. Nobody(j)' /\ \A i \in Jobs : Nobody(i) => Nobody(i)'
    BY <1>3, <1>4 DEF Nobody
  <2>3. \A v, u \in Workers : worker'[v].job = worker'[u].job /\ worker'[v].job \in Jobs => v = u
    BY <1>3, <1>4 DEF OneMessageAtMost
  <2>4. \A i \in Jobs : /\ broker'[i] \in {0, 1}
                        /\ broker'[i] = 1 => Nobody(i)'
                        /\ Unsent(i)' => broker'[i] = 0 /\ Nobody(i)'
    BY <1>5, <2>1, <2>2 DEF OneMessageAtMost
  <2> QED
    BY <1>2, <2>3, <2>4 DEF OneMessageAtMost, NoRepair
<1>7. Busy'
  BY <1>2, <1>3, <1>4 DEF Busy, BusyAt
<1>8. Families' /\ HoldEndsWithWork' /\ KeptEnds
  BY <1>2, WorkSame DEF KeptEnds
<1> QED
  BY <1>6, <1>7, <1>8 DEF SoleNext

\* What the states of rows are to each other.
LEMMA Words ==
  /\ Active \cap Terminal = {} /\ "absent" \notin Active \cup Terminal
  /\ {"pending", "queued", "generating", "polling", "downloading"} \subseteq Active
  /\ {"completed", "failed", "cancelled"} = Terminal
BY DEF Active, JobState, Terminal

\* A worker that is at work is the only one, and its child waits only for a parent that is done.
LEMMA SoleWorker ==
  ASSUME SoleInv, NEW w \in Workers, worker[w].pc # "idle"
  PROVE  /\ worker[w].job \in Jobs
         /\ \A v \in Workers : v # w /\ worker[v].pc # "idle" => worker[v].job \in Jobs \ {worker[w].job}
         /\ Kind[worker[w].job] = "child" =>
              /\ Parent[worker[w].job] \in Jobs /\ job[Parent[worker[w].job]].state = "completed"
              /\ Parent[worker[w].job] \in asset
<1>1. worker[w].job \in Jobs
  BY AtWork DEF SoleInv
<1>2. \A v \in Workers : v # w /\ worker[v].pc # "idle" => worker[v].job \in Jobs \ {worker[w].job}
  BY <1>1, AtWork DEF SoleInv, OneMessageAtMost
<1>3. ASSUME Kind[worker[w].job] = "child"
      PROVE  /\ Parent[worker[w].job] \in Jobs /\ job[Parent[worker[w].job]].state = "completed"
             /\ Parent[worker[w].job] \in asset
  <2>1. Linked(worker[w].job)
    BY <1>1, <1>3, WorkedIsLinked DEF SoleInv
  <2> QED
    BY <1>1, <1>3, <2>1, TopType DEF Linked, SoleInv, IInv, RowsFit, IsImage
<1> QED
  BY <1>1, <1>2, <1>3

\* A handler works on its job alone; delivery and failure end the reservation with the work.
LEMMA SoleHandler ==
  ASSUME SoleInv, NoRepair, NEW w \in Workers, Handle(w) \/ ProviderFails(w), ~LinkChild(w), ~FailChildren(w)
  PROVE  SoleNext
<1> USE DEF SoleInv
<1>1. worker[w].pc # "idle" /\ \A v \in Workers : v # w => worker'[v] = worker[v]
  BY HandlerActs
<1>2. worker[w].job \in Jobs
  BY <1>1, SoleWorker
<1> PICK j \in Jobs : worker[w].job = j
  BY <1>2
<1>3. /\ worker'[w].job \in {j, None}
      /\ worker'[w].pc \in BusyAt => worker'[w].job = j /\ job'[j].state \in Active
      /\ job[j].state \in Terminal => job' = job
      /\ \A i \in Jobs : i # j => job'[i] = job[i]
      /\ \/ Deliver(w) \/ MarkFailed(w)
         \/ UNCHANGED <<job, asset, hold>>
         \/ UNCHANGED <<asset, hold>> /\ job[j].state \in Active /\ job'[j].state \in Active
  BY HandlerActs
<1>4. /\ \A v \in Workers : v # w /\ worker[v].pc # "idle" => worker[v].job \in Jobs \ {j}
      /\ Kind[j] = "child" => Parent[j] \in Jobs /\ job[Parent[j]].state = "completed"
  BY <1>1, SoleWorker
<1>5. UNCHANGED <<event, batch, broker, suspension>>
      /\ \A i \in Jobs : job'[i] = job[i] \/ job'[i].state # "absent"
  BY HandlerWrites
<1>6. OneMessageAtMost'
  <2>1. \A i \in Jobs : Unsent(i)' => Unsent(i)
    BY <1>5 DEF Unsent
  <2>2. \A v \in Workers : worker'[v].job = worker[v].job \/ worker'[v].job = None
    BY <1>1, <1>3
  <2>3. \A i \in DOMAIN batch' : event'[i].status = "pending" /\ i \notin suspension'.locked
    BY <1>5 DEF OneMessageAtMost
  <2> QED
    BY <1>5, <2>1, <2>2, <2>3, MessagesSame DEF NoRepair
<1>7. Busy'
  BY <1>1, <1>3, <1>4 DEF Busy, BusyAt
<1>8. KeptEnds
  BY <1>3 DEF KeptEnds
<1>9. Families' /\ HoldEndsWithWork'
  <2>1. CASE UNCHANGED <<job, asset, hold>>
    BY <2>1, WorkSame
  <2>2. CASE UNCHANGED <<asset, hold>> /\ job[j].state \in Active /\ job'[j].state \in Active
    <3>1. \A i \in Jobs : \/ job'[i].state = job[i].state
                          \/ /\ job[i].state \in Active /\ job'[i].state \in Active
                             /\ Kind[i] = "child" => job[Parent[i]].state \notin Active
      BY <1>3, <1>4, <2>2, Words
    <3> QED
      BY <2>2, <3>1, WorkSame
  <2>3. CASE Deliver(w) \/ MarkFailed(w)
    <3>1. job \in [Jobs -> Row] /\ hold \in [Jobs -> Holds]
      BY DEF IInv, Typed
    <3>2. /\ job'[j].state \in {"completed", "failed"} /\ asset \subseteq asset' /\ job[j].state \in Active
          /\ job'[j].state = "failed" \/ Kind[j] # "parent" =>
               /\ hold'[Top(j)] # "held" /\ \A t \in Jobs : t # Top(j) => hold'[t] = hold[t]
          /\ Kind[j] = "parent" /\ job'[j].state = "completed" => hold' = hold
      <4>1. worker[w].pc \in BusyAt
        BY <2>3 DEF Deliver, MarkFailed, At, BusyAt
      <4>2. job[j].state \in Active
        BY <4>1 DEF Busy, BusyAt
      <4>3. Top(j) \in Jobs /\ Outcome(j, TRUE) # "held" /\ Outcome(j, FALSE) # "held"
        BY TopType DEF Outcome
      <4>4. CASE Deliver(w)
        <5>1. /\ job' = [job EXCEPT ![j].state = "completed"] /\ asset' = asset \cup {j}
              /\ Kind[j] = "parent" => hold' = hold
              /\ Kind[j] # "parent" => hold' = [hold EXCEPT ![Top(j)] = Outcome(j, TRUE)]
          BY <4>4 DEF Deliver, Terminalized
        <5>2. job'[j].state = "completed"
          BY <3>1, <5>1 DEF Row
        <5>3. Kind[j] # "parent" => /\ hold'[Top(j)] # "held"
                                    /\ \A t \in Jobs : t # Top(j) => hold'[t] = hold[t]
          BY <3>1, <4>3, <5>1
        <5> QED
          BY <4>2, <5>1, <5>2, <5>3
      <4>5. CASE MarkFailed(w)
        <5>1. /\ job' = [job EXCEPT ![j].state = "failed"] /\ asset' = asset
              /\ hold' = [hold EXCEPT ![Top(j)] = Outcome(j, FALSE)]
          BY <4>5 DEF MarkFailed, Terminalized
        <5> QED
          BY <3>1, <4>2, <4>3, <5>1 DEF Row
      <4> QED
        BY <2>3, <4>4, <4>5
    <3>3. Families'
      <4> SUFFICES ASSUME NEW i \in Jobs
                   PROVE  /\ Kind[i] = "child" /\ job'[Parent[i]].state \in Active => job'[i].state = "pending"
                          /\ Kind[i] = "i2v" /\ job'[i].state # "absent" => Parent[i] \in asset'
        BY DEF Families
      <4>1. Kind[i] = "child" => Parent[i] \in Jobs
        BY JobAssumption
      <4> QED
        BY <1>3, <1>4, <3>2, <4>1, Words DEF Families
    <3>4. HoldEndsWithWork'
      <4> SUFFICES ASSUME NEW t \in Jobs, Kind[t] # "child", job'[t].state # "absent"
                   PROVE  hold'[t] = "held" <=> Underway(t)'
        BY DEF HoldEndsWithWork, Payable
      <4>1. Last(t) \in Jobs /\ job[t].state # "absent" /\ Top(j) \in Jobs
        BY <1>3, <3>2, LastOfTop, TopType, Words
      <4>2. hold[t] = "held" <=> Underway(t)
        BY <4>1 DEF HoldEndsWithWork, Payable
      <4>3. CASE t # Top(j)
        <5>1. t # j /\ Last(t) # j
          BY <4>3, LastOfTop
        <5>2. hold'[t] = hold[t]
          BY <3>2, <4>3
        <5> QED
          BY <1>3, <4>1, <4>2, <5>1, <5>2 DEF Underway, Last, ChildOf
      <4>4. CASE t = Top(j) /\ Kind[j] = "parent"
        <5>1. t = j /\ Last(j) = ChildOf(j) /\ ChildOf(j) \in Jobs /\ Kind[ChildOf(j)] = "child" /\ Parent[ChildOf(j)] = j
          BY <4>4, TopType, ChildType DEF Last
        <5>2. job'[ChildOf(j)].state = "pending"
          BY <1>3, <3>2, <5>1 DEF Families
        <5>3. hold[t] = "held"
          BY <3>2, <4>2, <5>1 DEF Underway
        <5>4. Underway(t)' <=> job'[j].state = "completed"
          BY <3>2, <5>1, <5>2, Words DEF Underway, Last, ChildOf
        <5> QED
          BY <3>2, <4>4, <5>1, <5>3, <5>4
      <4>5. CASE t = Top(j) /\ Kind[j] # "parent"
        <5>1. Last(t) = j
          BY <4>5, LastOfTop
        <5>2. job'[t].state \notin Active
          BY <1>3, <1>4, <3>2, <4>5, TopType, Words DEF Top
        <5>3. ~Underway(t)'
          BY <3>2, <5>1, <5>2, Words DEF Underway, Last, ChildOf
        <5> QED
          BY <3>2, <4>5, <5>3
      <4> QED
        BY <4>3, <4>4, <4>5
    <3> QED
      BY <3>3, <3>4
  <2> QED
    BY <1>3, <2>1, <2>2, <2>3
<1> QED
  BY <1>6, <1>7, <1>8, <1>9 DEF SoleNext

\* The children of an image that failed end with it.
LEMMA SoleFailChildren ==
  ASSUME SoleInv, NoRepair, NEW w \in Workers, FailChildren(w)
  PROVE  SoleNext
<1> USE DEF SoleInv
<1>1. /\ worker[w].pc = "failchildren" /\ worker' = [worker EXCEPT ![w] = Idle]
      /\ UNCHANGED <<asset, hold, event, batch, broker, suspension>>
  BY DEF FailChildren, At, Finish
<1>2. worker[w].job \in Jobs
  BY <1>1, SoleWorker
<1> PICK p \in Jobs : worker[w].job = p
  BY <1>2
<1>3. \A i \in Jobs :
        \/ job'[i] = job[i]
        \/ /\ Kind[i] = "child" /\ Parent[i] = p /\ job[i].blocked /\ job[i].state \in Active
           /\ job'[i].state \in Terminal
  <2> SUFFICES ASSUME NEW i \in Jobs, job'[i] # job[i]
               PROVE  /\ Kind[i] = "child" /\ Parent[i] = p /\ job[i].blocked /\ job[i].state \in Active
                      /\ job'[i].state \in Terminal
    OBVIOUS
  <2>1. /\ Kind[i] = "child" /\ Parent[i] = p /\ job[i].blocked /\ job[i].state \in Active
        /\ job'[i] = Cancelled(job[i]) \/ job'[i] = [job[i] EXCEPT !.state = "failed"]
    BY DEF FailChildren
  <2>2. job[i] \in Row
    BY DEF IInv, Typed
  <2>3. Cancelled(job[i]).state = "cancelled" /\ [job[i] EXCEPT !.state = "failed"].state = "failed"
    BY <2>2 DEF Cancelled, Row
  <2> QED
    BY <2>1, <2>3, Words
<1>4. worker'[w] = Idle /\ \A v \in Workers : v # w => worker'[v] = worker[v]
  BY <1>1 DEF IInv, Typed
<1>5. None \notin Jobs /\ Idle.job = None /\ Idle.pc = "idle"
  BY JobAssumption DEF Idle
<1>6. OneMessageAtMost'
  <2>1. \A i \in Jobs : Unsent(i)' => Unsent(i)
    BY <1>1 DEF Unsent
  <2>2. \A i \in DOMAIN batch' : event'[i].status = "pending" /\ i \notin suspension'.locked
    BY <1>1 DEF OneMessageAtMost
  <2> QED
    BY <1>1, <1>4, <1>5, <2>1, <2>2, MessagesSame DEF NoRepair
<1>7. Busy'
  <2>1. \A v \in Workers : worker[v].pc # "idle" => worker[v].job \in Jobs /\ ~job[worker[v].job].blocked
    BY AtWork DEF IInv, RowsFit
  <2>2. \A v \in Workers : worker[v].pc # "idle" => job'[worker[v].job] = job[worker[v].job]
    BY <1>3, <2>1
  <2> QED
    BY <1>4, <1>5, <2>2 DEF Busy, BusyAt
<1>8. Families'
  <2> SUFFICES ASSUME NEW i \in Jobs
               PROVE  /\ Kind[i] = "child" /\ job'[Parent[i]].state \in Active => job'[i].state = "pending"
                      /\ Kind[i] = "i2v" /\ job'[i].state # "absent" => Parent[i] \in asset'
    BY DEF Families
  <2>1. Kind[i] = "child" => Parent[i] \in Jobs
    BY JobAssumption
  <2>2. \A c \in Jobs : Kind[c] = "child" /\ Parent[c] = p => Kind[p] = "parent"
    BY JobAssumption
  <2>3. Kind[p] = "parent" => job[p].state \notin Active
    <3>1. Fits(worker[w]) /\ job[p].state \in {"queued", "generating"} \cup Started
      BY <1>1, AtWork
    <3>2. Kind[p] = "parent" => job[p].state = "failed"
      BY <1>1, <3>1 DEF Fits, IsImage, Started, IInv, RowsFit
    <3> QED
      BY <3>2, Words
  <2> QED
    BY <1>1, <1>3, <2>1, <2>2, <2>3, Words DEF Families
<1>9. HoldEndsWithWork'
  <2> SUFFICES ASSUME NEW t \in Jobs, Kind[t] # "child", job'[t].state # "absent"
               PROVE  hold'[t] = "held" <=> Underway(t)'
    BY DEF HoldEndsWithWork, Payable
  <2>1. Last(t) \in Jobs /\ job'[t] = job[t]
    BY <1>3, LastOfTop
  <2>2. hold[t] = "held" <=> Underway(t)
    BY <2>1 DEF HoldEndsWithWork, Payable
  <2>3. job'[Last(t)] # job[Last(t)] => t = p /\ job[p].state = "failed"
    <3> SUFFICES ASSUME job'[Last(t)] # job[Last(t)] PROVE t = p /\ job[p].state = "failed"
      OBVIOUS
    <3>1. Kind[Last(t)] = "child" /\ Parent[Last(t)] = p /\ Kind[p] = "parent"
      BY <1>3, <2>1, TopType
    <3>2. t = p
      <4>1. Last(t) = Last(t) <=> t = Top(Last(t))
        BY <2>1, <3>1, LastOfTop
      <4> QED
        BY <3>1, <4>1 DEF Top
    <3>3. Fits(worker[w]) /\ job[p].state \in {"queued", "generating"} \cup Started
      BY <1>1, AtWork
    <3> QED
      BY <1>1, <3>1, <3>2, <3>3 DEF Fits, IsImage, Started, IInv, RowsFit
  <2>4. Underway(t)' <=> Underway(t)
    BY <2>1, <2>3, Words DEF Underway, Last, ChildOf
  <2> QED
    BY <1>1, <2>2, <2>4
<1>10. KeptEnds
  BY <1>3, Words DEF KeptEnds
<1> QED
  BY <1>6, <1>7, <1>8, <1>9, <1>10 DEF SoleNext

\* The child gets its image, or ends with a suspended user.
LEMMA SoleLink ==
  ASSUME SoleInv, NoRepair, NEW w \in Workers, LinkChild(w)
  PROVE  SoleNext
<1> USE DEF SoleInv
<1>1. worker[w].pc = "link" /\ worker[w].job \in Jobs
  BY SoleWorker DEF LinkChild, At
<1> PICK p \in Jobs : worker[w].job = p
  BY <1>1
<1>2. Kind[p] = "parent"
  BY DEF LinkChild
<1> PICK c \in Jobs : c = ChildOf(p)
  BY <1>2, ChildType
<1>3. Kind[c] = "child" /\ Parent[c] = p /\ Top(c) = p /\ c # p /\ Last(p) = c
  BY <1>2, ChildType DEF Top, Last
<1>4. /\ job[c].state = "pending" /\ job[c].blocked /\ worker' = [worker EXCEPT ![w] = Idle]
      /\ UNCHANGED <<asset, batch, broker, suspension>> /\ ~suspension.open
      /\ \/ /\ job' = [job EXCEPT ![c] = [@ EXCEPT !.source = TRUE, !.blocked = FALSE]]
            /\ event' = [event EXCEPT ![c].status = "pending"] /\ hold' = hold
         \/ /\ job' = [job EXCEPT ![c] = Cancelled(@)]
            /\ hold' = [hold EXCEPT ![p] = Outcome(c, FALSE)] /\ event' = event
  BY <1>3 DEF LinkChild, Waiting, Finish, UserLockFree, Terminalized
<1>5. job[p].state = "completed"
  <2>1. Fits(worker[w]) /\ job[p].state \in {"queued", "generating"} \cup Started
    BY <1>1, AtWork
  <2> QED
    BY <1>1, <1>2, <2>1 DEF Fits, IsImage, Started, IInv, RowsFit
<1>6. job \in [Jobs -> Row] /\ event \in [Jobs -> EventRow] /\ hold \in [Jobs -> Holds]
  BY DEF IInv, Typed
<1>7. /\ \A i \in Jobs : /\ i # c => job'[i] = job[i] /\ event'[i] = event[i]
                         /\ i # p => hold'[i] = hold[i]
      /\ \/ job'[c].state = "pending" /\ event'[c].status = "pending" /\ hold'[p] = hold[p]
         \/ job'[c].state = "cancelled" /\ event'[c] = event[c] /\ hold'[p] # "held"
  <2>1. job[c] \in Row /\ event[c] \in EventRow
    BY <1>6
  <2>2. /\ [job[c] EXCEPT !.source = TRUE, !.blocked = FALSE].state = job[c].state
        /\ Cancelled(job[c]).state = "cancelled" /\ [event[c] EXCEPT !.status = "pending"].status = "pending"
    BY <2>1 DEF Row, EventRow, Cancelled
  <2>3. Outcome(c, FALSE) # "held"
    BY DEF Outcome
  <2> QED
    BY <1>4, <1>6, <2>2, <2>3
<1>8. event[c].status = "absent" /\ c \notin DOMAIN batch /\ Nobody(c)
  BY <1>4, AtRest DEF Silent, IInv, BatchExists
<1>9. worker'[w] = Idle /\ \A v \in Workers : v # w => worker'[v] = worker[v]
  BY <1>4 DEF IInv, Typed
<1>10. None \notin Jobs /\ Idle.job = None /\ Idle.pc = "idle"
  BY JobAssumption DEF Idle
<1>11. OneMessageAtMost'
  <2>1. \A i \in Jobs : Unsent(i)' => Unsent(i)
    BY <1>4, <1>7, <1>8 DEF Unsent
  <2>2. \A i \in DOMAIN batch' : event'[i].status = "pending" /\ i \notin suspension'.locked
    BY <1>4, <1>7, <1>8 DEF OneMessageAtMost, IInv, Typed
  <2> QED
    BY <1>4, <1>9, <1>10, <2>1, <2>2, MessagesSame DEF NoRepair
<1>12. Busy'
  <2>1. \A v \in Workers : worker[v].pc # "idle" => worker[v].job \in Jobs /\ worker[v].job # c
    BY <1>8, AtWork DEF Nobody
  <2> QED
    BY <1>7, <1>9, <1>10, <2>1 DEF Busy, BusyAt
<1>13. Families'
  <2> SUFFICES ASSUME NEW i \in Jobs
               PROVE  /\ Kind[i] = "child" /\ job'[Parent[i]].state \in Active => job'[i].state = "pending"
                      /\ Kind[i] = "i2v" /\ job'[i].state # "absent" => Parent[i] \in asset'
    BY DEF Families
  <2>1. Kind[i] = "child" => Parent[i] \in Jobs /\ Parent[i] # c
    BY <1>3, JobAssumption
  <2>2. job'[p] = job[p]
    BY <1>3, <1>7
  <2> QED
    BY <1>3, <1>4, <1>5, <1>7, <2>1, <2>2, Words DEF Families
<1>14. HoldEndsWithWork'
  <2> SUFFICES ASSUME NEW t \in Jobs, Kind[t] # "child", job'[t].state # "absent"
               PROVE  hold'[t] = "held" <=> Underway(t)'
    BY DEF HoldEndsWithWork, Payable
  <2>1. Last(t) \in Jobs /\ job'[t] = job[t]
    BY <1>3, <1>7, LastOfTop
  <2>2. hold[t] = "held" <=> Underway(t)
    BY <2>1 DEF HoldEndsWithWork, Payable
  <2>3. CASE t # p
    <3>1. Last(t) # c
      BY <1>3, <2>3, LastOfTop
    <3> QED
      BY <1>7, <2>1, <2>2, <2>3, <3>1 DEF Underway, Last, ChildOf
  <2>4. CASE t = p
    <3>1. (Underway(t) <=> job[c].state \in Active) /\ (Underway(t)' <=> job'[c].state \in Active)
      BY <1>3, <1>5, <2>1, <2>4, Words DEF Underway, Last, ChildOf
    <3> QED
      BY <1>4, <1>7, <2>2, <2>4, <3>1, Words
  <2> QED
    BY <2>3, <2>4
<1>15. KeptEnds
  BY <1>4, <1>7, Words DEF KeptEnds
<1> QED
  BY <1>11, <1>12, <1>13, <1>14, <1>15 DEF SoleNext

\* A suspension ends each reservation behind what it cancels.
LEMMA SoleSuspend ==
  ASSUME SoleInv, NoRepair, SuspendCommit
  PROVE  SoleNext
<1> USE DEF SoleInv
<1>1. /\ suspension' = NoSuspension /\ UNCHANGED <<asset, batch, broker, worker>>
      /\ \A j \in Jobs : /\ j \in suspension.cancels => job'[j] = Cancelled(job[j])
                         /\ j \notin suspension.cancels => job'[j] = job[j] /\ event'[j] = event[j]
                         /\ event[j].status = "absent" => event'[j] = event[j]
                         /\ j \in suspension.cancels /\ event[j].status # "absent" =>
                              event'[j] = [event[j] EXCEPT !.status = "failed"]
      /\ \A t \in Jobs : hold'[t] = IF \E j \in Payers : Top(j) = t
                                     THEN Outcome(CHOOSE j \in Payers : Top(j) = t, FALSE) ELSE hold[t]
  BY DEF SuspendCommit
<1>2. /\ suspension.cancels \subseteq Jobs
      /\ \A j \in suspension.cancels : job[j].state = "pending" /\ Nobody(j) /\ j \notin DOMAIN batch
  <2>1. /\ suspension.cancels \subseteq Jobs
        /\ \A j \in suspension.cancels : job[j].state = "pending" /\ j \in suspension.locked
    BY DEF IInv, LockedRest, Typed
  <2> QED
    BY <2>1, AtRest DEF OneMessageAtMost
<1>3. \A j \in Jobs : j \in suspension.cancels => job'[j].state = "cancelled"
  <2>1. \A j \in Jobs : job[j] \in Row
    BY DEF IInv, Typed
  <2>2. \A row \in Row : Cancelled(row).state = "cancelled"
    BY DEF Cancelled, Row
  <2> QED
    <3> SUFFICES ASSUME NEW j \in Jobs, j \in suspension.cancels PROVE job'[j].state = "cancelled"
      OBVIOUS
    <3>1. job'[j] = Cancelled(job[j]) /\ job[j] \in Row
      BY <1>1, <2>1
    <3> QED
      BY <2>2, <3>1
<1>4. \A t \in Jobs : \/ (\E j \in Payers : Top(j) = t) /\ hold'[t] # "held"
                      \/ ~(\E j \in Payers : Top(j) = t) /\ hold'[t] = hold[t]
  <2> SUFFICES ASSUME NEW t \in Jobs
               PROVE  \/ (\E j \in Payers : Top(j) = t) /\ hold'[t] # "held"
                      \/ ~(\E j \in Payers : Top(j) = t) /\ hold'[t] = hold[t]
    OBVIOUS
  <2>1. Outcome(CHOOSE j \in Payers : Top(j) = t, FALSE) # "held"
    BY DEF Outcome
  <2>2. hold'[t] = IF \E j \in Payers : Top(j) = t
                     THEN Outcome(CHOOSE j \in Payers : Top(j) = t, FALSE) ELSE hold[t]
    BY <1>1
  <2> QED
    BY <2>1, <2>2
<1>5. OneMessageAtMost'
  <2>1. \A j \in Jobs : [event[j] EXCEPT !.status = "failed"].status = "failed"
    BY DEF IInv, Typed, EventRow
  <2>2. \A i \in Jobs : Unsent(i)' => Unsent(i)
    BY <1>1, <2>1 DEF Unsent
  <2>3. \A i \in DOMAIN batch' : event'[i].status = "pending" /\ i \notin suspension'.locked
    BY <1>1, <1>2 DEF OneMessageAtMost, IInv, Typed, NoSuspension
  <2> QED
    BY <1>1, <2>2, <2>3, MessagesSame DEF NoRepair
<1>6. Busy'
  BY <1>1, <1>2, BusySame
<1>7. \A c \in suspension.cancels :
        Kind[c] = "child" => \/ Parent[c] \in suspension.cancels
                             \/ Parent[c] \notin suspension.cancels /\ job[Parent[c]].state \in Terminal
  BY DEF IInv, LockedRest
<1>8. Families'
  <2> SUFFICES ASSUME NEW i \in Jobs
               PROVE  /\ Kind[i] = "child" /\ job'[Parent[i]].state \in Active => job'[i].state = "pending"
                      /\ Kind[i] = "i2v" /\ job'[i].state # "absent" => Parent[i] \in asset'
    BY DEF Families
  <2>1. Kind[i] = "child" => Parent[i] \in Jobs
    BY JobAssumption
  <2>2. Kind[i] = "i2v" /\ job'[i].state # "absent" => Parent[i] \in asset
    <3>1. job'[i].state # "absent" => job[i].state # "absent"
      BY <1>1, <1>2
    <3> QED
      BY <3>1 DEF Families
  <2>3. ASSUME Kind[i] = "child", job'[Parent[i]].state \in Active PROVE job'[i].state = "pending"
    <3>1. Parent[i] \notin suspension.cancels
      BY <1>3, <2>1, <2>3, Words
    <3>2. job[Parent[i]].state \in Active
      BY <1>1, <2>1, <2>3, <3>1
    <3>3. i \notin suspension.cancels
      BY <1>7, <2>3, <3>1, <3>2, Words
    <3> QED
      BY <1>1, <2>3, <3>2, <3>3 DEF Families
  <2> QED
    BY <1>1, <2>2, <2>3
<1>9. \A t \in Jobs : t \in suspension.cancels /\ Kind[t] # "child" => t \in Payers /\ Top(t) = t
  <2> SUFFICES ASSUME NEW t \in Jobs, t \in suspension.cancels, Kind[t] # "child" PROVE t \in Payers /\ Top(t) = t
    OBVIOUS
  <2>1. CASE Parent[t] = None
    BY <2>1, TopType DEF Payers
  <2>2. CASE Parent[t] # None
    <3>1. Kind[t] = "i2v" /\ Parent[t] \in Jobs /\ IsImage(Parent[t])
      BY <2>2, JobAssumption DEF Kinds, IsImage
    <3>2. Parent[t] \in asset
      BY <1>2, <3>1 DEF Families
    <3>3. job[Parent[t]].state = "completed"
      BY <3>1, <3>2 DEF IInv, RowsFit
    <3> QED
      BY <1>2, <3>3, TopType DEF Payers
  <2> QED
    BY <2>1, <2>2
<1>10. HoldEndsWithWork'
  <2> SUFFICES ASSUME NEW t \in Jobs, Kind[t] # "child", job'[t].state # "absent"
               PROVE  hold'[t] = "held" <=> Underway(t)'
    BY DEF HoldEndsWithWork, Payable
  <2>1. Last(t) \in Jobs /\ job[t].state # "absent"
    BY <1>1, <1>2, LastOfTop
  <2>2. hold[t] = "held" <=> Underway(t)
    BY <2>1 DEF HoldEndsWithWork, Payable
  <2>3. Underway(t)' <=> (job'[t].state \in Active \/ (job'[t].state = "completed" /\ job'[Last(t)].state \in Active))
    BY DEF Underway, Last, ChildOf
  <2>4. CASE t \in suspension.cancels
    BY <1>3, <1>4, <1>9, <2>3, <2>4, Words
  <2>5. CASE t \notin suspension.cancels /\ Last(t) \in suspension.cancels
    <3>1. Kind[t] = "parent" /\ Kind[Last(t)] = "child" /\ Parent[Last(t)] = t
      BY <2>5, ChildType DEF Last
    <3>2. job[t].state \in Terminal /\ job'[t] = job[t] /\ job'[Last(t)].state = "cancelled"
      BY <1>1, <1>3, <1>7, <2>1, <2>5, <3>1
    <3>3. ~Underway(t)'
      BY <2>3, <3>2, Words
    <3>4. hold'[t] # "held"
      <4>1. CASE job[t].state = "completed"
        <5>1. Last(t) \in Payers /\ Top(Last(t)) = t
          BY <2>5, <3>1, <4>1 DEF Payers, Top
        <5> QED
          BY <1>4, <5>1
      <4>2. CASE job[t].state # "completed"
        BY <1>4, <2>2, <3>2, <4>2, Words DEF Underway
      <4> QED
        BY <4>1, <4>2
    <3> QED
      BY <3>3, <3>4
  <2>6. CASE t \notin suspension.cancels /\ Last(t) \notin suspension.cancels
    <3>1. ~\E j \in Payers : Top(j) = t
      <4> SUFFICES ASSUME NEW j \in Payers, Top(j) = t PROVE FALSE
        OBVIOUS
      <4>1. j \in Jobs /\ j \in suspension.cancels /\ j # t
        BY <1>2, <2>6 DEF Payers
      <4>2. Kind[j] = "child"
        BY <4>1, TopType
      <4>3. Last(t) = j
        BY <4>1, <4>2, LastOfTop
      <4> QED
        BY <2>6, <4>1, <4>3
    <3>2. hold'[t] = hold[t] /\ job'[t] = job[t] /\ job'[Last(t)] = job[Last(t)]
      BY <1>1, <1>4, <2>1, <2>6, <3>1
    <3> QED
      BY <2>2, <2>3, <3>2 DEF Underway
  <2> QED
    BY <2>4, <2>5, <2>6
<1>11. KeptEnds
  BY <1>1, <1>2, Words DEF KeptEnds
<1> QED
  BY <1>5, <1>6, <1>8, <1>10, <1>11 DEF SoleNext

\* Every step keeps one message and one worker to a job, and holds as long as work.
LEMMA SoleStep ==
  ASSUME SoleInv, [Next]_vars
  PROVE  SoleInv' /\ KeptEnds
<1> USE DEF SoleInv
<1>1. /\ ~Spend("dispatcherCrash") /\ ~Spend("repair") /\ NoRepair
  <2>1. budget["dispatcherCrash"] = 0 /\ budget["repair"] = 0
    BY DEF OneMessageAtMost
  <2>2. "dispatcherCrash" \in Disturbances /\ "repair" \in Disturbances
    BY DEF Disturbances
  <2>3. budget'["dispatcherCrash"] = 0 /\ ~Spend("dispatcherCrash")
    BY <2>1, <2>2, SpentStaysSpent
  <2>4. budget'["repair"] = 0 /\ ~Spend("repair")
    BY <2>1, <2>2, SpentStaysSpent
  <2> QED
    BY <2>3, <2>4 DEF NoRepair
<1>2. ASSUME Request PROVE SoleNext
  <2>1. ASSUME NEW j \in Jobs, Kind[j] \in {"t2i", "t2v", "i2v"}, Admit(j) PROVE SoleNext
    BY <1>1, <2>1, SoleAdmit
  <2>2. ASSUME NEW p \in Jobs, CreatePipeline(p) PROVE SoleNext
    BY <1>1, <2>2, SolePipeline
  <2> QED
    BY <1>2, <2>1, <2>2 DEF Request, CreateGeneration, RetryGeneration
<1>3. ASSUME Dispatcher \/ UNCHANGED vars PROVE SoleNext
  BY <1>1, <1>3, SoleDispatch DEF Dispatcher
<1>4. ASSUME NEW w \in Workers, WorkerStep(w) PROVE SoleNext
  <2>1. ASSUME NEW j \in Jobs, Claim(w, j) \/ Resume(w, j) \/ Discard(w, j) PROVE SoleNext
    BY <1>1, <2>1, SoleTake
  <2>2. CASE LinkChild(w)
    BY <1>1, <2>2, SoleLink
  <2>3. CASE FailChildren(w)
    BY <1>1, <2>3, SoleFailChildren
  <2>4. CASE (Handle(w) \/ ProviderFails(w)) /\ ~LinkChild(w) /\ ~FailChildren(w)
    BY <1>1, <2>4, SoleHandler
  <2> QED
    BY <1>4, <2>1, <2>2, <2>3, <2>4 DEF WorkerStep
<1>5. ASSUME Master PROVE SoleNext
  <2>1. CASE SuspendCommit
    BY <1>1, <2>1, SoleSuspend
  <2> QED
    BY <1>1, <1>5, <2>1, SoleDispatch DEF Master
<1>6. ASSUME Fault PROVE SoleNext
  <2>1. ASSUME NEW w \in Workers, WorkerCrash(w) PROVE SoleNext
    BY <1>1, <2>1, SoleCrash
  <2>2. ~DispatcherCrash /\ \A j \in Jobs : ~Reenqueue(j)
    BY <1>1 DEF DispatcherCrash, Reenqueue
  <2>3. ASSUME BrokerLoss \/ \E j \in Jobs : DispatchRefused(j) PROVE SoleNext
    BY <1>1, <2>3, SoleDispatch
  <2> QED
    BY <1>6, <2>1, <2>2, <2>3 DEF Fault
<1>7. SoleNext
  BY <1>2, <1>3, <1>4, <1>5, <1>6 DEF Next
<1>8. IInv'
  BY NextIInv
<1>9. Silent'
  BY SilentStep
<1> QED
  BY <1>7, <1>8, <1>9 DEF SoleNext

\* It holds at the start.
LEMMA SoleInit ==
  ASSUME Init, Budget["dispatcherCrash"] = 0, Budget["repair"] = 0
  PROVE  SoleInv
<1>1. IInv
  BY InitIInv
<1>2. Silent /\ OneMessageAtMost /\ Busy /\ Families /\ HoldEndsWithWork
  BY JobAssumption DEF Init, Silent, OneMessageAtMost, Nobody, Unsent, Idle, Busy, BusyAt, Families, HoldEndsWithWork, Payable,
     Active, JobState, Terminal
<1> QED
  BY <1>1, <1>2 DEF SoleInv

\* As long as neither a dispatcher that dies before its commit nor a repair script sends a second
\* message, a reservation is held exactly while its work can still deliver: every handler, the
\* link, the failure path and the suspension end it in the transaction that ends the job.
THEOREM HoldsEndWithWork ==
  ASSUME Budget["dispatcherCrash"] = 0, Budget["repair"] = 0
  PROVE  Spec => []HoldEndsWithWork
<1>1. SoleInv => HoldEndsWithWork
  BY DEF SoleInv
<1> QED
  BY <1>1, SoleInit, SoleStep, PTL DEF Spec

\* Under the same condition a job that ended is never written again, although no handler looks
\* at the row again before it writes.
THEOREM EndsAreFinal ==
  ASSUME Budget["dispatcherCrash"] = 0, Budget["repair"] = 0
  PROVE  Spec => TerminalStatesAreFinal
<1>1. SoleInv /\ [Next]_vars =>
        [\A j \in Jobs : job[j].state \in Terminal => job'[j].state = job[j].state]_vars
  BY SoleStep DEF KeptEnds
<1> QED
  BY <1>1, SoleInit, SoleStep, PTL DEF Spec, TerminalStatesAreFinal

=============================================================================

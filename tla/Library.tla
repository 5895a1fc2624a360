------------------------------ MODULE Library ------------------------------
(***************************************************************************)
(* A user's jobs and their files: deletion from History against new        *)
(* animations, retries, pipelines and the worker.  Connections are         *)
(* database transactions that lock rows as PostgreSQL does - FOR UPDATE,   *)
(* the plain UPDATE, and the KEY SHARE of a foreign key check - and keep   *)
(* them until they end.  A job has one asset at most, and all jobs have    *)
(* one owner.                                                              *)
(***************************************************************************)
EXTENDS Naturals, FiniteSets

CONSTANTS
  Jobs,         \* identifiers of jobs, existing or to come: numbers, given out in order
  Connections,  \* connections of the API to the database
  NoJob         \* an empty reference

ASSUME LibraryAssumption == Jobs \subseteq Nat /\ NoJob \notin Jobs

VARIABLES
  job,      \* per identifier: state, mode and the references to other jobs
  asset,    \* jobs whose asset has a row
  content,  \* jobs whose asset has its file
  request   \* per connection: its transaction

libraryVars == <<job, asset, content, request>>

-----------------------------------------------------------------------------
(* Jobs *)

\* "blocked" is a pending pipeline child whose parent has not been delivered.
States == {"absent", "blocked", "active", "completed", "failed", "deleted"}

Exists(j) == job[j].state \notin {"absent", "deleted"}
\* The identifier of the next job.
NextId(n) == job[n].state = "absent" /\ \A m \in Jobs : m < n => job[m].state # "absent"
Working(row) == row.state \in {"blocked", "active"}

NewJob(state, mode, parent, again, source) ==
  [state |-> state, mode |-> mode, parent |-> parent, again |-> again, source |-> source]

\* Mutant: a retry does not count as a use of the job it repeats.
DependentsButRetries(d) == {j \in Jobs \ {d} : Exists(j) /\ d \in {job[j].parent, job[j].source}}

\* Children, users of the asset, retries. The source of a job is the job of its source asset.
Dependents(d) == {j \in Jobs \ {d} : Exists(j) /\ d \in {job[j].parent, job[j].source, job[j].again}}

-----------------------------------------------------------------------------
(* Rows and locks *)

User == <<"user", NoJob>>
JobRow(j) == <<"job", j>>
AssetRow(j) == <<"asset", j>>

Locks == {"update", "change", "share"} \X ({User} \cup {"job", "asset"} \X Jobs)

\* FOR UPDATE and FOR KEY SHARE exclude each other; an UPDATE leaves a key share alone.
Conflict(l, m) ==
  /\ l[2] = m[2]
  /\ "update" \in {l[1], m[1]} \/ {l[1], m[1]} = {"change"}

Blockers(r, l) == {s \in Connections \ {r} : \E m \in request[s].locks : Conflict(l, m)}

NoRequest == [pc |-> "idle", job |-> NoJob, again |-> NoJob, mode |-> "image", source |-> NoJob,
              parent |-> NoJob, todo |-> {}, locks |-> {}]

\* The transaction ends, and its locks with it.
Finish(r) == request' = [request EXCEPT ![r] = NoRequest]

InStep(r, pc) == request[r].pc = pc

Take(r, l, pc) ==
  /\ Blockers(r, l) = {}
  /\ request' = [request EXCEPT ![r].pc = pc, ![r].locks = @ \cup {l}, ![r].todo = @ \ {l}]

-----------------------------------------------------------------------------
(* Admission: create_generation and retry_generation *)

Admissions == {"source", "insert", "admit"}

Begin(r, asked) ==
  /\ InStep(r, "idle")
  /\ request' = [request EXCEPT ![r] = asked]
  /\ UNCHANGED <<job, asset, content>>

\* Rows the foreign keys of the new job share: parent, retried job, asset and owner.
KeyShares(parent, again, source) ==
  {<<"share", JobRow(j)>> : j \in {parent, again} \ {NoJob}}
    \cup {<<"share", AssetRow(j)>> : j \in {source} \ {NoJob}}
    \cup {<<"share", User>>}

\* The caller animates the image of p.
Animate(r, p) ==
  /\ p \in asset /\ job[p].mode = "image"
  /\ Begin(r, [NoRequest EXCEPT !.pc = "source", !.mode = "clip", !.source = p, !.parent = p,
                                !.todo = KeyShares(p, NoJob, p)])

\* A retry reads the failed job without a lock; a clip needs its source asset still.
Retry(r, c) ==
  /\ job[c].state = "failed" /\ (job[c].mode = "clip" => job[c].source # NoJob)
  /\ Begin(r, [NoRequest EXCEPT !.pc = IF job[c].source = NoJob THEN "insert" ELSE "source",
                                !.mode = job[c].mode, !.again = c,
                                !.source = job[c].source, !.parent = job[c].parent,
                                !.todo = KeyShares(job[c].parent, c, job[c].source)])

Animated(p) == \E j \in Jobs : job[j].source = p /\ Working(job[j])

\* Admission locks the source asset first and refuses a second animation of it.
LockSource(r) ==
  LET p == request[r].source IN
  /\ InStep(r, "source")
  /\ IF p \notin asset THEN Finish(r)
     ELSE /\ Blockers(r, <<"update", AssetRow(p)>>) = {}
          /\ IF Animated(p) THEN Finish(r) ELSE Take(r, <<"update", AssetRow(p)>>, "insert")
  /\ UNCHANGED <<job, asset, content>>

RowExists(row) ==
  CASE row[1] = "user" -> TRUE [] row[1] = "job" -> Exists(row[2]) [] row[1] = "asset" -> row[2] \in asset

\* The savepoint of the reservation flushes the new job: its keys are checked one by one.
Insert(r) ==
  /\ InStep(r, "insert") /\ request[r].todo # {}
  /\ \E l \in request[r].todo : IF RowExists(l[2]) THEN Take(r, l, "insert") ELSE Blockers(r, l) = {} /\ Finish(r)
  /\ UNCHANGED <<job, asset, content>>

\* Only then the reservation locks the owner.
LockOwner(r) ==
  /\ InStep(r, "insert") /\ request[r].todo = {}
  /\ Take(r, <<"update", User>>, "admit")
  /\ UNCHANGED <<job, asset, content>>

Admit(r) ==
  LET q == request[r] IN
  /\ InStep(r, "admit")
  /\ \E n \in Jobs :
       /\ NextId(n)
       /\ job' = [job EXCEPT ![n] = NewJob("active", q.mode, q.parent, q.again, q.source)]
  /\ Finish(r)
  /\ UNCHANGED <<asset, content>>

\* A new image needs no row but its owner's; a pipeline brings its child.
CreateImage(n) ==
  /\ NextId(n) /\ \A r \in Connections : Blockers(r, <<"update", User>>) = {}
  /\ job' = [job EXCEPT ![n] = NewJob("active", "image", NoJob, NoJob, NoJob)]
  /\ UNCHANGED <<asset, content, request>>

CreatePipeline(n, c) ==
  /\ NextId(n) /\ c = n + 1
  /\ \A r \in Connections : Blockers(r, <<"update", User>>) = {}
  /\ job' = [job EXCEPT ![n] = NewJob("active", "image", NoJob, NoJob, NoJob),
                        ![c] = NewJob("blocked", "clip", n, NoJob, NoJob)]
  /\ UNCHANGED <<asset, content, request>>

-----------------------------------------------------------------------------
(* Worker and pipeline link: one transaction each, which nothing here can stop half-way *)

Free(l) == \A r \in Connections : \A m \in request[r].locks : ~Conflict(l, m)

Deliver(j) ==
  /\ job[j].state = "active" /\ Free(<<"update", JobRow(j)>>)
  /\ job' = [job EXCEPT ![j].state = "completed"]
  /\ asset' = asset \cup {j} /\ content' = content \cup {j}
  /\ UNCHANGED request

Fail(j) ==
  /\ job[j].state = "active" /\ Free(<<"update", JobRow(j)>>)
  /\ job' = [c \in Jobs |-> IF c = j \/ (job[c].state = "blocked" /\ job[c].parent = j)
                            THEN [job[c] EXCEPT !.state = "failed"] ELSE job[c]]
  /\ UNCHANGED <<asset, content, request>>

Link(c) ==
  /\ job[c].state = "blocked" /\ job[job[c].parent].state = "completed"
  /\ Free(<<"update", JobRow(c)>>)
  /\ IF job[c].parent \in asset
     THEN /\ Free(<<"share", AssetRow(job[c].parent)>>) /\ ~Animated(job[c].parent)
          /\ job' = [job EXCEPT ![c].state = "active", ![c].source = job[c].parent]
     ELSE job' = [job EXCEPT ![c].state = "failed"]
  /\ UNCHANGED <<asset, content, request>>

-----------------------------------------------------------------------------
(* Deletion from History *)

Deletions == {"assets", "row", "check", "files", "detach"}

Delete(r, d) == Exists(d) /\ Begin(r, [NoRequest EXCEPT !.pc = "assets", !.job = d])

LockAssets(r) ==
  LET d == request[r].job IN
  /\ InStep(r, "assets")
  /\ IF d \in asset THEN Take(r, <<"update", AssetRow(d)>>, "row")
     ELSE request' = [request EXCEPT ![r].pc = "row"]
  /\ UNCHANGED <<job, asset, content>>

\* Mutant: an asset delivered in between is not noticed.
AssetsUnchangedAlways(r) == TRUE

\* The job's assets are those locked before it.
AssetsUnchanged(r) == request[r].job \in asset <=> <<"update", AssetRow(request[r].job)>> \in request[r].locks

LockRow(r) ==
  LET l == <<"update", JobRow(request[r].job)>> IN
  /\ InStep(r, "row")
  /\ Blockers(r, l) = {}
  /\ IF Exists(request[r].job) /\ AssetsUnchanged(r) THEN Take(r, l, "check") ELSE Finish(r)
  /\ UNCHANGED <<job, asset, content>>

\* Only a job that has ended, and none of whose dependents works, can be deleted.
CheckDeletable(r) ==
  LET d == request[r].job IN
  /\ InStep(r, "check")
  /\ IF Working(job[d]) \/ \E j \in Dependents(d) : Working(job[j]) THEN Finish(r)
     ELSE request' = [request EXCEPT ![r].pc = "files",
                        ![r].todo = {<<"change", JobRow(j)>> : j \in Dependents(d)}
                                      \cup {<<"update", AssetRow(j)>> : j \in {d} \cap asset}]
  /\ UNCHANGED <<job, asset, content>>

RemoveFiles(r) ==
  /\ InStep(r, "files")
  /\ content' = content \ {request[r].job}
  /\ request' = [request EXCEPT ![r].pc = "detach"]
  /\ UNCHANGED <<job, asset>>

\* The flush updates each dependent and removes the asset; one that is gone fails the flush.
Detach(r) ==
  /\ InStep(r, "detach") /\ request[r].todo # {}
  /\ \E l \in request[r].todo : IF RowExists(l[2]) THEN Take(r, l, "detach") ELSE Blockers(r, l) = {} /\ Finish(r)
  /\ UNCHANGED <<job, asset, content>>

CommitDelete(r) ==
  LET d == request[r].job
      Kept(j) == IF j = d THEN NoJob ELSE j
  IN
  /\ InStep(r, "detach") /\ request[r].todo = {}
  /\ job' = [j \in Jobs |->
       IF j = d THEN NewJob("deleted", job[d].mode, NoJob, NoJob, NoJob)
       ELSE [job[j] EXCEPT !.parent = Kept(@), !.again = Kept(@), !.source = Kept(@)]]
  /\ asset' = asset \ {d}
  /\ Finish(r)
  /\ UNCHANGED content

\* A timeout, a deadlock or a lost connection: the rows are as before, the files are not.
RollBack(r) ==
  /\ ~InStep(r, "idle") /\ Finish(r)
  /\ UNCHANGED <<job, asset, content>>

-----------------------------------------------------------------------------

LibraryInit ==
  /\ job = [j \in Jobs |-> NewJob("absent", "image", NoJob, NoJob, NoJob)]
  /\ asset = {} /\ content = {}
  /\ request = [r \in Connections |-> NoRequest]

RequestStep(r) ==
  \/ \E j \in Jobs : Animate(r, j) \/ Retry(r, j) \/ Delete(r, j)
  \/ LockSource(r) \/ Insert(r) \/ LockOwner(r) \/ Admit(r)
  \/ LockAssets(r) \/ LockRow(r) \/ CheckDeletable(r) \/ RemoveFiles(r) \/ Detach(r)
  \/ CommitDelete(r) \/ RollBack(r)

LibraryNext ==
  \/ \E r \in Connections : RequestStep(r)
  \/ \E j \in Jobs : CreateImage(j) \/ Deliver(j) \/ Fail(j) \/ Link(j)
  \/ \E j, c \in Jobs : CreatePipeline(j, c)

LibrarySpec == LibraryInit /\ [][LibraryNext]_libraryVars

-----------------------------------------------------------------------------
(* Properties *)

\* Jobs, their assets and the transactions stay within their types.
LibraryTypeOK ==
  /\ job \in [Jobs -> [state : States, mode : {"image", "clip"}, parent : Jobs \cup {NoJob},
                       again : Jobs \cup {NoJob}, source : Jobs \cup {NoJob}]]
  /\ asset \subseteq Jobs /\ content \subseteq Jobs
  /\ \A r \in Connections :
       /\ request[r].pc \in Admissions \cup Deletions \cup {"idle"}
       /\ request[r].locks \subseteq Locks /\ request[r].todo \subseteq Locks

\* No deletion takes anything from a job that still works: neither its parent, nor the job
\* it repeats, nor the row or the file of the asset it animates.
WorkKeepsItsReferences ==
  [][\A j \in Jobs : Working(job[j]) =>
       /\ job'[j].parent = job[j].parent /\ job'[j].again = job[j].again
       /\ job[j].source # NoJob => job'[j].source = job[j].source /\ job[j].source \in asset'
       /\ job[j].source \in content => job[j].source \in content']_libraryVars

\* What the transaction could wait for next.
WaitsFor(r) ==
  CASE InStep(r, "source") -> Blockers(r, <<"update", AssetRow(request[r].source)>>)
    [] InStep(r, "assets") -> Blockers(r, <<"update", AssetRow(request[r].job)>>)
    [] InStep(r, "row") -> Blockers(r, <<"update", JobRow(request[r].job)>>)
    [] InStep(r, "insert") /\ request[r].todo = {} -> Blockers(r, <<"update", User>>)
    [] InStep(r, "insert") \/ InStep(r, "detach") -> UNION {Blockers(r, l) : l \in request[r].todo}
    [] OTHER -> {}

\* r waits for s, or for one that waits for s, and so on: s is in every set of those r waits
\* for that has with each member those the member waits for.
Awaits(r, s) ==
  \A T \in SUBSET Connections :
    WaitsFor(r) \subseteq T /\ (\A t \in T : WaitsFor(t) \subseteq T) => s \in T

\* An admission and a deletion are never part of one circle of transactions that wait for
\* each other: both lock the asset before the job it belongs to.
DeletionInLockOrder ==
  \A a, d \in Connections :
    request[a].pc \in Admissions /\ request[d].pc \in Deletions => ~(Awaits(a, d) /\ Awaits(d, a))

=============================================================================

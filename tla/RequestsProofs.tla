--------------------------- MODULE RequestsProofs ----------------------------
(***************************************************************************)
(* Proofs about what users ask for at the same time, besides enhancements, *)
(* which have a module of their own: deletion from History against new     *)
(* work, for any number of jobs and connections, and the manual runner,    *)
(* for any jobs, any processes and any number of slots.                    *)
(***************************************************************************)
EXTENDS MCRequests, FiniteSetTheorems, TLAPS

-----------------------------------------------------------------------------
(* The library: jobs, their files, and transactions that lock their rows *)

\* Rows of generation_jobs, as NewJob and the updates write them.
JobRows ==
  [state : States, mode : {"image", "clip"}, parent : Jobs \cup {NoJob},
   again : Jobs \cup {NoJob}, source : Jobs \cup {NoJob}]

\* What a connection has in hand: the request, the locks it has and those its flush still asks for.
Transactions ==
  [pc : Admissions \cup Deletions \cup {"idle"}, job : Jobs \cup {NoJob}, again : Jobs \cup {NoJob},
   mode : {"image", "clip"}, source : Jobs \cup {NoJob}, parent : Jobs \cup {NoJob},
   todo : SUBSET Locks, locks : SUBSET Locks]

\* Jobs, files and connections within their types.
LibraryTyped ==
  /\ job \in [Jobs -> JobRows] /\ asset \subseteq Jobs /\ content \subseteq Jobs
  /\ request \in [Connections -> Transactions]

\* Identifiers are given out in order: beyond the first free one all are free.
InOrder == \A j, k \in Jobs : j < k /\ job[j].state = "absent" => job[k].state = "absent"

\* A child gets its source when it is linked, and a job that works has its source.
SourcesExist ==
  \A j \in Jobs :
    /\ job[j].state = "blocked" => job[j].source = NoJob
    /\ Working(job[j]) /\ job[j].source # NoJob => job[j].source \in asset

\* No two transactions have locks that exclude each other.
Exclusive ==
  \A r, s \in Connections : r # s =>
    \A l \in request[r].locks, m \in request[s].locks : ~Conflict(l, m)

\* An admission shares the rows it refers to, all of them when it admits; before that it has
\* its source asset for itself, and the asset is there.
AdmissionLocks(q) ==
  /\ q.pc = "source" =>
       q.source # NoJob /\ q.locks = {} /\ q.todo = KeyShares(q.parent, q.again, q.source)
  /\ q.pc \in Admissions => q.todo \subseteq KeyShares(q.parent, q.again, q.source)
  /\ q.pc \in {"insert", "admit"} =>
       /\ KeyShares(q.parent, q.again, q.source) \subseteq q.locks \cup q.todo
       /\ q.source # NoJob => q.source \in asset /\ <<"update", AssetRow(q.source)>> \in q.locks
       /\ \A l \in q.locks :
            \/ l[1] = "share" \/ l = <<"update", AssetRow(q.source)>>
            \/ q.pc = "admit" /\ l = <<"update", User>>
  /\ q.pc = "admit" => q.todo = {}

\* A deletion locks the assets of the job, then the job, then what depends on it.
DeletionLocks(q) ==
  /\ q.pc \in Deletions => q.job \in Jobs
  /\ q.pc = "assets" => q.locks = {}
  /\ q.pc = "row" => q.locks \subseteq {<<"update", AssetRow(q.job)>>}
  /\ q.pc \in {"check", "files", "detach"} =>
       /\ <<"update", JobRow(q.job)>> \in q.locks
       /\ q.job \in asset <=> <<"update", AssetRow(q.job)>> \in q.locks
       /\ \A l \in q.locks :
            \/ l \in {<<"update", JobRow(q.job)>>, <<"update", AssetRow(q.job)>>}
            \/ \E j \in Jobs : l = <<"change", JobRow(j)>>
  /\ q.pc \in {"files", "detach"} =>
       \A l \in q.todo : (\E j \in Jobs : l = <<"change", JobRow(j)>>)
                           \/ (l = <<"update", AssetRow(q.job)>> /\ l \in q.locks)

\* A job that is about to be deleted exists and has ended, and no job that works refers to it.
Deletable(q) ==
  /\ q.pc \in {"check", "files", "detach"} => Exists(q.job)
  /\ q.pc \in {"files", "detach"} =>
       /\ ~Working(job[q.job])
       /\ \A j \in Jobs : Working(job[j]) => q.job \notin {job[j].parent, job[j].again, job[j].source}

\* What holds of each transaction between two of its statements.
Sound(q) ==
  (q.pc = "idle" => q.locks = {}) /\ AdmissionLocks(q) /\ DeletionLocks(q) /\ Deletable(q)

\* The inductive invariant.
LibraryInv ==
  /\ LibraryTyped /\ InOrder /\ SourcesExist /\ Exclusive
  /\ \A r \in Connections : Sound(request[r])

\* Nothing exists and nobody asks for anything at the start.
LEMMA LibraryBegins == LibraryInit => LibraryInv
<1> SUFFICES ASSUME LibraryInit PROVE LibraryInv
  OBVIOUS
<1>1. NoRequest \in Transactions
  BY DEF NoRequest, Transactions
<1>2. /\ request \in [Connections -> Transactions]
      /\ \A r \in Connections : request[r] = NoRequest
  BY <1>1 DEF LibraryInit
<1>3. /\ job \in [Jobs -> JobRows]
      /\ \A j \in Jobs : job[j].state = "absent"
  BY DEF LibraryInit, NewJob, JobRows, States
<1>4. Sound(NoRequest)
  BY DEF Sound, NoRequest, AdmissionLocks, DeletionLocks, Deletable, Admissions, Deletions
<1>5. Exclusive
  BY <1>2 DEF Exclusive, NoRequest
<1> QED
  BY <1>2, <1>3, <1>4, <1>5 DEF LibraryInit, LibraryInv, LibraryTyped, InOrder, SourcesExist, Working

\* The locks the statements ask for are locks.
LEMMA LockKinds ==
  /\ \A k \in {"update", "change", "share"}, j \in Jobs :
       <<k, JobRow(j)>> \in Locks /\ <<k, AssetRow(j)>> \in Locks
  /\ \A k \in {"update", "change", "share"} : <<k, User>> \in Locks
  BY DEF Locks, JobRow, AssetRow, User

\* A lock names its row: rows of jobs, of assets and of users differ.
LEMMA RowsDiffer ==
  /\ \A j, k : (JobRow(j) = JobRow(k) => j = k) /\ (AssetRow(j) = AssetRow(k) => j = k)
  /\ \A j, k : JobRow(j) # AssetRow(k) /\ JobRow(j) # User /\ AssetRow(k) # User
  BY DEF JobRow, AssetRow, User

\* The locks of a transaction that refers to a row exclude a deletion of the job.
LEMMA Excluded ==
  ASSUME Exclusive, NEW r \in Connections, NEW s \in Connections, r # s,
         NEW x, NEW k, <<"update", x>> \in request[r].locks
  PROVE  <<k, x>> \notin request[s].locks
<1> SUFFICES ASSUME <<k, x>> \in request[s].locks PROVE FALSE
  OBVIOUS
<1>1. ~Conflict(<<"update", x>>, <<k, x>>)
  BY DEF Exclusive
<1> QED
  BY <1>1 DEF Conflict

\* A statement of one connection that writes no row preserves the invariant when its own
\* transaction stays sound and its locks exclude nobody else's.
LEMMA RequestMoves ==
  ASSUME LibraryInv, NEW r \in Connections, NEW q \in Transactions,
         request' = [request EXCEPT ![r] = q], job' = job, asset' = asset, content' \subseteq Jobs,
         \A s \in Connections \ {r} : \A l \in q.locks, m \in request[s].locks : ~Conflict(l, m),
         Sound(q)
  PROVE  LibraryInv'
<1>1. /\ request' \in [Connections -> Transactions] /\ request'[r] = q
      /\ \A s \in Connections \ {r} : request'[s] = request[s]
  BY DEF LibraryInv, LibraryTyped
<1>2. LibraryTyped' /\ InOrder' /\ SourcesExist'
  BY <1>1 DEF LibraryInv, LibraryTyped, InOrder, SourcesExist, Working
<1>3. Exclusive'
  <2> SUFFICES ASSUME NEW a \in Connections, NEW b \in Connections, a # b,
                      NEW l \in request'[a].locks, NEW m \in request'[b].locks
               PROVE  ~Conflict(l, m)
    BY DEF Exclusive, Conflict
  <2>1. CASE a = r
    BY <1>1, <2>1
  <2>2. CASE b = r
    <3>1. ~Conflict(m, l)
      BY <1>1, <2>2
    <3> QED
      BY <3>1 DEF Conflict
  <2>3. CASE a # r /\ b # r
    BY <1>1, <2>3 DEF LibraryInv, Exclusive
  <2> QED
    BY <2>1, <2>2, <2>3
<1>4. ASSUME NEW s \in Connections PROVE Sound(request[s])'
  <2>1. ASSUME NEW p, Sound(p), request'[s] = p PROVE Sound(request[s])'
    BY <2>1 DEF Sound, AdmissionLocks, DeletionLocks, Deletable, Exists, Working, AssetRow, JobRow, KeyShares
  <2> QED
    BY <1>1, <2>1 DEF LibraryInv
<1> QED
  BY <1>2, <1>3, <1>4 DEF LibraryInv

\* The end of a transaction - commit, rollback or refusal - gives up locks and nothing more.
LEMMA FinishKeeps ==
  ASSUME LibraryInv, NEW r \in Connections, Finish(r), job' = job, asset' = asset, content' \subseteq Jobs
  PROVE  LibraryInv'
<1>1. NoRequest \in Transactions /\ NoRequest.locks = {}
  BY DEF NoRequest, Transactions
<1>2. Sound(NoRequest)
  BY DEF Sound, NoRequest, AdmissionLocks, DeletionLocks, Deletable, Admissions, Deletions
<1>3. \A s \in Connections \ {r} : \A l \in NoRequest.locks, m \in request[s].locks : ~Conflict(l, m)
  BY <1>1
<1>4. request' = [request EXCEPT ![r] = NoRequest]
  BY DEF Finish
<1> HIDE DEF Finish
<1> QED
  BY <1>1, <1>2, <1>3, <1>4, RequestMoves

\* The transaction after it has taken a lock.
Taken(q, l, pc) == [q EXCEPT !.pc = pc, !.locks = q.locks \cup {l}, !.todo = q.todo \ {l}]

\* What taking a lock changes of a transaction, and what it leaves.
LEMMA TakenIs ==
  ASSUME NEW q \in Transactions, NEW l \in Locks, NEW pc \in Admissions \cup Deletions
  PROVE  /\ Taken(q, l, pc) \in Transactions
         /\ Taken(q, l, pc).pc = pc
         /\ Taken(q, l, pc).locks = q.locks \cup {l}
         /\ Taken(q, l, pc).todo = q.todo \ {l}
         /\ Taken(q, l, pc).job = q.job /\ Taken(q, l, pc).source = q.source
         /\ Taken(q, l, pc).parent = q.parent /\ Taken(q, l, pc).again = q.again
  BY DEF Taken, Transactions

\* A lock that nobody blocks excludes no lock that somebody has.
LEMMA TakeKeeps ==
  ASSUME LibraryInv, NEW r \in Connections, NEW l \in Locks, NEW pc \in Admissions \cup Deletions,
         Take(r, l, pc), Sound(Taken(request[r], l, pc)), job' = job, asset' = asset, content' = content
  PROVE  LibraryInv'
<1>1. request[r] \in Transactions /\ request \in [Connections -> Transactions] /\ content' \subseteq Jobs
  BY DEF LibraryInv, LibraryTyped
<1>2. request' = [request EXCEPT ![r] = Taken(request[r], l, pc)]
  BY <1>1 DEF Take, Taken
<1>3. /\ Taken(request[r], l, pc) \in Transactions
      /\ Taken(request[r], l, pc).locks = request[r].locks \cup {l}
  BY <1>1, TakenIs
<1>4. ASSUME NEW s \in Connections \ {r}, NEW k \in request[r].locks \cup {l}, NEW m \in request[s].locks
      PROVE  ~Conflict(k, m)
  <2>1. CASE k = l
    BY <2>1 DEF Take, Blockers
  <2>2. CASE k \in request[r].locks
    BY <2>2 DEF LibraryInv, Exclusive
  <2> QED
    BY <2>1, <2>2
<1>5. \A s \in Connections \ {r} : \A k \in Taken(request[r], l, pc).locks, m \in request[s].locks : ~Conflict(k, m)
  BY <1>3, <1>4
<1> QED
  BY <1>1, <1>2, <1>3, <1>5, RequestMoves

\* A connection that was just returned to the pool has neither work nor locks.
LEMMA NothingAsked ==
  /\ NoRequest \in Transactions
  /\ NoRequest.pc = "idle" /\ NoRequest.mode = "image" /\ NoRequest.locks = {} /\ NoRequest.todo = {}
  /\ NoRequest.job = NoJob /\ NoRequest.again = NoJob /\ NoRequest.source = NoJob /\ NoRequest.parent = NoJob
  BY DEF NoRequest, Transactions

\* Foreign keys ask for shares only.
LEMMA KeySharesAre ==
  ASSUME NEW parent \in Jobs \cup {NoJob}, NEW repeated \in Jobs \cup {NoJob},
             NEW source \in Jobs \cup {NoJob}
  PROVE  \A l \in KeyShares(parent, repeated, source) : l \in Locks /\ l[1] = "share"
<1> SUFFICES ASSUME NEW l \in KeyShares(parent, repeated, source) PROVE l \in Locks /\ l[1] = "share"
  OBVIOUS
<1>1. \/ \E j \in Jobs : l = <<"share", JobRow(j)>> \/ l = <<"share", AssetRow(j)>>
      \/ l = <<"share", User>>
  BY DEF KeyShares
<1>2. ASSUME NEW x, <<"share", x>> \in Locks, l = <<"share", x>> PROVE l \in Locks /\ l[1] = "share"
  BY <1>2
<1> QED
  BY <1>1, <1>2, LockKinds

\* create_generation and retry_generation begin: nothing is locked yet.
LEMMA AdmissionBegins ==
  ASSUME LibraryInv, NEW r \in Connections, NEW j \in Jobs, Animate(r, j) \/ Retry(r, j)
  PROVE  LibraryInv'
<1> DEFINE Asked(pc, mode, repeated, source, parent) ==
      [NoRequest EXCEPT !.pc = pc, !.mode = mode, !.again = repeated, !.source = source, !.parent = parent,
                        !.todo = KeyShares(parent, repeated, source)]
<1>1. ASSUME NEW parent \in Jobs \cup {NoJob}, NEW repeated \in Jobs \cup {NoJob},
             NEW source \in Jobs \cup {NoJob}
      PROVE  /\ KeyShares(parent, repeated, source) \subseteq Locks
             /\ \A l \in KeyShares(parent, repeated, source) : l[1] = "share"
  BY <1>1, KeySharesAre
<1>2. ASSUME NEW pc \in {"source", "insert"}, NEW mode \in {"image", "clip"}, NEW parent \in Jobs \cup {NoJob},
             NEW repeated \in Jobs \cup {NoJob}, NEW source \in Jobs \cup {NoJob},
             pc = "source" <=> source # NoJob,
             request' = [request EXCEPT ![r] = Asked(pc, mode, repeated, source, parent)],
             job' = job, asset' = asset, content' = content
      PROVE  LibraryInv'
  <2> DEFINE q == Asked(pc, mode, repeated, source, parent)
  <2>1. /\ q.pc = pc /\ q.again = repeated /\ q.source = source /\ q.parent = parent
        /\ q.todo = KeyShares(parent, repeated, source) /\ q.locks = {} /\ q.job = NoJob
    BY NothingAsked DEF Transactions
  <2>2. q \in Transactions
    BY <1>1, NothingAsked DEF Transactions, Admissions
  <2>3. Sound(q)
    BY <2>1, LibraryAssumption, <1>2 DEF Sound, AdmissionLocks, DeletionLocks, Deletable, Admissions, Deletions
  <2>4. content' \subseteq Jobs
    BY <1>2 DEF LibraryInv, LibraryTyped
  <2>5. \A s \in Connections \ {r} : \A l \in q.locks, m \in request[s].locks : ~Conflict(l, m)
    BY <2>1
  <2>6. request' = [request EXCEPT ![r] = q]
    BY <1>2
  <2> HIDE DEF q
  <2> QED
    BY <1>2, <2>2, <2>3, <2>4, <2>5, <2>6, RequestMoves
<1>3. ASSUME Animate(r, j) PROVE LibraryInv'
  <2>1. request' = [request EXCEPT ![r] = Asked("source", "clip", NoJob, j, j)]
        /\ job' = job /\ asset' = asset /\ content' = content
    <3>1. [NoRequest EXCEPT !.pc = "source", !.mode = "clip", !.source = j, !.parent = j,
                            !.todo = KeyShares(j, NoJob, j)]
            = Asked("source", "clip", NoJob, j, j)
      BY NothingAsked DEF Transactions
    <3> HIDE DEF Asked
    <3> QED
      BY <1>3, <3>1 DEF Animate, Begin
  <2>2. j \in Jobs \cup {NoJob} /\ NoJob \in Jobs \cup {NoJob} /\ j # NoJob
    BY LibraryAssumption
  <2> HIDE DEF Asked
  <2> QED
    BY <1>2, <2>1, <2>2
<1>4. ASSUME Retry(r, j) PROVE LibraryInv'
  <2> DEFINE pc == IF job[j].source = NoJob THEN "insert" ELSE "source"
  <2>1. request' = [request EXCEPT ![r] = Asked(pc, job[j].mode, j, job[j].source, job[j].parent)]
        /\ job' = job /\ asset' = asset /\ content' = content
    BY <1>4 DEF Retry, Begin
  <2>2. /\ job[j].mode \in {"image", "clip"} /\ job[j].source \in Jobs \cup {NoJob}
        /\ job[j].parent \in Jobs \cup {NoJob} /\ j \in Jobs \cup {NoJob}
    BY DEF LibraryInv, LibraryTyped, JobRows
  <2>3. pc \in {"source", "insert"} /\ (pc = "source" <=> job[j].source # NoJob)
    OBVIOUS
  <2> HIDE DEF Asked, pc
  <2> QED
    BY <1>2, <2>1, <2>2, <2>3
<1> QED
  BY <1>3, <1>4

\* delete_generation begins: nothing is locked yet.
LEMMA DeletionBegins ==
  ASSUME LibraryInv, NEW r \in Connections, NEW d \in Jobs, Delete(r, d)
  PROVE  LibraryInv'
<1> DEFINE q == [NoRequest EXCEPT !.pc = "assets", !.job = d]
<1>1. q.pc = "assets" /\ q.job = d /\ q.locks = {} /\ q.todo = {}
  BY NothingAsked DEF Transactions
<1>2. q \in Transactions
  BY NothingAsked DEF Transactions, Deletions
<1>3. Sound(q)
  BY <1>1 DEF Sound, AdmissionLocks, DeletionLocks, Deletable, Admissions, Deletions
<1>4. request' = [request EXCEPT ![r] = q] /\ job' = job /\ asset' = asset /\ content' \subseteq Jobs
  BY DEF Delete, Begin, LibraryInv, LibraryTyped
<1>5. \A s \in Connections \ {r} : \A l \in q.locks, m \in request[s].locks : ~Conflict(l, m)
  BY <1>1
<1> HIDE DEF q
<1> QED
  BY <1>2, <1>3, <1>4, <1>5, RequestMoves

\* The locks of an admission: its source asset, the rows its foreign keys name, its owner.
LEMMA AdmissionLocksRows ==
  ASSUME LibraryInv, NEW r \in Connections, LockSource(r) \/ Insert(r) \/ LockOwner(r)
  PROVE  LibraryInv'
<1> DEFINE q == request[r]
<1>1. /\ q \in Transactions /\ Sound(q) /\ content \subseteq Jobs
      /\ q.source \in Jobs \cup {NoJob} /\ q.todo \subseteq Locks /\ q.locks \subseteq Locks
  BY DEF LibraryInv, LibraryTyped, Transactions
<1>2. \A l \in KeyShares(q.parent, q.again, q.source) : l[1] = "share"
  BY DEF KeyShares
<1>3. \A l \in KeyShares(q.parent, q.again, q.source) : l # <<"update", AssetRow(q.source)>> /\ l # <<"update", User>>
  BY <1>2
<1>4. job' = job /\ asset' = asset /\ content' = content /\ content' \subseteq Jobs
  BY <1>1 DEF LockSource, Insert, LockOwner
<1>5. "insert" \in Admissions \cup Deletions /\ "admit" \in Admissions \cup Deletions
  BY DEF Admissions
<1>6. ASSUME LockSource(r) PROVE LibraryInv'
  <2> DEFINE l == <<"update", AssetRow(q.source)>>
             t == Taken(q, l, "insert")
  <2>1. q.pc = "source" /\ (Finish(r) \/ (q.source \in asset /\ Take(r, l, "insert")))
    BY <1>6 DEF LockSource, InStep
  <2>2. CASE Finish(r)
    BY <1>4, <2>2, FinishKeeps
  <2>3. CASE q.source \in asset /\ Take(r, l, "insert")
    <3>1. q.source # NoJob /\ q.locks = {} /\ q.todo = KeyShares(q.parent, q.again, q.source)
      BY <1>1, <2>1 DEF Sound, AdmissionLocks
    <3>2. l \in Locks
      BY <1>1, <3>1, LockKinds
    <3>0. KeyShares(q.parent, q.again, q.source) \ {l} = KeyShares(q.parent, q.again, q.source)
      BY <1>3
    <3>3. /\ t.pc = "insert" /\ t.locks = {l} /\ t.todo = KeyShares(q.parent, q.again, q.source)
          /\ t.source = q.source /\ t.parent = q.parent /\ t.again = q.again
      <4>1. /\ t.pc = "insert" /\ t.locks = q.locks \cup {l} /\ t.todo = q.todo \ {l}
            /\ t.source = q.source /\ t.parent = q.parent /\ t.again = q.again
        <5> HIDE DEF l, q
        <5> QED
          BY <1>1, <1>5, <3>2, TakenIs
      <4> HIDE DEF t, l
      <4> QED
        BY <3>0, <3>1, <4>1
    <3> HIDE DEF t
    <3>4. Sound(t)
      BY <2>3, <3>3 DEF Sound, AdmissionLocks, DeletionLocks, Deletable, Admissions, Deletions
    <3> USE DEF t
    <3> HIDE DEF l
    <3> QED
      BY <1>4, <1>5, <2>3, <3>2, <3>4, TakeKeeps
  <2> QED
    BY <2>1, <2>2, <2>3
<1>7. ASSUME Insert(r) PROVE LibraryInv'
  <2>1. PICK l \in q.todo : q.pc = "insert" /\ (Finish(r) \/ Take(r, l, "insert"))
    BY <1>7 DEF Insert, InStep
  <2> DEFINE t == Taken(q, l, "insert")
  <2>2. CASE Finish(r)
    BY <1>4, <2>2, FinishKeeps
  <2>3. CASE Take(r, l, "insert")
    <3>1. l \in Locks /\ l \in KeyShares(q.parent, q.again, q.source) /\ l[1] = "share"
      BY <1>1, <1>2, <2>1 DEF Sound, AdmissionLocks, Admissions
    <3>2. /\ t.pc = "insert" /\ t.locks = q.locks \cup {l} /\ t.todo = q.todo \ {l}
          /\ t.source = q.source /\ t.parent = q.parent /\ t.again = q.again
      BY <1>1, <1>5, <3>1, TakenIs
    <3> HIDE DEF t
    <3>3. AdmissionLocks(t)
      BY <1>1, <2>1, <3>1, <3>2 DEF Sound, AdmissionLocks, Admissions
    <3>4. Sound(t)
      BY <3>2, <3>3 DEF Sound, DeletionLocks, Deletable, Deletions
    <3> USE DEF t
    <3> HIDE DEF q
    <3> QED
      BY <1>4, <1>5, <2>3, <3>1, <3>4, TakeKeeps DEF q
  <2> QED
    BY <2>1, <2>2, <2>3
<1>8. ASSUME LockOwner(r) PROVE LibraryInv'
  <2> DEFINE l == <<"update", User>>
             t == Taken(q, l, "admit")
  <2>1. q.pc = "insert" /\ q.todo = {} /\ Take(r, l, "admit")
    BY <1>8 DEF LockOwner, InStep
  <2>2. l \in Locks
    BY LockKinds
  <2>3. /\ t.pc = "admit" /\ t.locks = q.locks \cup {l} /\ t.todo = {}
        /\ t.source = q.source /\ t.parent = q.parent /\ t.again = q.again
    BY <1>1, <1>5, <2>1, <2>2, TakenIs
  <2> HIDE DEF t
  <2>4. AdmissionLocks(t)
    BY <1>1, <2>1, <2>3 DEF Sound, AdmissionLocks, Admissions
  <2>5. Sound(t)
    BY <2>3, <2>4 DEF Sound, DeletionLocks, Deletable, Deletions
  <2> USE DEF t
  <2> HIDE DEF l
  <2> QED
    BY <1>4, <1>5, <2>1, <2>2, <2>5, TakeKeeps
<1> QED
  BY <1>6, <1>7, <1>8

\* The locks of a deletion: the job's assets, the job, its dependents.
LEMMA DeletionLocksRows ==
  ASSUME LibraryInv, NEW r \in Connections, LockAssets(r) \/ LockRow(r) \/ Detach(r)
  PROVE  LibraryInv'
<1> DEFINE q == request[r]
<1>1. /\ q \in Transactions /\ Sound(q) /\ content \subseteq Jobs
      /\ q.job \in Jobs \cup {NoJob} /\ q.todo \subseteq Locks /\ q.locks \subseteq Locks
  BY DEF LibraryInv, LibraryTyped, Transactions
<1>2. job' = job /\ asset' = asset /\ content' = content /\ content' \subseteq Jobs
  BY <1>1 DEF LockAssets, LockRow, Detach
<1>3. "row" \in Admissions \cup Deletions /\ "check" \in Admissions \cup Deletions
      /\ "detach" \in Admissions \cup Deletions
  BY DEF Deletions
<1>4. ASSUME LockAssets(r) PROVE LibraryInv'
  <2> DEFINE l == <<"update", AssetRow(q.job)>>
             t == Taken(q, l, "row")
             u == [q EXCEPT !.pc = "row"]
  <2>1. q.pc = "assets" /\ (Take(r, l, "row") \/ request' = [request EXCEPT ![r].pc = "row"])
    BY <1>4 DEF LockAssets, InStep
  <2>2. q.job \in Jobs /\ q.locks = {}
    BY <1>1, <2>1 DEF Sound, DeletionLocks, Deletions
  <2>3. CASE Take(r, l, "row")
    <3>1. l \in Locks
      BY <2>2, LockKinds
    <3>2. t.pc = "row" /\ t.locks = {l} /\ t.job = q.job
      BY <1>1, <1>3, <2>2, <3>1, TakenIs
    <3> HIDE DEF t
    <3>3. Sound(t)
      BY <2>2, <3>2 DEF Sound, AdmissionLocks, DeletionLocks, Deletable, Admissions, Deletions
    <3> USE DEF t
    <3> HIDE DEF l
    <3> QED
      BY <1>2, <1>3, <2>3, <3>1, <3>3, TakeKeeps
  <2>4. CASE request' = [request EXCEPT ![r].pc = "row"]
    <3>1. u \in Transactions /\ u.pc = "row" /\ u.locks = {} /\ u.job = q.job
      BY <1>1, <2>2 DEF Transactions, Deletions
    <3>2. request' = [request EXCEPT ![r] = u]
      BY <2>4
    <3> HIDE DEF u
    <3>3. Sound(u)
      BY <2>2, <3>1 DEF Sound, AdmissionLocks, DeletionLocks, Deletable, Admissions, Deletions
    <3>4. \A s \in Connections \ {r} : \A k \in u.locks, m \in request[s].locks : ~Conflict(k, m)
      BY <3>1
    <3> QED
      BY <1>2, <3>1, <3>2, <3>3, <3>4, RequestMoves
  <2> QED
    BY <2>1, <2>3, <2>4
<1>5. ASSUME LockRow(r) PROVE LibraryInv'
  <2> DEFINE l == <<"update", JobRow(q.job)>>
             t == Taken(q, l, "check")
  <2>1. q.pc = "row" /\ (Finish(r) \/ (Exists(q.job) /\ AssetsUnchanged(r) /\ Take(r, l, "check")))
    BY <1>5 DEF LockRow, InStep
  <2>2. q.job \in Jobs /\ q.locks \subseteq {<<"update", AssetRow(q.job)>>}
    BY <1>1, <2>1 DEF Sound, DeletionLocks, Deletions
  <2>3. CASE Finish(r)
    BY <1>2, <2>3, FinishKeeps
  <2>4. CASE Exists(q.job) /\ AssetsUnchanged(r) /\ Take(r, l, "check")
    <3>1. l \in Locks
      BY <2>2, LockKinds
    <3>2. t.pc = "check" /\ t.locks = q.locks \cup {l} /\ t.job = q.job
      BY <1>1, <1>3, <3>1, TakenIs
    <3>3. q.job \in asset <=> <<"update", AssetRow(q.job)>> \in q.locks \cup {l}
      BY <2>4, RowsDiffer DEF AssetsUnchanged
    <3> HIDE DEF t
    <3>4. Sound(t)
      BY <2>2, <2>4, <3>2, <3>3 DEF Sound, AdmissionLocks, DeletionLocks, Deletable, Admissions, Deletions
    <3> USE DEF t
    <3> HIDE DEF l
    <3> QED
      BY <1>2, <1>3, <2>4, <3>1, <3>4, TakeKeeps
  <2> QED
    BY <2>1, <2>3, <2>4
<1>6. ASSUME Detach(r) PROVE LibraryInv'
  <2>1. PICK l \in q.todo : q.pc = "detach" /\ (Finish(r) \/ Take(r, l, "detach"))
    BY <1>6 DEF Detach, InStep
  <2> DEFINE t == Taken(q, l, "detach")
  <2>2. CASE Finish(r)
    BY <1>2, <2>2, FinishKeeps
  <2>3. CASE Take(r, l, "detach")
    <3>1. /\ l \in Locks
          /\ (\E j \in Jobs : l = <<"change", JobRow(j)>>) \/ (l = <<"update", AssetRow(q.job)>> /\ l \in q.locks)
      BY <1>1, <2>1 DEF Sound, DeletionLocks
    <3>2. t.pc = "detach" /\ t.locks = q.locks \cup {l} /\ t.todo = q.todo \ {l} /\ t.job = q.job
      BY <1>1, <1>3, <3>1, TakenIs
    <3> HIDE DEF t
    <3>3. DeletionLocks(t)
      <4>1. <<"update", AssetRow(q.job)>> \in q.locks \cup {l} => <<"update", AssetRow(q.job)>> \in q.locks
        BY <3>1
      <4>2. \A k \in q.locks \cup {l} :
              \/ k \in {<<"update", JobRow(q.job)>>, <<"update", AssetRow(q.job)>>}
              \/ \E j \in Jobs : k = <<"change", JobRow(j)>>
        BY <1>1, <2>1, <3>1 DEF Sound, DeletionLocks
      <4> QED
        BY <1>1, <2>1, <3>2, <4>1, <4>2 DEF Sound, DeletionLocks, Deletions
    <3>4. Sound(t)
      BY <1>1, <2>1, <3>2, <3>3 DEF Sound, AdmissionLocks, Deletable, Admissions
    <3> USE DEF t
    <3> HIDE DEF q
    <3> QED
      BY <1>2, <1>3, <2>3, <3>1, <3>4, TakeKeeps DEF q
  <2> QED
    BY <2>1, <2>2, <2>3
<1> QED
  BY <1>4, <1>5, <1>6

\* The checks of _validate_job_deletable: what a deletion knows about the job once it passed them.
LEMMA DeletionChecks ==
  ASSUME LibraryInv, NEW r \in Connections, CheckDeletable(r) \/ RemoveFiles(r)
  PROVE  LibraryInv'
<1> DEFINE q == request[r]
           d == q.job
<1>1. /\ q \in Transactions /\ Sound(q) /\ content \subseteq Jobs /\ job \in [Jobs -> JobRows]
      /\ d \in Jobs \cup {NoJob} /\ q.todo \subseteq Locks /\ q.locks \subseteq Locks
  BY DEF LibraryInv, LibraryTyped, Transactions
<1>2. \A s \in Connections \ {r} : \A k \in q.locks, m \in request[s].locks : ~Conflict(k, m)
  BY DEF LibraryInv, Exclusive
<1>3. ASSUME CheckDeletable(r) PROVE LibraryInv'
  <2> DEFINE later == {<<"change", JobRow(j)>> : j \in Dependents(d)}
                        \cup {<<"update", AssetRow(j)>> : j \in {d} \cap asset}
             u == [q EXCEPT !.pc = "files", !.todo = later]
  <2>1. q.pc = "check" /\ job' = job /\ asset' = asset /\ content' = content
    BY <1>3 DEF CheckDeletable, InStep
  <2>2. CASE Finish(r)
    BY <1>1, <2>1, <2>2, FinishKeeps
  <2>3. CASE ~Finish(r)
    <3>1. /\ ~Working(job[d]) /\ \A j \in Dependents(d) : ~Working(job[j])
          /\ request' = [request EXCEPT ![r].pc = "files", ![r].todo = later]
      BY <1>3, <2>3 DEF CheckDeletable
    <3>2. request' = [request EXCEPT ![r] = u]
      BY <3>1
    <3>3. /\ d \in Jobs /\ Exists(d) /\ <<"update", JobRow(d)>> \in q.locks
          /\ d \in asset <=> <<"update", AssetRow(d)>> \in q.locks
      BY <1>1, <2>1 DEF Sound, DeletionLocks, Deletable, Deletions
    <3>4. later \subseteq Locks
      BY <3>3, LockKinds DEF Dependents
    <3>5. u \in Transactions /\ u.pc = "files" /\ u.todo = later /\ u.job = d /\ u.locks = q.locks
      BY <1>1, <3>4 DEF Transactions, Deletions
    <3>6. \A l \in later : (\E j \in Jobs : l = <<"change", JobRow(j)>>)
                             \/ (l = <<"update", AssetRow(d)>> /\ l \in q.locks)
      BY <3>3 DEF Dependents
    <3>7. \A j \in Jobs : Working(job[j]) => d \notin {job[j].parent, job[j].again, job[j].source}
      <4> SUFFICES ASSUME NEW j \in Jobs, Working(job[j]), d \in {job[j].parent, job[j].again, job[j].source}
                   PROVE  FALSE
        OBVIOUS
      <4>1. j # d /\ Exists(j)
        BY <3>1 DEF Working, Exists
      <4>2. j \in Dependents(d)
        BY <4>1 DEF Dependents
      <4> QED
        BY <3>1, <4>2
    <3> HIDE DEF u, later
    <3>8. Sound(u)
      BY <1>1, <2>1, <3>1, <3>3, <3>5, <3>6, <3>7
         DEF Sound, AdmissionLocks, DeletionLocks, Deletable, Admissions, Deletions
    <3>9. \A s \in Connections \ {r} : \A k \in u.locks, m \in request[s].locks : ~Conflict(k, m)
      BY <1>2, <3>5
    <3> QED
      BY <1>1, <2>1, <3>2, <3>5, <3>8, <3>9, RequestMoves
  <2> QED
    BY <2>2, <2>3
<1>4. ASSUME RemoveFiles(r) PROVE LibraryInv'
  <2> DEFINE u == [q EXCEPT !.pc = "detach"]
  <2>1. q.pc = "files" /\ job' = job /\ asset' = asset /\ content' \subseteq Jobs
        /\ request' = [request EXCEPT ![r] = u]
    BY <1>1, <1>4 DEF RemoveFiles, InStep
  <2>2. u \in Transactions /\ u.pc = "detach" /\ u.todo = q.todo /\ u.job = d /\ u.locks = q.locks
    BY <1>1 DEF Transactions, Deletions
  <2> HIDE DEF u
  <2>3. Sound(u)
    BY <1>1, <2>1, <2>2 DEF Sound, AdmissionLocks, DeletionLocks, Deletable, Admissions, Deletions
  <2>4. \A s \in Connections \ {r} : \A k \in u.locks, m \in request[s].locks : ~Conflict(k, m)
    BY <1>2, <2>2
  <2> QED
    BY <2>1, <2>2, <2>3, <2>4, RequestMoves
<1> QED
  BY <1>3, <1>4

\* The deletion has locked its job.
Holding == {"check", "files", "detach"}

\* Rows change but no transaction's knowledge does: the sources of admissions are there, the
\* jobs of deletions exist, and what a deletion checked is still so.
JobsStand ==
  \A s \in Connections :
    LET q == request'[s] IN
    /\ q.pc \in {"insert", "admit"} /\ q.source \in asset => q.source \in asset'
    /\ q.pc \in Holding =>
         /\ q.job \in asset <=> q.job \in asset'
         /\ job'[q.job].state \notin {"absent", "deleted"}
    /\ q.pc \in {"files", "detach"} =>
         /\ job'[q.job].state \notin {"blocked", "active"}
         /\ \A j \in Jobs : job'[j].state \in {"blocked", "active"} =>
              q.job \notin {job'[j].parent, job'[j].again, job'[j].source}

\* A step that writes rows preserves the invariant when the rows are in order and what
\* transactions know still holds.
LEMMA JobsMove ==
  ASSUME LibraryInv,
         job' \in [Jobs -> JobRows], asset' \subseteq Jobs, content' \subseteq Jobs,
         InOrder', SourcesExist',
         request' \in [Connections -> Transactions],
         \A s \in Connections : request'[s] \in {request[s], NoRequest},
         JobsStand
  PROVE  LibraryInv'
<1>1. Exclusive'
  BY NothingAsked DEF LibraryInv, Exclusive, Conflict
<1>2. ASSUME NEW s \in Connections PROVE Sound(request[s])'
  <2>1. CASE request'[s] = NoRequest
    <3>1. Sound(NoRequest)'
      BY NothingAsked DEF Sound, AdmissionLocks, DeletionLocks, Deletable, Admissions, Deletions
    <3> QED
      BY <2>1, NothingAsked DEF Sound, AdmissionLocks, DeletionLocks, Deletable, Admissions, Deletions
  <2>2. ASSUME NEW q, request[s] = q, request'[s] = q PROVE Sound(request[s])'
    <3>1. Sound(q)
      BY <2>2 DEF LibraryInv
    <3>2. /\ q.pc \in {"insert", "admit"} /\ q.source \in asset => q.source \in asset'
          /\ q.pc \in Holding =>
               /\ q.job \in asset <=> q.job \in asset'
               /\ job'[q.job].state \notin {"absent", "deleted"}
          /\ q.pc \in {"files", "detach"} =>
               /\ job'[q.job].state \notin {"blocked", "active"}
               /\ \A j \in Jobs : job'[j].state \in {"blocked", "active"} =>
                    q.job \notin {job'[j].parent, job'[j].again, job'[j].source}
      BY <2>2 DEF JobsStand
    <3>3. (q.pc = "idle" => q.locks = {}) /\ AdmissionLocks(request[s])'
      BY <2>2, <3>1, <3>2 DEF Sound, AdmissionLocks, AssetRow, JobRow, KeyShares
    <3>4. DeletionLocks(request[s])'
      BY <2>2, <3>1, <3>2 DEF Sound, DeletionLocks, AssetRow, JobRow, Holding
    <3>5. Deletable(request[s])'
      BY <2>2, <3>2 DEF Deletable, Exists, Working, Holding
    <3> QED
      BY <2>2, <3>3, <3>4, <3>5 DEF Sound
  <2> QED
    BY <2>1, <2>2
<1> QED
  BY <1>1, <1>2 DEF LibraryInv, LibraryTyped

\* What the invariant says of a transaction that keeps on.
LEMMA Standing ==
  ASSUME LibraryInv, NEW s \in Connections
  PROVE  /\ request[s] \in Transactions
         /\ request[s].pc \in {"insert", "admit"} /\ request[s].source # NoJob =>
              /\ request[s].source \in asset
              /\ <<"update", AssetRow(request[s].source)>> \in request[s].locks
         /\ request[s].pc \in Holding =>
              /\ request[s].job \in Jobs /\ Exists(request[s].job)
              /\ <<"update", JobRow(request[s].job)>> \in request[s].locks
              /\ request[s].job \in asset <=> <<"update", AssetRow(request[s].job)>> \in request[s].locks
         /\ request[s].pc \in {"files", "detach"} =>
              /\ ~Working(job[request[s].job])
              /\ \A j \in Jobs : Working(job[j]) =>
                   request[s].job \notin {job[j].parent, job[j].again, job[j].source}
  BY DEF LibraryInv, LibraryTyped, Sound, AdmissionLocks, DeletionLocks, Deletable, Deletions, Holding

\* No deletion holds a job whose row is free.
LEMMA FreeRow ==
  ASSUME LibraryInv, NEW j \in Jobs, Free(<<"update", JobRow(j)>>), NEW s \in Connections,
         request[s].pc \in Holding
  PROVE  request[s].job # j
<1>1. <<"update", JobRow(request[s].job)>> \in request[s].locks
  BY Standing
<1>2. ~Conflict(<<"update", JobRow(j)>>, <<"update", JobRow(request[s].job)>>)
  BY <1>1 DEF Free
<1> QED
  BY <1>2 DEF Conflict

\* New jobs leave every transaction alone that refers to none of them.
LEMMA JobsCreated ==
  ASSUME LibraryInv, NEW new \in SUBSET Jobs,
         \A n \in new : job[n].state = "absent",
         \A n \in new, m \in Jobs \ new : m < n => job[m].state # "absent",
         job' \in [Jobs -> JobRows],
         \A j \in Jobs \ new : job'[j] = job[j],
         \A n \in new : /\ job'[n].state \in {"blocked", "active"}
                        /\ job'[n].state = "blocked" => job'[n].source = NoJob
                        /\ job'[n].source # NoJob => job'[n].source \in asset,
         asset' = asset, content' = content, request' \in [Connections -> Transactions],
         \A s \in Connections : request'[s] \in {request[s], NoRequest},
         \A n \in new, s \in Connections : request'[s].pc \in {"files", "detach"} =>
           request'[s].job \notin {job'[n].parent, job'[n].again, job'[n].source}
  PROVE  LibraryInv'
<1>1. InOrder'
  <2> SUFFICES ASSUME NEW j \in Jobs, NEW k \in Jobs, j < k, job'[j].state = "absent"
               PROVE  job'[k].state = "absent"
    BY DEF InOrder
  <2>1. j \notin new /\ job[j].state = "absent"
    OBVIOUS
  <2>2. job[k].state = "absent"
    BY <2>1 DEF LibraryInv, InOrder
  <2>3. k \notin new
    BY <2>1
  <2> QED
    BY <2>2, <2>3
<1>2. SourcesExist'
  BY DEF LibraryInv, SourcesExist, Working
<1>3. JobsStand
  <2> SUFFICES ASSUME NEW s \in Connections, request'[s] = request[s],
                      request[s].pc \in Holding
               PROVE  /\ job'[request[s].job].state \notin {"absent", "deleted"}
                      /\ request[s].pc \in {"files", "detach"} =>
                           /\ job'[request[s].job].state \notin {"blocked", "active"}
                           /\ \A j \in Jobs : job'[j].state \in {"blocked", "active"} =>
                                request[s].job \notin {job'[j].parent, job'[j].again, job'[j].source}
    BY NothingAsked DEF JobsStand, Holding
  <2> DEFINE d == request[s].job
  <2>1. d \in Jobs /\ Exists(d)
    BY Standing
  <2>2. d \notin new /\ job'[d] = job[d]
    BY <2>1 DEF Exists
  <2>3. ASSUME request[s].pc \in {"files", "detach"} PROVE ~Working(job[d])
    BY <2>3, Standing
  <2>4. ASSUME NEW j \in Jobs, job'[j].state \in {"blocked", "active"}, request[s].pc \in {"files", "detach"}
        PROVE  d \notin {job'[j].parent, job'[j].again, job'[j].source}
    <3>1. CASE j \in new
      BY <2>4, <3>1
    <3>2. CASE j \notin new
      BY <2>4, <3>2, Standing DEF Working
    <3> QED
      BY <3>1, <3>2
  <2> QED
    BY <2>1, <2>2, <2>3, <2>4 DEF Exists, Working
<1> QED
  BY <1>1, <1>2, <1>3, JobsMove DEF LibraryInv, LibraryTyped

\* New images and pipelines refer to no job that is being deleted: it exists, they are new.
LEMMA CreationKeeps ==
  ASSUME LibraryInv, NEW n \in Jobs, CreateImage(n) \/ \E c \in Jobs : CreatePipeline(n, c)
  PROVE  LibraryInv'
<1>1. /\ job \in [Jobs -> JobRows] /\ request \in [Connections -> Transactions]
      /\ job[n].state = "absent" /\ \A m \in Jobs : m < n => job[m].state # "absent"
      /\ asset' = asset /\ content' = content /\ request' = request
  BY DEF CreateImage, CreatePipeline, NextId, LibraryInv, LibraryTyped
<1>2. ASSUME NEW s \in Connections, request'[s].pc \in {"files", "detach"}
      PROVE  request'[s].job # n /\ request'[s].job # NoJob
  <2>1. request[s].job \in Jobs /\ Exists(request[s].job)
    BY <1>1, <1>2, Standing DEF Holding
  <2> QED
    BY <1>1, <2>1, LibraryAssumption DEF Exists
<1>3. ASSUME CreateImage(n) PROVE LibraryInv'
  <2> DEFINE new == {n}
             image == NewJob("active", "image", NoJob, NoJob, NoJob)
  <2>1. /\ image \in JobRows /\ image.state = "active"
        /\ image.parent = NoJob /\ image.again = NoJob /\ image.source = NoJob
    BY DEF NewJob, JobRows, States
  <2>2. job' = [job EXCEPT ![n] = image]
    BY <1>3 DEF CreateImage
  <2> HIDE DEF image
  <2>3. job' \in [Jobs -> JobRows] /\ job'[n] = image /\ \A j \in Jobs \ new : job'[j] = job[j]
    BY <1>1, <2>1, <2>2
  <2>4. /\ \A m \in new : job[m].state = "absent"
        /\ \A m \in new, k \in Jobs \ new : k < m => job[k].state # "absent"
        /\ \A m \in new : job'[m] = image
        /\ new \in SUBSET Jobs
    BY <1>1, <2>3
  <2> HIDE DEF new
  <2>5. \A m \in new : /\ job'[m].state \in {"blocked", "active"}
                       /\ job'[m].state = "blocked" => job'[m].source = NoJob
                       /\ job'[m].source # NoJob => job'[m].source \in asset
    BY <2>1, <2>4
  <2>6. \A m \in new, s \in Connections : request'[s].pc \in {"files", "detach"} =>
          request'[s].job \notin {job'[m].parent, job'[m].again, job'[m].source}
    BY <1>2, <2>1, <2>4
  <2> QED
    BY <1>1, <2>3, <2>4, <2>5, <2>6, JobsCreated
<1>4. ASSUME NEW c \in Jobs, CreatePipeline(n, c) PROVE LibraryInv'
  <2> DEFINE new == {n, c}
             image == NewJob("active", "image", NoJob, NoJob, NoJob)
             child == NewJob("blocked", "clip", n, NoJob, NoJob)
  <2>1. /\ image \in JobRows /\ image.state = "active"
        /\ image.parent = NoJob /\ image.again = NoJob /\ image.source = NoJob
    BY DEF NewJob, JobRows, States
  <2>0. /\ child \in JobRows /\ child.state = "blocked"
        /\ child.parent = n /\ child.again = NoJob /\ child.source = NoJob
    BY DEF NewJob, JobRows, States
  <2>2. job' = [job EXCEPT ![n] = image, ![c] = child]
    BY <1>4 DEF CreatePipeline
  <2>3. n \in Nat /\ c = n + 1 /\ n < c /\ n # c
    BY <1>4, LibraryAssumption DEF CreatePipeline
  <2>4. job[c].state = "absent"
    BY <1>1, <2>3 DEF LibraryInv, InOrder
  <2>5. \A k \in Jobs : k < c /\ k # n => k < n
    BY <2>3, LibraryAssumption
  <2> HIDE DEF image, child
  <2>6. job' \in [Jobs -> JobRows] /\ job'[n] = image /\ job'[c] = child /\ \A j \in Jobs \ new : job'[j] = job[j]
    BY <1>1, <2>0, <2>1, <2>2, <2>3
  <2>7. /\ \A m \in new : job[m].state = "absent"
        /\ \A m \in new, k \in Jobs \ new : k < m => job[k].state # "absent"
        /\ new \in SUBSET Jobs
    BY <1>1, <2>4, <2>5
  <2>8. \A m \in new : /\ job'[m].state \in {"blocked", "active"}
                       /\ job'[m].state = "blocked" => job'[m].source = NoJob
                       /\ job'[m].source # NoJob => job'[m].source \in asset
    BY <2>0, <2>1, <2>6
  <2>9. \A m \in new, s \in Connections : request'[s].pc \in {"files", "detach"} =>
          request'[s].job \notin {job'[m].parent, job'[m].again, job'[m].source}
    BY <1>2, <2>0, <2>1, <2>6
  <2> HIDE DEF new
  <2> QED
    BY <1>1, <2>6, <2>7, <2>8, <2>9, JobsCreated
<1> QED
  BY <1>3, <1>4

\* A new clip or retry refers to no job that is being deleted: its locks on what it refers to
\* and the locks of the deletion exclude each other.
LEMMA AdmitKeeps ==
  ASSUME LibraryInv, NEW r \in Connections, Admit(r)
  PROVE  LibraryInv'
<1> DEFINE q == request[r]
<1>1. /\ job \in [Jobs -> JobRows] /\ request \in [Connections -> Transactions]
      /\ asset' = asset /\ content' = content /\ Finish(r) /\ q.pc = "admit"
  BY DEF Admit, InStep, LibraryInv, LibraryTyped
<1>2. /\ q.mode \in {"image", "clip"} /\ q.parent \in Jobs \cup {NoJob}
      /\ q.again \in Jobs \cup {NoJob} /\ q.source \in Jobs \cup {NoJob}
  BY <1>1 DEF Transactions
<1>3. /\ KeyShares(q.parent, q.again, q.source) \subseteq q.locks
      /\ q.source # NoJob => q.source \in asset /\ <<"update", AssetRow(q.source)>> \in q.locks
  BY <1>1 DEF LibraryInv, Sound, AdmissionLocks, Admissions
<1>4. PICK n \in Jobs : NextId(n) /\ job' = [job EXCEPT ![n] = NewJob("active", q.mode, q.parent, q.again, q.source)]
  BY DEF Admit
<1> DEFINE added == NewJob("active", q.mode, q.parent, q.again, q.source)
           new == {n}
<1>5. /\ added \in JobRows /\ added.state = "active" /\ added.parent = q.parent /\ added.again = q.again
      /\ added.source = q.source
  BY <1>2 DEF NewJob, JobRows, States
<1> HIDE DEF added
<1>6. job' \in [Jobs -> JobRows] /\ job'[n] = added /\ \A j \in Jobs \ new : job'[j] = job[j]
  BY <1>1, <1>4, <1>5 DEF added
<1>7. /\ request' \in [Connections -> Transactions]
      /\ \A s \in Connections : request'[s] = IF s = r THEN NoRequest ELSE request[s]
  BY <1>1, NothingAsked DEF Finish
<1>8. ASSUME NEW s \in Connections, request'[s].pc \in {"files", "detach"}
      PROVE  request'[s].job \notin {q.parent, q.again, q.source}
  <2> DEFINE d == request[s].job
  <2>1. s # r /\ request'[s] = request[s]
    BY <1>7, <1>8, NothingAsked
  <2>2. /\ d \in Jobs /\ d # NoJob /\ <<"update", JobRow(d)>> \in request[s].locks
        /\ d \in asset => <<"update", AssetRow(d)>> \in request[s].locks
    BY <1>8, <2>1, Standing, LibraryAssumption DEF Holding
  <2>3. <<"share", JobRow(d)>> \notin q.locks
    BY <2>1, <2>2, Excluded DEF LibraryInv
  <2>4. d \notin {q.parent, q.again}
    BY <1>3, <2>2, <2>3 DEF KeyShares
  <2>5. ASSUME d = q.source PROVE FALSE
    <3>1. <<"update", AssetRow(d)>> \in request[s].locks /\ <<"update", AssetRow(d)>> \in q.locks
      BY <1>3, <2>2, <2>5
    <3> QED
      BY <2>1, <3>1, Excluded DEF LibraryInv
  <2> QED
    BY <2>1, <2>4, <2>5
<1>9. /\ \A m \in new : job[m].state = "absent"
      /\ \A m \in new, k \in Jobs \ new : k < m => job[k].state # "absent"
      /\ \A m \in new : job'[m] = added
      /\ new \in SUBSET Jobs
  BY <1>4, <1>6 DEF NextId
<1> HIDE DEF new
<1>10. \A m \in new : /\ job'[m].state \in {"blocked", "active"}
                      /\ job'[m].state = "blocked" => job'[m].source = NoJob
                      /\ job'[m].source # NoJob => job'[m].source \in asset
  BY <1>3, <1>5, <1>9
<1>11. \A m \in new, s \in Connections : request'[s].pc \in {"files", "detach"} =>
         request'[s].job \notin {job'[m].parent, job'[m].again, job'[m].source}
  BY <1>5, <1>8, <1>9
<1>12. \A s \in Connections : request'[s] \in {request[s], NoRequest}
  BY <1>7
<1> HIDE DEF q
<1> QED
  BY <1>1, <1>6, <1>7, <1>9, <1>10, <1>11, <1>12, JobsCreated

\* The worker and the pipeline link leave a job alone whose row a deletion has locked.
LEMMA WorkerKeeps ==
  ASSUME LibraryInv, NEW j \in Jobs, Deliver(j) \/ Fail(j) \/ Link(j)
  PROVE  LibraryInv'
<1>1. /\ job \in [Jobs -> JobRows] /\ request \in [Connections -> Transactions]
      /\ asset \subseteq Jobs /\ content \subseteq Jobs
      /\ request' = request /\ Free(<<"update", JobRow(j)>>) /\ Working(job[j])
  BY DEF Deliver, Fail, Link, LibraryInv, LibraryTyped, Working
<1>2. ASSUME NEW s \in Connections, request[s].pc \in Holding
      PROVE  request[s].job # j /\ request[s].job \in Jobs /\ Exists(request[s].job)
  BY <1>1, <1>2, FreeRow, Standing
<1>3. ASSUME Deliver(j) PROVE LibraryInv'
  <2>1. /\ job' \in [Jobs -> JobRows] /\ asset' = asset \cup {j} /\ content' = content \cup {j}
        /\ \A k \in Jobs : /\ job'[k].state = IF k = j THEN "completed" ELSE job[k].state
                           /\ job'[k].parent = job[k].parent /\ job'[k].again = job[k].again
                           /\ job'[k].source = job[k].source
    BY <1>1, <1>3 DEF Deliver, JobRows, States
  <2>2. InOrder' /\ SourcesExist'
    BY <1>1, <2>1 DEF LibraryInv, InOrder, SourcesExist, Working
  <2>3. JobsStand
    <3>1. ASSUME NEW s \in Connections, request[s].pc \in {"files", "detach"}
          PROVE  /\ job'[request[s].job].state \notin {"blocked", "active"}
                 /\ \A k \in Jobs : job'[k].state \in {"blocked", "active"} =>
                      request[s].job \notin {job'[k].parent, job'[k].again, job'[k].source}
      BY <2>1, <3>1, <1>2, Standing DEF Working, Holding
    <3>2. ASSUME NEW s \in Connections, request[s].pc \in Holding
          PROVE  /\ request[s].job \in asset <=> request[s].job \in asset'
                 /\ job'[request[s].job].state \notin {"absent", "deleted"}
      BY <1>2, <2>1, <3>2 DEF Exists
    <3> QED
      BY <1>1, <2>1, <3>1, <3>2 DEF JobsStand
  <2> QED
    BY <1>1, <2>1, <2>2, <2>3, JobsMove
<1>4. ASSUME Fail(j) PROVE LibraryInv'
  <2>1. /\ job' \in [Jobs -> JobRows] /\ asset' = asset /\ content' = content
        /\ \A k \in Jobs : /\ job'[k].state \in {job[k].state, "failed"}
                           /\ job[k].state = "absent" => job'[k].state = "absent"
                           /\ job'[k].state = "failed" => job[k].state \in {"blocked", "active", "failed"}
                           /\ job'[k].parent = job[k].parent /\ job'[k].again = job[k].again
                           /\ job'[k].source = job[k].source
    BY <1>1, <1>4 DEF Fail, JobRows, States
  <2>2. InOrder' /\ SourcesExist'
    BY <1>1, <2>1 DEF LibraryInv, InOrder, SourcesExist, Working
  <2>3. JobsStand
    <3>1. ASSUME NEW s \in Connections, request[s].pc \in {"files", "detach"}
          PROVE  /\ job'[request[s].job].state \notin {"blocked", "active"}
                 /\ \A k \in Jobs : job'[k].state \in {"blocked", "active"} =>
                      request[s].job \notin {job'[k].parent, job'[k].again, job'[k].source}
      <4>1. request[s].job \in Jobs
        BY <1>2, <3>1 DEF Holding
      <4> QED
        BY <2>1, <3>1, <4>1, Standing DEF Working
    <3>2. ASSUME NEW s \in Connections, request[s].pc \in Holding
          PROVE  job'[request[s].job].state \notin {"absent", "deleted"}
      BY <1>2, <2>1, <3>2 DEF Exists
    <3> QED
      BY <1>1, <2>1, <3>1, <3>2 DEF JobsStand
  <2> QED
    BY <1>1, <2>1, <2>2, <2>3, JobsMove
<1>5. ASSUME Link(j) PROVE LibraryInv'
  <2> DEFINE p == job[j].parent
  <2>1. /\ job[j].state = "blocked" /\ asset' = asset /\ content' = content
        /\ \/ p \in asset /\ job' = [job EXCEPT ![j].state = "active", ![j].source = p]
           \/ p \notin asset /\ job' = [job EXCEPT ![j].state = "failed"]
    BY <1>5 DEF Link
  <2>2. job[j] \in JobRows /\ p \in Jobs \cup {NoJob}
    BY <1>1 DEF JobRows
  <2>3. PICK state \in {"active", "failed"}, source \in Jobs \cup {NoJob} :
          /\ job' = [job EXCEPT ![j] = [job[j] EXCEPT !.state = state, !.source = source]]
          /\ state = "active" => source = p /\ p \in asset
          /\ source \in {job[j].source, p}
    <3>1. CASE p \in asset
      BY <1>1, <2>1, <2>2, <3>1
    <3>2. CASE p \notin asset
      <4>1. [job[j] EXCEPT !.state = "failed", !.source = job[j].source] = [job[j] EXCEPT !.state = "failed"]
        BY <2>2 DEF JobRows
      <4>2. job' = [job EXCEPT ![j] = [job[j] EXCEPT !.state = "failed", !.source = job[j].source]]
        BY <2>1, <3>2, <4>1
      <4>3. job[j].source \in Jobs \cup {NoJob}
        BY <2>2 DEF JobRows
      <4> QED
        BY <4>2, <4>3
    <3> QED
      BY <3>1, <3>2
  <2> DEFINE linked == [job[j] EXCEPT !.state = state, !.source = source]
  <2>4. /\ linked \in JobRows /\ linked.state = state /\ linked.source = source /\ linked.parent = p
        /\ linked.again = job[j].again
    BY <2>2 DEF JobRows, States
  <2> HIDE DEF linked
  <2>5. job' \in [Jobs -> JobRows] /\ job'[j] = linked /\ \A k \in Jobs \ {j} : job'[k] = job[k]
    BY <1>1, <2>3, <2>4 DEF linked
  <2>6. InOrder' /\ SourcesExist'
    <3>1. InOrder'
      BY <2>1, <2>4, <2>5 DEF LibraryInv, InOrder
    <3>2. ASSUME NEW k \in Jobs
          PROVE  /\ job'[k].state = "blocked" => job'[k].source = NoJob
                 /\ job'[k].state \in {"blocked", "active"} /\ job'[k].source # NoJob => job'[k].source \in asset
      <4>1. CASE k = j
        BY <2>3, <2>4, <2>5, <4>1
      <4>2. CASE k # j
        BY <2>5, <4>2 DEF LibraryInv, SourcesExist, Working
      <4> QED
        BY <4>1, <4>2
    <3> QED
      BY <2>1, <3>1, <3>2 DEF SourcesExist, Working
  <2>7. JobsStand
    <3>1. ASSUME NEW s \in Connections, request[s].pc \in {"files", "detach"}
          PROVE  /\ job'[request[s].job].state \notin {"blocked", "active"}
                 /\ \A k \in Jobs : job'[k].state \in {"blocked", "active"} =>
                      request[s].job \notin {job'[k].parent, job'[k].again, job'[k].source}
      <4>1. /\ request[s].job \in Jobs /\ request[s].job # j
            /\ ~Working(job[request[s].job])
            /\ \A k \in Jobs : Working(job[k]) =>
                   request[s].job \notin {job[k].parent, job[k].again, job[k].source}
        BY <1>2, <3>1, Standing DEF Holding
      <4>2. ASSUME NEW k \in Jobs, job'[k].state \in {"blocked", "active"}
            PROVE  request[s].job \notin {job'[k].parent, job'[k].again, job'[k].source}
        <5>1. CASE k = j
          BY <1>1, <2>3, <2>4, <2>5, <4>1, <5>1
        <5>2. CASE k # j
          BY <2>5, <4>1, <4>2, <5>2 DEF Working
        <5> QED
          BY <5>1, <5>2
      <4> QED
        BY <2>5, <4>1, <4>2 DEF Working
    <3>2. ASSUME NEW s \in Connections, request[s].pc \in Holding
          PROVE  job'[request[s].job].state \notin {"absent", "deleted"}
      BY <1>2, <2>5, <3>2 DEF Exists
    <3> QED
      BY <1>1, <2>1, <3>1, <3>2 DEF JobsStand
  <2> QED
    BY <1>1, <2>1, <2>5, <2>6, <2>7, JobsMove
<1> QED
  BY <1>3, <1>4, <1>5

\* A deletion takes its own job away, and nothing another transaction relies on.
LEMMA CommitKeeps ==
  ASSUME LibraryInv, NEW r \in Connections, CommitDelete(r)
  PROVE  LibraryInv'
<1> DEFINE d == request[r].job
<1>1. /\ job \in [Jobs -> JobRows] /\ request \in [Connections -> Transactions]
      /\ asset' = asset \ {d} /\ content' = content /\ asset \subseteq Jobs /\ content \subseteq Jobs
      /\ Finish(r) /\ request[r].pc = "detach"
  BY DEF CommitDelete, InStep, LibraryInv, LibraryTyped
<1>2. /\ d \in Jobs /\ Exists(d) /\ ~Working(job[d])
      /\ <<"update", JobRow(d)>> \in request[r].locks
      /\ d \in asset => <<"update", AssetRow(d)>> \in request[r].locks
      /\ \A j \in Jobs : Working(job[j]) => d \notin {job[j].parent, job[j].again, job[j].source}
  BY <1>1, Standing DEF Holding
<1> DEFINE Kept(j) == IF j = d THEN NoJob ELSE j
           gone == NewJob("deleted", job[d].mode, NoJob, NoJob, NoJob)
           left(j) == [job[j] EXCEPT !.parent = Kept(@), !.again = Kept(@), !.source = Kept(@)]
<1>3. job' = [j \in Jobs |-> IF j = d THEN gone ELSE left(j)]
  BY DEF CommitDelete
<1>4. gone \in JobRows /\ gone.state = "deleted"
  BY <1>1, <1>2 DEF NewJob, JobRows, States
<1>5. ASSUME NEW j \in Jobs
      PROVE  /\ left(j) \in JobRows /\ left(j).state = job[j].state /\ left(j).parent = Kept(job[j].parent)
             /\ left(j).again = Kept(job[j].again) /\ left(j).source = Kept(job[j].source)
  <2>1. job[j] \in JobRows
    BY <1>1
  <2> QED
    BY <2>1 DEF JobRows
<1> HIDE DEF gone, left
<1>6. /\ job' \in [Jobs -> JobRows] /\ job'[d].state = "deleted"
      /\ \A j \in Jobs \ {d} : /\ job'[j].state = job[j].state /\ job'[j].parent = Kept(job[j].parent)
                               /\ job'[j].again = Kept(job[j].again) /\ job'[j].source = Kept(job[j].source)
  BY <1>2, <1>3, <1>4, <1>5
<1>7. InOrder'
  BY <1>2, <1>6 DEF LibraryInv, InOrder, Exists
<1>8. SourcesExist'
  BY <1>1, <1>2, <1>6 DEF LibraryInv, SourcesExist, Working
<1>9. /\ request' \in [Connections -> Transactions]
      /\ \A s \in Connections : request'[s] = IF s = r THEN NoRequest ELSE request[s]
  BY <1>1, NothingAsked DEF Finish
<1>10. ASSUME NEW s \in Connections \ {r}
       PROVE  /\ request[s].pc \in {"insert", "admit"} /\ request[s].source \in asset =>
                   request[s].source # d
              /\ request[s].pc \in Holding => request[s].job # d
  <2>1. ASSUME request[s].pc \in {"insert", "admit"}, request[s].source = d, d \in asset PROVE FALSE
    <3>1. <<"update", AssetRow(d)>> \in request[s].locks
      BY <1>2, <2>1, Standing, LibraryAssumption
    <3> QED
      BY <1>2, <2>1, <3>1, Excluded DEF LibraryInv
  <2>2. ASSUME request[s].pc \in Holding, request[s].job = d PROVE FALSE
    <3>1. <<"update", JobRow(d)>> \in request[s].locks
      BY <2>2, Standing
    <3> QED
      BY <1>2, <3>1, Excluded DEF LibraryInv
  <2> QED
    BY <2>1, <2>2
<1>11. JobsStand
  <2>1. ASSUME NEW s \in Connections \ {r}, request[s].pc \in Holding
        PROVE  /\ request[s].job \in asset <=> request[s].job \in asset'
               /\ job'[request[s].job].state \notin {"absent", "deleted"}
    <3>1. request[s].job \in Jobs /\ Exists(request[s].job) /\ request[s].job # d
      BY <1>10, <2>1, Standing
    <3> QED
      BY <1>1, <1>6, <3>1 DEF Exists
  <2>2. ASSUME NEW s \in Connections \ {r}, request[s].pc \in {"files", "detach"}
        PROVE  /\ job'[request[s].job].state \notin {"blocked", "active"}
               /\ \A k \in Jobs : job'[k].state \in {"blocked", "active"} =>
                    request[s].job \notin {job'[k].parent, job'[k].again, job'[k].source}
    <3>1. /\ request[s].job \in Jobs /\ request[s].job # d /\ request[s].job # NoJob
          /\ ~Working(job[request[s].job])
          /\ \A k \in Jobs : Working(job[k]) =>
               request[s].job \notin {job[k].parent, job[k].again, job[k].source}
      BY <1>10, <2>2, Standing, LibraryAssumption DEF Holding
    <3> QED
      BY <1>2, <1>6, <3>1 DEF Working
  <2> QED
    BY <1>1, <1>9, <1>10, <2>1, <2>2, NothingAsked DEF JobsStand, Holding
<1>12. \A s \in Connections : request'[s] \in {request[s], NoRequest}
  BY <1>9
<1>13. asset' \subseteq Jobs /\ content' \subseteq Jobs
  BY <1>1
<1> HIDE DEF d, Kept
<1> QED
  BY <1>6, <1>7, <1>8, <1>9, <1>11, <1>12, <1>13, JobsMove

\* Every step preserves the invariant.
LEMMA LibraryKeeps == LibraryInv /\ [LibraryNext]_libraryVars => LibraryInv'
<1> SUFFICES ASSUME LibraryInv, [LibraryNext]_libraryVars PROVE LibraryInv'
  OBVIOUS
<1>1. ASSUME NEW r \in Connections, RequestStep(r) PROVE LibraryInv'
  <2>1. ASSUME RollBack(r) PROVE LibraryInv'
    <3>1. Finish(r) /\ job' = job /\ asset' = asset /\ content' = content
      BY <2>1 DEF RollBack
    <3>2. content \subseteq Jobs
      BY DEF LibraryInv, LibraryTyped
    <3> HIDE DEF Finish
    <3> QED
      BY <3>1, <3>2, FinishKeeps
  <2>2. ASSUME NEW j \in Jobs, Animate(r, j) \/ Retry(r, j) \/ Delete(r, j) PROVE LibraryInv'
    BY <2>2, AdmissionBegins, DeletionBegins
  <2>3. ASSUME LockSource(r) \/ Insert(r) \/ LockOwner(r) \/ Admit(r) PROVE LibraryInv'
    BY <2>3, AdmissionLocksRows, AdmitKeeps
  <2>4. ASSUME LockAssets(r) \/ LockRow(r) \/ Detach(r) PROVE LibraryInv'
    BY <2>4, DeletionLocksRows
  <2>5. ASSUME CheckDeletable(r) \/ RemoveFiles(r) \/ CommitDelete(r) PROVE LibraryInv'
    BY <2>5, DeletionChecks, CommitKeeps
  <2> QED
    BY <1>1, <2>1, <2>2, <2>3, <2>4, <2>5 DEF RequestStep
<1>2. ASSUME NEW j \in Jobs, CreateImage(j) \/ Deliver(j) \/ Fail(j) \/ Link(j) PROVE LibraryInv'
  BY <1>2, CreationKeeps, WorkerKeeps
<1>3. ASSUME NEW j \in Jobs, NEW c \in Jobs, CreatePipeline(j, c) PROVE LibraryInv'
  BY <1>3, CreationKeeps
<1>4. ASSUME UNCHANGED libraryVars PROVE LibraryInv'
  <2>1. job' = job /\ asset' = asset /\ content' = content /\ request' = request
    BY <1>4 DEF libraryVars
  <2>2. LibraryTyped' /\ InOrder' /\ SourcesExist'
    BY <2>1 DEF LibraryInv, LibraryTyped, InOrder, SourcesExist, Working
  <2>4. Exclusive'
    BY <2>1 DEF LibraryInv, Exclusive, Conflict
  <2>3. ASSUME NEW s \in Connections PROVE Sound(request[s])'
    <3>1. ASSUME NEW q, Sound(q), request'[s] = q PROVE Sound(request[s])'
      BY <2>1, <3>1 DEF Sound, AdmissionLocks, DeletionLocks, Deletable, Exists, Working, AssetRow, JobRow,
         KeyShares
    <3> QED
      BY <2>1, <3>1 DEF LibraryInv
  <2> QED
    BY <2>2, <2>3, <2>4 DEF LibraryInv
<1> QED
  BY <1>1, <1>2, <1>3, <1>4 DEF LibraryNext

\* The invariant holds whatever users, worker and pipeline do.
LEMMA LibraryInvariant == LibrarySpec => []LibraryInv
  BY LibraryBegins, LibraryKeeps, PTL DEF LibrarySpec

\* What WorkKeepsItsReferences says of a step.
WorkKept ==
  \A j \in Jobs : Working(job[j]) =>
    /\ job'[j].parent = job[j].parent /\ job'[j].again = job[j].again
    /\ job[j].source # NoJob => job'[j].source = job[j].source /\ job[j].source \in asset'
    /\ job[j].source \in content => job[j].source \in content'

\* From the invariant: a step that removes files or rows has a job that no work refers to.
LEMMA StepKeepsWork == LibraryInv /\ [LibraryNext]_libraryVars => WorkKept
<1> SUFFICES ASSUME LibraryInv, [LibraryNext]_libraryVars PROVE WorkKept
  OBVIOUS
<1>1. /\ job \in [Jobs -> JobRows] /\ content \subseteq Jobs
      /\ \A j \in Jobs : Working(job[j]) /\ job[j].source # NoJob => job[j].source \in asset
      /\ \A j \in Jobs : job[j].state = "blocked" => job[j].source = NoJob
      /\ NoJob \notin content
  BY LibraryAssumption DEF LibraryInv, LibraryTyped, SourcesExist
<1>2. ASSUME \A j \in Jobs : Working(job[j]) => /\ job'[j].parent = job[j].parent /\ job'[j].again = job[j].again
                                                /\ job'[j].source = job[j].source,
             asset \subseteq asset', content \subseteq content'
      PROVE  WorkKept
  BY <1>1, <1>2 DEF WorkKept
<1>3. ASSUME job' = job, asset' = asset, content' = content PROVE WorkKept
  BY <1>2, <1>3
<1>4. ASSUME NEW r \in Connections, RequestStep(r) PROVE WorkKept
  <2>1. CASE Admit(r)
    <3>1. \A j \in Jobs : Working(job[j]) => job'[j] = job[j]
      BY <1>1, <2>1 DEF Admit, NextId, Working
    <3> QED
      BY <1>2, <2>1, <3>1 DEF Admit
  <2>2. CASE RemoveFiles(r)
    <3>1. \A j \in Jobs : Working(job[j]) => request[r].job # job[j].source
      BY <2>2, Standing DEF RemoveFiles, InStep
    <3> QED
      BY <1>1, <2>2, <3>1 DEF RemoveFiles, WorkKept
  <2>3. CASE CommitDelete(r)
    <3> DEFINE d == request[r].job
    <3>1. /\ ~Working(job[d])
          /\ \A j \in Jobs : Working(job[j]) => d \notin {job[j].parent, job[j].again, job[j].source}
      BY <2>3, Standing DEF CommitDelete, InStep
    <3>2. asset' = asset \ {d} /\ content' = content
      BY <2>3 DEF CommitDelete
    <3>3. ASSUME NEW j \in Jobs, Working(job[j])
          PROVE  job'[j].parent = job[j].parent /\ job'[j].again = job[j].again /\ job'[j].source = job[j].source
      <4>1. j # d /\ d # job[j].parent /\ d # job[j].again /\ d # job[j].source /\ job[j] \in JobRows
        BY <1>1, <3>1, <3>3
      <4>2. job'[j] = [job[j] EXCEPT !.parent = IF job[j].parent = d THEN NoJob ELSE job[j].parent,
                                     !.again = IF job[j].again = d THEN NoJob ELSE job[j].again,
                                     !.source = IF job[j].source = d THEN NoJob ELSE job[j].source]
        BY <2>3, <4>1 DEF CommitDelete
      <4> HIDE DEF d
      <4> QED
        BY <4>1, <4>2 DEF JobRows
    <3>4. \A j \in Jobs : Working(job[j]) /\ job[j].source # NoJob => job[j].source \in asset'
      BY <1>1, <3>1, <3>2
    <3> QED
      BY <3>2, <3>3, <3>4 DEF WorkKept
  <2>4. CASE ~(Admit(r) \/ RemoveFiles(r) \/ CommitDelete(r))
    <3>1. job' = job /\ asset' = asset /\ content' = content
      BY <1>4, <2>4 DEF RequestStep, Animate, Retry, Delete, Begin, LockSource, Insert, LockOwner, LockAssets, LockRow,
         CheckDeletable, Detach, RollBack
    <3> QED
      BY <1>3, <3>1
  <2> QED
    BY <2>1, <2>2, <2>3, <2>4
<1>5. ASSUME NEW n \in Jobs, CreateImage(n) PROVE WorkKept
  <2>1. \A j \in Jobs : Working(job[j]) => job'[j] = job[j]
    BY <1>1, <1>5 DEF CreateImage, NextId, Working
  <2> QED
    BY <1>2, <1>5, <2>1 DEF CreateImage
<1>6. ASSUME NEW n \in Jobs, NEW c \in Jobs, CreatePipeline(n, c) PROVE WorkKept
  <2>1. c = n + 1 /\ n < c /\ job[n].state = "absent"
    BY <1>6, LibraryAssumption DEF CreatePipeline, NextId
  <2>2. job[c].state = "absent"
    BY <2>1 DEF LibraryInv, InOrder
  <2>3. \A j \in Jobs : Working(job[j]) => job'[j] = job[j]
    BY <1>1, <1>6, <2>1, <2>2 DEF CreatePipeline, Working
  <2> QED
    BY <1>2, <1>6, <2>3 DEF CreatePipeline
<1>7. ASSUME NEW j \in Jobs, Deliver(j) PROVE WorkKept
  BY <1>1, <1>2, <1>7 DEF Deliver, JobRows
<1>8. ASSUME NEW j \in Jobs, Fail(j) PROVE WorkKept
  BY <1>1, <1>2, <1>8 DEF Fail, JobRows
<1>9. ASSUME NEW c \in Jobs, Link(c) PROVE WorkKept
  <2>1. job[c].state = "blocked" /\ asset' = asset /\ content' = content
    BY <1>9 DEF Link
  <2>2. job'[c].parent = job[c].parent /\ job'[c].again = job[c].again /\ \A j \in Jobs \ {c} : job'[j] = job[j]
    <3>1. job[c] \in JobRows
      BY <1>1
    <3>2. PICK state, source : \/ job' = [job EXCEPT ![c].state = state, ![c].source = source]
                               \/ job' = [job EXCEPT ![c].state = state]
      BY <1>9 DEF Link
    <3> QED
      BY <1>1, <3>1, <3>2 DEF JobRows
  <2> QED
    BY <1>1, <2>1, <2>2 DEF WorkKept
<1>10. ASSUME UNCHANGED libraryVars PROVE WorkKept
  BY <1>3, <1>10 DEF libraryVars
<1> QED
  BY <1>4, <1>5, <1>6, <1>7, <1>8, <1>9, <1>10 DEF LibraryNext

\* No deletion takes anything from a job that still works: its parent, the job it repeats, and
\* the row and the file of the asset it animates stay as they are (delete_generation).
THEOREM DeletionSparesWork == LibrarySpec => WorkKeepsItsReferences
<1>1. LibraryInv /\ [LibraryNext]_libraryVars => [WorkKept]_libraryVars
  BY StepKeepsWork
<1>2. LibrarySpec => [][WorkKept]_libraryVars
  BY <1>1, LibraryInvariant, PTL DEF LibrarySpec
<1> QED
  BY <1>2 DEF WorkKept, WorkKeepsItsReferences

\* Whom a transaction waits for has a lock in conflict with one it asks for next.
LEMMA Waiting ==
  ASSUME NEW r \in Connections, NEW s \in WaitsFor(r)
  PROVE  /\ s \in Connections \ {r}
         /\ \E l, m : /\ m \in request[s].locks /\ Conflict(l, m)
                      /\ \/ request[r].pc = "source"
                         \/ request[r].pc = "assets"
                         \/ request[r].pc = "row" /\ l = <<"update", JobRow(request[r].job)>>
                         \/ request[r].pc = "insert" /\ l = <<"update", User>>
                         \/ request[r].pc \in {"insert", "detach"} /\ l \in request[r].todo
<1> DEFINE Met(l) == s \in Connections \ {r} /\ \E m \in request[s].locks : Conflict(l, m)
<1>1. CASE InStep(r, "source")
  <2>1. Met(<<"update", AssetRow(request[r].source)>>)
    BY <1>1 DEF WaitsFor, Blockers, InStep
  <2> QED
    BY <1>1, <2>1 DEF InStep
<1>2. CASE InStep(r, "assets")
  <2>1. Met(<<"update", AssetRow(request[r].job)>>)
    BY <1>2 DEF WaitsFor, Blockers, InStep
  <2> QED
    BY <1>2, <2>1 DEF InStep
<1>3. CASE InStep(r, "row")
  <2>1. Met(<<"update", JobRow(request[r].job)>>)
    BY <1>3 DEF WaitsFor, Blockers, InStep
  <2> QED
    BY <1>3, <2>1 DEF InStep
<1>4. CASE InStep(r, "insert") /\ request[r].todo = {}
  <2>1. Met(<<"update", User>>)
    BY <1>4 DEF WaitsFor, Blockers, InStep
  <2> QED
    BY <1>4, <2>1 DEF InStep
<1>5. CASE (InStep(r, "insert") /\ request[r].todo # {}) \/ InStep(r, "detach")
  <2>1. s \in UNION {Blockers(r, l) : l \in request[r].todo}
    BY <1>5 DEF WaitsFor, InStep
  <2>2. PICK l \in request[r].todo : s \in Blockers(r, l)
    BY <2>1
  <2>3. Met(l)
    BY <2>2 DEF Blockers
  <2> QED
    BY <1>5, <2>3 DEF InStep
<1>6. CASE ~(InStep(r, "source") \/ InStep(r, "assets") \/ InStep(r, "row") \/ InStep(r, "insert")
               \/ InStep(r, "detach"))
  BY <1>6 DEF WaitsFor
<1> QED
  BY <1>1, <1>2, <1>3, <1>4, <1>5, <1>6

\* A set that has with each member those it waits for keeps a transaction from waiting further.
LEMMA Unreached ==
  ASSUME NEW r \in Connections, NEW s, NEW T \in SUBSET Connections,
         WaitsFor(r) \subseteq T, \A t \in T : WaitsFor(t) \subseteq T, s \notin T
  PROVE  ~Awaits(r, s)
  BY DEF Awaits

\* Nobody waits for a transaction without locks, at whatever distance.
LEMMA NobodyWaits ==
  ASSUME NEW s \in Connections, request[s].locks = {}, NEW r \in Connections, r # s
  PROVE  ~Awaits(r, s)
<1> DEFINE T == Connections \ {s}
<1>1. \A t \in Connections : WaitsFor(t) \subseteq T
  BY Waiting
<1> QED
  BY <1>1, Unreached

\* A transaction that no lock stops awaits nobody.
LEMMA WaitsForNobody ==
  ASSUME NEW r \in Connections, WaitsFor(r) = {}, NEW s
  PROVE  ~Awaits(r, s)
  BY Unreached

\* Where an admission or a deletion is, by the locks it has.
LEMMA LockedBy ==
  ASSUME LibraryInv, NEW s \in Connections, NEW m \in request[s].locks
  PROVE  \/ /\ request[s].pc \in {"insert", "admit"}
            /\ m[1] = "share" \/ m = <<"update", AssetRow(request[s].source)>> \/ m = <<"update", User>>
         \/ request[s].pc = "row" /\ m = <<"update", AssetRow(request[s].job)>>
         \/ request[s].pc \in Holding
<1>1. Sound(request[s]) /\ request[s].pc \in Admissions \cup Deletions \cup {"idle"}
  BY DEF LibraryInv, LibraryTyped, Transactions
<1>2. /\ request[s].pc = "idle" => request[s].locks = {}
      /\ request[s].pc = "source" => request[s].locks = {}
      /\ request[s].pc = "assets" => request[s].locks = {}
      /\ request[s].pc = "row" => request[s].locks \subseteq {<<"update", AssetRow(request[s].job)>>}
  BY <1>1 DEF Sound, AdmissionLocks, DeletionLocks
<1>3. request[s].pc \in {"insert", "admit"} =>
        m[1] = "share" \/ m = <<"update", AssetRow(request[s].source)>> \/ m = <<"update", User>>
  BY <1>1 DEF Sound, AdmissionLocks
<1>4. request[s].pc \in {"idle", "source", "assets", "row", "insert", "admit"} \cup Holding
  BY <1>1 DEF Holding, Admissions, Deletions
<1> QED
  BY <1>2, <1>3, <1>4

\* What the flush of a deletion waits for are deletions too.
LEMMA FlushWaits ==
  ASSUME LibraryInv, NEW t \in Connections, request[t].pc = "detach", NEW s \in WaitsFor(t)
  PROVE  s \in Connections /\ request[s].pc \in Holding
<1>1. PICK l, m : s \in Connections \ {t} /\ m \in request[s].locks /\ Conflict(l, m) /\ l \in request[t].todo
  BY Waiting
<1>2. (\E j \in Jobs : l = <<"change", JobRow(j)>>) \/ l \in request[t].locks
  BY <1>1 DEF LibraryInv, Sound, DeletionLocks
<1>3. l \notin request[t].locks
  BY <1>1 DEF LibraryInv, Exclusive
<1>4. PICK j \in Jobs : l = <<"change", JobRow(j)>>
  BY <1>2, <1>3
<1>5. m[2] = JobRow(j) /\ m[1] # "share"
  BY <1>1, <1>4 DEF Conflict
<1>6. m # <<"update", User>> /\ \A k : m # <<"update", AssetRow(k)>>
  BY <1>5, RowsDiffer
<1> QED
  BY <1>1, <1>5, <1>6, LockedBy

\* Nobody who has locks waits for a deletion that has no more than its asset's.
LEMMA RowIsNotAwaited ==
  ASSUME LibraryInv, NEW t \in Connections, request[t].pc \notin {"source", "assets"},
         NEW d \in Connections, request[d].pc = "row"
  PROVE  d \notin WaitsFor(t)
<1> SUFFICES ASSUME d \in WaitsFor(t) PROVE FALSE
  OBVIOUS
<1> DEFINE p == request[d].job
           own == <<"update", AssetRow(p)>>
<1>1. PICK l, m : /\ d \in Connections \ {t} /\ m \in request[d].locks /\ Conflict(l, m)
                  /\ \/ request[t].pc = "row" /\ l = <<"update", JobRow(request[t].job)>>
                     \/ request[t].pc = "insert" /\ l = <<"update", User>>
                     \/ request[t].pc \in {"insert", "detach"} /\ l \in request[t].todo
  BY Waiting
<1>2. m = own
  BY <1>1 DEF LibraryInv, Sound, DeletionLocks
<1>3. l[2] = AssetRow(p)
  BY <1>1, <1>2 DEF Conflict
<1>4. l # <<"update", User>> /\ \A j, k : l # <<k, JobRow(j)>>
  BY <1>3, RowsDiffer
<1>5. CASE request[t].pc = "detach"
  <2>1. l \in request[t].locks
    BY <1>1, <1>4, <1>5 DEF LibraryInv, Sound, DeletionLocks
  <2> QED
    BY <1>1, <2>1 DEF LibraryInv, Exclusive
<1>6. CASE request[t].pc = "insert"
  <2>1. l \in KeyShares(request[t].parent, request[t].again, request[t].source)
    BY <1>1, <1>4, <1>6 DEF LibraryInv, Sound, AdmissionLocks, Admissions
  <2>2. request[t].source # NoJob /\ l = <<"share", AssetRow(request[t].source)>>
    BY <1>3, <1>4, <2>1, RowsDiffer DEF KeyShares
  <2>3. request[t].source = p /\ own \in request[t].locks
    BY <1>3, <1>6, <2>2, RowsDiffer, Standing
  <2> QED
    BY <1>1, <1>2, <2>3, Excluded DEF LibraryInv
<1> QED
  BY <1>1, <1>4, <1>5, <1>6

\* The order of locks: a deletion that has its job waits, if for anyone, for deletions only;
\* before that it has no lock an admission with locks could ask for.
LEMMA InLockOrder == LibraryInv => DeletionInLockOrder
<1> SUFFICES ASSUME LibraryInv, NEW a \in Connections, NEW d \in Connections,
                    request[a].pc \in Admissions, request[d].pc \in Deletions
             PROVE  ~(Awaits(a, d) /\ Awaits(d, a))
  BY DEF DeletionInLockOrder
<1>1. a # d
  BY DEF Admissions, Deletions
<1>2. \A s \in Connections : request[s].pc \in {"source", "assets"} => request[s].locks = {}
  BY DEF LibraryInv, Sound, AdmissionLocks, DeletionLocks
<1>3. CASE request[a].pc = "source"
  BY <1>1, <1>2, <1>3, NobodyWaits
<1>4. CASE request[d].pc = "assets"
  BY <1>1, <1>2, <1>4, NobodyWaits
<1>5. CASE request[a].pc = "admit"
  <2>1. WaitsFor(a) = {}
    BY <1>5, Waiting
  <2> QED
    BY <2>1, WaitsForNobody
<1>6. CASE request[d].pc \in {"check", "files"}
  <2>1. WaitsFor(d) = {}
    BY <1>6, Waiting
  <2> QED
    BY <2>1, WaitsForNobody
<1>7. CASE request[a].pc = "insert" /\ request[d].pc = "detach"
  <2> DEFINE T == {s \in Connections : request[s].pc \in Holding}
  <2>1. \A t \in T : WaitsFor(t) \subseteq T
    <3> SUFFICES ASSUME NEW t \in T, NEW s \in WaitsFor(t) PROVE s \in T
      OBVIOUS
    <3>1. request[t].pc = "detach"
      BY Waiting DEF Holding
    <3> QED
      BY <3>1, FlushWaits
  <2>2. d \in T /\ a \notin T
    BY <1>7 DEF Holding
  <2> QED
    BY <2>1, <2>2, Unreached
<1>8. CASE request[a].pc = "insert" /\ request[d].pc = "row"
  <2> DEFINE T == {s \in Connections \ {d} : request[s].pc \notin {"source", "assets"}}
  <2>1. ASSUME NEW t \in Connections, request[t].pc \notin {"source", "assets"}, NEW s \in WaitsFor(t)
        PROVE  s \in T
    <3>1. s \in Connections /\ request[s].locks # {}
      BY Waiting
    <3>2. s # d
      BY <1>8, <2>1, RowIsNotAwaited
    <3> QED
      BY <1>2, <3>1, <3>2
  <2>2. WaitsFor(a) \subseteq T /\ \A t \in T : WaitsFor(t) \subseteq T
    BY <1>8, <2>1
  <2> QED
    BY <2>2, Unreached
<1>9. /\ request[a].pc \in {"source", "insert", "admit"}
      /\ request[d].pc \in {"assets", "row", "check", "files", "detach"}
  BY DEF Admissions, Deletions
<1> QED
  BY <1>3, <1>4, <1>5, <1>6, <1>7, <1>8, <1>9

\* An admission and a deletion are never part of one circle of transactions that wait for each
\* other: both lock the asset before the job it belongs to (create_generation, delete_generation).
THEOREM NoDeadlockWithDeletion == LibrarySpec => []DeletionInLockOrder
  BY LibraryInvariant, InLockOrder, PTL

-----------------------------------------------------------------------------
(* The manual runner *)

HandlerStates == {"none", "new", "pending", "queued", "generating", "submitted", "polling"}

\* The handler has read the job and is on its way to the provider.
Early == {"pending", "queued", "generating"}

RunnerTyped ==
  /\ row \in [Work -> RowStates] /\ orphaned \subseteq Work
  /\ handler \in [Runners -> [Work -> HandlerStates]]
  /\ submitted \in [Work -> Nat]

\* Nobody works on a pending job.
PendingIsUntouched ==
  \A j \in Work : row[j] = "pending" => submitted[j] = 0 /\ \A r \in Runners : handler[r][j] = "none"

\* One process at most works on a job until the job is submitted.
OneBeforeSubmission ==
  \A j \in Work, r, q \in Runners :
    submitted[j] = 0 /\ handler[r][j] # "none" /\ handler[q][j] # "none" => r = q

\* Only what was submitted is polled for.
PollingWasSubmitted ==
  \A j \in Work : submitted[j] = 0 =>
    row[j] # "polling" /\ \A r \in Runners : handler[r][j] \notin {"submitted", "polling"}

\* Nobody is on the way to submit what was submitted, nor would be after reading its row.
NoneAfterSubmission ==
  \A j \in Work, r \in Runners : submitted[j] = 1 =>
    /\ handler[r][j] \notin Early
    /\ handler[r][j] = "new" => row[j] \notin Early

\* The inductive invariant.
RunnerInv ==
  /\ RunnerTyped /\ SubmittedOnce
  /\ PendingIsUntouched /\ OneBeforeSubmission /\ PollingWasSubmitted /\ NoneAfterSubmission

\* Nothing has happened at the start.
LEMMA RunnerBegins == RunnerInit => RunnerInv
  BY DEF RunnerInit, RunnerInv, RunnerTyped, RowStates, HandlerStates, SubmittedOnce, PendingIsUntouched,
     OneBeforeSubmission, PollingWasSubmitted, NoneAfterSubmission, Early

\* Every step preserves the invariant.
LEMMA RunnerKeeps == RunnerInv /\ [RunnerNext]_runnerVars => RunnerInv'
<1> SUFFICES ASSUME RunnerInv, [RunnerNext]_runnerVars PROVE RunnerInv'
  OBVIOUS
<1> USE DEF RunnerInv, RunnerTyped, RowStates, HandlerStates, Final, Early, SubmittedOnce, PendingIsUntouched,
        OneBeforeSubmission, PollingWasSubmitted, NoneAfterSubmission
<1>1. ASSUME NEW r \in Runners, Boot(r) \/ SkipStartup(r) PROVE RunnerInv'
  BY <1>1 DEF Boot, SkipStartup
<1>2. ASSUME NEW r \in Runners, Sweep(r) PROVE RunnerInv'
  BY <1>2 DEF Sweep, Swept
<1>3. ASSUME NEW r \in Runners, ResumePolling(r) PROVE RunnerInv'
  <2>1. PICK picked \in Picks(r, {j \in Work : row[j] = "polling"}) : handler' = Spawned(r, picked)
    BY <1>3 DEF ResumePolling
  <2>2. \A j \in picked : j \in Work /\ row[j] = "polling"
    BY DEF Picks
  <2>3. \A q \in Runners, j \in Work :
          handler'[q][j] = IF q = r /\ j \in picked THEN "new" ELSE handler[q][j]
    BY <2>1 DEF Spawned
  <2>4. handler' \in [Runners -> [Work -> HandlerStates]]
    BY <2>1 DEF Spawned
  <2> QED
    BY <1>3, <2>2, <2>3, <2>4 DEF ResumePolling
<1>4. ASSUME NEW r \in Runners, PollOnce(r) PROVE RunnerInv'
  <2>1. PICK picked \in Picks(r, {j \in Work : row[j] = "pending"}) :
          /\ row' = [j \in Work |-> IF j \in picked THEN "queued" ELSE row[j]]
          /\ orphaned' = orphaned \ picked
          /\ handler' = Spawned(r, picked)
    BY <1>4 DEF PollOnce
  <2>2. \A j \in picked : j \in Work /\ row[j] = "pending"
    BY DEF Picks
  <2>3. \A q \in Runners, j \in Work :
          handler'[q][j] = IF q = r /\ j \in picked THEN "new" ELSE handler[q][j]
    BY <2>1 DEF Spawned
  <2>4. handler' \in [Runners -> [Work -> HandlerStates]]
    BY <2>1 DEF Spawned
  <2>5. row' \in [Work -> RowStates] /\ submitted' = submitted
        /\ \A j \in Work : row'[j] = IF j \in picked THEN "queued" ELSE row[j]
    BY <1>4, <2>1 DEF PollOnce
  <2>6. PendingIsUntouched' /\ PollingWasSubmitted' /\ NoneAfterSubmission'
    BY <2>2, <2>3, <2>5
  <2>7. OneBeforeSubmission'
    BY <2>2, <2>3, <2>5
  <2> QED
    BY <2>1, <2>4, <2>5, <2>6, <2>7
<1>5. ASSUME NEW r \in Runners, Stop(r) PROVE RunnerInv'
  BY <1>5 DEF Stop
<1>6. ASSUME NEW r \in Runners, NEW j \in Work, ReadJob(r, j) PROVE RunnerInv'
  BY <1>6 DEF ReadJob, Continue
<1>7. ASSUME NEW r \in Runners, NEW j \in Work, Generating(r, j) PROVE RunnerInv'
  BY <1>7 DEF Generating, Continue, Write
<1>8. ASSUME NEW r \in Runners, NEW j \in Work, Submit(r, j) PROVE RunnerInv'
  <2>1. /\ \A q \in Runners, i \in Work :
             handler'[q][i] = IF q = r /\ i = j THEN "submitted" ELSE handler[q][i]
        /\ handler' \in [Runners -> [Work -> HandlerStates]]
    BY <1>8 DEF Submit, Continue
  <2>2. submitted[j] = 0 /\ handler[r][j] = "generating"
    BY <1>8 DEF Submit
  <2>3. /\ \A i \in Work : submitted'[i] = IF i = j THEN 1 ELSE submitted[i]
        /\ submitted' \in [Work -> Nat] /\ row' = row /\ orphaned' = orphaned
    BY <1>8, <2>2 DEF Submit
  <2>4. \A q \in Runners : q # r => handler[q][j] = "none"
    BY <2>2
  <2>5. SubmittedOnce' /\ PendingIsUntouched' /\ PollingWasSubmitted'
    BY <2>1, <2>2, <2>3, SMTT(30)
  <2>6. OneBeforeSubmission'
    BY <2>1, <2>3
  <2>7. ASSUME NEW i \in Work, NEW q \in Runners, submitted'[i] = 1
        PROVE  handler'[q][i] \notin Early /\ (handler'[q][i] = "new" => row'[i] \notin Early)
    <3>1. CASE i = j
      BY <2>1, <2>4, <3>1
    <3>2. CASE i # j
      BY <2>1, <2>3, <2>7, <3>2
    <3> QED
      BY <3>1, <3>2
  <2> QED
    BY <2>1, <2>3, <2>5, <2>6, <2>7
<1>9. ASSUME NEW r \in Runners, NEW j \in Work,
             SaveOperation(r, j) \/ DeliverResult(r, j) \/ HandlerFails(r, j)
      PROVE  RunnerInv'
  <2>1. PICK step \in {"polling", "none"} :
          /\ handler' = [handler EXCEPT ![r][j] = step] /\ handler[r][j] # "none"
          /\ step = "polling" => handler[r][j] = "submitted"
    BY <1>9 DEF SaveOperation, DeliverResult, HandlerFails, Continue
  <2>2. PICK state \in RowStates :
          /\ row' = [row EXCEPT ![j] = state] /\ orphaned' \subseteq orphaned
          /\ state = row[j] \/ state \in Final
               \/ (state = "polling" /\ handler[r][j] = "submitted")
    BY <1>9 DEF SaveOperation, DeliverResult, HandlerFails, Write
  <2>3. submitted' = submitted
    BY <1>9 DEF SaveOperation, DeliverResult, HandlerFails
  <2>4. \A q \in Runners, i \in Work : handler'[q][i] = IF q = r /\ i = j THEN step ELSE handler[q][i]
    BY <2>1
  <2>5. \A i \in Work : row'[i] = IF i = j THEN state ELSE row[i]
    BY <2>2
  <2>6. RunnerTyped' /\ SubmittedOnce'
    BY <2>1, <2>2, <2>3
  <2>7. PendingIsUntouched' /\ PollingWasSubmitted'
    BY <2>1, <2>2, <2>3, <2>4, <2>5
  <2>8. OneBeforeSubmission' /\ NoneAfterSubmission'
    BY <2>1, <2>2, <2>3, <2>4, <2>5
  <2> QED
    BY <2>6, <2>7, <2>8
<1>10. ASSUME NEW j \in Work, Ages5Minutes(j) PROVE RunnerInv'
  BY <1>10 DEF Ages5Minutes
<1>11. CASE UNCHANGED runnerVars
  BY <1>11 DEF runnerVars
<1> QED
  BY <1>1, <1>2, <1>3, <1>4, <1>5, <1>6, <1>7, <1>8, <1>9, <1>10, <1>11 DEF RunnerNext, HandlerStep

\* Whatever crashes, restarts and sweeps, no job is submitted to the provider twice.
THEOREM NothingSubmittedTwice == RunnerSpec => []SubmittedOnce
<1>1. RunnerSpec => []RunnerInv
  BY RunnerBegins, RunnerKeeps, PTL DEF RunnerSpec
<1> QED
  BY <1>1, PTL DEF RunnerInv

\* Where run_forever of a process is.
Phases == {"down", "sweep", "resume", "poll"}

\* A process has no more tasks than slots.
RunnerSized ==
  /\ runner \in [Runners -> Phases]
  /\ \A r \in Runners : Cardinality(ActiveTasks(r)) <= Concurrency

\* Tasks that start fit the slots that are free.
LEMMA PickedFit ==
  ASSUME NEW r \in Runners, Cardinality(ActiveTasks(r)) <= Concurrency,
         NEW jobs \in SUBSET Work, NEW picked \in Picks(r, jobs)
  PROVE  Cardinality(ActiveTasks(r) \cup picked) <= Concurrency
<1>1. IsFiniteSet(ActiveTasks(r)) /\ IsFiniteSet(picked)
  BY FS_Subset, RunnerAssumption DEF ActiveTasks, Picks
<1>2. Cardinality(ActiveTasks(r) \cup picked)
        = Cardinality(ActiveTasks(r)) + Cardinality(picked) - Cardinality(ActiveTasks(r) \cap picked)
  BY <1>1, FS_Union
<1>3. IsFiniteSet(ActiveTasks(r) \cap picked)
  BY <1>1, FS_Subset
<1>4. /\ Cardinality(ActiveTasks(r)) \in Nat /\ Cardinality(picked) \in Nat
      /\ Cardinality(ActiveTasks(r) \cap picked) \in Nat
  BY <1>1, <1>3, FS_CardinalityType
<1>5. Cardinality(picked) <= Concurrency - Cardinality(ActiveTasks(r))
  BY DEF Picks, Slots
<1> QED
  BY <1>2, <1>4, <1>5, RunnerAssumption

\* A process that starts no task keeps within its slots.
LEMMA FewerTasks ==
  ASSUME RunnerSized, NEW q \in Runners, ActiveTasks(q)' \subseteq ActiveTasks(q)
  PROVE  Cardinality(ActiveTasks(q)') <= Concurrency
<1>1. IsFiniteSet(ActiveTasks(q))
  BY FS_Subset, RunnerAssumption DEF ActiveTasks
<1>2. IsFiniteSet(ActiveTasks(q)') /\ Cardinality(ActiveTasks(q)') <= Cardinality(ActiveTasks(q))
  BY <1>1, FS_Subset
<1>3. Cardinality(ActiveTasks(q)) \in Nat /\ Cardinality(ActiveTasks(q)') \in Nat
  BY <1>1, <1>2, FS_CardinalityType
<1> QED
  BY <1>2, <1>3, RunnerAssumption DEF RunnerSized

\* Every step of the runner keeps each process within its slots.
LEMMA SizesKept == RunnerInv /\ RunnerSized /\ [RunnerNext]_runnerVars => RunnerSized'
<1> SUFFICES ASSUME RunnerInv, RunnerSized, [RunnerNext]_runnerVars PROVE RunnerSized'
  OBVIOUS
<1>1. handler \in [Runners -> [Work -> HandlerStates]] /\ runner \in [Runners -> Phases]
  BY DEF RunnerInv, RunnerTyped, RunnerSized
<1>2. ASSUME runner' \in [Runners -> Phases], \A q \in Runners : ActiveTasks(q)' \subseteq ActiveTasks(q)
      PROVE  RunnerSized'
  <2>1. \A q \in Runners : Cardinality(ActiveTasks(q)') <= Concurrency
    BY <1>2, FewerTasks
  <2> QED
    BY <1>2, <2>1 DEF RunnerSized
<1>3. ASSUME NEW r \in Runners, NEW jobs \in SUBSET Work, NEW picked \in Picks(r, jobs),
             handler' = Spawned(r, picked), runner' \in [Runners -> Phases]
      PROVE  RunnerSized'
  <2>1. ActiveTasks(r)' = ActiveTasks(r) \cup picked
    BY <1>1, <1>3 DEF ActiveTasks, Spawned, Picks
  <2>2. Cardinality(ActiveTasks(r)') <= Concurrency
    BY <1>3, <2>1, PickedFit DEF RunnerSized
  <2>3. \A q \in Runners \ {r} : ActiveTasks(q)' \subseteq ActiveTasks(q)
    BY <1>1, <1>3 DEF ActiveTasks, Spawned
  <2>4. \A q \in Runners \ {r} : Cardinality(ActiveTasks(q)') <= Concurrency
    BY <2>3, FewerTasks
  <2>5. \A q \in Runners : Cardinality(ActiveTasks(q)') <= Concurrency
    BY <2>2, <2>4
  <2> QED
    BY <1>3, <2>5 DEF RunnerSized
<1>4. ASSUME NEW r \in Runners, Boot(r) \/ Sweep(r) \/ SkipStartup(r) PROVE RunnerSized'
  <2>1. runner' \in [Runners -> Phases]
    BY <1>1, <1>4 DEF Boot, Sweep, SkipStartup, Phases
  <2>2. handler' = handler
    BY <1>4 DEF Boot, Sweep, SkipStartup
  <2> QED
    BY <1>2, <2>1, <2>2 DEF ActiveTasks
<1>5. ASSUME NEW r \in Runners, ResumePolling(r) PROVE RunnerSized'
  <2>1. runner' \in [Runners -> Phases]
    BY <1>1, <1>5 DEF ResumePolling, Phases
  <2>2. PICK picked \in Picks(r, {j \in Work : row[j] = "polling"}) : handler' = Spawned(r, picked)
    BY <1>5 DEF ResumePolling
  <2> QED
    BY <1>3, <2>1, <2>2
<1>6. ASSUME NEW r \in Runners, PollOnce(r) PROVE RunnerSized'
  <2>1. runner' \in [Runners -> Phases]
    BY <1>1, <1>6 DEF PollOnce
  <2>2. PICK picked \in Picks(r, {j \in Work : row[j] = "pending"}) : handler' = Spawned(r, picked)
    BY <1>6 DEF PollOnce
  <2> QED
    BY <1>3, <2>1, <2>2
<1>7. ASSUME NEW r \in Runners, Stop(r) PROVE RunnerSized'
  <2>1. runner' \in [Runners -> Phases]
    BY <1>1, <1>7 DEF Stop, Phases
  <2>2. \A q \in Runners : ActiveTasks(q)' \subseteq ActiveTasks(q)
    BY <1>1, <1>7 DEF Stop, ActiveTasks
  <2> QED
    BY <1>2, <2>1, <2>2
<1>8. ASSUME NEW r \in Runners, NEW j \in Work, HandlerStep(r, j) PROVE RunnerSized'
  <2>1. PICK step : handler' = [handler EXCEPT ![r][j] = step]
    BY <1>8 DEF HandlerStep, ReadJob, Generating, Submit, SaveOperation, DeliverResult, HandlerFails, Continue
  <2>2. handler[r][j] # "none" /\ runner' = runner
    BY <1>8 DEF HandlerStep, ReadJob, Generating, Submit, SaveOperation, DeliverResult, HandlerFails
  <2>3. \A q \in Runners : ActiveTasks(q)' \subseteq ActiveTasks(q)
    BY <1>1, <2>1, <2>2 DEF ActiveTasks
  <2> QED
    BY <1>1, <1>2, <2>2, <2>3
<1>9. ASSUME NEW j \in Work, Ages5Minutes(j) PROVE RunnerSized'
  BY <1>1, <1>2, <1>9 DEF Ages5Minutes, ActiveTasks
<1>10. ASSUME UNCHANGED runnerVars PROVE RunnerSized'
  BY <1>1, <1>2, <1>10 DEF runnerVars, ActiveTasks
<1> QED
  BY <1>4, <1>5, <1>6, <1>7, <1>8, <1>9, <1>10 DEF RunnerNext

-----------------------------------------------------------------------------
(* The subjects side by side *)

\* The inductive invariants of the library and of the manual runner.
RequestsInv == LibraryInv /\ RunnerInv /\ RunnerSized

\* Both invariants hold at the start.
LEMMA RequestsBegin == RequestsInit => RequestsInv
<1> SUFFICES ASSUME RequestsInit PROVE RequestsInv
  OBVIOUS
<1>1. LibraryInv /\ RunnerInv
  BY LibraryBegins, RunnerBegins DEF RequestsInit
<1>2. runner \in [Runners -> Phases] /\ \A r \in Runners : ActiveTasks(r) = {}
  BY DEF RequestsInit, RunnerInit, Phases, ActiveTasks
<1>3. RunnerSized
  BY <1>2, FS_EmptySet, RunnerAssumption DEF RunnerSized
<1> QED
  BY <1>1, <1>3 DEF RequestsInv

\* A step of one subject leaves the others alone.
LEMMA RequestsKeep == RequestsInv /\ [RequestsNext]_requestsVars => RequestsInv'
<1> SUFFICES ASSUME RequestsInv, [RequestsNext]_requestsVars PROVE RequestsInv'
  OBVIOUS
<1>1. [LibraryNext]_libraryVars /\ [RunnerNext]_runnerVars
  BY DEF RequestsNext, requestsVars
<1> QED
  BY <1>1, LibraryKeeps, RunnerKeeps, SizesKept DEF RequestsInv

\* Whatever users ask for at the same time, the library and the manual runner stay within their
\* types, and no process of the runner has more tasks than slots (poll_once, resume_polling_jobs).
THEOREM RequestsWellTyped == RequestsOfUsers => []RequestsTypeOK
<1>1. RequestsInv => RequestsTypeOK
  <2> SUFFICES ASSUME RequestsInv PROVE LibraryTypeOK /\ RunnerTypeOK
    BY DEF RequestsTypeOK
  <2>1. LibraryTypeOK
    BY DEF RequestsInv, LibraryInv, LibraryTyped, JobRows, Transactions, LibraryTypeOK
  <2>2. RunnerTypeOK
    BY DEF RequestsInv, RunnerInv, RunnerTyped, RunnerSized, HandlerStates, Phases, RunnerTypeOK
  <2> QED
    BY <2>1, <2>2
<1> QED
  BY <1>1, RequestsBegin, RequestsKeep, PTL DEF RequestsOfUsers

=============================================================================

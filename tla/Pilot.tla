--------------------------------- MODULE Pilot ---------------------------------
(***************************************************************************)
(* A run of the paired evaluation, real (Vertex) or mock, under one run id: *)
(* the generator that enhances and generates case by case and checkpoints  *)
(* what it did, the ledger that guards the billable requests of a real     *)
(* run, scoring, the summary and the decision.  The commands are given one *)
(* after the other; each may crash anywhere and be given again.            *)
(***************************************************************************)
EXTENDS Integers, Sequences, FiniteSets

CONSTANTS
  Cases,           \* enabled cases of the benchmark
  EnhancementCost, \* the most an enhancement can cost, with its repairs and retries
  ImageCost,       \* the most the images of one arm can cost, with retries
  StopAt,          \* budget.stop_at_usd
  Margin,          \* tifa_noninferiority_margin, in some unit of scores
  Deltas,          \* differences between the arms' scores, in that unit
  MaxRepeats       \* bound on the requests that are sent again; a mock run may

ASSUME PilotAssumption ==
  /\ Cases \in Nat \ {0}
  /\ EnhancementCost \in Nat /\ ImageCost \in Nat /\ StopAt \in Nat
  /\ Margin \in Nat /\ Deltas \subseteq Int

VARIABLES
  manifest,   \* manifest.json: provider mode, lifecycle and the checkpoint of every step
  directory,  \* the directory of the run has files
  ledger,     \* pilot_usage.json: per step of a real run, what became of its request
  cleanup,    \* cleanup.json: arms whose job is recorded as deleted
  backend,    \* per arm: the job it got
  sent,       \* per step: requests the backend has worked on
  pilot,      \* the generator: where it is, and its options
  scores,     \* scores.jsonl: arms that are scored
  decision    \* the recommendation in pilot_decision.json, if any

pilotVars == <<manifest, directory, ledger, cleanup, backend, sent, pilot, scores, decision>>

-----------------------------------------------------------------------------
(* Steps, in the order of the generator *)

Kinds == {"enhance", "raw", "enhanced"}
PilotSteps == Kinds \X (1 .. Cases)
Arms == {s \in PilotSteps : s[1] # "enhance"}

\* The arm that comes first alternates from case to case.
OrderOf(c) == IF c % 2 = 1 THEN <<"enhance", "raw", "enhanced">> ELSE <<"enhance", "enhanced", "raw">>

Plan == [i \in 1 .. 3 * Cases |-> LET c == 1 + ((i - 1) \div 3) IN <<OrderOf(c)[1 + ((i - 1) % 3)], c>>]

\* One lifecycle, "generating", for those that only say which step comes next.
Lifecycles == {"absent", "generating", "scoring", "summarizing", "completed", "failed"}

NoRun == [mode |-> "mock", lifecycle |-> "absent", at |-> [s \in PilotSteps |-> "planned"]]

PilotInit ==
  /\ manifest = NoRun
  /\ directory = FALSE
  /\ ledger = [s \in PilotSteps |-> "none"]
  /\ cleanup = {}
  /\ backend = [a \in Arms |-> "none"]
  /\ sent = [s \in PilotSteps |-> 0]
  /\ pilot = [pc |-> "idle", mode |-> "mock", keep |-> FALSE]
  /\ scores = {}
  /\ decision = "none"

PilotAt(pc) == pilot.pc = pc
Go(pc) == pilot' = [pilot EXCEPT !.pc = pc]

Real == pilot.mode = "vertex"

\* An arm is left when its job is kept or deleted as the options say, and recorded so.
Settled(s) == manifest.at[s] = "completed" /\ (s \in Arms => (s \in cleanup <=> ~pilot.keep))

Finished == \A s \in PilotSteps : Settled(s)

\* The step at which a generator that resumes goes on.
IsNext(s) ==
  \E i \in 1 .. Len(Plan) : s = Plan[i] /\ ~Settled(s) /\ \A k \in 1 .. i - 1 : Settled(Plan[k])

Checkpoint(s, status) == manifest' = [manifest EXCEPT !.at[s] = status]

-----------------------------------------------------------------------------
(* Start and end of the generator *)

Price(s) == IF s \in Arms THEN ImageCost ELSE EnhancementCost

Committed(steps) ==
  Cardinality(steps \cap Arms) * ImageCost + Cardinality(steps \ Arms) * EnhancementCost

\* The preflight of a plan: one request per step, and their envelope is below the stop.
Approvable == Committed(PilotSteps) <= StopAt

\* A real run needs an approved plan.
Launch(mode, keep) ==
  /\ PilotAt("idle")
  /\ mode = "vertex" => Approvable
  /\ pilot' = [pc |-> "load", mode |-> mode, keep |-> keep]
  /\ UNCHANGED <<manifest, directory, ledger, cleanup, backend, sent, scores, decision>>

\* What an error leaves: a real run is closed, whatever was in its manifest.
Closed == IF Real /\ manifest.lifecycle # "absent" THEN [manifest EXCEPT !.lifecycle = "failed"] ELSE manifest

Abort ==
  /\ Go("idle")
  /\ manifest' = Closed /\ directory' = (directory \/ Real)

\* The backend is not healthy, the manifest is not this run's or not open, or the directory
\* has files and no manifest.
CanLoad ==
  /\ manifest.lifecycle = "absent" => ~directory
  /\ manifest.lifecycle # "absent" => manifest.mode = pilot.mode
  /\ manifest.lifecycle \notin {"failed", "summarizing"}

LoadFails ==
  /\ PilotAt("load") /\ Abort
  /\ UNCHANGED <<ledger, cleanup, backend, sent, scores, decision>>

\* A completed run is only verified.
LoadManifest ==
  /\ PilotAt("load") /\ CanLoad
  /\ directory' = TRUE
  /\ Go(CASE manifest.lifecycle = "absent" -> "create"
          [] manifest.lifecycle = "completed" -> "idle"
          [] OTHER -> "work")
  /\ UNCHANGED <<manifest, ledger, cleanup, backend, sent, scores, decision>>

CreateManifest ==
  /\ PilotAt("create") /\ Go("work")
  /\ manifest' = [NoRun EXCEPT !.mode = pilot.mode, !.lifecycle = "generating"]
  /\ UNCHANGED <<directory, ledger, cleanup, backend, sent, scores, decision>>

\* A crash, an interrupt, or an error that is not the runner's own.
PilotCrash ==
  /\ ~PilotAt("idle") /\ Go("idle")
  /\ UNCHANGED <<manifest, directory, ledger, cleanup, backend, sent, scores, decision>>

-----------------------------------------------------------------------------
(* Requests *)

\* Mutant: a step that is in the ledger is asked again after a restart.
MayReserveAgain(s) == Committed({t \in PilotSteps : ledger[t] # "none"} \cup {s}) <= StopAt

\* One request per step, ever, and within the budget.
MayReserve(s) ==
  /\ ledger[s] = "none"
  /\ Committed({t \in PilotSteps : ledger[t] # "none"} \cup {s}) <= StopAt

\* The ledger has the request before it is sent.
Reserve(s) ==
  /\ PilotAt("work") /\ IsNext(s) /\ manifest.at[s] = "planned"
  /\ IF Real /\ ~MayReserve(s)
     THEN Abort /\ UNCHANGED ledger
     ELSE /\ Go("post")
          /\ ledger' = IF Real THEN [ledger EXCEPT ![s] = "reserved"] ELSE ledger
          /\ manifest' = [manifest EXCEPT !.lifecycle = "generating"]
          /\ UNCHANGED directory
  /\ UNCHANGED <<cleanup, backend, sent, scores, decision>>

Received(s) ==
  /\ sent[s] > 0 => Cardinality({t \in PilotSteps : sent[t] > 1}) < MaxRepeats
  /\ sent' = [sent EXCEPT ![s] = @ + 1]
  /\ backend' = IF s \in Arms THEN [backend EXCEPT ![s] = "running"] ELSE backend

\* The answer comes, and the ledger has it before the manifest.
PostAnswered(s) ==
  /\ PilotAt("post") /\ IsNext(s) /\ Received(s)
  /\ Go("record")
  /\ ledger' = IF Real THEN [ledger EXCEPT ![s] = "succeeded"] ELSE ledger
  /\ UNCHANGED <<manifest, directory, cleanup, scores, decision>>

\* An error or a timeout: the backend may have worked on the request or not.
PostFails(s) ==
  /\ PilotAt("post") /\ IsNext(s)
  /\ Received(s) \/ UNCHANGED <<sent, backend>>
  /\ ledger' = IF Real THEN [ledger EXCEPT ![s] = "failed"] ELSE ledger
  /\ Abort
  /\ UNCHANGED <<cleanup, scores, decision>>

\* The process dies with the request under way.
PostCrash(s) ==
  /\ PilotAt("post") /\ IsNext(s) /\ Received(s)
  /\ Go("idle")
  /\ UNCHANGED <<manifest, directory, ledger, cleanup, scores, decision>>

Record(s) ==
  /\ PilotAt("record") /\ IsNext(s)
  /\ Checkpoint(s, IF s \in Arms THEN "submitted" ELSE "completed")
  /\ Go("work")
  /\ UNCHANGED <<directory, ledger, cleanup, backend, sent, scores, decision>>

\* The answer is not what was asked for.
AnswerMismatch(s) ==
  /\ PilotAt("record") /\ IsNext(s) /\ Abort
  /\ UNCHANGED <<ledger, cleanup, backend, sent, scores, decision>>

-----------------------------------------------------------------------------
(* Jobs *)

BackendEnds(a) ==
  /\ backend[a] = "running"
  /\ \E end \in {"completed", "failed"} : backend' = [backend EXCEPT ![a] = end]
  /\ UNCHANGED <<manifest, directory, ledger, cleanup, sent, pilot, scores, decision>>

\* The images are stored before the arm is complete.
Collect(a) ==
  /\ PilotAt("work") /\ IsNext(a)
  /\ manifest.at[a] = "submitted" /\ backend[a] = "completed"
  /\ Checkpoint(a, "completed")
  /\ UNCHANGED <<directory, ledger, cleanup, backend, sent, pilot, scores, decision>>

\* A failed job closes the run, its job is deleted unless the deletion fails as well.
JobFailed(a) ==
  /\ PilotAt("work") /\ IsNext(a)
  /\ manifest.at[a] = "submitted" /\ backend[a] = "failed"
  /\ manifest' = [manifest EXCEPT !.lifecycle = "failed", !.at[a] = "failed"]
  /\ \/ ~pilot.keep /\ cleanup' = cleanup \cup {a} /\ backend' = [backend EXCEPT ![a] = "deleted"]
     \/ UNCHANGED <<cleanup, backend>>
  /\ Go("idle")
  /\ UNCHANGED <<directory, ledger, sent, scores, decision>>

\* The poll times out, a request fails, the assets are not as described.
PollFails(a) ==
  /\ PilotAt("work") /\ IsNext(a) /\ manifest.at[a] \in {"submitted", "completed"} /\ Abort
  /\ UNCHANGED <<ledger, cleanup, backend, sent, scores, decision>>

\* A job that is gone already counts as deleted.
DeleteJob(a) ==
  /\ PilotAt("work") /\ IsNext(a) /\ manifest.at[a] = "completed" /\ ~pilot.keep
  /\ backend' = [backend EXCEPT ![a] = "deleted"]
  /\ Go("deleted")
  /\ UNCHANGED <<manifest, directory, ledger, cleanup, sent, scores, decision>>

\* With --keep-artifacts a completed arm is recorded as retained, even if it was deleted.
RecordCleanup(a) ==
  /\ IsNext(a) /\ manifest.at[a] = "completed"
  /\ PilotAt("deleted") \/ (PilotAt("work") /\ pilot.keep)
  /\ cleanup' = IF pilot.keep THEN cleanup \ {a} ELSE cleanup \cup {a}
  /\ Go("work")
  /\ UNCHANGED <<manifest, directory, ledger, backend, sent, scores, decision>>

WritePairs ==
  /\ PilotAt("work") /\ Finished
  /\ manifest' = [manifest EXCEPT !.lifecycle = "scoring"]
  /\ Go("idle")
  /\ UNCHANGED <<directory, ledger, cleanup, backend, sent, scores, decision>>

-----------------------------------------------------------------------------
(* Scores, summary and decision: nothing else runs *)

Downstream(mode, lifecycle) ==
  PilotAt("idle") /\ manifest.mode = mode /\ manifest.lifecycle = lifecycle

\* The real adapters score image by image; what is scored is not scored again.
ScoreArm(a) ==
  /\ Downstream("vertex", "scoring") /\ a \notin scores
  /\ scores' = scores \cup {a}
  /\ UNCHANGED <<manifest, directory, ledger, cleanup, backend, sent, pilot, decision>>

\* All scores of a mock run are written at once, before the manifest.
ScoreMock ==
  /\ Downstream("mock", "scoring") /\ scores # Arms
  /\ scores' = Arms
  /\ UNCHANGED <<manifest, directory, ledger, cleanup, backend, sent, pilot, decision>>

CloseScoring ==
  /\ \E mode \in {"mock", "vertex"} : Downstream(mode, "scoring")
  /\ scores = Arms
  /\ manifest' = [manifest EXCEPT !.lifecycle = "summarizing"]
  /\ UNCHANGED <<directory, ledger, cleanup, backend, sent, pilot, scores, decision>>

Summarize ==
  /\ \E mode \in {"mock", "vertex"} : Downstream(mode, "summarizing")
  /\ manifest' = [manifest EXCEPT !.lifecycle = "completed"]
  /\ UNCHANGED <<directory, ledger, cleanup, backend, sent, pilot, scores, decision>>

Metrics == {"vqa", "reward", "tifa"}

\* Per metric, the mean difference between the arms and its interval.
Reports ==
  [Metrics -> {figure \in [mean : Deltas, low : Deltas, high : Deltas] : figure.low <= figure.high}]

\* Cases without a result on both sides, or without all their scores.
Missing == {c \in 1 .. Cases : \E a \in Arms : a[2] = c /\ (manifest.at[a] # "completed" \/ a \notin scores)}

\* A better score, surely for one metric; none surely worse; TIFA surely not inferior.
Proceeds(report) ==
  /\ report["vqa"].mean > 0 /\ report["reward"].mean > 0
  /\ report["vqa"].low > 0 \/ report["reward"].low > 0
  /\ report["vqa"].high >= 0 /\ report["reward"].high >= 0
  /\ report["tifa"].low >= -Margin

Stops(report) ==
  \/ report["vqa"].high < 0 /\ report["reward"].high < 0
  \/ report["tifa"].high < -Margin

Recommendation(report) ==
  IF Missing = {} /\ Proceeds(report) THEN "proceed" ELSE IF Stops(report) THEN "stop" ELSE "revise"

\* Every request is in the ledger, and every one succeeded.
UsageComplete == \A s \in PilotSteps : ledger[s] = "succeeded"

\* The report follows from the scores and a fixed seed: a decision that was recorded is only
\* verified when it is asked for again.
Finalize ==
  /\ Downstream("vertex", "completed") /\ UsageComplete
  /\ decision = "none"
  /\ \E report \in Reports : decision' = Recommendation(report)
  /\ UNCHANGED <<manifest, directory, ledger, cleanup, backend, sent, pilot, scores>>

-----------------------------------------------------------------------------

StepOf(s) ==
  \/ Reserve(s) \/ PostAnswered(s) \/ PostFails(s) \/ PostCrash(s) \/ Record(s) \/ AnswerMismatch(s)

ArmStep(a) ==
  \/ BackendEnds(a) \/ Collect(a) \/ JobFailed(a) \/ PollFails(a)
  \/ DeleteJob(a) \/ RecordCleanup(a) \/ ScoreArm(a)

PilotNext ==
  \/ \E mode \in {"mock", "vertex"}, keep \in BOOLEAN : Launch(mode, keep)
  \/ LoadFails \/ LoadManifest \/ CreateManifest \/ PilotCrash
  \/ \E s \in PilotSteps : StepOf(s)
  \/ \E a \in Arms : ArmStep(a)
  \/ WritePairs \/ ScoreMock \/ CloseScoring \/ Summarize \/ Finalize

PilotSpec == PilotInit /\ [][PilotNext]_pilotVars

-----------------------------------------------------------------------------
(* Properties *)

\* The artifacts and the generator stay within their types.
PilotTypeOK ==
  /\ manifest \in [mode : {"mock", "vertex"}, lifecycle : Lifecycles,
                   at : [PilotSteps -> {"planned", "submitted", "completed", "failed"}]]
  /\ directory \in BOOLEAN
  /\ ledger \in [PilotSteps -> {"none", "reserved", "succeeded", "failed"}]
  /\ cleanup \subseteq Arms /\ scores \subseteq Arms
  /\ decision \in {"none", "proceed", "stop", "revise"}
  /\ backend \in [Arms -> {"none", "running", "completed", "failed", "deleted"}]
  /\ sent \in [PilotSteps -> Nat]
  /\ pilot \in [pc : {"idle", "load", "create", "work", "post", "record", "deleted"},
                mode : {"mock", "vertex"}, keep : BOOLEAN]

\* Wherever the commands crash and however often they are given again: a real run asks the
\* provider once per step at most and spends no more than was approved; a decision rests on
\* exactly one request per step and on arms that are all complete and scored; and no job is
\* deleted before its result, or its failure, is in the manifest.
PilotIsAccountable ==
  /\ manifest.mode = "vertex" =>
       /\ \A s \in PilotSteps : sent[s] <= 1
       /\ Committed({s \in PilotSteps : sent[s] > 0}) <= StopAt
  /\ decision # "none" =>
       /\ \A s \in PilotSteps : sent[s] = 1 /\ manifest.at[s] = "completed"
       /\ scores = Arms
  /\ \A a \in Arms : backend[a] = "deleted" => manifest.at[a] \in {"completed", "failed"}

=============================================================================

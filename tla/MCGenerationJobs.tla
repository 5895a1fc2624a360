-------------------------- MODULE MCGenerationJobs --------------------------
(* Small instances of GenerationJobs for TLC: which jobs exist is chosen by
   Jobs, how often things go wrong by one of the budgets below. *)
EXTENDS GenerationJobs, TLC

CONSTANTS image, video, video2, parent, child, animation, w1, w2

MCKind ==
  [j \in Jobs |-> CASE j = image -> "t2i" [] j \in {video, video2} -> "t2v" [] j = parent -> "parent"
                    [] j = child -> "child" [] j = animation -> "i2v"]
MCParent == [j \in Jobs |-> IF j \in {child, animation} THEN parent ELSE None]

\* None of the disturbances but those of f.
Only(f) == [d \in Disturbances |-> IF d \in DOMAIN f THEN f[d] ELSE 0]

Chaos == Only([workerCrash |-> 1, dispatcherCrash |-> 1, brokerLoss |-> 1, refuse |-> 1,
               repair |-> 1, providerFailure |-> 1, creditRefusal |-> 1, suspend |-> 1])
OneMessage == Only([workerCrash |-> 1, refuse |-> 2, providerFailure |-> 1,
                    creditRefusal |-> 1, suspend |-> 1])
Crashes == Only([workerCrash |-> 2, dispatcherCrash |-> 1, refuse |-> 2, repair |-> 1,
                 creditRefusal |-> 1])
DispatcherDies == Only([dispatcherCrash |-> 1])
FailuresOnly == Only([refuse |-> 1, providerFailure |-> 2])
Suspended == Only([suspend |-> 1])
NoFault == Only([d \in {} |-> 0])

WorkerSymmetry == Permutations(Workers)

=============================================================================

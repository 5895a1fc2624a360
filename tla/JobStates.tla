------------------------------ MODULE JobStates ------------------------------
(***************************************************************************)
(* The states of a generation job and the moves between them that          *)
(* transition() accepts.  transition() looks at the job object in memory:  *)
(* nothing compares it with the row when the session writes it back.       *)
(***************************************************************************)

JobState == {"pending", "enhancing", "queued", "generating", "polling",
             "downloading", "completed", "failed", "cancelled"}

Terminal == {"completed", "failed", "cancelled"}

Active == JobState \ Terminal

AllowedTransitions ==
  [s \in JobState |->
     CASE s = "pending"     -> {"enhancing", "queued", "failed", "cancelled"}
       [] s = "enhancing"   -> {"queued", "failed", "cancelled"}
       [] s = "queued"      -> {"generating", "failed", "cancelled"}
       [] s = "generating"  -> {"polling", "downloading", "failed", "cancelled"}
       [] s = "polling"     -> {"polling", "downloading", "failed", "cancelled"}
       [] s = "downloading" -> {"completed", "failed", "cancelled"}
       [] OTHER             -> {}]

CanTransition(current, target) == target \in AllowedTransitions[current]

=============================================================================

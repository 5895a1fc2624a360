----------------------------- MODULE MCRequests -----------------------------
(***************************************************************************)
(* What users ask for at the same time: enhancements (PromptCredit, as in  *)
(* MCPromptCredit), animations, retries and deletions (Library), and jobs  *)
(* for the manual runner (Runner).  The three share no state: a behaviour  *)
(* is about one subject, and the others keep their initial states.         *)
(***************************************************************************)
EXTENDS MCPromptCredit, Library, Runner

VARIABLE subject

requestsVars == <<subject, vars, libraryVars, runnerVars>>

RequestsInit == subject \in {"prompts", "library", "runner"} /\ Init /\ LibraryInit /\ RunnerInit

RequestsNext ==
  /\ subject' = subject
  /\ \/ subject = "prompts" /\ Next /\ UNCHANGED <<libraryVars, runnerVars>>
     \/ subject = "library" /\ LibraryNext /\ UNCHANGED <<vars, runnerVars>>
     \/ subject = "runner" /\ RunnerNext /\ UNCHANGED <<vars, libraryVars>>

RequestsOfUsers == RequestsInit /\ [][RequestsNext]_requestsVars

RequestsTypeOK == LibraryTypeOK /\ RunnerTypeOK

=============================================================================

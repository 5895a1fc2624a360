----------------------------- MODULE MCServices -----------------------------
(***************************************************************************)
(* Small instances, for TLC, of the components that share no state with    *)
(* each other.  A behaviour is about one subject, chosen at its beginning; *)
(* the others keep their initial states, and only the provider's promises  *)
(* need fairness.                                                          *)
(***************************************************************************)
EXTENDS Provider, Enhancer, SchemaControl, Pilot

CONSTANT Subjects
VARIABLE subject

servicesVars == <<subject, providerVars, enhancerVars, schemaVars, pilotVars>>

ServicesInit == subject \in Subjects /\ ProviderInit /\ EnhancerInit /\ SchemaInit /\ PilotInit

\* The steps of one subject.
Of(name) ==
  /\ subject = name /\ subject' = subject
  /\ IF name = "provider" THEN ProviderNext ELSE UNCHANGED providerVars
  /\ IF name = "enhancer" THEN EnhancerNext ELSE UNCHANGED enhancerVars
  /\ IF name = "schema" THEN SchemaNext ELSE UNCHANGED schemaVars
  /\ IF name = "pilot" THEN PilotNext ELSE UNCHANGED pilotVars

ServicesNext == \E name \in Subjects : Of(name)

\* A loop runs each task that is ready, whatever the others do; a request to the provider
\* returns or raises; and time passes: no more than finitely much is done in an instant.
\* Jobs need not come.
ProviderFairness ==
  /\ \A c \in Callers : WF_providerVars(subject = "provider" /\ JobStep(c))
  /\ SF_providerVars(subject = "provider" /\ ProviderTick)

Services == ServicesInit /\ [][ServicesNext]_servicesVars /\ ProviderFairness

\* Below the margin, at zero and above: what the rules tell apart.
PilotDeltas == {-2, 0, 1}

ServicesTypeOK == ProviderTypeOK /\ EnhancerTypeOK /\ SchemaTypeOK /\ PilotTypeOK
=============================================================================

----------------------------- MODULE MCAiPhases ------------------------------
(* A small instance of AiPhases: two workers, three impacts, two findings.  *)
EXTENDS AiPhases

T(a, c) == [action |-> a, conflict |-> c]

\* Outputs of the pipeline: one in which the cap of three calls is reached while
\* impacts are still waiting, one in which it is reached by the falsifiers.
MCTraced ==
  { << T("EDITORIAL_REVIEW", FALSE), T("GROUNDED_PATCH", FALSE),
       T("GROUNDED_PATCH", TRUE) >>,
    << T("DETERMINISTIC_REGEN", FALSE), T("EDITORIAL_REVIEW", FALSE),
       T("UNRESOLVED_CONFLICT", FALSE) >>,
    << T("GROUNDED_PATCH", FALSE), T("EDITORIAL_REVIEW", FALSE),
       T("GROUNDED_PATCH", FALSE) >> }
==============================================================================

----------------------------- MODULE MCLiveRuns ------------------------------
(* Small instances of LiveRuns: two requests, one redelivery.   *)
EXTENDS LiveRuns
==============================================================================

----------------------------- MODULE MCPublish -------------------------------
(* A small instance of Publish: two runs and a few faults.                   *)
EXTENDS Publish
==============================================================================

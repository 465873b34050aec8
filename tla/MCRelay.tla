-------------------------------- MODULE MCRelay --------------------------------
(* The instance of Relay that TLC checks: requests are interchangeable. *)
EXTENDS Relay, TLC

Symmetry == Permutations(Reqs)

(* Any two requests, or three that do without the model and the chats, or  *)
(* a turn and two of those.                                                *)
Workspace == {"archive", "upload", "deleteFile", "createSession",
              "deleteSession", "deleteProject", "deleteArtifact"}

MCCrowd(where, ops) ==
    LET In(routes) == {r \in DOMAIN ops : ops[r] \in routes} IN
    \/ Cardinality(DOMAIN ops) <= 2
    \/ /\ where = "whole" /\ In(Workspace \cup {"turn"}) = DOMAIN ops
       /\ Cardinality(In({"turn"})) <= 1
===============================================================================

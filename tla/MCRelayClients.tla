----------------------------- MODULE MCRelayClients -----------------------------
(***************************************************************************)
(* One project of the seed; two of visitor 1, each with a file, a session  *)
(* on it and an artifact of that session; two conversations.               *)
(***************************************************************************)
EXTENDS RelayClients, TLC

MCProject(owner, name) == [Row EXCEPT !.owner = owner, !.name = name]
MCIn(kind, p, on)      == [Row EXCEPT !.kind = kind, !.project = p, !.on = on]
MCThread(p)            == [Row EXCEPT !.kind = "conversation", !.owner = 1, !.project = p,
                                      !.name = 1]

MCRows == <<MCProject(Seed, 1), MCProject(1, 1), MCProject(1, 2),
            MCIn("file", 2, None), MCIn("file", 3, None),
            MCIn("session", 2, 4), MCIn("session", 3, 5),
            MCIn("artifact", 2, 6), MCIn("artifact", 3, 7),
            MCThread(2), MCThread(None)>>

\* The screens that lead to each other, and each one on its own.
MCTours == {{"session"}, {"artifact"}, {"chat"}, {"terminal"}, {"settings"},
            {"projects"}, {"project"}, {"analysis", "session"}, {"artifacts", "artifact"}}

MCTyped == {"createProject", "uploadFile"}

\* Three commands that make rows, the three that delete some, and one that reads.
MCInvoked == {"createProject", "uploadFile", "postTurn", "health"} \cup Deletes

Alike == Permutations(Procs)
=================================================================================

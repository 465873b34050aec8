------------------------------ MODULE RelayClients ------------------------------
(***************************************************************************)
(* The clients of the Relay worker, command line and browser, against one  *)
(* worker.  They hold different cookies and never see each other's rows,   *)
(* so a behaviour is about one of them (a bound).                          *)
(***************************************************************************)
EXTENDS RelayCli, RelayWeb

CONSTANT InitialRows    \* the rows of visitor 1 and of the seed at the start

\* Ids count from 1, and what has a foreign key to a project has that project.
ASSUME RowsAssumption ==
    /\ IsFiniteSet(DOMAIN InitialRows)
    /\ DOMAIN InitialRows = 1 .. Cardinality(DOMAIN InitialRows)
    /\ \A i \in DOMAIN InitialRows :
         LET row == InitialRows[i] IN
         /\ DOMAIN row = DOMAIN Row /\ row.by = "seed"
         /\ row.kind \notin {"project", "conversation"} =>
              /\ row.project \in DOMAIN InitialRows
              /\ InitialRows[row.project].kind = "project"
         /\ row.kind = "project" => row.project = None

VARIABLE known          \* history: the names that each project has ever had

vars == <<api, cli, web, known>>

Remember == known' = [i \in DOMAIN known \cup DOMAIN rows' |->
                         (IF i \in DOMAIN known THEN known[i] ELSE {})
                         \cup (IF i \in DOMAIN rows' THEN {rows'[i].name} ELSE {})]

Init ==
    /\ rows = InitialRows
    /\ made = Cardinality(DOMAIN InitialRows)
    /\ minted = 1
    /\ CliInit /\ WebInit
    /\ known = [i \in DOMAIN InitialRows |-> {InitialRows[i].name}]

Next ==
    /\ \/ /\ clicks = 0
          /\ \E p \in Procs : CliStep(p)
          /\ UNCHANGED web
       \/ /\ \A p \in Procs : proc[p].pc = "unborn"
          /\ WebStep
          /\ UNCHANGED cli
    /\ Remember

Spec == Init /\ [][Next]_vars

(***************************************************************************)
(* Properties.                                                             *)
(***************************************************************************)

MadeBy(client) == {i \in DOMAIN rows : rows[i].by = client}

\* Everything that the command line has made belongs to the identity in its
\* session file, or to the one that the answer it waits for will put there,
\* and everything that the browser has made to the identity in its jar -
\* unless an answer was lost or not saved, or two requests of a client that
\* had no identity were on their way at once (http.ts, demo-auth.ts).
OneWorkspaceUnlessUnsure ==
    /\ ~split => \A i \in MadeBy("cli") :
         \/ OwnerOf(i) = saved
         \/ \E p \in Procs : proc[p].pc = "served" /\ proc[p].ans.cookie = OwnerOf(i)
    /\ ~webSplit => \A i \in MadeBy("web") :
         \/ OwnerOf(i) = jar
         \/ \E j \in DOMAIN calls : calls[j].st = "served" /\ calls[j].ans.cookie = OwnerOf(i)

\* A script can rely on the exit codes: 0 of a command that creates or deletes
\* means that it did, and 2 to 5 that nothing has changed, except that a turn
\* which failed is in the history of its session.  1 and 6 say nothing
\* (errors.ts, program.ts).
ExitTellsTheTruth ==
    \A p \in Procs : proc[p].pc = "done" =>
       /\ proc[p].exit = OK /\ proc[p].q.op \in Creates \cup Deletes => proc[p].did
       /\ proc[p].exit \in USAGE .. VALIDATION => ~proc[p].did \/ proc[p].q.op = "postTurn"

\* A screen that waits for nothing shows what its URL names, in every part
\* that it shows, unless it has heard of an id it had left: parts that another
\* id does not send back to loading are replaced or hidden all the same
\* (ProjectDetail.tsx, Session.tsx, ArtifactDetail.tsx, Chat.tsx and the two
\* screens with a selection).
Shown(slot) ==
    /\ page[slot].phase = "ready"
    /\ page.screen \in {"project", "session", "artifact"} => page.main.phase = "ready"
    /\ page.screen = "analysis" /\ slot = "list" => page.pick # None

SettledScreensShowTheirKey ==
    (~page.crossed /\ ~\E i \in DOMAIN calls : calls[i].live /\ calls[i].slot \in Slots)
        => \A slot \in Slots : Shown(slot) => page[slot].of = Key(slot)

\* A project is deleted from its screen only after one of its names has been
\* typed, unless the screen was given another id while it kept the project it
\* showed (ProjectDetail.tsx, confirmDelete).
TypedNameIsIts(c) == c.typed \in known[c.q.on]

Deletions == {calls[i] : i \in {j \in DOMAIN calls : calls[j].q.op = "deleteProject"
                                                     /\ calls[j].slot = "none"}}

DeletesAreNamedUnlessReused == \A c \in Deletions : c.reused \/ TypedNameIsIts(c)
=================================================================================

-------------------------------- MODULE RelayApi --------------------------------
(***************************************************************************)
(* The Relay worker as its clients see it: who a request comes from, what  *)
(* it may read and change, and what it answers.  A request is served at    *)
(* once; what happens between the awaited calls of a handler is the        *)
(* business of module Relay, and an answer that gets lost is the business  *)
(* of the clients.                                                         *)
(*                                                                         *)
(* Ids, visitors and names are numbers from 1, and 0 stands for none of    *)
(* them: no id, no cookie, no name.  Every id is minted once.              *)
(***************************************************************************)
EXTENDS Naturals, FiniteSets, Functions

CONSTANTS
    Names,      \* names of projects
    MaxRows     \* bound: how many ids are ever minted

ASSUME NumbersAssumption == Names \subseteq Nat \ {0} /\ MaxRows \in Nat

VARIABLES
    rows,       \* id -> row, of all tables
    made,       \* ids minted so far
    minted      \* visitors minted so far

api == <<rows, made, minted>>

None == 0
Seed == 0   \* the owner of the deployed demo content

\* A row: its project, the file of a session or the session of a turn or of
\* an artifact (on), the artifact a turn runs on (input), and the client
\* that made it (by), which only properties read.
Row == [kind |-> "project", owner |-> Seed, project |-> None, on |-> None,
        input |-> None, name |-> None, archived |-> FALSE, by |-> "seed"]

\* A request: the id in its path, the id and the name in its body, and
\* whether the body passes the schema of its route.
Request == [op |-> "none", on |-> None, with |-> None, name |-> None,
            ok |-> TRUE, by |-> "seed"]

Is(id, kind) == id \in DOMAIN rows /\ rows[id].kind = kind
Of(p, kind)  == {i \in DOMAIN rows : rows[i].kind = kind /\ rows[i].project = p}

OwnerOf(id) == IF rows[id].kind \in {"project", "conversation"}
               THEN rows[id].owner ELSE rows[rows[id].project].owner

(***************************************************************************)
(* The one rule of ownership: a visitor reads its own rows and the seed's, *)
(* and changes its own.  Foreign rows do not exist for it, seed rows are   *)
(* read-only.                                                              *)
(***************************************************************************)
CanRead(id, v) == OwnerOf(id) \in {v, Seed}

CanMutate(id, v) == IF OwnerOf(id) = v THEN 200
                    ELSE IF OwnerOf(id) = Seed THEN 403 ELSE 404

ProjectForWrite(p, v) == IF Is(p, "project") THEN CanMutate(p, v) ELSE 404

\* requireActive: an archived project is read-only.
ActiveProjectForWrite(p, v) ==
    IF ProjectForWrite(p, v) = 200 /\ rows[p].archived THEN 409
    ELSE ProjectForWrite(p, v)

(***************************************************************************)
(* Results: a status, the id the body is about and the rows afterwards.    *)
(***************************************************************************)
Result(status, id, after) == [status |-> status, id |-> id, rows |-> after]
Refused(status)   == Result(status, None, rows)
Found(id)         == Result(200, id, rows)
Updated(id, row)  == Result(200, id, [rows EXCEPT ![id] = row])
Deleted(ids)      == Result(200, None, Restrict(rows, DOMAIN rows \ ids))
Plus(after, id, row) ==
    [i \in DOMAIN after \cup {id} |-> IF i = id THEN row ELSE after[i]]
Created(row)      == Result(201, made + 1, Plus(rows, made + 1, row))

Read(q, v, kind) ==
    IF Is(q.on, kind) /\ CanRead(q.on, v) THEN Found(q.on) ELSE Refused(404)

\* The lists of an unknown or foreign project are empty, not an error.
List(q) == Found(q.on)

CreateProject(q, v) ==
    IF q.ok THEN Created([Row EXCEPT !.owner = v, !.name = q.name, !.by = q.by])
    ELSE Refused(422)

PatchProject(q, v) ==
    LET access == ActiveProjectForWrite(q.on, v) IN
    IF access # 200 THEN Refused(access)
    ELSE IF ~q.ok THEN Refused(422)
    ELSE Updated(q.on, [rows[q.on] EXCEPT !.name = q.name])

SetState(q, v) ==
    LET access == ProjectForWrite(q.on, v) IN
    IF access # 200 THEN Refused(access)
    ELSE Updated(q.on, [rows[q.on] EXCEPT !.archived = (q.op = "archiveProject")])

DeleteProject(q, v) ==
    LET access == ProjectForWrite(q.on, v) IN
    IF access # 200 THEN Refused(access)
    ELSE Deleted({i \in DOMAIN rows : q.on \in {i, rows[i].project}})

UploadFile(q, v) ==
    LET access == ActiveProjectForWrite(q.on, v) IN
    IF access # 200 THEN {Refused(access)}
    ELSE IF ~q.ok THEN {Refused(s) : s \in {413, 415, 422}}
    ELSE {Created([Row EXCEPT !.kind = "file", !.project = q.on, !.by = q.by])}

DeleteFile(q, v) ==
    IF ~Is(q.on, "file") THEN Refused(404)
    ELSE LET access == ProjectForWrite(rows[q.on].project, v) IN
         IF access # 200 THEN Refused(access)
         ELSE IF \E s \in DOMAIN rows : rows[s].kind = "session" /\ rows[s].on = q.on
         THEN Refused(409)
         ELSE Deleted({q.on})

CreateSession(q, v) ==
    LET access == ActiveProjectForWrite(q.on, v) IN
    IF access # 200 THEN Refused(access)
    ELSE IF ~q.ok THEN Refused(422)
    ELSE IF q.with \notin Of(q.on, "file") THEN Refused(404)
    ELSE Created([Row EXCEPT !.kind = "session", !.project = q.on, !.on = q.with,
                             !.by = q.by])

DeleteSession(q, v) ==
    IF ~Is(q.on, "session") THEN Refused(404)
    ELSE IF CanMutate(q.on, v) # 200 THEN Refused(CanMutate(q.on, v))
    ELSE Deleted({q.on} \cup {t \in DOMAIN rows : rows[t].kind = "turn"
                                                  /\ rows[t].on = q.on})

(***************************************************************************)
(* A turn: refused before it starts, or a row that the model, the schema   *)
(* or the kernel may still fail.  A completed one makes an artifact too.   *)
(***************************************************************************)
PostTurn(q, v) ==
    IF ~(Is(q.on, "session") /\ CanRead(q.on, v)) THEN {Refused(404)}
    ELSE IF CanMutate(q.on, v) # 200 THEN {Refused(CanMutate(q.on, v))}
    ELSE LET p    == rows[q.on].project
             turn == [Row EXCEPT !.kind = "turn", !.project = p, !.on = q.on,
                                 !.input = q.with, !.by = q.by]
             ran  == Created(turn) IN
         IF rows[p].archived THEN {Refused(409)}
         ELSE IF ~q.ok THEN {Refused(422)}
         ELSE {Refused(429)} \cup
              IF q.with # None /\ q.with \notin Of(p, "artifact") THEN {Refused(404)}
              ELSE {[ran EXCEPT !.status = s] : s \in {200, 400, 422, 500, 503}}
                   \cup {[ran EXCEPT !.status = 200, !.rows =
                             Plus(ran.rows, made + 2, [turn EXCEPT !.kind = "artifact"])]}

DeleteArtifact(q, v) ==
    IF ~Is(q.on, "artifact") THEN Refused(404)
    ELSE IF CanMutate(q.on, v) # 200 THEN Refused(CanMutate(q.on, v))
    ELSE Deleted({q.on})

\* What a conversation may be bound to: no project, or one that is readable
\* and active.
Binding(p, v) ==
    IF p = None THEN 200
    ELSE IF ~Is(p, "project") \/ ~CanRead(p, v) THEN 404
    ELSE IF rows[p].archived THEN 409 ELSE 200

CreateConversation(q, v) ==
    IF ~q.ok THEN Refused(422)
    ELSE IF Binding(q.with, v) # 200 THEN Refused(Binding(q.with, v))
    ELSE Created([Row EXCEPT !.kind = "conversation", !.owner = v,
                             !.project = q.with, !.by = q.by])

MyConversation(id, v) == Is(id, "conversation") /\ CanMutate(id, v) = 200

\* A rename carries a name, a change of project an id (or null).
PatchConversation(q, v) ==
    IF ~MyConversation(q.on, v) THEN Refused(404)
    ELSE IF ~q.ok THEN Refused(422)
    ELSE IF q.name # None THEN Updated(q.on, [rows[q.on] EXCEPT !.name = q.name])
    ELSE IF Binding(q.with, v) # 200 THEN Refused(Binding(q.with, v))
    ELSE Updated(q.on, [rows[q.on] EXCEPT !.project = q.with])

DeleteConversation(q, v) ==
    IF MyConversation(q.on, v) THEN Deleted({q.on}) ELSE Refused(404)

(***************************************************************************)
(* The routes: what may come of request q of visitor v.                    *)
(***************************************************************************)
Lists == {"listProjects", "listFiles", "listSessions", "listArtifacts",
          "listConversations", "browseArtifacts", "health", "truth"}

Reads == [getProject |-> "project", getFile |-> "file", getPreview |-> "file",
          downloadFile |-> "file", getSession |-> "session",
          getTurnResult |-> "turn", getArtifact |-> "artifact",
          getLineage |-> "artifact", downloadArtifact |-> "artifact",
          getConversation |-> "conversation"]

Results(q, v) ==
    CASE q.op = "health"               -> {List(q), Refused(503)}
      [] q.op \in Lists \ {"health"}   -> {List(q)}
      [] q.op \in DOMAIN Reads         -> {Read(q, v, Reads[q.op])}
      [] q.op = "createProject"        -> {CreateProject(q, v)}
      [] q.op = "patchProject"         -> {PatchProject(q, v)}
      [] q.op \in {"archiveProject", "unarchiveProject"} -> {SetState(q, v)}
      [] q.op = "deleteProject"        -> {DeleteProject(q, v)}
      [] q.op = "uploadFile"           -> UploadFile(q, v)
      [] q.op = "deleteFile"           -> {DeleteFile(q, v)}
      [] q.op = "createSession"        -> {CreateSession(q, v)}
      [] q.op = "deleteSession"        -> {DeleteSession(q, v)}
      [] q.op = "postTurn"             -> PostTurn(q, v)
      [] q.op = "deleteArtifact"       -> {DeleteArtifact(q, v)}
      [] q.op = "createConversation"   -> {CreateConversation(q, v)}
      [] q.op = "patchConversation"    -> {PatchConversation(q, v)}
      [] q.op = "deleteConversation"   -> {DeleteConversation(q, v)}

\* A handler that throws, before or after what it changes (onError).
Thrown(results) == {Refused(500)} \cup {[r EXCEPT !.status = 500, !.id = None] : r \in results}

(***************************************************************************)
(* The middleware gives a request without a cookie a new identity, which   *)
(* its answer carries back as a cookie.  The answer carries the row that   *)
(* it is about, and what it lists: the projects, the files of a project,   *)
(* the turns of a session, the artifact of a turn.                         *)
(***************************************************************************)
Visitor(cookie) == IF cookie = None THEN minted + 1 ELSE cookie

Listed(q, v, res) ==
    CASE q.op = "listProjects" ->
           {p \in DOMAIN rows : rows[p].kind = "project" /\ CanRead(p, v)}
      [] q.op = "listFiles" ->
           IF Is(q.on, "project") /\ CanRead(q.on, v) THEN Of(q.on, "file") ELSE {}
      [] q.op = "getSession" ->
           {t \in DOMAIN rows : rows[t].kind = "turn" /\ rows[t].on = res.id}
      [] q.op = "postTurn" ->
           {a \in DOMAIN res.rows \ DOMAIN rows : res.rows[a].kind = "artifact"}
      [] OTHER -> {}

Answer(q, cookie, res) ==
    [status |-> res.status, id |-> res.id,
     cookie |-> IF cookie = None THEN minted + 1 ELSE None,
     row    |-> IF res.id \in DOMAIN res.rows THEN res.rows[res.id] ELSE Row,
     items  |-> Listed(q, Visitor(cookie), res),
     active |-> {i \in Listed(q, Visitor(cookie), res) : ~res.rows[i].archived}]

Serve(q, cookie, res) ==
    /\ made + Cardinality(DOMAIN res.rows \ DOMAIN rows) <= MaxRows
    /\ made'   = made + Cardinality(DOMAIN res.rows \ DOMAIN rows)
    /\ rows'   = res.rows
    /\ minted' = IF cookie = None THEN minted + 1 ELSE minted

(***************************************************************************)
(* The commands of the command line and of the browser terminal, which     *)
(* share one grammar: the route that each calls and the kind of the id in  *)
(* its path; and what is typed after them: an id of that kind or an        *)
(* unknown one, a file for a session, an input artifact for a turn, a body *)
(* that passes or not.                                                     *)
(***************************************************************************)
ProjectCommands  == {"listProjects", "createProject", "getProject", "patchProject",
                     "archiveProject", "unarchiveProject", "deleteProject"}
FileCommands     == {"listFiles", "uploadFile", "getFile", "downloadFile", "deleteFile"}
SessionCommands  == {"listSessions", "createSession", "postTurn"}
ArtifactCommands == {"listArtifacts", "getArtifact", "downloadArtifact", "deleteArtifact"}
ConfigCommands   == {"health"}

Commands == ProjectCommands \cup FileCommands \cup SessionCommands \cup ArtifactCommands
            \cup ConfigCommands

Grammar ==
    [op \in Commands |->
       CASE op \in {"listProjects", "createProject", "health"}           -> "none"
         [] op \in {"getFile", "downloadFile", "deleteFile"}             -> "file"
         [] op = "postTurn"                                              -> "session"
         [] op \in {"getArtifact", "downloadArtifact", "deleteArtifact"} -> "artifact"
         [] OTHER                                                        -> "project"]

Creates == {"createProject", "uploadFile", "createSession", "postTurn"}
Deletes == {"deleteProject", "deleteFile", "deleteArtifact"}

Some(kind) == {i \in DOMAIN rows : rows[i].kind = kind} \cup {made + 1}

Arguments(op) ==
    [op   : {op},
     on   : IF Grammar[op] = "none" THEN {None} ELSE Some(Grammar[op]),
     with : CASE op = "createSession" -> Some("file")
              [] op = "postTurn"      -> Some("artifact") \cup {None}
              [] OTHER                -> {None},
     name : IF op \in {"createProject", "patchProject"} THEN Names ELSE {None},
     ok   : IF op \in Creates \cup {"patchProject"} THEN BOOLEAN ELSE {TRUE},
     by   : {Request.by}]
=================================================================================

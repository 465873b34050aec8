-------------------------------- MODULE RelayWeb --------------------------------
(***************************************************************************)
(* The web application in one tab of a browser: the screen that the hash   *)
(* of the URL names, the calls it has made and not heard of, and what it   *)
(* does with each answer.  Answers arrive in any order.                    *)
(*                                                                         *)
(* React keeps a component when only the id in the hash changes: its state *)
(* and the answers it waits for survive.  Another kind of screen is a new  *)
(* component: what the old one still hears of is thrown away, except that  *)
(* an answer which moves the location moves it all the same.               *)
(*                                                                         *)
(* What a screen loads is kept in three slots: main (what it is about),    *)
(* list and side.  Lists that are loaded and replaced alike share a slot.  *)
(***************************************************************************)
EXTENDS RelayApi, SequencesExt

CONSTANTS
    Tours,          \* bound: the sets of screens that a visit may go through
    Typed,          \* the commands that are typed in the browser terminal
    MaxClicks,      \* bound: what the user does
    MaxCalls        \* bound: calls unanswered when the user does something

VARIABLES
    jar,        \* the browser's cookie
    page,       \* the screen and its state
    calls,      \* the calls that the tab has made and not heard of
    clicks,     \* what the user has done so far, counted
    visited,    \* history: the screens that the user has gone to
    webSplit    \* history: could the identity of the browser be split?

web == <<jar, page, calls, clicks, visited, webSplit>>

Slots == {"main", "list", "side"}

\* What a slot shows: the key it was loaded for, a row, ids.
Blank == [phase |-> "loading", of |-> None, row |-> Row, items |-> {}]

Fresh(screen, id) ==
    [screen |-> screen, id |-> id,
     pick   |-> None,       \* the selected project, or the input artifact
     typed  |-> None,       \* the name typed to confirm a deletion
     busy   |-> FALSE, uploading |-> FALSE, starting |-> None,
     tables |-> {},         \* the artifacts of the turns shown
     main   |-> Blank, list |-> Blank, side |-> Blank,
     reused |-> FALSE,      \* history: was the component given another id?
     crossed |-> FALSE]     \* history: did it hear of a key it had left?

(***************************************************************************)
(* Routes: the screens, and the kind of the id in their hash.              *)
(***************************************************************************)
IdKind == [project |-> "project", session |-> "session", artifact |-> "artifact",
           chat |-> "conversation"]
Plain  == {"projects", "analysis", "terminal", "artifacts", "settings", "chat"}
Routes == {<<s, None>> : s \in Plain}
          \cup {r \in (DOMAIN IdKind) \X (DOMAIN rows) :
                     Is(r[2], IdKind[r[1]]) /\ CanRead(r[2], jar)}

\* A load: the slot, the route, the id asked for, the key it is about.
Load(slot, op, on) == [slot |-> slot, op |-> op, on |-> on, about |-> on]

\* What a screen loads for the id in its hash, and what once.
Keyed(screen, id) ==
    CASE screen = "project"  -> <<Load("main", "getProject", id),
                                  Load("list", "listFiles", id),
                                  Load("side", "listSessions", id)>>
      [] screen = "session"  -> <<Load("main", "getSession", id)>>
      [] screen = "artifact" -> <<Load("main", "getArtifact", id)>>
      [] screen = "chat" /\ id # None -> <<Load("main", "getConversation", id)>>
      [] OTHER -> <<>>

Once(screen) ==
    CASE screen = "projects"  -> <<Load("list", "listProjects", None)>>
      [] screen = "analysis"  -> <<Load("side", "listProjects", None)>>
      [] screen = "artifacts" -> <<Load("side", "listProjects", None),
                                   Load("list", "browseArtifacts", None)>>
      [] screen = "chat"      -> <<Load("list", "listConversations", None),
                                   Load("side", "listProjects", None)>>
      [] screen = "settings"  -> <<Load("main", "truth", None),
                                   Load("side", "health", None)>>
      [] OTHER -> <<>>

ResetsOnProjects(screen) ==
    CASE screen = "project"  -> {"list"}
      [] screen = "artifact" -> {"main", "side"}
      [] OTHER -> {}

\* The slots that another id sends back to loading.
Resets(screen) ==
    CASE screen = "project"  -> {"list"}
      [] screen = "artifact" -> {"main", "side"}
      [] screen = "chat"     -> {"main"}
      [] OTHER -> {}

Key(slot) ==
    CASE page.screen \in {"project", "session", "artifact"}         -> page.id
      [] page.screen = "chat" /\ slot = "main"                      -> page.id
      [] page.screen \in {"analysis", "artifacts"} /\ slot = "list" -> page.pick
      [] OTHER -> None

(***************************************************************************)
(* Calls.  An act (slot "none") keeps what its closure will need: the key  *)
(* it is about and the row shown when it was made.                         *)
(***************************************************************************)
Call(q, slot, about, cookie) ==
    [q |-> [q EXCEPT !.by = "web"], slot |-> slot, about |-> about, cookie |-> cookie,
     shown |-> page.main.row, typed |-> page.typed, reused |-> page.reused,
     live |-> TRUE, st |-> "sent", ans |-> <<>>]

Loads(loads, cookie) ==
    [i \in DOMAIN loads |->
        Call([Request EXCEPT !.op = loads[i].op, !.on = loads[i].on],
             loads[i].slot, loads[i].about, cookie)]

\* Two calls without a cookie at once will get two identities.
FlagSplit(unsure) ==
    webSplit' = (webSplit \/ unsure
                 \/ Cardinality({i \in DOMAIN calls' : calls'[i].cookie = None}) > 1)

\* The calls of a screen that is gone.  Loads that carry a cookie are left out:
\* their answers change nothing any more.
Kept(cs) == {i \in DOMAIN cs : cs[i].slot \notin Slots \/ cs[i].cookie = None}

Unmounted(cs) ==
    {[i \in DOMAIN e |-> [cs[e[i]] EXCEPT !.live = FALSE]] :
        e \in {s \in [1 .. Cardinality(Kept(cs)) -> Kept(cs)] :
                  \A i, j \in DOMAIN s : i < j => s[i] < s[j]}}

\* The hash becomes that of another screen than p, with the calls rest.
Land(p, rest, screen, id) ==
    IF screen = p.screen
    THEN /\ page' = [f \in DOMAIN p |->
                       CASE f = "id"                -> id
                         [] f = "reused"            -> TRUE
                         [] f \in Resets(p.screen)  -> Blank
                         [] OTHER                   -> p[f]]
         /\ calls' = rest \o Loads(Keyed(screen, id), jar')
    ELSE /\ page' = Fresh(screen, id)
         /\ \E old \in Unmounted(rest) :
              calls' = old \o Loads(Once(screen) \o Keyed(screen, id), jar')

(***************************************************************************)
(* What the user does.                                                     *)
(***************************************************************************)
Click ==
    /\ clicks < MaxClicks
    /\ clicks' = clicks + 1
    /\ Len(calls) <= MaxCalls
    /\ UNCHANGED <<made, minted, jar>>

Ready(screen) == page.screen = screen /\ page.main.phase = "ready"
Page(p) == page' = p /\ UNCHANGED visited
Stay(p) == Page(p) /\ UNCHANGED <<calls, webSplit>>

Ask(q, about) ==
    /\ calls' = Append(calls, Call(q, "none", about, jar))
    /\ FlagSplit(FALSE)

Act(op, on) == Ask([Request EXCEPT !.op = op, !.on = on], page.id)

\* A link, a bookmark, an edited hash, the browser's history.
Go ==
    /\ Click
    /\ \E r \in Routes :
         /\ r # <<page.screen, page.id>>
         /\ \E tour \in Tours : visited \cup {r[1]} \subseteq tour
         /\ visited' = visited \cup {r[1]}
         /\ Land(page, calls, r[1], r[2])
    /\ FlagSplit(FALSE)

SubmitProject ==
    /\ Click /\ page.screen = "projects" /\ ~page.busy
    /\ \E n \in Names : Ask([Request EXCEPT !.op = "createProject", !.name = n], None)
    /\ Page([page EXCEPT !.busy = TRUE])

SaveRename ==
    /\ Click /\ Ready("project") /\ ~page.busy
    /\ \E n \in Names \ {page.main.row.name} :
         Ask([Request EXCEPT !.op = "patchProject", !.on = page.id, !.name = n], page.id)
    /\ Page([page EXCEPT !.busy = TRUE])

ToggleArchive ==
    /\ Click /\ Ready("project") /\ ~page.busy
    /\ Act(IF page.main.row.archived THEN "unarchiveProject" ELSE "archiveProject", page.id)
    /\ Page([page EXCEPT !.busy = TRUE])

\* Any other text leaves the button disabled.
TypeName ==
    /\ Click /\ Ready("project")
    /\ page.typed # page.main.row.name
    /\ Stay([page EXCEPT !.typed = page.main.row.name])

ConfirmUntyped ==
    /\ Click /\ Ready("project") /\ ~page.busy
    /\ Act("deleteProject", page.id)
    /\ Page([page EXCEPT !.busy = TRUE])

ConfirmDelete ==
    /\ Click /\ Ready("project") /\ ~page.busy
    /\ page.typed = page.main.row.name
    /\ Act("deleteProject", page.id)
    /\ Page([page EXCEPT !.busy = TRUE])

RemoveFile ==
    /\ Click /\ Ready("project") /\ ~page.main.row.archived
    /\ page.list.phase = "ready"
    /\ \E f \in page.list.items : Act("deleteFile", f)
    /\ Page(page)

Upload ==
    /\ Click /\ Ready("project") /\ ~page.main.row.archived /\ ~page.uploading
    /\ Act("uploadFile", page.id)
    /\ Page([page EXCEPT !.uploading = TRUE])

\* On a project, and on the analysis screen for the project selected there.
Analyze ==
    /\ Click
    /\ \/ Ready("project") /\ ~page.main.row.archived
       \/ page.screen = "analysis" /\ page.pick # None
    /\ page.list.phase = "ready"
    /\ \E f \in page.list.items \ {page.starting} :
         /\ Ask([Request EXCEPT !.op = "createSession", !.with = f,
                     !.on = IF page.screen = "project" THEN page.id ELSE page.pick],
                page.id)
         /\ Page([page EXCEPT !.starting = f])

Select ==
    /\ Click /\ page.screen = "analysis"
    /\ \E p \in (page.side.items \cup {None}) \ {page.pick} :
         /\ IF p = None
            THEN /\ Page([page EXCEPT !.pick = p, !.list = Blank])
                 /\ UNCHANGED calls
            ELSE /\ Page([page EXCEPT !.pick = p])
                 /\ calls' = calls \o Loads(<<Load("list", "listFiles", p)>>, jar)
    /\ FlagSplit(FALSE)

Filter ==
    /\ Click /\ page.screen = "artifacts"
    /\ \E p \in (page.side.items \cup {None}) \ {page.pick} :
         /\ Page([page EXCEPT !.pick = p, !.list = Blank])
         /\ calls' = calls \o Loads(<<Load("list", "browseArtifacts", p)>>, jar)
    /\ FlagSplit(FALSE)

PickInput ==
    /\ Click /\ Ready("session")
    /\ \E a \in page.tables \cup {None} : Stay([page EXCEPT !.pick = a])

Submit ==
    /\ Click /\ Ready("session") /\ ~page.busy
    /\ Ask([Request EXCEPT !.op = "postTurn", !.on = page.id, !.with = page.pick], page.id)
    /\ Page([page EXCEPT !.busy = TRUE])

RemoveArtifact ==
    /\ Click /\ Ready("artifact")
    /\ Act("deleteArtifact", page.main.of)
    /\ Page(page)

StartNew ==
    /\ Click /\ page.screen = "chat"
    /\ Act("createConversation", None)
    /\ Page(page)

RenameThread ==
    /\ Click /\ Ready("chat")
    /\ \E n \in Names \ {page.main.row.name} :
         Ask([Request EXCEPT !.op = "patchConversation", !.on = page.main.of, !.name = n],
             page.main.of)
    /\ Page(page)

SetProject ==
    /\ Click /\ Ready("chat")
    /\ \E p \in (page.side.items \cup {None}) \ {page.main.row.project} :
         Ask([Request EXCEPT !.op = "patchConversation", !.on = page.main.of, !.with = p],
             page.main.of)
    /\ Page(page)

RemoveThread ==
    /\ Click /\ Ready("chat")
    /\ Act("deleteConversation", page.main.of)
    /\ Page(page)

\* The commands that the terminal calls the worker's API for.  It leaves an upload
\* to the installed command line, and a download to the browser.
ProjectBindings  == ProjectCommands
FileBindings     == {"listFiles", "getFile", "deleteFile"}
SessionBindings  == SessionCommands
ArtifactBindings == {"listArtifacts", "getArtifact", "deleteArtifact"}
ConfigBindings   == {"health"}

BINDINGS == ProjectBindings \cup FileBindings \cup SessionBindings \cup ArtifactBindings
            \cup ConfigBindings

\* What the grammar gives a binding for a command that is typed: a delete that does
\* not say --yes, like a line that does not parse, leads to no call.
Dispatched(op) == IF op \in BINDINGS THEN Arguments(op) ELSE {}

\* One chunk of input reaches the terminal: a line, or a pasted pair.  The
\* flag is looked at before the chunk, not before its lines.
Enter(qs) ==
    /\ Click /\ UNCHANGED rows
    /\ page.screen = "terminal" /\ ~page.busy
    /\ calls' = calls \o [i \in DOMAIN qs |-> Call(qs[i], "term", None, jar)]
    /\ Page([page EXCEPT !.busy = TRUE])
    /\ FlagSplit(FALSE)

TypeLine   == \E o \in Typed : \E q \in Dispatched(o) : Enter(<<q>>)
PasteLines == \E o, u \in Typed :
                \E q \in Dispatched(o), r \in Dispatched(u) : Enter(<<q, r>>)

\* Another tab of the browser renames or deletes the project that this one
\* shows.
OtherTab ==
    /\ Click /\ jar # None /\ page.screen = "project"
    /\ \E op \in {"patchProject", "deleteProject"} :
         \E q \in {a \in Arguments(op) : a.on = page.id} : \E res \in Results(q, jar) :
           res.rows # rows /\ rows' = res.rows
    /\ UNCHANGED <<page, calls, visited, webSplit>>

UserStep ==
    \/ /\ UNCHANGED rows
       /\ \/ Go \/ SubmitProject \/ SaveRename \/ ToggleArchive \/ TypeName
          \/ ConfirmDelete \/ RemoveFile \/ Upload \/ Analyze \/ Select \/ Filter
          \/ PickInput \/ Submit \/ RemoveArtifact
          \/ StartNew \/ RenameThread \/ SetProject \/ RemoveThread
    \/ TypeLine \/ PasteLines \/ OtherTab

(***************************************************************************)
(* Answers.                                                                *)
(***************************************************************************)
ServeWeb(i) ==
    /\ calls[i].st = "sent"
    /\ \E res \in Results(calls[i].q, Visitor(calls[i].cookie)) :
         /\ Serve(calls[i].q, calls[i].cookie, res)
         /\ calls' = [calls EXCEPT ![i].st = "served",
                                  ![i].ans = Answer(calls[i].q, calls[i].cookie, res)]
    /\ UNCHANGED <<jar, page, clicks, visited, webSplit>>

\* The screen is about something else than it was when it made the call.
Stray(c) == c.live /\ c.about # IF c.slot \in Slots THEN Key(c.slot) ELSE page.id

Frees(op, ok) ==
    \/ op \in {"createProject", "patchProject", "archiveProject", "unarchiveProject",
               "postTurn"}
    \/ op = "deleteProject" /\ ~ok

\* What the finally clauses clear, on a screen that is still there.
Idle(c, ok) ==
    [page EXCEPT
       !.crossed   = @ \/ Stray(c),
       !.busy      = @ /\ ~(c.live /\ (c.slot = "term" \/ Frees(c.q.op, ok))),
       !.uploading = @ /\ ~(c.live /\ c.q.op = "uploadFile"),
       !.starting  = IF c.live /\ c.q.op = "createSession" THEN None ELSE @]

\* The selections of the chat and of the analysis screen offer the projects
\* that are active.
Filled(c, ans) == [phase |-> "ready", of |-> c.about, row |-> ans.row,
                   items |-> IF page.screen \in {"chat", "analysis"}
                             THEN ans.active ELSE ans.items]
Failed         == [Blank EXCEPT !.phase = "error"]

\* A load succeeds: the turns come with their session.
Show(p, c, ans) ==
    IF c.q.op = "getSession" /\ c.slot = "main"
    THEN [p EXCEPT !.main = Filled(c, ans), !.list = Filled(c, ans), !.tables = {}]
    ELSE [p EXCEPT ![c.slot] = Filled(c, ans)]

\* What is asked for next: the preview of a session's file, the session of an
\* artifact (does it still exist?) and its lineage.
Follow(c, ans) ==
    CASE c.q.op = "getSession" /\ c.slot = "main" ->
           <<[Load("side", "getPreview", ans.row.on) EXCEPT !.about = c.about]>>
      [] c.q.op = "getArtifact" ->
           <<[Load("side", "getSession", ans.row.on) EXCEPT !.about = c.about],
             Load("list", "getLineage", c.about)>>
      [] OTHER -> <<>>

\* A load fails: the lineage of an artifact takes the whole screen with it,
\* a conversation that is shown stays.
Fault(p, c) ==
    CASE c.q.op = "getLineage" -> [p EXCEPT !.main = Failed]
      [] c.q.op = "getConversation" /\ p.main.phase = "ready" -> p
      [] OTHER -> [p EXCEPT ![c.slot] = Failed]

\* The acts that move the location, and where to.
Moves(c, ans) ==
    CASE c.q.op = "createProject"      -> <<"project", ans.id>>
      [] c.q.op = "createSession"      -> <<"session", ans.id>>
      [] c.q.op = "createConversation" -> <<"chat", ans.id>>
      [] c.q.op = "deleteProject"      -> <<"projects", None>>
      [] c.q.op = "deleteArtifact"     -> <<"artifacts", None>>
      [] c.q.op = "deleteConversation" -> <<"chat", None>>
      [] OTHER                         -> <<>>

\* The lists that an act makes a screen load again, those of its closure.
Again(c) ==
    CASE c.q.op \in {"deleteFile", "uploadFile"} -> <<Load("list", "listFiles", c.about)>>
      [] (\/ c.q.op \in {"createConversation", "deleteConversation"}
          \/ c.q.op = "patchConversation" /\ c.q.name # None) ->
           <<Load("list", "listConversations", None)>>
      [] OTHER -> <<>>

\* What an act changes on the screen at once.  A conversation is rebuilt from
\* the one its closure saw.
Applied(p, c, ans) ==
    CASE c.q.op \in {"patchProject", "archiveProject", "unarchiveProject"} ->
           [p EXCEPT !.main = [Filled(c, ans) EXCEPT !.of = c.q.on]]
      [] c.q.op = "patchConversation" ->
           [p EXCEPT !.main = [Filled(c, ans) EXCEPT !.of = c.q.on, !.row =
               IF c.q.name # None THEN [c.shown EXCEPT !.name = ans.row.name]
               ELSE [c.shown EXCEPT !.project = ans.row.project]]]
      [] c.q.op = "postTurn" ->
           [p EXCEPT !.list.items = @ \cup {ans.id}, !.tables = @ \cup ans.items]
      [] c.q.op \in {"deleteFile", "uploadFile"} -> [p EXCEPT !.list = Blank]
      [] OTHER -> p

Hear(c, rest, ans) ==
    LET p    == Idle(c, TRUE)
        q    == IF c.live THEN Applied(p, c, ans) ELSE p
        more == IF c.live THEN rest \o Loads(Again(c), jar') ELSE rest
        to   == Moves(c, ans) IN
    IF c.slot = "none"
    THEN IF to \in {<<>>, <<p.screen, p.id>>}
         THEN page' = q /\ calls' = more
         ELSE Land(q, more, to[1], to[2])
    ELSE IF c.slot \in Slots /\ c.live
    THEN page' = Show(p, c, ans) /\ calls' = rest \o Loads(Follow(c, ans), jar')
    ELSE page' = p /\ calls' = rest

Miss(c, rest) ==
    /\ page' = IF c.live /\ c.slot \in Slots THEN Fault(Idle(c, FALSE), c) ELSE Idle(c, FALSE)
    /\ calls' = rest

\* The settings show what they get, whatever its status.
Unchecked == {"health", "truth"}

Deliver(i) ==
    LET c == calls[i] IN
    /\ c.st = "served"
    /\ jar' = IF c.ans.cookie = None THEN jar ELSE c.ans.cookie
    /\ IF c.ans.status < 300 \/ c.q.op \in Unchecked
       THEN Hear(c, RemoveAt(calls, i), c.ans)
       ELSE Miss(c, RemoveAt(calls, i))
    /\ FlagSplit(FALSE)
    /\ UNCHANGED <<api, clicks, visited>>

\* fetch rejects, before or after the worker has served the request (which is
\* the same for a read); a handler that throws answers the same to the screen.
Lose(i) ==
    /\ calls[i].slot \in Slots => calls[i].st = "sent"
    /\ UNCHANGED jar
    /\ Miss(calls[i], RemoveAt(calls, i))
    /\ FlagSplit(calls[i].cookie = None)
    /\ UNCHANGED <<api, clicks, visited>>

WebStep == UserStep \/ \E i \in DOMAIN calls : ServeWeb(i) \/ Deliver(i) \/ Lose(i)

\* A tab that has just been opened; the browser may have been here before.
WebInit ==
    /\ jar \in {None, 1}
    /\ page = Fresh("new tab", None)
    /\ calls = <<>> /\ clicks = 0 /\ visited = {} /\ webSplit = FALSE
=================================================================================

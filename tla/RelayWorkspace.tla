---------------------------- MODULE RelayWorkspace ----------------------------
(***************************************************************************)
(* The routes of the Relay workspace: projects, files, sessions and        *)
(* artifacts, each split at its awaited calls.  An action's first conjunct *)
(* says which call of the handler it is; the first call of a handler is    *)
(* the action named for the route.                                         *)
(***************************************************************************)
EXTENDS RelayStore

Rest == <<chats, meters, setup, stale, raced, messy>>

(* POST /projects: one INSERT. *)
CreateProject(r) ==
    /\ project = "none"
    /\ Admit(r, [Idle EXCEPT !.op = "createProject", !.pc = "ok"])
    /\ project' = "active"
    /\ UNCHANGED <<files, sessions, turns, artifacts, objects, lost, Rest>>

(* POST /projects/:id/archive and /unarchive: the check, then the UPDATE,  *)
(* which finds no row when the project has been deleted in between.        *)
SetState(r) ==
    /\ Exists
    /\ \E op \in {"archive", "unarchive"} :
         Admit(r, [Idle EXCEPT !.op = op, !.pc = "st_row"])
    /\ UNCHANGED <<rows, objects, lost, Rest>>

SetStateRow(r) ==
    /\ At(r, "st_row")
    /\ Answer(r, "ok")
    /\ project' = IF ~Exists THEN project
                  ELSE IF req[r].op = "archive" THEN "archived" ELSE "active"
    /\ stale' = IF project' = "archived"
                THEN stale \cup {q \in Reqs \ {r} : Running(q)} ELSE stale
    /\ UNCHANGED <<files, sessions, turns, artifacts, objects, chats, meters,
                   setup, lost, raced, messy>>

(* POST /projects/:id/files: the check, the bytes, the row.                *)
\* Slip: any project will do.
UploadAnywhere(r) ==
    /\ Exists
    /\ Admit(r, [Idle EXCEPT !.op = "upload", !.pc = "up_put"])
    /\ UNCHANGED <<rows, objects, lost, Rest>>

Upload(r) ==
    /\ project = "active"
    /\ Admit(r, [Idle EXCEPT !.op = "upload", !.pc = "up_put"])
    /\ UNCHANGED <<rows, objects, lost, Rest>>

\* Slip: the put is not awaited, and fails.
UploadUnstored(r) ==
    /\ At(r, "up_put")
    /\ Go(r, "up_row")
    /\ UNCHANGED <<rows, objects, lost, Rest>>

UploadPut(r) ==
    /\ At(r, "up_put")
    /\ objects' = objects \cup {FileKey(r)}
    /\ Go(r, "up_row")
    /\ UNCHANGED <<rows, lost, Rest>>

\* Slip: file.project_id does not reference the project.
UploadRowLoose(r) ==
    /\ At(r, "up_row")
    /\ files' = files \cup {r}
    /\ Answer(r, "ok")
    /\ UNCHANGED <<project, sessions, turns, artifacts, objects, lost, Rest>>

UploadRow(r) ==
    /\ At(r, "up_row")
    /\ Exists
    /\ files' = files \cup {r}
    /\ Answer(r, "ok")
    /\ UNCHANGED <<project, sessions, turns, artifacts, objects, lost, Rest>>

(* DELETE /files/:id: the row, the project, the count of its sessions, the *)
(* DELETE (refused by the foreign key of a session), the object.           *)
DeleteFile(r) ==
    /\ \E f \in files :
         Admit(r, [Idle EXCEPT !.op = "deleteFile", !.file = f, !.pc = "df_project"])
    /\ UNCHANGED <<rows, objects, lost, Rest>>

DeleteFileProject(r) ==
    /\ At(r, "df_project")
    /\ IF Exists THEN Go(r, "df_count") ELSE Answer(r, "refused")
    /\ UNCHANGED <<rows, objects, lost, Rest>>

InUse(f) == \E s \in sessions : s.file = f

DeleteFileCount(r) ==
    /\ At(r, "df_count")
    /\ IF InUse(req[r].file) THEN Answer(r, "refused") ELSE Go(r, "df_row")
    /\ UNCHANGED <<rows, objects, lost, Rest>>

DeleteFileRow(r) ==
    /\ At(r, "df_row")
    /\ ~InUse(req[r].file)
    /\ files' = files \ {req[r].file}
    /\ Go(r, "df_object")
    /\ UNCHANGED <<project, sessions, turns, artifacts, objects, lost, Rest>>

DeleteFileObject(r) ==
    /\ At(r, "df_object")
    /\ objects' = objects \ {FileKey(req[r].file)}
    /\ Answer(r, "ok")
    /\ UNCHANGED <<rows, lost, Rest>>

(* POST /projects/:id/sessions: the check, the file, the row.              *)
CreateSession(r) ==
    /\ project = "active"
    /\ \E f \in Ids :
         Admit(r, [Idle EXCEPT !.op = "createSession", !.file = f, !.pc = "cs_file"])
    /\ UNCHANGED <<rows, objects, lost, Rest>>

CreateSessionFile(r) ==
    /\ At(r, "cs_file")
    /\ IF req[r].file \in files THEN Go(r, "cs_row") ELSE Answer(r, "refused")
    /\ UNCHANGED <<rows, objects, lost, Rest>>

CreateSessionRow(r) ==
    /\ At(r, "cs_row")
    /\ Exists /\ req[r].file \in files
    /\ sessions' = sessions \cup {[id |-> r, file |-> req[r].file]}
    /\ Answer(r, "ok")
    /\ UNCHANGED <<project, files, turns, artifacts, objects, lost, Rest>>

(***************************************************************************)
(* The three deletes that take many rows: they read the keys of the        *)
(* objects, delete the rows in one batch, and then delete the objects they *)
(* had read.  A row that came between the first two goes unlisted.         *)
(***************************************************************************)
AfterBatch(r) == IF req[r].keys = {} THEN Answer(r, "ok") ELSE Go(r, "objects")

(* DELETE /sessions/:id: its artifacts stay. *)
DeleteSession(r) ==
    /\ \E s \in SessionIds :
         Admit(r, [Idle EXCEPT !.op = "deleteSession", !.on = s, !.pc = "keys"])
    /\ UNCHANGED <<rows, objects, lost, Rest>>

\* Slip: the results of the turns are forgotten.
NoSessionKeys(s) == {}

SessionKeys(s) ==
    {ResultKey(t.id) : t \in {u \in turns : u.session = s /\ u.status = "completed"}}

DeleteSessionRows(r) ==
    /\ At(r, "batch") /\ req[r].op = "deleteSession"
    /\ turns' = {t \in turns : t.session # req[r].on}
    /\ sessions' = {s \in sessions : s.id # req[r].on}
    /\ AfterBatch(r)
    /\ UNCHANGED <<project, files, artifacts, objects, lost, Rest>>

(* DELETE /projects/:id, archived or not; its conversations go with it.    *)
DeleteProject(r) ==
    /\ Exists
    /\ Admit(r, [Idle EXCEPT !.op = "deleteProject", !.pc = "keys"])
    /\ UNCHANGED <<rows, objects, lost, Rest>>

(* POST /internal/reset: no check, and global conversations go too.        *)
Reset(r) ==
    /\ Admit(r, [Idle EXCEPT !.op = "reset", !.pc = "keys"])
    /\ UNCHANGED <<rows, objects, lost, Rest>>

DeleteKeys(r) ==
    /\ At(r, "keys")
    /\ Becomes(r, [req[r] EXCEPT !.pc = "batch",
                                 !.keys = IF req[r].op = "deleteSession"
                                          THEN SessionKeys(req[r].on) ELSE RowKeys])
    /\ UNCHANGED <<rows, objects, lost, Rest>>

DeleteProjectRows(r) ==
    /\ At(r, "batch") /\ req[r].op \in {"deleteProject", "reset"}
    /\ project' = IF Exists THEN "gone" ELSE project
    /\ files' = {} /\ sessions' = {} /\ turns' = {} /\ artifacts' = {}
    /\ convs' = {c \in convs : req[r].op = "deleteProject" /\ ~c.bound}
    /\ msgs' = [c \in Ids |-> IF \E d \in convs' : d.id = c THEN msgs[c] ELSE <<>>]
    /\ AfterBatch(r)
    /\ UNCHANGED <<objects, meters, setup, history>>

DeleteObjects(r) ==
    /\ At(r, "objects")
    /\ objects' = objects \ req[r].keys
    /\ Answer(r, "ok")
    /\ UNCHANGED <<rows, lost, Rest>>

\* The delete of the objects fails: caught, the keys are logged as r2_orphan.
\* (A reset does not catch it; its request dies.)
LogOrphans(r) ==
    /\ At(r, "objects") /\ req[r].op # "reset"
    /\ lost' = lost \cup req[r].keys
    /\ Answer(r, "ok")
    /\ UNCHANGED <<rows, objects, Rest>>

(* DELETE /artifacts/:id: the row, the batch of two rows, the object.      *)
DeleteArtifact(r) ==
    /\ \E a \in artifacts :
         Admit(r, [Idle EXCEPT !.op = "deleteArtifact", !.art = a, !.pc = "da_row"])
    /\ UNCHANGED <<rows, objects, lost, Rest>>

DeleteArtifactRow(r) ==
    /\ At(r, "da_row")
    /\ artifacts' = artifacts \ {req[r].art}
    /\ Go(r, "da_object")
    /\ UNCHANGED <<project, files, sessions, turns, objects, lost, Rest>>

DeleteArtifactObject(r) ==
    /\ At(r, "da_object")
    /\ objects' = objects \ {ArtifactKey(req[r].art)}
    /\ Answer(r, "ok")
    /\ UNCHANGED <<rows, lost, Rest>>

WorkspaceStep(r) ==
    \/ CreateProject(r) \/ SetState(r) \/ SetStateRow(r)
    \/ Upload(r) \/ UploadPut(r) \/ UploadRow(r)
    \/ DeleteFile(r) \/ DeleteFileProject(r) \/ DeleteFileCount(r)
    \/ DeleteFileRow(r) \/ DeleteFileObject(r)
    \/ CreateSession(r) \/ CreateSessionFile(r) \/ CreateSessionRow(r)
    \/ DeleteSession(r) \/ DeleteProject(r) \/ Reset(r) \/ DeleteKeys(r)
    \/ DeleteSessionRows(r) \/ DeleteProjectRows(r)
    \/ DeleteObjects(r) \/ LogOrphans(r)
    \/ DeleteArtifact(r) \/ DeleteArtifactRow(r) \/ DeleteArtifactObject(r)
===============================================================================

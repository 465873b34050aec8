------------------------ MODULE RelayClientsProofs -------------------------
(***************************************************************************)
(* Proofs about the clients of the Relay worker, for any rows to start     *)
(* with, processes, commands, tours and bounds.                            *)
(*                                                                         *)
(* What a request may come to is stated of the rows that it leaves behind  *)
(* (Follows), what an act, a selection or a change of the location does to *)
(* a screen as Acted, Picked, Moved and Opened, and what comes of an       *)
(* answer as one of Quiet, Filling, Failing, Done and Turned: every step   *)
(* of the browser is one of these (WebStepIs), and each of its properties  *)
(* is an invariant that they preserve.                                     *)
(***************************************************************************)
EXTENDS RelayClients, FiniteSetTheorems, SequenceTheorems, TLAPS

(***************************************************************************)
(* The worker.  What a request may come to is stated of the rows it leaves *)
(* behind, so that it can be used of the next state.                       *)
(***************************************************************************)

RowFields == {"kind", "owner", "project", "on", "input", "name", "archived", "by"}
Threads   == {"project", "conversation"}

\* Rows, and the projects that their foreign keys name.
WellFormed(R) ==
    \A i \in DOMAIN R :
       /\ DOMAIN R[i] = RowFields
       /\ R[i].kind \notin Threads => /\ R[i].project \in DOMAIN R
                                      /\ R[R[i].project].kind = "project"
       /\ R[i].kind = "project" => R[i].project = None

RowsInv ==
    /\ made \in Nat /\ minted \in Nat
    /\ DOMAIN rows \subseteq 1 .. made
    /\ WellFormed(rows)

\* Whose row i of R is.
HolderIn(R, i) == IF R[i].kind \in Threads THEN R[i].owner ELSE R[R[i].project].owner

\* What was there stays what it is and whose it is; what is new comes from
\* client b and belongs to visitor v.
Follows(R, b, v) ==
    /\ WellFormed(R)
    /\ DOMAIN R \ DOMAIN rows \in {{}, {made + 1}, {made + 1, made + 2}}
    /\ \A i \in DOMAIN R \cap DOMAIN rows :
         /\ R[i].by = rows[i].by
         /\ HolderIn(R, i) = OwnerOf(i)
    /\ \A i \in DOMAIN R \ DOMAIN rows : R[i].by = b /\ HolderIn(R, i) = v

LEMMA RowIs == DOMAIN Row = RowFields
  BY DEF Row, RowFields

LEMMA SameFollows ==
  ASSUME RowsInv, NEW b, NEW v
  PROVE  Follows(rows, b, v)
  BY DEF RowsInv, Follows, HolderIn, OwnerOf, Threads

\* A row is updated, but neither its kind nor its maker nor its owner.
LEMMA UpdateFollows ==
  ASSUME RowsInv, NEW b, NEW v, NEW id \in DOMAIN rows, NEW row, DOMAIN row = RowFields,
         row.kind = rows[id].kind, row.by = rows[id].by, row.owner = rows[id].owner,
         rows[id].kind \in Threads,
         rows[id].kind = "project" => row.project = rows[id].project
  PROVE  Follows([rows EXCEPT ![id] = row], b, v)
<1> DEFINE R == [rows EXCEPT ![id] = row]
<1>1. DOMAIN R = DOMAIN rows /\ R[id] = row /\ \A i \in DOMAIN rows : i # id => R[i] = rows[i]
  OBVIOUS
<1>2. \A i \in DOMAIN rows : /\ DOMAIN R[i] = RowFields
                             /\ R[i].kind = rows[i].kind /\ R[i].by = rows[i].by
                             /\ R[i].owner = rows[i].owner
                             /\ R[i].kind # "conversation" => R[i].project = rows[i].project
  BY <1>1 DEF RowsInv, WellFormed, Threads
<1> HIDE DEF R
<1>3. WellFormed(R)
  BY <1>1, <1>2 DEF RowsInv, WellFormed, Threads
<1>4. \A i \in DOMAIN rows : HolderIn(R, i) = OwnerOf(i)
  <2> SUFFICES ASSUME NEW i \in DOMAIN rows PROVE HolderIn(R, i) = OwnerOf(i)
    OBVIOUS
  <2>1. CASE rows[i].kind \in Threads
    BY <1>2, <2>1 DEF HolderIn, OwnerOf, Threads
  <2>2. CASE rows[i].kind \notin Threads
    <3>1. rows[i].project \in DOMAIN rows
      BY <2>2 DEF RowsInv, WellFormed
    <3> QED BY <1>2, <2>2, <3>1 DEF HolderIn, OwnerOf, Threads
  <2> QED BY <2>1, <2>2
<1>5. DOMAIN R \ DOMAIN rows = {}
  BY <1>1
<1>6. Follows(R, b, v)
  BY <1>1, <1>2, <1>3, <1>4, <1>5 DEF Follows
<1> QED BY <1>6 DEF R

\* Rows go, and with a project all that is in it.
LEMMA DeleteFollows ==
  ASSUME RowsInv, NEW b, NEW v, NEW ids,
         \A i \in DOMAIN rows : rows[i].kind \notin Threads /\ rows[i].project \in ids => i \in ids
  PROVE  Follows(Restrict(rows, DOMAIN rows \ ids), b, v)
<1> DEFINE R == Restrict(rows, DOMAIN rows \ ids)
<1>1. DOMAIN R = DOMAIN rows \ ids /\ \A i \in DOMAIN R : R[i] = rows[i]
  BY DEF Restrict
<1> HIDE DEF R
<1>2. \A i \in DOMAIN R : rows[i].kind \notin Threads => rows[i].project \in DOMAIN R
  BY <1>1 DEF RowsInv, WellFormed
<1>3. WellFormed(R)
  BY <1>1, <1>2 DEF RowsInv, WellFormed, Threads
<1>4. \A i \in DOMAIN R : HolderIn(R, i) = OwnerOf(i)
  BY <1>1, <1>2 DEF HolderIn, OwnerOf, Threads
<1>5. DOMAIN R \ DOMAIN rows = {}
  BY <1>1
<1>6. Follows(R, b, v)
  BY <1>1, <1>3, <1>4, <1>5 DEF Follows
<1> QED BY <1>6 DEF R

\* A row is added.
LEMMA CreateFollows ==
  ASSUME RowsInv, NEW b, NEW v, NEW row, DOMAIN row = RowFields, row.by = b,
         \/ /\ row.kind \in Threads /\ row.owner = v
            /\ row.kind = "project" => row.project = None
         \/ /\ row.kind \notin Threads /\ row.project \in DOMAIN rows
            /\ rows[row.project].kind = "project" /\ rows[row.project].owner = v
  PROVE  /\ Follows(Plus(rows, made + 1, row), b, v)
         /\ Plus(rows, made + 1, row) # rows
<1> DEFINE R == Plus(rows, made + 1, row)
<1>0. made + 1 \notin DOMAIN rows
  BY DEF RowsInv
<1>1. DOMAIN R = DOMAIN rows \cup {made + 1} /\ R[made + 1] = row
      /\ \A i \in DOMAIN rows : R[i] = rows[i]
  BY <1>0 DEF Plus
<1> HIDE DEF R
<1>2. WellFormed(R)
  BY <1>1 DEF RowsInv, WellFormed, Threads
<1>3. \A i \in DOMAIN rows : HolderIn(R, i) = OwnerOf(i)
  BY <1>1 DEF RowsInv, WellFormed, HolderIn, OwnerOf, Threads
<1>4. HolderIn(R, made + 1) = v
  BY <1>1 DEF HolderIn
<1>5. DOMAIN R \ DOMAIN rows = {made + 1}
  BY <1>0, <1>1
<1>6. Follows(R, b, v)
  BY <1>1, <1>2, <1>3, <1>4, <1>5 DEF Follows
<1>7. R # rows
  BY <1>0, <1>1
<1> QED BY <1>6, <1>7 DEF R

\* Two rows are added.
LEMMA CreateTwoFollows ==
  ASSUME RowsInv, NEW b, NEW v, NEW row, NEW more, DOMAIN row = RowFields, DOMAIN more = RowFields,
         row.by = b, more.by = b, row.kind \notin Threads, more.kind \notin Threads,
         row.project \in DOMAIN rows, more.project = row.project,
         rows[row.project].kind = "project", rows[row.project].owner = v
  PROVE  /\ Follows(Plus(Plus(rows, made + 1, row), made + 2, more), b, v)
         /\ Plus(Plus(rows, made + 1, row), made + 2, more) # rows
<1> DEFINE R == Plus(Plus(rows, made + 1, row), made + 2, more)
<1>0. made + 1 \notin DOMAIN rows /\ made + 2 \notin DOMAIN rows /\ made + 1 # made + 2
  BY DEF RowsInv
<1>1. /\ DOMAIN R = DOMAIN rows \cup {made + 1, made + 2}
      /\ R[made + 1] = row /\ R[made + 2] = more
      /\ \A i \in DOMAIN rows : R[i] = rows[i]
  BY <1>0 DEF Plus
<1> HIDE DEF R
<1>2. WellFormed(R)
  BY <1>1 DEF RowsInv, WellFormed, Threads
<1>3. \A i \in DOMAIN rows : HolderIn(R, i) = OwnerOf(i)
  BY <1>1 DEF RowsInv, WellFormed, HolderIn, OwnerOf, Threads
<1>4. HolderIn(R, made + 1) = v /\ HolderIn(R, made + 2) = v
  BY <1>1 DEF HolderIn
<1>5. DOMAIN R \ DOMAIN rows = {made + 1, made + 2}
  BY <1>0, <1>1
<1>6. Follows(R, b, v)
  BY <1>1, <1>2, <1>3, <1>4, <1>5 DEF Follows
<1>7. R # rows
  BY <1>0, <1>1
<1> QED BY <1>6, <1>7 DEF R

(***************************************************************************)
(* The routes.                                                             *)
(***************************************************************************)

Writes == {"createProject", "patchProject", "archiveProject", "unarchiveProject",
           "deleteProject", "uploadFile", "deleteFile", "createSession", "deleteSession",
           "postTurn", "deleteArtifact", "createConversation", "patchConversation",
           "deleteConversation"}

\* What a status tells of the rows.
Telling(op, res) ==
    /\ res.status \in Nat
    /\ res.status < 400 /\ op \in Creates \cup Deletes => res.rows # rows
    /\ res.status \in 400 .. 499 => res.rows = rows \/ op = "postTurn"

\* What an operation may do to the rows and say of it.
Keeps(q, v, res) == Follows(res.rows, q.by, v) /\ Telling(q.op, res)

\* Access is given to projects, and to their owners.
Owned(p, v) == Is(p, "project") /\ rows[p].owner = v /\ rows[p].project = None

\* A refusal has a status of its own.
Refusal(access) == access \in Nat /\ access >= 400

LEMMA AccessIs ==
  ASSUME RowsInv, NEW p, NEW v
  PROVE  /\ IF ProjectForWrite(p, v) = 200 THEN Owned(p, v) ELSE Refusal(ProjectForWrite(p, v))
         /\ IF ActiveProjectForWrite(p, v) = 200 THEN Owned(p, v)
            ELSE Refusal(ActiveProjectForWrite(p, v))
  BY DEF ProjectForWrite, ActiveProjectForWrite, CanMutate, OwnerOf, Is, RowsInv, WellFormed,
         Threads, Owned, Refusal

LEMMA MutateIs ==
  ASSUME NEW p, NEW v
  PROVE  IF CanMutate(p, v) = 200 THEN OwnerOf(p) = v ELSE Refusal(CanMutate(p, v))
  BY DEF CanMutate, Refusal

LEMMA RefusedIs ==
  ASSUME RowsInv, NEW q, NEW v, NEW s \in Nat, s >= 400
  PROVE  Keeps(q, v, Refused(s))
<1>1. Refused(s).rows = rows /\ Refused(s).status = s
  BY DEF Refused, Result
<1> HIDE DEF Refused
<1> QED BY <1>1, SameFollows DEF Keeps, Telling

\* What access does not give.
LEMMA DeniedIs ==
  ASSUME RowsInv, NEW q, NEW v, NEW access, Refusal(access)
  PROVE  Keeps(q, v, Refused(access))
  BY RefusedIs DEF Refusal

LEMMA FoundIs ==
  ASSUME RowsInv, NEW q, NEW v, NEW id, q.op \notin Creates \cup Deletes
  PROVE  Keeps(q, v, Found(id))
<1>1. Found(id).rows = rows /\ Found(id).status = 200
  BY DEF Found, Result
<1> HIDE DEF Found
<1> QED BY <1>1, SameFollows DEF Keeps, Telling

\* New rows tell that something was created.
LEMMA CreatedIs ==
  ASSUME RowsInv, NEW q, NEW v, NEW row, DOMAIN row = RowFields, row.by = q.by,
         \/ /\ row.kind \in Threads /\ row.owner = v
            /\ row.kind = "project" => row.project = None
         \/ /\ row.kind \notin Threads /\ row.project \in DOMAIN rows
            /\ rows[row.project].kind = "project" /\ rows[row.project].owner = v
  PROVE  Keeps(q, v, Created(row))
<1>1. Created(row).rows = Plus(rows, made + 1, row) /\ Created(row).status = 201
  BY DEF Created, Result
<1>2. Follows(Plus(rows, made + 1, row), q.by, v) /\ Plus(rows, made + 1, row) # rows
  BY CreateFollows
<1> HIDE DEF Created
<1> QED BY <1>1, <1>2 DEF Keeps, Telling

LEMMA DeletedIs ==
  ASSUME RowsInv, NEW q, NEW v, NEW ids, ids \cap DOMAIN rows # {},
         \A i \in DOMAIN rows : rows[i].kind \notin Threads /\ rows[i].project \in ids => i \in ids
  PROVE  Keeps(q, v, Deleted(ids))
<1>1. Deleted(ids).rows = Restrict(rows, DOMAIN rows \ ids) /\ Deleted(ids).status = 200
  BY DEF Deleted, Result
<1>2. Follows(Restrict(rows, DOMAIN rows \ ids), q.by, v)
  BY DeleteFollows
<1>3. Restrict(rows, DOMAIN rows \ ids) # rows
  BY DEF Restrict
<1> HIDE DEF Deleted
<1> QED BY <1>1, <1>2, <1>3 DEF Keeps, Telling

LEMMA UpdatedIs ==
  ASSUME RowsInv, NEW q, NEW v, q.op \notin Creates \cup Deletes,
         NEW id \in DOMAIN rows, NEW row, DOMAIN row = RowFields,
         row.kind = rows[id].kind, row.by = rows[id].by, row.owner = rows[id].owner,
         rows[id].kind \in Threads,
         rows[id].kind = "project" => row.project = rows[id].project
  PROVE  Keeps(q, v, Updated(id, row))
<1>1. Updated(id, row).rows = [rows EXCEPT ![id] = row] /\ Updated(id, row).status = 200
  BY DEF Updated, Result
<1>2. Follows([rows EXCEPT ![id] = row], q.by, v)
  BY UpdateFollows
<1> HIDE DEF Updated
<1> QED BY <1>1, <1>2 DEF Keeps, Telling

LEMMA ResultsAre ==
  ASSUME NEW q, NEW v
  PROVE  /\ q.op = "health" => Results(q, v) = {List(q), Refused(503)}
         /\ q.op \in Lists \ {"health"} => Results(q, v) = {List(q)}
         /\ q.op \in DOMAIN Reads => Results(q, v) = {Read(q, v, Reads[q.op])}
         /\ q.op = "createProject" => Results(q, v) = {CreateProject(q, v)}
         /\ q.op = "patchProject" => Results(q, v) = {PatchProject(q, v)}
         /\ q.op \in {"archiveProject", "unarchiveProject"} => Results(q, v) = {SetState(q, v)}
         /\ q.op = "deleteProject" => Results(q, v) = {DeleteProject(q, v)}
         /\ q.op = "uploadFile" => Results(q, v) = UploadFile(q, v)
         /\ q.op = "deleteFile" => Results(q, v) = {DeleteFile(q, v)}
         /\ q.op = "createSession" => Results(q, v) = {CreateSession(q, v)}
         /\ q.op = "deleteSession" => Results(q, v) = {DeleteSession(q, v)}
         /\ q.op = "postTurn" => Results(q, v) = PostTurn(q, v)
         /\ q.op = "deleteArtifact" => Results(q, v) = {DeleteArtifact(q, v)}
         /\ q.op = "createConversation" => Results(q, v) = {CreateConversation(q, v)}
         /\ q.op = "patchConversation" => Results(q, v) = {PatchConversation(q, v)}
         /\ q.op = "deleteConversation" => Results(q, v) = {DeleteConversation(q, v)}
  BY DEF Results, Lists, Reads

LEMMA ReadsKeep ==
  ASSUME RowsInv, NEW q, NEW v, q.op \in Lists \cup DOMAIN Reads, NEW res \in Results(q, v)
  PROVE  Keeps(q, v, res)
<1>1. q.op \notin Creates \cup Deletes
  BY DEF Creates, Deletes, Lists, Reads
<1>2. res \in {Found(q.on), Refused(503), Refused(404)}
  <2>1. CASE q.op = "health"
    BY <2>1, ResultsAre DEF List
  <2>2. CASE q.op \in Lists \ {"health"}
    BY <2>2, ResultsAre DEF List
  <2>3. CASE q.op \in DOMAIN Reads
    <3>1. res = Read(q, v, Reads[q.op])
      BY <2>3, ResultsAre
    <3> QED BY <3>1 DEF Read
  <2> QED BY <2>1, <2>2, <2>3
<1> QED BY <1>1, <1>2, FoundIs, RefusedIs

LEMMA ProjectsKeep ==
  ASSUME RowsInv, NEW q, NEW v, NEW res \in Results(q, v),
         q.op \in {"createProject", "patchProject", "archiveProject", "unarchiveProject",
                   "deleteProject"}
  PROVE  Keeps(q, v, res)
<1>1. CASE q.op = "createProject"
  <2>1. res = CreateProject(q, v)
    BY <1>1, ResultsAre
  <2> DEFINE row == [Row EXCEPT !.owner = v, !.name = q.name, !.by = q.by]
  <2>2. /\ DOMAIN row = RowFields /\ row.by = q.by /\ row.owner = v
        /\ row.kind = "project" /\ row.project = None
    BY DEF Row, RowFields
  <2>3. res \in {Created(row), Refused(422)}
    BY <2>1 DEF CreateProject
  <2> HIDE DEF row
  <2> QED BY <2>2, <2>3, CreatedIs, RefusedIs DEF Threads
<1>2. CASE q.op = "patchProject"
  <2>1. res = PatchProject(q, v)
    BY <1>2, ResultsAre
  <2> DEFINE row == [rows[q.on] EXCEPT !.name = q.name]
  <2>2. \/ res = Refused(422)
        \/ res = Refused(ActiveProjectForWrite(q.on, v)) /\ ActiveProjectForWrite(q.on, v) # 200
        \/ res = Updated(q.on, row) /\ ActiveProjectForWrite(q.on, v) = 200
    BY <2>1 DEF PatchProject
  <2>3. CASE res = Updated(q.on, row) /\ ActiveProjectForWrite(q.on, v) = 200
    <3>1. Is(q.on, "project")
      BY <2>3, AccessIs DEF Owned
    <3>2. /\ DOMAIN row = RowFields /\ row.by = rows[q.on].by /\ row.owner = rows[q.on].owner
          /\ row.kind = rows[q.on].kind /\ row.project = rows[q.on].project
      BY <3>1 DEF RowsInv, WellFormed, RowFields, Is
    <3> HIDE DEF row
    <3>3. q.on \in DOMAIN rows /\ rows[q.on].kind \in Threads /\ q.op \notin Creates \cup Deletes
      BY <1>2, <3>1 DEF Is, Threads, Creates, Deletes
    <3> QED BY <2>3, <3>2, <3>3, UpdatedIs
  <2> QED BY <2>2, <2>3, AccessIs, DeniedIs, RefusedIs
<1>3. CASE q.op \in {"archiveProject", "unarchiveProject"}
  <2>1. res = SetState(q, v)
    BY <1>3, ResultsAre
  <2> DEFINE row == [rows[q.on] EXCEPT !.archived = (q.op = "archiveProject")]
  <2>2. \/ res = Refused(ProjectForWrite(q.on, v)) /\ ProjectForWrite(q.on, v) # 200
        \/ res = Updated(q.on, row) /\ ProjectForWrite(q.on, v) = 200
    BY <2>1 DEF SetState
  <2>3. CASE res = Updated(q.on, row) /\ ProjectForWrite(q.on, v) = 200
    <3>1. Is(q.on, "project")
      BY <2>3, AccessIs DEF Owned
    <3>2. /\ DOMAIN row = RowFields /\ row.by = rows[q.on].by /\ row.owner = rows[q.on].owner
          /\ row.kind = rows[q.on].kind /\ row.project = rows[q.on].project
      BY <3>1 DEF RowsInv, WellFormed, RowFields, Is
    <3> HIDE DEF row
    <3>3. q.on \in DOMAIN rows /\ rows[q.on].kind \in Threads /\ q.op \notin Creates \cup Deletes
      BY <1>3, <3>1 DEF Is, Threads, Creates, Deletes
    <3> QED BY <2>3, <3>2, <3>3, UpdatedIs
  <2> QED BY <2>2, <2>3, AccessIs, DeniedIs, RefusedIs
<1>4. CASE q.op = "deleteProject"
  <2>1. res = DeleteProject(q, v)
    BY <1>4, ResultsAre
  <2> DEFINE ids == {i \in DOMAIN rows : q.on \in {i, rows[i].project}}
  <2>2. \/ res = Refused(ProjectForWrite(q.on, v)) /\ ProjectForWrite(q.on, v) # 200
        \/ res = Deleted(ids) /\ ProjectForWrite(q.on, v) = 200
    BY <2>1 DEF DeleteProject
  <2>3. CASE res = Deleted(ids) /\ ProjectForWrite(q.on, v) = 200
    <3>1. Is(q.on, "project")
      BY <2>3, AccessIs DEF Owned
    <3>2. ids \cap DOMAIN rows # {}
      BY <3>1 DEF Is
    <3>3. ASSUME NEW i \in DOMAIN rows, rows[i].kind \notin Threads, rows[i].project \in ids
          PROVE  i \in ids
      <4> DEFINE p == rows[i].project
      <4>1. rows[p].kind = "project" /\ p \in DOMAIN rows
        BY <3>3 DEF RowsInv, WellFormed
      <4>2. rows[p].project = None /\ q.on # None
        BY <3>1, <4>1 DEF RowsInv, WellFormed, Is, None
      <4>3. p = q.on
        BY <3>3, <4>2
      <4> QED BY <4>3
    <3> HIDE DEF ids
    <3> QED BY <2>3, <3>2, <3>3, DeletedIs
  <2> QED BY <2>2, <2>3, AccessIs, DeniedIs, RefusedIs
<1> QED BY <1>1, <1>2, <1>3, <1>4

LEMMA FilesKeep ==
  ASSUME RowsInv, NEW q, NEW v, NEW res \in Results(q, v),
         q.op \in {"uploadFile", "deleteFile", "createSession"}
  PROVE  Keeps(q, v, res)
<1>1. CASE q.op = "uploadFile"
  <2> DEFINE row == [Row EXCEPT !.kind = "file", !.project = q.on, !.by = q.by]
             access == ActiveProjectForWrite(q.on, v)
  <2>1. res \in UploadFile(q, v)
    BY <1>1, ResultsAre
  <2>2. /\ DOMAIN row = RowFields /\ row.by = q.by
        /\ row.kind = "file" /\ row.project = q.on
    BY DEF Row, RowFields
  <2>3. \/ res = Refused(access) /\ access # 200
        \/ res \in {Refused(413), Refused(415), Refused(422)}
        \/ access = 200 /\ res = Created(row)
    BY <2>1 DEF UploadFile
  <2>4. CASE access = 200 /\ res = Created(row)
    <3>1. q.on \in DOMAIN rows /\ rows[q.on].kind = "project" /\ rows[q.on].owner = v
      BY <2>4, AccessIs DEF Owned, Is
    <3> HIDE DEF row
    <3> QED BY <2>2, <2>4, <3>1, CreatedIs DEF Threads
  <2> QED BY <2>3, <2>4, AccessIs, DeniedIs, RefusedIs
<1>2. CASE q.op = "deleteFile"
  <2> DEFINE access == ProjectForWrite(rows[q.on].project, v)
  <2>1. res = DeleteFile(q, v)
    BY <1>2, ResultsAre
  <2>2. \/ res = Refused(404) \/ res = Refused(409)
        \/ res = Refused(access) /\ access # 200
        \/ res = Deleted({q.on}) /\ Is(q.on, "file")
    BY <2>1 DEF DeleteFile
  <2>3. CASE res = Deleted({q.on}) /\ Is(q.on, "file")
    <3>1. \A i \in DOMAIN rows : rows[i].kind \notin Threads => rows[i].project \notin {q.on}
      BY <2>3 DEF RowsInv, WellFormed, Is
    <3>2. {q.on} \cap DOMAIN rows # {}
      BY <2>3 DEF Is
    <3> QED BY <2>3, <3>1, <3>2, DeletedIs
  <2> QED BY <2>2, <2>3, AccessIs, DeniedIs, RefusedIs
<1>3. CASE q.op = "createSession"
  <2> DEFINE row == [Row EXCEPT !.kind = "session", !.project = q.on, !.on = q.with, !.by = q.by]
             access == ActiveProjectForWrite(q.on, v)
  <2>1. res = CreateSession(q, v)
    BY <1>3, ResultsAre
  <2>2. /\ DOMAIN row = RowFields /\ row.by = q.by
        /\ row.kind = "session" /\ row.project = q.on
    BY DEF Row, RowFields
  <2>3. \/ res = Refused(access) /\ access # 200
        \/ res \in {Refused(404), Refused(422)}
        \/ access = 200 /\ res = Created(row)
    BY <2>1 DEF CreateSession
  <2>4. CASE access = 200 /\ res = Created(row)
    <3>1. q.on \in DOMAIN rows /\ rows[q.on].kind = "project" /\ rows[q.on].owner = v
      BY <2>4, AccessIs DEF Owned, Is
    <3> HIDE DEF row
    <3> QED BY <2>2, <2>4, <3>1, CreatedIs DEF Threads
  <2> QED BY <2>3, <2>4, AccessIs, DeniedIs, RefusedIs
<1> QED BY <1>1, <1>2, <1>3

LEMMA SessionsKeep ==
  ASSUME RowsInv, NEW q, NEW v, NEW res \in Results(q, v),
         q.op \in {"deleteSession", "deleteArtifact"}
  PROVE  Keeps(q, v, res)
<1>1. \A p, kind : Is(p, kind) /\ kind # "project" =>
         \A i \in DOMAIN rows : rows[i].kind \notin Threads => rows[i].project # p
  BY DEF RowsInv, WellFormed, Is
<1>2. CASE q.op = "deleteSession"
  <2> DEFINE gone == {t \in DOMAIN rows : rows[t].kind = "turn" /\ rows[t].on = q.on}
  <2>1. res = DeleteSession(q, v)
    BY <1>2, ResultsAre
  <2>2. \/ res = Refused(404)
        \/ res = Refused(CanMutate(q.on, v)) /\ CanMutate(q.on, v) # 200
        \/ res = Deleted({q.on} \cup gone) /\ Is(q.on, "session")
    BY <2>1 DEF DeleteSession
  <2>3. CASE res = Deleted({q.on} \cup gone) /\ Is(q.on, "session")
    <3>1. \A t \in gone : Is(t, "turn")
      BY DEF Is
    <3>2. \A i \in DOMAIN rows : rows[i].kind \notin Threads => rows[i].project \notin {q.on} \cup gone
      BY <1>1, <2>3, <3>1
    <3>3. ({q.on} \cup gone) \cap DOMAIN rows # {}
      BY <2>3 DEF Is
    <3> HIDE DEF gone
    <3> QED BY <2>3, <3>2, <3>3, DeletedIs
  <2> QED BY <2>2, <2>3, MutateIs, DeniedIs, RefusedIs
<1>3. CASE q.op = "deleteArtifact"
  <2>1. res = DeleteArtifact(q, v)
    BY <1>3, ResultsAre
  <2>2. \/ res = Refused(404)
        \/ res = Refused(CanMutate(q.on, v)) /\ CanMutate(q.on, v) # 200
        \/ res = Deleted({q.on}) /\ Is(q.on, "artifact")
    BY <2>1 DEF DeleteArtifact
  <2>3. CASE res = Deleted({q.on}) /\ Is(q.on, "artifact")
    <3>1. \A i \in DOMAIN rows : rows[i].kind \notin Threads => rows[i].project \notin {q.on}
      BY <1>1, <2>3
    <3>2. {q.on} \cap DOMAIN rows # {}
      BY <2>3 DEF Is
    <3> QED BY <2>3, <3>1, <3>2, DeletedIs
  <2> QED BY <2>2, <2>3, MutateIs, DeniedIs, RefusedIs
<1> QED BY <1>2, <1>3

\* A turn that ran is there, whatever became of it, and its session belongs to
\* the visitor.
LEMMA TurnsKeep ==
  ASSUME RowsInv, NEW q, NEW v, NEW res \in Results(q, v), q.op = "postTurn"
  PROVE  Keeps(q, v, res)
<1> DEFINE p    == rows[q.on].project
           turn == [Row EXCEPT !.kind = "turn", !.project = p, !.on = q.on,
                               !.input = q.with, !.by = q.by]
           art  == [turn EXCEPT !.kind = "artifact"]
           one  == Plus(rows, made + 1, turn)
           two  == Plus(one, made + 2, art)
<1>1. res \in PostTurn(q, v)
  BY ResultsAre
<1>2. /\ DOMAIN turn = RowFields /\ turn.by = q.by /\ turn.kind = "turn" /\ turn.project = p
      /\ DOMAIN art = RowFields /\ art.by = q.by /\ art.kind = "artifact" /\ art.project = p
  BY DEF Row, RowFields
<1>3. Created(turn).rows = one /\ DOMAIN Created(turn) = {"status", "id", "rows"}
  BY DEF Created, Result
<1>4. \/ \E s \in {404, 409, 422, 429} : res = Refused(s)
      \/ res = Refused(CanMutate(q.on, v)) /\ CanMutate(q.on, v) # 200
      \/ /\ Is(q.on, "session") /\ CanMutate(q.on, v) = 200
         /\ \/ \E s \in {200, 400, 422, 500, 503} : res = [Created(turn) EXCEPT !.status = s]
            \/ res = [Created(turn) EXCEPT !.status = 200,
                                           !.rows = Plus(Created(turn).rows, made + 2, art)]
  BY <1>1 DEF PostTurn
<1> HIDE DEF p, turn, art
<1>5. CASE \E s \in {404, 409, 422, 429} : res = Refused(s)
  BY <1>5, RefusedIs
<1>6. CASE res = Refused(CanMutate(q.on, v)) /\ CanMutate(q.on, v) # 200
  BY <1>6, DeniedIs, MutateIs
<1>7. CASE /\ Is(q.on, "session") /\ CanMutate(q.on, v) = 200
           /\ \/ \E s \in {200, 400, 422, 500, 503} : res = [Created(turn) EXCEPT !.status = s]
              \/ res = [Created(turn) EXCEPT !.status = 200,
                                             !.rows = Plus(Created(turn).rows, made + 2, art)]
  <2>1. p \in DOMAIN rows /\ rows[p].kind = "project"
    BY <1>7 DEF p, RowsInv, WellFormed, Is, Threads
  <2>2. rows[p].owner = v
    BY <1>7, MutateIs DEF p, Is, OwnerOf
  <2>3. Follows(one, q.by, v) /\ one # rows
    BY <1>2, <2>1, <2>2, CreateFollows DEF Threads
  <2>4. Follows(two, q.by, v) /\ two # rows
    BY <1>2, <2>1, <2>2, CreateTwoFollows DEF Threads
  <2>5. res.rows \in {one, two} /\ res.status \in Nat
    <3>1. ASSUME NEW s, NEW R
          PROVE  /\ [Created(turn) EXCEPT !.status = s].status = s
                 /\ [Created(turn) EXCEPT !.status = s].rows = one
                 /\ [Created(turn) EXCEPT !.status = s, !.rows = R].status = s
                 /\ [Created(turn) EXCEPT !.status = s, !.rows = R].rows = R
      BY <1>3
    <3> HIDE DEF one
    <3>2. CASE \E s \in {200, 400, 422, 500, 503} : res = [Created(turn) EXCEPT !.status = s]
      BY <3>1, <3>2
    <3>3. CASE res = [Created(turn) EXCEPT !.status = 200,
                                           !.rows = Plus(Created(turn).rows, made + 2, art)]
      BY <1>3, <3>1, <3>3
    <3> QED BY <1>7, <3>2, <3>3
  <2> QED BY <2>3, <2>4, <2>5 DEF Keeps, Telling
<1> QED BY <1>4, <1>5, <1>6, <1>7

LEMMA ThreadsKeep ==
  ASSUME RowsInv, NEW q, NEW v, NEW res \in Results(q, v),
         q.op \in {"createConversation", "patchConversation", "deleteConversation"}
  PROVE  Keeps(q, v, res)
<1>0. q.op \notin Creates \cup Deletes
  BY DEF Creates, Deletes
<1>1. \A p : Binding(p, v) \in {200, 404, 409}
  BY DEF Binding
<1>2. CASE q.op = "createConversation"
  <2> DEFINE row == [Row EXCEPT !.kind = "conversation", !.owner = v, !.project = q.with,
                                !.by = q.by]
  <2>1. res = CreateConversation(q, v)
    BY <1>2, ResultsAre
  <2>2. /\ DOMAIN row = RowFields /\ row.by = q.by /\ row.owner = v
        /\ row.kind = "conversation"
    BY DEF Row, RowFields
  <2>3. \/ res = Refused(422) \/ res = Created(row)
        \/ res = Refused(Binding(q.with, v)) /\ Binding(q.with, v) # 200
    BY <2>1 DEF CreateConversation
  <2> HIDE DEF row
  <2> QED BY <1>1, <2>2, <2>3, CreatedIs, RefusedIs DEF Threads
<1>3. CASE q.op = "patchConversation"
  <2> DEFINE named == [rows[q.on] EXCEPT !.name = q.name]
             bound == [rows[q.on] EXCEPT !.project = q.with]
  <2>1. res = PatchConversation(q, v)
    BY <1>3, ResultsAre
  <2>2. \/ res = Refused(404) \/ res = Refused(422)
        \/ res = Refused(Binding(q.with, v)) /\ Binding(q.with, v) # 200
        \/ MyConversation(q.on, v) /\ res \in {Updated(q.on, named), Updated(q.on, bound)}
    BY <2>1 DEF PatchConversation
  <2>3. CASE MyConversation(q.on, v) /\ res \in {Updated(q.on, named), Updated(q.on, bound)}
    <3>1. Is(q.on, "conversation")
      BY <2>3 DEF MyConversation
    <3>2. \A row \in {named, bound} :
            /\ DOMAIN row = RowFields /\ row.by = rows[q.on].by /\ row.owner = rows[q.on].owner
            /\ row.kind = rows[q.on].kind
      BY <3>1 DEF RowsInv, WellFormed, RowFields, Is
    <3>3. q.on \in DOMAIN rows /\ rows[q.on].kind = "conversation"
      BY <3>1 DEF Is
    <3> HIDE DEF named, bound
    <3>4. PICK row \in {named, bound} : res = Updated(q.on, row)
      BY <2>3
    <3> QED BY <1>0, <3>2, <3>3, <3>4, UpdatedIs DEF Threads
  <2> QED BY <1>1, <2>2, <2>3, RefusedIs
<1>4. CASE q.op = "deleteConversation"
  <2>1. res = DeleteConversation(q, v)
    BY <1>4, ResultsAre
  <2>2. res = Refused(404) \/ (res = Deleted({q.on}) /\ Is(q.on, "conversation"))
    BY <2>1 DEF DeleteConversation, MyConversation
  <2>3. CASE res = Deleted({q.on}) /\ Is(q.on, "conversation")
    <3>1. \A i \in DOMAIN rows : rows[i].kind \notin Threads => rows[i].project \notin {q.on}
      BY <2>3 DEF RowsInv, WellFormed, Is
    <3>2. {q.on} \cap DOMAIN rows # {}
      BY <2>3 DEF Is
    <3> QED BY <2>3, <3>1, <3>2, DeletedIs
  <2> QED BY <2>2, <2>3, RefusedIs
<1> QED BY <1>2, <1>3, <1>4

LEMMA ResultsKeep ==
  ASSUME RowsInv, NEW q, NEW v, NEW res \in Results(q, v),
         q.op \in Lists \cup DOMAIN Reads \cup Writes
  PROVE  Keeps(q, v, res)
BY ReadsKeep, ProjectsKeep, FilesKeep, SessionsKeep, TurnsKeep, ThreadsKeep DEF Writes

\* Every result is made of a status, an id and rows.
Shaped(res) == DOMAIN res = {"status", "id", "rows"}

LEMMA ResultsShape ==
  ASSUME NEW q, NEW v, q.op \in Lists \cup DOMAIN Reads \cup Writes, NEW res \in Results(q, v)
  PROVE  Shaped(res)
<1>1. /\ \A s : Shaped(Refused(s))
      /\ \A id : Shaped(Found(id))
      /\ \A id, row : Shaped(Updated(id, row))
      /\ \A ids : Shaped(Deleted(ids))
      /\ \A row : Shaped(Created(row))
  BY DEF Refused, Found, Updated, Deleted, Created, Result, Shaped
<1>2. CASE q.op = "health"
  BY <1>1, <1>2, ResultsAre DEF List
<1>3. CASE q.op \in Lists \ {"health"}
  BY <1>1, <1>3, ResultsAre DEF List
<1>4. CASE q.op \in DOMAIN Reads
  <2>1. res = Read(q, v, Reads[q.op])
    BY <1>4, ResultsAre
  <2> QED BY <1>1, <2>1 DEF Read
<1>5. CASE q.op \in {"createProject", "patchProject", "archiveProject", "unarchiveProject", "deleteProject"}
  <2>1. Shaped(CreateProject(q, v))
    BY <1>1 DEF CreateProject
  <2>2. Shaped(PatchProject(q, v))
    BY <1>1 DEF PatchProject
  <2>3. Shaped(SetState(q, v))
    BY <1>1 DEF SetState
  <2>4. Shaped(DeleteProject(q, v))
    BY <1>1 DEF DeleteProject
  <2>5. res \in {CreateProject(q, v), PatchProject(q, v), SetState(q, v), DeleteProject(q, v)}
    BY <1>5, ResultsAre
  <2> QED BY <2>1, <2>2, <2>3, <2>4, <2>5
<1>6. CASE q.op = "uploadFile"
  <2>1. \A r \in UploadFile(q, v) : Shaped(r)
    BY <1>1 DEF UploadFile
  <2> QED BY <1>6, <2>1, ResultsAre
<1>7. CASE q.op \in {"deleteFile", "createSession", "deleteSession", "deleteArtifact"}
  <2>1. Shaped(DeleteFile(q, v))
    BY <1>1 DEF DeleteFile
  <2>2. Shaped(CreateSession(q, v))
    BY <1>1 DEF CreateSession
  <2>3. Shaped(DeleteSession(q, v))
    BY <1>1 DEF DeleteSession
  <2>4. Shaped(DeleteArtifact(q, v))
    BY <1>1 DEF DeleteArtifact
  <2>5. res \in {DeleteFile(q, v), CreateSession(q, v), DeleteSession(q, v), DeleteArtifact(q, v)}
    BY <1>7, ResultsAre
  <2> QED BY <2>1, <2>2, <2>3, <2>4, <2>5
<1>8. CASE q.op = "postTurn"
  <2>1. \A row, s, R : Shaped([Created(row) EXCEPT !.status = s])
                      /\ Shaped([Created(row) EXCEPT !.status = s, !.rows = R])
    BY <1>1 DEF Shaped
  <2> DEFINE turn == [Row EXCEPT !.kind = "turn", !.project = rows[q.on].project, !.on = q.on,
                                 !.input = q.with, !.by = q.by]
             art  == [turn EXCEPT !.kind = "artifact"]
  <2>2. res \in PostTurn(q, v)
    BY <1>8, ResultsAre
  <2>3. \/ \E s \in {404, 409, 422, 429, CanMutate(q.on, v)} : res = Refused(s)
        \/ \E s \in {200, 400, 422, 500, 503} : res = [Created(turn) EXCEPT !.status = s]
        \/ res = [Created(turn) EXCEPT !.status = 200,
                                       !.rows = Plus(Created(turn).rows, made + 2, art)]
    BY <2>2 DEF PostTurn
  <2> HIDE DEF turn, art
  <2>4. CASE \E s \in {404, 409, 422, 429, CanMutate(q.on, v)} : res = Refused(s)
    BY <1>1, <2>4
  <2>5. CASE \E s \in {200, 400, 422, 500, 503} : res = [Created(turn) EXCEPT !.status = s]
    <3>1. PICK s : res = [Created(turn) EXCEPT !.status = s]
      BY <2>5
    <3>2. Shaped([Created(turn) EXCEPT !.status = s])
      BY <2>1
    <3> QED BY <3>1, <3>2
  <2>6. CASE res = [Created(turn) EXCEPT !.status = 200,
                                         !.rows = Plus(Created(turn).rows, made + 2, art)]
    <3>1. \A R : Shaped([Created(turn) EXCEPT !.status = 200, !.rows = R])
      BY <2>1
    <3> QED BY <2>6, <3>1
  <2> QED BY <2>3, <2>4, <2>5, <2>6
<1>9. CASE q.op \in {"createConversation", "patchConversation", "deleteConversation"}
  <2>1. Shaped(CreateConversation(q, v))
    BY <1>1 DEF CreateConversation
  <2>2. Shaped(PatchConversation(q, v))
    BY <1>1 DEF PatchConversation
  <2>3. Shaped(DeleteConversation(q, v))
    BY <1>1 DEF DeleteConversation
  <2>4. res \in {CreateConversation(q, v), PatchConversation(q, v), DeleteConversation(q, v)}
    BY <1>9, ResultsAre
  <2> QED BY <2>1, <2>2, <2>3, <2>4
<1> QED BY <1>2, <1>3, <1>4, <1>5, <1>6, <1>7, <1>8, <1>9 DEF Writes

\* A handler that throws may have done its work before.
LEMMA ThrownKeep ==
  ASSUME RowsInv, NEW q, NEW v, q.op \in Lists \cup DOMAIN Reads \cup Writes,
         NEW res \in Thrown(Results(q, v))
  PROVE  Follows(res.rows, q.by, v) /\ res.status = 500
<1>1. CASE res = Refused(500)
  <2>1. res.rows = rows /\ res.status = 500
    BY <1>1 DEF Refused, Result
  <2> QED BY <2>1, SameFollows
<1>2. CASE \E r \in Results(q, v) : res = [r EXCEPT !.status = 500, !.id = None]
  <2>1. PICK r \in Results(q, v) : res = [r EXCEPT !.status = 500, !.id = None]
    BY <1>2
  <2>2. Keeps(q, v, r) /\ DOMAIN r = {"status", "id", "rows"}
    BY ResultsKeep, ResultsShape DEF Shaped
  <2>3. res.rows = r.rows /\ res.status = 500
    BY <2>1, <2>2
  <2> QED BY <2>2, <2>3 DEF Keeps
<1> QED BY <1>1, <1>2 DEF Thrown

\* Serving a request leaves rows in order, and counts the ids it mints.
LEMMA ServeKeeps ==
  ASSUME RowsInv, NEW q, NEW c, NEW res, NEW b, NEW v, Follows(res.rows, b, v), Serve(q, c, res)
  PROVE  RowsInv'
<1> DEFINE new == DOMAIN res.rows \ DOMAIN rows
<1>1. rows' = res.rows /\ made' = made + Cardinality(new) /\ minted' \in {minted, minted + 1}
  BY DEF Serve
<1>2. new \in {{}, {made + 1}, {made + 1, made + 2}} /\ WellFormed(res.rows)
  BY DEF Follows
<1>3. made \in Nat /\ minted \in Nat /\ DOMAIN rows \subseteq 1 .. made
  BY DEF RowsInv
<1>4. /\ new = {} => Cardinality(new) = 0
      /\ new = {made + 1} => Cardinality(new) = 1
      /\ new = {made + 1, made + 2} => Cardinality(new) = 2
  <2>1. Cardinality({}) = 0 /\ Cardinality({made + 1}) = 1
    BY FS_EmptySet, FS_Singleton
  <2>2. Cardinality({made + 1} \cup {made + 2}) = 2
    <3>0. made + 2 \notin {made + 1}
      BY <1>3
    <3>1. IsFiniteSet({made + 1}) /\ made + 2 \notin {made + 1}
      BY <3>0, FS_Singleton
    <3>2. Cardinality({made + 1} \cup {made + 2}) = Cardinality({made + 1}) + 1
      BY <3>1, FS_AddElement
    <3> QED BY <2>1, <3>2
  <2>3. {made + 1, made + 2} = {made + 1} \cup {made + 2}
    OBVIOUS
  <2> HIDE DEF new
  <2> QED BY <2>1, <2>2, <2>3
<1>5. DOMAIN res.rows \subseteq DOMAIN rows \cup new
  OBVIOUS
<1> HIDE DEF new
<1>6. made' \in Nat /\ DOMAIN rows' \subseteq 1 .. made'
  <2>1. CASE new = {}
    BY <1>1, <1>3, <1>4, <1>5, <2>1
  <2>2. CASE new = {made + 1}
    BY <1>1, <1>3, <1>4, <1>5, <2>2
  <2>3. CASE new = {made + 1, made + 2}
    BY <1>1, <1>3, <1>4, <1>5, <2>3
  <2> QED BY <1>2, <2>1, <2>2, <2>3
<1>7. minted' \in Nat
  BY <1>1, <1>3
<1>8. WellFormed(rows')
  BY <1>1, <1>2
<1> QED BY <1>6, <1>7, <1>8 DEF RowsInv, WellFormed

LEMMA InitRows ==
  ASSUME Init
  PROVE  RowsInv /\ \A i \in DOMAIN rows : rows[i].by = "seed"
<1>1. rows = InitialRows /\ made = Cardinality(DOMAIN InitialRows) /\ minted = 1
  BY DEF Init
<1>2. made \in Nat
  BY <1>1, RowsAssumption, FS_CardinalityType
<1>3. WellFormed(rows)
  BY <1>1, RowsAssumption, RowIs DEF WellFormed, Threads
<1> QED BY <1>1, <1>2, <1>3, RowsAssumption DEF RowsInv

(***************************************************************************)
(* The command line.  What a process has heard or will hear agrees with    *)
(* what its request did, which is what its exit code will tell.            *)
(***************************************************************************)

ProcFields == {"pc", "q", "cookie", "ans", "exit", "did"}
Routed     == Lists \cup DOMAIN Reads \cup Writes

\* What a status and an exit code may say of a command that did or did not
\* change anything.
Says(op, status, did) ==
    /\ status \in Nat
    /\ status < 400 /\ op \in Creates \cup Deletes => did
    /\ status \in 400 .. 499 => ~did \/ op = "postTurn"

Tells(op, exit, did) ==
    /\ exit = OK /\ op \in Creates \cup Deletes => did
    /\ exit \in USAGE .. VALIDATION => ~did \/ op = "postTurn"

ProcOK(x) ==
    /\ DOMAIN x = ProcFields
    /\ x.pc \in {"unborn", "sent", "served", "done"}
    /\ x.pc \in {"sent", "served"} => x.q.op \in Routed /\ x.q.by = "cli"
    /\ x.pc = "unborn" => x.q.op = "none"
    /\ x.pc \in {"unborn", "sent"} => x.did = FALSE
    /\ x.pc = "served" => Says(x.q.op, x.ans.status, x.did)
    /\ x.pc = "done" => Tells(x.q.op, x.exit, x.did)

ProcInv == DOMAIN proc = Procs /\ \A p \in Procs : ProcOK(proc[p])

LEMMA BecomesIs ==
  ASSUME NEW p \in Procs, NEW x, DOMAIN proc = Procs, Becomes(p, x)
  PROVE  /\ DOMAIN proc' = Procs /\ proc'[p] = x
         /\ \A r \in Procs : r # p => proc'[r] = proc[r]
  BY DEF Becomes

\* Every command that is typed is one of the routes, and says what it is.
LEMMA ArgumentsAre ==
  ASSUME NEW op, NEW q \in Arguments(op)
  PROVE  q.op = op /\ DOMAIN q = DOMAIN Request
<1>1. DOMAIN Request = {"op", "on", "with", "name", "ok", "by"}
  BY DEF Request
<1>2. q.op = op /\ DOMAIN q = {"op", "on", "with", "name", "ok", "by"}
  BY DEF Arguments
<1> QED BY <1>1, <1>2

LEMMA CommandsRouted == Commands \subseteq Routed
  BY DEF Commands, ProjectCommands, FileCommands, SessionCommands, ArtifactCommands,
         ConfigCommands, Routed, Lists, Reads, Writes

\* A process is done: what it is left with.
LEMMA ExitIs ==
  ASSUME ProcInv, NEW p \in Procs, NEW code, Exit(p, code),
         Tells(proc[p].q.op, code, proc[p].did)
  PROVE  /\ ProcInv' /\ proc'[p].pc = "done"
         /\ \A r \in Procs : r # p => proc'[r] = proc[r]
<1> DEFINE x == [Unborn EXCEPT !.pc = "done", !.exit = code,
                               !.q.op = proc[p].q.op, !.did = proc[p].did]
<1>1. /\ DOMAIN x = ProcFields /\ x.pc = "done" /\ x.exit = code
      /\ x.q.op = proc[p].q.op /\ x.did = proc[p].did
  BY DEF Unborn, ProcFields, Request
<1>2. DOMAIN proc = Procs /\ Becomes(p, x)
  BY DEF Exit, ProcInv
<1> HIDE DEF x
<1>3. ProcOK(x)
  BY <1>1 DEF ProcOK
<1>4. \A r \in Procs : proc'[r] = IF r = p THEN x ELSE proc[r]
  BY <1>2, BecomesIs
<1>5. DOMAIN proc' = Procs
  BY <1>2, BecomesIs
<1> QED BY <1>1, <1>3, <1>4, <1>5 DEF ProcInv

LEMMA LocalExits ==
  ASSUME ProcInv, NEW p \in Procs, Local(p) \/ FailCheck(p) \/ Unreachable(p) \/ Receive(p)
  PROVE  /\ ProcInv' /\ proc'[p].pc = "done"
         /\ \A r \in Procs : r # p => proc'[r] = proc[r]
<1> USE DEF OK, UNEXPECTED, USAGE, AUTH, NOT_FOUND, VALIDATION, REMOTE_UNAVAILABLE
<1>0. ProcOK(proc[p])
  BY DEF ProcInv
<1>1. CASE Local(p)
  <2>1. PICK code \in {USAGE, OK} : Exit(p, code)
    BY <1>1 DEF Local
  <2>2. Tells(proc[p].q.op, code, proc[p].did)
    BY <1>0, <1>1, <2>1 DEF Local, ProcOK, Tells, Creates, Deletes
  <2> QED BY <2>1, <2>2, ExitIs
<1>2. CASE FailCheck(p)
  <2>1. PICK op : Becomes(p, [proc[p] EXCEPT !.pc = "done", !.q.op = op, !.exit = VALIDATION])
    BY <1>2 DEF FailCheck
  <2> DEFINE x == [proc[p] EXCEPT !.pc = "done", !.q.op = op, !.exit = VALIDATION]
  <2>2. proc[p].did = FALSE /\ DOMAIN proc[p] = ProcFields
    BY <1>0, <1>2 DEF FailCheck, ProcOK
  <2>3. DOMAIN x = ProcFields /\ x.pc = "done" /\ x.exit = VALIDATION /\ x.did = FALSE
    BY <2>2 DEF ProcFields
  <2> HIDE DEF x
  <2>4. ProcOK(x)
    BY <2>3 DEF ProcOK, Tells
  <2>5. Becomes(p, x)
    BY <2>1 DEF x
  <2>6. DOMAIN proc = Procs
    BY DEF ProcInv
  <2>7. DOMAIN proc' = Procs /\ proc'[p] = x /\ \A r \in Procs : r # p => proc'[r] = proc[r]
    BY <2>5, <2>6, BecomesIs
  <2> QED BY <2>3, <2>4, <2>7 DEF ProcInv
<1>3. CASE Unreachable(p)
  <2>1. Exit(p, REMOTE_UNAVAILABLE)
    BY <1>3 DEF Unreachable
  <2>2. Tells(proc[p].q.op, REMOTE_UNAVAILABLE, proc[p].did)
    BY DEF Tells
  <2> QED BY <2>1, <2>2, ExitIs
<1>4. CASE Receive(p)
  <2>1. Says(proc[p].q.op, proc[p].ans.status, proc[p].did)
    BY <1>0, <1>4 DEF Receive, ProcOK
  <2>2. CASE proc[p].ans.status < 400
    <3>1. PICK code \in {OK, UNEXPECTED} : Exit(p, code)
      BY <1>4, <2>2 DEF Receive
    <3>2. Tells(proc[p].q.op, code, proc[p].did)
      BY <2>1, <2>2, <3>1 DEF Says, Tells
    <3> QED BY <3>1, <3>2, ExitIs
  <2>3. CASE ~(proc[p].ans.status < 400)
    <3> DEFINE code == exitCodeForStatus(proc[p].ans.status)
    <3>1. Exit(p, code)
      BY <1>4, <2>3 DEF Receive
    <3>2. /\ code \in {1, 2, 3, 4, 5, 6}
          /\ code \in {2, 3, 4, 5} => proc[p].ans.status \in 400 .. 499
      BY <2>1 DEF exitCodeForStatus, Says
    <3>3. Tells(proc[p].q.op, code, proc[p].did)
      BY <2>1, <3>2 DEF Says, Tells
    <3> QED BY <3>1, <3>3, ExitIs
  <2> QED BY <2>2, <2>3
<1> QED BY <1>1, <1>2, <1>3, <1>4

LEMMA InvokeIs ==
  ASSUME ProcInv, NEW p \in Procs, Invoke(p)
  PROVE  /\ ProcInv'
         /\ proc[p].pc = "unborn" /\ proc'[p].pc = "sent" /\ proc'[p].cookie = saved
         /\ split' = (split \/ /\ saved = None
                               /\ \E r \in Procs : Waiting(r) /\ proc[r].cookie = None)
         /\ UNCHANGED <<api, saved>>
         /\ \A r \in Procs : r # p => proc'[r] = proc[r]
<1>1. PICK op \in Invoked : \E q \in Arguments(op) : Send(p, [q EXCEPT !.by = "cli"])
  BY DEF Invoke
<1>2. PICK a \in Arguments(op) : Send(p, [a EXCEPT !.by = "cli"])
  BY <1>1
<1> DEFINE q == [a EXCEPT !.by = "cli"]
           x == [proc[p] EXCEPT !.pc = "sent", !.q = q, !.cookie = saved]
<1>3. q.op = op /\ q.by = "cli"
  BY <1>2, ArgumentsAre DEF Request
<1>4. op \in Routed
  BY <1>1, CommandsRouted, InvokedAssumption
<1>5. /\ proc[p].pc = "unborn" /\ Becomes(p, x) /\ UNCHANGED <<api, saved>>
      /\ split' = (split \/ /\ saved = None
                            /\ \E r \in Procs : Waiting(r) /\ proc[r].cookie = None)
  BY <1>2 DEF Send
<1> HIDE DEF q
<1>6. ProcOK(proc[p]) /\ DOMAIN proc = Procs
  BY DEF ProcInv
<1>7. /\ DOMAIN x = ProcFields /\ x.pc = "sent" /\ x.q = q /\ x.cookie = saved
      /\ x.did = proc[p].did
  BY <1>6 DEF ProcOK, ProcFields
<1> HIDE DEF x
<1>8. ProcOK(x)
  BY <1>3, <1>4, <1>5, <1>6, <1>7 DEF ProcOK
<1>9. DOMAIN proc' = Procs /\ proc'[p] = x /\ \A r \in Procs : r # p => proc'[r] = proc[r]
  BY <1>5, <1>6, BecomesIs
<1>10. ProcInv'
  BY <1>8, <1>9 DEF ProcInv
<1> QED BY <1>5, <1>7, <1>9, <1>10

\* What the service of a request leaves: the rows of a result of it, and an
\* answer that says what it did.
LEMMA ServeCliIs ==
  ASSUME RowsInv, ProcInv, NEW p \in Procs, ServeCli(p)
  PROVE  /\ RowsInv' /\ ProcInv'
         /\ Follows(rows', "cli", Visitor(proc[p].cookie))
         /\ proc[p].pc = "sent" /\ proc'[p].pc = "served"
         /\ proc'[p].cookie = proc[p].cookie
         /\ proc'[p].ans.cookie = IF proc[p].cookie = None THEN minted + 1 ELSE None
         /\ UNCHANGED <<saved, split>>
         /\ \A r \in Procs : r # p => proc'[r] = proc[r]
<1> DEFINE q == proc[p].q
           c == proc[p].cookie
           v == Visitor(c)
<1>1. ProcOK(proc[p]) /\ proc[p].pc = "sent" /\ DOMAIN proc = Procs
  BY DEF ProcInv, ServeCli
<1>2. q.op \in Routed /\ q.by = "cli"
  BY <1>1 DEF ProcOK
<1>3. PICK res \in Results(q, v) \cup Thrown(Results(q, v)) :
         /\ Serve(q, c, res)
         /\ Becomes(p, [proc[p] EXCEPT !.pc = "served", !.ans = Answer(q, c, res),
                                       !.did = (res.rows # rows)])
  BY DEF ServeCli
<1> DEFINE x == [proc[p] EXCEPT !.pc = "served", !.ans = Answer(q, c, res),
                                !.did = (res.rows # rows)]
<1>4. Follows(res.rows, "cli", v) /\ Says(q.op, res.status, res.rows # rows)
  <2>1. CASE res \in Results(q, v)
    <3>1. Keeps(q, v, res)
      BY <1>2, <2>1, ResultsKeep DEF Routed
    <3> QED BY <1>2, <3>1 DEF Keeps, Telling, Says
  <2>2. CASE res \in Thrown(Results(q, v))
    <3>1. Follows(res.rows, q.by, v) /\ res.status = 500
      BY <1>2, <2>2, ThrownKeep DEF Routed
    <3> QED BY <1>2, <3>1 DEF Says
  <2> QED BY <1>3, <2>1, <2>2
<1>5. /\ Answer(q, c, res).status = res.status
      /\ Answer(q, c, res).cookie = IF c = None THEN minted + 1 ELSE None
  BY DEF Answer
<1> HIDE DEF q, c, v
<1>6. /\ DOMAIN x = ProcFields /\ x.pc = "served" /\ x.ans = Answer(q, c, res)
      /\ x.did = (res.rows # rows) /\ x.q = proc[p].q /\ x.cookie = proc[p].cookie
  BY <1>1 DEF ProcOK, ProcFields
<1> HIDE DEF x
<1>7. ProcOK(x)
  BY <1>2, <1>4, <1>5, <1>6 DEF ProcOK, q
<1>8. Becomes(p, x)
  BY <1>3 DEF x
<1>9. DOMAIN proc' = Procs /\ proc'[p] = x /\ \A r \in Procs : r # p => proc'[r] = proc[r]
  BY <1>1, <1>8, BecomesIs
<1>10. ProcInv'
  BY <1>7, <1>9 DEF ProcInv
<1>11. RowsInv'
  BY <1>3, <1>4, ServeKeeps
<1>12. Follows(rows', "cli", v)
  BY <1>3, <1>4 DEF Serve
<1>13. UNCHANGED <<saved, split>>
  BY DEF ServeCli
<1> QED BY <1>1, <1>5, <1>6, <1>9, <1>10, <1>11, <1>12, <1>13 DEF c, v

(***************************************************************************)
(* The calls of the browser are a sequence; what matters of it is which    *)
(* calls are in it.                                                        *)
(***************************************************************************)

IsSeq(s) == \E S : s \in Seq(S)

LEMMA SeqIs ==
  ASSUME NEW s, IsSeq(s)
  PROVE  Len(s) \in Nat /\ DOMAIN s = 1 .. Len(s) /\ s \in Seq(Range(s))
<1>1. PICK S : s \in Seq(S)
  BY DEF IsSeq
<1>2. Len(s) \in Nat /\ DOMAIN s = 1 .. Len(s)
  BY <1>1
<1>3. s = [i \in 1 .. Len(s) |-> s[i]]
  BY <1>1
<1>4. \A i \in 1 .. Len(s) : s[i] \in Range(s)
  BY <1>2 DEF Range
<1> HIDE DEF IsSeq
<1>5. s \in [1 .. Len(s) -> Range(s)]
  BY <1>3, <1>4
<1> QED BY <1>2, <1>5

LEMMA CountedIs ==
  ASSUME NEW n \in Nat, NEW f, DOMAIN f = 1 .. n, f = [i \in 1 .. n |-> f[i]]
  PROVE  IsSeq(f)
<1>1. f \in [1 .. n -> Range(f)]
  BY DEF Range
<1>2. f \in Seq(Range(f))
  BY <1>1
<1> QED BY <1>2 DEF IsSeq

LEMMA JoinIs ==
  ASSUME NEW s, NEW t, IsSeq(s), IsSeq(t)
  PROVE  IsSeq(s \o t) /\ Range(s \o t) = Range(s) \cup Range(t)
<1> DEFINE S == Range(s) \cup Range(t)
<1>1. /\ Len(s) \in Nat /\ DOMAIN s = 1 .. Len(s) /\ s \in Seq(Range(s))
      /\ Len(t) \in Nat /\ DOMAIN t = 1 .. Len(t) /\ t \in Seq(Range(t))
  BY SeqIs
<1>2. s \in Seq(S) /\ t \in Seq(S)
  BY <1>1
<1> HIDE DEF S
<1>3. s \o t \in Seq(S) /\ Len(s \o t) = Len(s) + Len(t)
  BY <1>2
<1>4. /\ \A i \in 1 .. Len(s) : (s \o t)[i] = s[i]
      /\ \A i \in 1 .. Len(t) : (s \o t)[Len(s) + i] = t[i]
  BY <1>1, <1>2
<1>5. DOMAIN (s \o t) = 1 .. Len(s) + Len(t)
  BY <1>3
<1>6. \A i \in 1 .. Len(s) + Len(t) :
         i \in 1 .. Len(s) \/ (i - Len(s) \in 1 .. Len(t) /\ i = Len(s) + (i - Len(s)))
  BY <1>1
<1>7. Range(s \o t) \subseteq Range(s) \cup Range(t)
  <2> SUFFICES ASSUME NEW i \in DOMAIN (s \o t)
               PROVE  (s \o t)[i] \in Range(s) \cup Range(t)
    BY DEF Range
  <2>1. CASE i \in 1 .. Len(s)
    BY <1>1, <1>4, <2>1 DEF Range
  <2>2. CASE i - Len(s) \in 1 .. Len(t) /\ i = Len(s) + (i - Len(s))
    <3>1. (s \o t)[i] = t[i - Len(s)]
      BY <1>4, <2>2
    <3> QED BY <1>1, <2>2, <3>1 DEF Range
  <2> QED BY <1>5, <1>6, <2>1, <2>2
<1>8. ASSUME NEW x \in Range(s) \cup Range(t) PROVE x \in Range(s \o t)
  <2>1. CASE x \in Range(s)
    <3>1. PICK i \in 1 .. Len(s) : x = s[i]
      BY <1>1, <2>1 DEF Range
    <3>2. i \in DOMAIN (s \o t)
      BY <1>1, <1>5, <3>1
    <3> QED BY <1>4, <3>1, <3>2 DEF Range
  <2>2. CASE x \in Range(t)
    <3>1. PICK i \in 1 .. Len(t) : x = t[i]
      BY <1>1, <2>2 DEF Range
    <3>2. Len(s) + i \in DOMAIN (s \o t)
      BY <1>1, <1>5, <3>1
    <3>3. (s \o t)[Len(s) + i] = x
      BY <1>4, <3>1
    <3> QED BY <3>2, <3>3 DEF Range
  <2> QED BY <1>8, <2>1, <2>2
<1> QED BY <1>3, <1>7, <1>8 DEF IsSeq

LEMMA AppendIs ==
  ASSUME NEW s, NEW x, IsSeq(s)
  PROVE  IsSeq(Append(s, x)) /\ Range(Append(s, x)) = Range(s) \cup {x}
<1> DEFINE S == Range(s) \cup {x}
           t == Append(s, x)
<1>1. Len(s) \in Nat /\ DOMAIN s = 1 .. Len(s) /\ s \in Seq(Range(s))
  BY SeqIs
<1>2. s \in Seq(S)
  BY <1>1
<1> HIDE DEF S
<1>3. /\ t \in Seq(S) /\ Len(t) = Len(s) + 1 /\ t[Len(s) + 1] = x
      /\ \A i \in 1 .. Len(s) : t[i] = s[i]
  <2>1. x \in S
    BY DEF S
  <2> QED BY <1>2, <2>1
<1>4. DOMAIN t = 1 .. Len(s) + 1
  BY <1>1, <1>3
<1> HIDE DEF t
<1>5. Range(t) \subseteq Range(s) \cup {x}
  BY <1>1, <1>3, <1>4 DEF Range
<1>6. x \in Range(t)
  <2>1. Len(s) + 1 \in DOMAIN t
    BY <1>1, <1>4
  <2> QED BY <1>3, <2>1 DEF Range
<1>7. Range(s) \subseteq Range(t)
  <2>1. \A i \in DOMAIN s : i \in DOMAIN t /\ t[i] = s[i]
    BY <1>1, <1>3, <1>4
  <2> QED BY <2>1 DEF Range
<1>8. IsSeq(t)
  BY <1>3 DEF IsSeq
<1> QED BY <1>5, <1>6, <1>7, <1>8 DEF t

LEMMA RemoveIs ==
  ASSUME NEW s, IsSeq(s), NEW i \in DOMAIN s
  PROVE  /\ IsSeq(RemoveAt(s, i))
         /\ Range(RemoveAt(s, i)) = {s[j] : j \in DOMAIN s \ {i}}
<1> DEFINE a == SubSeq(s, 1, i - 1)
           b == SubSeq(s, i + 1, Len(s))
<1>1. Len(s) \in Nat /\ DOMAIN s = 1 .. Len(s) /\ s \in Seq(Range(s)) /\ i \in 1 .. Len(s)
  BY SeqIs
<1>2. /\ IsSeq(a) /\ Len(a) = i - 1 /\ \A j \in 1 .. i - 1 : a[j] = s[j]
      /\ IsSeq(b) /\ Len(b) = Len(s) - i /\ \A j \in 1 .. Len(s) - i : b[j] = s[i + j]
  <2>1. 1 \in 1 .. Len(s) + 1 /\ i - 1 \in 0 .. Len(s)
        /\ i + 1 \in 1 .. Len(s) + 1 /\ Len(s) \in i .. Len(s)
    BY <1>1
  <2>2. /\ a \in Seq(Range(s)) /\ Len(a) = i - 1
        /\ \A j \in 1 .. i - 1 : a[j] = s[j]
    <3>1. /\ a \in Seq(Range(s)) /\ Len(a) = (i - 1) - 1 + 1
          /\ \A j \in 1 .. (i - 1) - 1 + 1 : a[j] = s[1 + j - 1]
      BY <1>1, <2>1, SubSeqProperties
    <3> HIDE DEF a
    <3> QED BY <1>1, <3>1
  <2>3. /\ b \in Seq(Range(s)) /\ Len(b) = Len(s) - i
        /\ \A j \in 1 .. Len(s) - i : b[j] = s[i + j]
    <3>1. /\ b \in Seq(Range(s)) /\ Len(b) = Len(s) - (i + 1) + 1
          /\ \A j \in 1 .. Len(s) - (i + 1) + 1 : b[j] = s[(i + 1) + j - 1]
      BY <1>1, <2>1, SubSeqProperties
    <3>2. \A j \in 1 .. Len(s) - i : (i + 1) + j - 1 = i + j
      BY <1>1
    <3>3. Len(s) - (i + 1) + 1 = Len(s) - i
      BY <1>1
    <3> HIDE DEF b
    <3> QED BY <3>1, <3>2, <3>3
  <2> QED BY <2>2, <2>3 DEF IsSeq
<1> HIDE DEF a, b
<1>3. RemoveAt(s, i) = a \o b
  BY DEF RemoveAt, a, b
<1>4. IsSeq(a \o b) /\ Range(a \o b) = Range(a) \cup Range(b)
  BY <1>2, JoinIs
<1>5. DOMAIN a = 1 .. i - 1 /\ DOMAIN b = 1 .. Len(s) - i
  BY <1>2, SeqIs
<1>6. Range(a) = {s[j] : j \in 1 .. i - 1}
  BY <1>2, <1>5 DEF Range
<1>7. Range(b) = {s[j] : j \in i + 1 .. Len(s)}
  <2>1. \A j \in 1 .. Len(s) - i : i + j \in i + 1 .. Len(s)
    BY <1>1
  <2>2. ASSUME NEW j \in i + 1 .. Len(s) PROVE s[j] \in Range(b)
    <3>1. j - i \in 1 .. Len(s) - i /\ i + (j - i) = j
      BY <1>1
    <3>2. b[j - i] = s[j]
      BY <1>2, <3>1
    <3> QED BY <1>5, <3>1, <3>2 DEF Range
  <2>3. Range(b) \subseteq {s[j] : j \in i + 1 .. Len(s)}
    BY <1>2, <1>5, <2>1 DEF Range
  <2> QED BY <2>2, <2>3
<1>8. DOMAIN s \ {i} = (1 .. i - 1) \cup (i + 1 .. Len(s))
  BY <1>1
<1> QED BY <1>3, <1>4, <1>6, <1>7, <1>8

\* The calls of a screen that is gone: those that are kept, none of them live.
LEMMA UnmountedIs ==
  ASSUME NEW cs, IsSeq(cs), NEW u \in Unmounted(cs)
  PROVE  /\ IsSeq(u)
         /\ Range(u) = {[cs[i] EXCEPT !.live = FALSE] : i \in Kept(cs)}
<1> DEFINE K == Kept(cs)
           n == Cardinality(K)
<1>1. Len(cs) \in Nat /\ K \subseteq 1 .. Len(cs)
  BY SeqIs DEF Kept
<1>2. IsFiniteSet(K) /\ n \in Nat
  <2>1. IsFiniteSet(1 .. Len(cs))
    BY <1>1, FS_Interval
  <2> QED BY <1>1, <2>1, FS_Subset, FS_CardinalityType
<1>3. PICK e \in {s \in [1 .. n -> K] : \A i, j \in DOMAIN s : i < j => s[i] < s[j]} :
         u = [i \in DOMAIN e |-> [cs[e[i]] EXCEPT !.live = FALSE]]
  BY DEF Unmounted
<1> HIDE DEF K, n
<1>4. e \in [1 .. n -> K] /\ \A i, j \in 1 .. n : i < j => e[i] < e[j]
  BY <1>3
<1>11. \A i \in 1 .. n : e[i] \in Nat
  <2>1. \A i \in K : i \in Nat
    BY <1>1
  <2> QED BY <1>4, <2>1
<1>5. ASSUME NEW j \in 1 .. n, NEW k \in 1 .. n, e[j] = e[k] PROVE j = k
  <2>1. e[j] \in Nat /\ e[k] \in Nat
    BY <1>11
  <2>2. j < k \/ k < j \/ j = k
    BY <1>2, <1>5
  <2> QED BY <1>4, <1>5, <2>1, <2>2
<1>6. e \in Surjection(1 .. n, K)
  <2>1. e \in Injection(1 .. n, K)
    BY <1>4, <1>5 DEF Injection, IsInjective
  <2>2. Cardinality(1 .. n) = n
    BY <1>2, FS_Interval
  <2> QED BY <1>2, <2>1, <2>2, FS_Injection DEF n
<1>7. \A i \in K : \E j \in 1 .. n : e[j] = i
  BY <1>6 DEF Surjection
<1>8. DOMAIN u = 1 .. n /\ \A j \in 1 .. n : u[j] = [cs[e[j]] EXCEPT !.live = FALSE]
  BY <1>3, <1>4
<1>9. IsSeq(u)
  <2>1. u = [j \in 1 .. n |-> u[j]]
    BY <1>3, <1>4
  <2> QED BY <1>2, <1>8, <2>1, CountedIs
<1>10. Range(u) = {[cs[i] EXCEPT !.live = FALSE] : i \in K}
  <2> DEFINE Gone(i) == [cs[i] EXCEPT !.live = FALSE]
  <2>1. Range(u) = {u[j] : j \in 1 .. n}
    BY <1>8 DEF Range
  <2>2. \A j \in 1 .. n : e[j] \in K /\ u[j] = Gone(e[j])
    BY <1>4, <1>8
  <2> HIDE DEF Gone
  <2>3. Range(u) = {Gone(i) : i \in K}
    BY <1>7, <2>1, <2>2
  <2> QED BY <2>3 DEF Gone
<1> QED BY <1>9, <1>10 DEF K

LEMMA LoadsAre ==
  ASSUME NEW loads, IsSeq(loads), NEW k
  PROVE  /\ IsSeq(Loads(loads, k))
         /\ Range(Loads(loads, k)) =
              {Call([Request EXCEPT !.op = l.op, !.on = l.on], l.slot, l.about, k) :
                  l \in Range(loads)}
<1>1. Len(loads) \in Nat /\ DOMAIN loads = 1 .. Len(loads)
  BY SeqIs
<1>2. /\ DOMAIN Loads(loads, k) = 1 .. Len(loads)
      /\ Loads(loads, k) = [i \in 1 .. Len(loads) |-> Loads(loads, k)[i]]
  BY <1>1 DEF Loads
<1>3. IsSeq(Loads(loads, k))
  BY <1>1, <1>2, CountedIs
<1>4. \A i \in DOMAIN loads : Loads(loads, k)[i] =
          Call([Request EXCEPT !.op = loads[i].op, !.on = loads[i].on],
               loads[i].slot, loads[i].about, k)
  BY DEF Loads
<1>5. DOMAIN Loads(loads, k) = DOMAIN loads
  BY <1>1, <1>2
<1> QED BY <1>3, <1>4, <1>5 DEF Range

(***************************************************************************)
(* The screens.  A live call is one that its screen makes.                 *)
(***************************************************************************)

CallFields == {"q", "slot", "about", "cookie", "shown", "typed", "reused", "live", "st", "ans"}
PageFields == {"screen", "id", "pick", "typed", "busy", "uploading", "starting", "tables",
               "main", "list", "side", "reused", "crossed"}
SlotFields == {"phase", "of", "row", "items"}

PageOK(p) == DOMAIN p = PageFields /\ \A slot \in Slots : DOMAIN p[slot] = SlotFields

LoadTable ==
    {<<"project", "main", "getProject">>, <<"project", "list", "listFiles">>,
     <<"project", "side", "listSessions">>, <<"session", "main", "getSession">>,
     <<"session", "side", "getPreview">>, <<"artifact", "main", "getArtifact">>,
     <<"artifact", "side", "getSession">>, <<"artifact", "list", "getLineage">>,
     <<"chat", "main", "getConversation">>, <<"chat", "list", "listConversations">>,
     <<"chat", "side", "listProjects">>, <<"projects", "list", "listProjects">>,
     <<"analysis", "side", "listProjects">>, <<"analysis", "list", "listFiles">>,
     <<"artifacts", "side", "listProjects">>, <<"artifacts", "list", "browseArtifacts">>,
     <<"settings", "main", "truth">>, <<"settings", "side", "health">>}

ActTable ==
    {<<"projects", "createProject">>, <<"project", "patchProject">>,
     <<"project", "archiveProject">>, <<"project", "unarchiveProject">>,
     <<"project", "deleteProject">>, <<"project", "deleteFile">>,
     <<"project", "uploadFile">>, <<"project", "createSession">>,
     <<"analysis", "createSession">>, <<"session", "postTurn">>,
     <<"artifact", "deleteArtifact">>, <<"chat", "createConversation">>,
     <<"chat", "patchConversation">>, <<"chat", "deleteConversation">>}

\* The acts that show the row they are about.
Edits == {"patchProject", "archiveProject", "unarchiveProject", "patchConversation"}

CallOK(c) ==
    /\ DOMAIN c = CallFields
    /\ c.q.op \in Routed /\ c.q.by = "web"
    /\ c.slot \in Slots \cup {"none", "term"}
    /\ c.st \in {"sent", "served"}
    /\ c.st = "served" /\ c.ans.cookie # None => c.cookie = None

LiveOK(c, screen) ==
    /\ c.slot \in Slots => <<screen, c.slot, c.q.op>> \in LoadTable
    /\ c.slot = "none" => <<screen, c.q.op>> \in ActTable
    /\ c.slot = "main" /\ c.q.op = "getProject" => c.q.on = c.about
    /\ c.slot = "none" /\ c.q.op \in Edits => c.q.on = c.about

WebInv ==
    /\ PageOK(page) /\ IsSeq(calls)
    /\ \A c \in Range(calls) : CallOK(c) /\ (c.live => LiveOK(c, page.screen))

\* A call that a screen has just made.
New(c, cookie, screen) ==
    /\ CallOK(c) /\ LiveOK(c, screen)
    /\ c.live /\ c.st = "sent" /\ c.cookie = cookie

LEMMA CallIs ==
  ASSUME NEW q, DOMAIN q = DOMAIN Request, NEW slot, NEW about, NEW cookie,
         NEW c, c = Call(q, slot, about, cookie)
  PROVE  /\ DOMAIN c = CallFields /\ c.slot = slot /\ c.about = about /\ c.cookie = cookie
         /\ c.live /\ c.st = "sent" /\ c.ans = <<>>
         /\ c.typed = page.typed /\ c.reused = page.reused
         /\ c.q.op = q.op /\ c.q.on = q.on /\ c.q.by = "web"
<1>1. [q EXCEPT !.by = "web"].by = "web" /\ [q EXCEPT !.by = "web"].op = q.op
      /\ [q EXCEPT !.by = "web"].on = q.on
  BY DEF Request
<1> QED BY <1>1 DEF Call, CallFields

LEMMA RequestIs ==
  ASSUME NEW op, NEW on
  PROVE  LET q == [Request EXCEPT !.op = op, !.on = on] IN
         DOMAIN q = DOMAIN Request /\ q.op = op /\ q.on = on
  BY DEF Request

LEMMA TablesRouted ==
  /\ \A t \in LoadTable : t[2] \in Slots /\ t[3] \in Routed
  /\ \A t \in ActTable : t[2] \in Routed
  BY DEF LoadTable, ActTable, Routed, Lists, Reads, Writes, Slots

\* The call that a load is, and what can be loaded.
LoadCall(l, cookie) ==
    Call([Request EXCEPT !.op = l.op, !.on = l.on], l.slot, l.about, cookie)

Loadable(l, screen) ==
    /\ <<screen, l.slot, l.op>> \in LoadTable
    /\ l.op = "getProject" => l.on = l.about

LEMMA LoadIsNew ==
  ASSUME NEW l, NEW screen, NEW cookie, Loadable(l, screen)
  PROVE  /\ New(LoadCall(l, cookie), cookie, screen)
         /\ LoadCall(l, cookie).slot = l.slot /\ LoadCall(l, cookie).slot \in Slots
         /\ LoadCall(l, cookie).about = l.about
<1> DEFINE c == LoadCall(l, cookie)
<1>1. /\ DOMAIN c = CallFields /\ c.slot = l.slot /\ c.about = l.about /\ c.cookie = cookie
      /\ c.live /\ c.st = "sent" /\ c.q.op = l.op /\ c.q.on = l.on /\ c.q.by = "web"
  <2> DEFINE q == [Request EXCEPT !.op = l.op, !.on = l.on]
  <2>1. DOMAIN q = DOMAIN Request /\ q.op = l.op /\ q.on = l.on
    BY RequestIs
  <2> HIDE DEF q
  <2>0. PICK d : d = Call(q, l.slot, l.about, cookie)
    OBVIOUS
  <2>2. /\ DOMAIN d = CallFields /\ d.slot = l.slot /\ d.about = l.about /\ d.cookie = cookie
        /\ d.live /\ d.st = "sent" /\ d.q.op = q.op /\ d.q.on = q.on /\ d.q.by = "web"
    BY <2>0, <2>1, CallIs
  <2>3. c = d
    BY <2>0 DEF LoadCall, q
  <2> HIDE DEF c
  <2> QED BY <2>1, <2>2, <2>3
<1>2. l.slot \in Slots /\ l.op \in Routed
  BY TablesRouted DEF Loadable
<1> HIDE DEF c
<1>3. CallOK(c)
  BY <1>1, <1>2 DEF CallOK
<1>4. LiveOK(c, screen)
  BY <1>1, <1>2 DEF LiveOK, Loadable, Slots
<1> QED BY <1>1, <1>2, <1>3, <1>4 DEF New, c

LEMMA LoadsAreNew ==
  ASSUME NEW loads, IsSeq(loads), NEW cookie
  PROVE  /\ IsSeq(Loads(loads, cookie))
         /\ Range(Loads(loads, cookie)) = {LoadCall(l, cookie) : l \in Range(loads)}
  BY LoadsAre DEF LoadCall

LEMMA TuplesAre ==
  /\ IsSeq(<<>>) /\ Range(<<>>) = {}
  /\ \A a : IsSeq(<<a>>) /\ Range(<<a>>) = {a}
  /\ \A a, b : IsSeq(<<a, b>>) /\ Range(<<a, b>>) = {a, b}
  /\ \A a, b, c : IsSeq(<<a, b, c>>) /\ Range(<<a, b, c>>) = {a, b, c}
<1>1. IsSeq(<<>>) /\ Range(<<>>) = {}
  BY DEF IsSeq, Range
<1>2. ASSUME NEW a PROVE IsSeq(<<a>>) /\ Range(<<a>>) = {a}
  <2> DEFINE s == <<a>>
  <2>1. s \in Seq({a}) /\ DOMAIN s = {1} /\ s[1] = a
    OBVIOUS
  <2> HIDE DEF s
  <2>2. IsSeq(s) /\ Range(s) = {a}
    BY <2>1 DEF IsSeq, Range
  <2> QED BY <2>2 DEF s
<1>3. ASSUME NEW a, NEW b PROVE IsSeq(<<a, b>>) /\ Range(<<a, b>>) = {a, b}
  <2> DEFINE s == <<a, b>>
  <2>1. s \in Seq({a, b}) /\ DOMAIN s = {1, 2} /\ s[1] = a /\ s[2] = b
    OBVIOUS
  <2> HIDE DEF s
  <2>2. IsSeq(s) /\ Range(s) = {a, b}
    BY <2>1 DEF IsSeq, Range
  <2> QED BY <2>2 DEF s
<1>4. ASSUME NEW a, NEW b, NEW c PROVE IsSeq(<<a, b, c>>) /\ Range(<<a, b, c>>) = {a, b, c}
  <2> DEFINE s == <<a, b, c>>
  <2>1. s \in Seq({a, b, c}) /\ DOMAIN s = {1, 2, 3} /\ s[1] = a /\ s[2] = b /\ s[3] = c
    OBVIOUS
  <2> HIDE DEF s
  <2>2. IsSeq(s) /\ Range(s) = {a, b, c}
    BY <2>1 DEF IsSeq, Range
  <2> QED BY <2>2 DEF s
<1> QED BY <1>1, <1>2, <1>3, <1>4

LEMMA LoadFields ==
  ASSUME NEW slot, NEW op, NEW on
  PROVE  /\ Load(slot, op, on).slot = slot /\ Load(slot, op, on).op = op
         /\ Load(slot, op, on).on = on /\ Load(slot, op, on).about = on
         /\ \A about : LET l == [Load(slot, op, on) EXCEPT !.about = about] IN
              l.slot = slot /\ l.op = op /\ l.on = on /\ l.about = about
  BY DEF Load

\* What a screen loads for its id, and what once.
LEMMA KeyedAre ==
  ASSUME NEW screen, NEW id
  PROVE  /\ IsSeq(Keyed(screen, id))
         /\ \A l \in Range(Keyed(screen, id)) : Loadable(l, screen) /\ l.about = id
         /\ screen = "project" =>
              \A slot \in Slots : \E l \in Range(Keyed(screen, id)) : l.slot = slot
         /\ screen = "session" => \E l \in Range(Keyed(screen, id)) : l.slot = "main"
<1>1. CASE screen = "project"
  <2> DEFINE a == Load("main", "getProject", id)
             b == Load("list", "listFiles", id)
             c == Load("side", "listSessions", id)
  <2>1. Keyed(screen, id) = <<a, b, c>>
    BY <1>1 DEF Keyed
  <2>2. \A l \in {a, b, c} : Loadable(l, screen) /\ l.about = id
    BY <1>1, LoadFields DEF Loadable, LoadTable
  <2>3. a.slot = "main" /\ b.slot = "list" /\ c.slot = "side"
    BY LoadFields
  <2> HIDE DEF a, b, c
  <2>4. IsSeq(<<a, b, c>>) /\ Range(<<a, b, c>>) = {a, b, c}
    BY TuplesAre
  <2> QED BY <1>1, <2>1, <2>2, <2>3, <2>4 DEF Slots
<1>2. CASE screen \in {"session", "artifact"} \/ (screen = "chat" /\ id # None)
  <2>1. PICK op \in {"getSession", "getArtifact", "getConversation"} :
           /\ Keyed(screen, id) = <<Load("main", op, id)>>
           /\ <<screen, "main", op>> \in LoadTable
    BY <1>2 DEF Keyed, LoadTable
  <2> DEFINE a == Load("main", op, id)
  <2>2. Loadable(a, screen) /\ a.about = id /\ a.slot = "main"
    BY <2>1, LoadFields DEF Loadable
  <2> HIDE DEF a
  <2>3. IsSeq(<<a>>) /\ Range(<<a>>) = {a}
    BY TuplesAre
  <2>4. screen # "project"
    BY <1>2
  <2> QED BY <2>1, <2>2, <2>3, <2>4 DEF a
<1>3. CASE ~(screen \in {"project", "session", "artifact"} \/ (screen = "chat" /\ id # None))
  <2>1. Keyed(screen, id) = <<>>
    BY <1>3 DEF Keyed
  <2> QED BY <1>3, <2>1, TuplesAre
<1> QED BY <1>1, <1>2, <1>3

LEMMA OnceAre ==
  ASSUME NEW screen
  PROVE  /\ IsSeq(Once(screen))
         /\ \A l \in Range(Once(screen)) : Loadable(l, screen) /\ l.about = None
<1>1. CASE screen \in {"projects", "analysis"}
  <2>1. PICK slot : /\ Once(screen) = <<Load(slot, "listProjects", None)>>
                    /\ <<screen, slot, "listProjects">> \in LoadTable
    BY <1>1 DEF Once, LoadTable
  <2> DEFINE a == Load(slot, "listProjects", None)
  <2>2. Loadable(a, screen) /\ a.about = None
    BY <2>1, LoadFields DEF Loadable
  <2> HIDE DEF a
  <2> QED BY <2>1, <2>2, TuplesAre DEF a
<1>2. CASE screen \in {"artifacts", "chat", "settings"}
  <2>1. PICK s, o, t, u :
           /\ Once(screen) = <<Load(s, o, None), Load(t, u, None)>>
           /\ {<<screen, s, o>>, <<screen, t, u>>} \subseteq LoadTable
    <3>1. CASE screen = "artifacts"
      BY <3>1 DEF Once, LoadTable
    <3>2. CASE screen = "chat"
      BY <3>2 DEF Once, LoadTable
    <3>3. CASE screen = "settings"
      BY <3>3 DEF Once, LoadTable
    <3> QED BY <1>2, <3>1, <3>2, <3>3
  <2> DEFINE a == Load(s, o, None)
             b == Load(t, u, None)
  <2>2. \A l \in {a, b} : Loadable(l, screen) /\ l.about = None
    <3>1. \A l : Loadable(l, screen) => l.op = l.op
      OBVIOUS
    <3>2. o # "getProject" /\ u # "getProject"
      BY <1>2, <2>1 DEF LoadTable
    <3> QED BY <2>1, <3>2, LoadFields DEF Loadable
  <2> HIDE DEF a, b
  <2>3. IsSeq(<<a, b>>) /\ Range(<<a, b>>) = {a, b}
    BY TuplesAre
  <2> QED BY <2>1, <2>2, <2>3 DEF a, b
<1>3. CASE screen \notin {"projects", "analysis", "artifacts", "chat", "settings"}
  <2>1. Once(screen) = <<>>
    BY <1>3 DEF Once
  <2> QED BY <2>1, TuplesAre
<1> QED BY <1>1, <1>2, <1>3

(***************************************************************************)
(* What the user does: the screen keeps its view, and may have made calls. *)
(***************************************************************************)

\* At most one of the calls carries no cookie.
Alone(cs) == \A i, j \in DOMAIN cs : cs[i].cookie = None /\ cs[j].cookie = None => i = j

LEMMA AloneIs ==
  ASSUME NEW cs, IsSeq(cs), ~(Cardinality({i \in DOMAIN cs : cs[i].cookie = None}) > 1)
  PROVE  Alone(cs)
<1> DEFINE S == {i \in DOMAIN cs : cs[i].cookie = None}
<1>1. IsFiniteSet(S)
  <2>1. Len(cs) \in Nat /\ DOMAIN cs = 1 .. Len(cs)
    BY SeqIs
  <2>2. IsFiniteSet(1 .. Len(cs))
    BY <2>1, FS_Interval
  <2>3. S \subseteq 1 .. Len(cs)
    BY <2>1
  <2> QED BY <2>2, <2>3, FS_Subset
<1>2. Cardinality(S) \in Nat /\ Cardinality(S) <= 1
  BY <1>1, FS_CardinalityType
<1>3. SUFFICES ASSUME NEW i \in S, NEW j \in S, i # j PROVE FALSE
  BY DEF Alone
<1> HIDE DEF S
<1>4. IsFiniteSet({i}) /\ Cardinality({i} \cup {j}) = 2
  <2>1. IsFiniteSet({i}) /\ Cardinality({i}) = 1 /\ j \notin {i}
    BY <1>3, FS_Singleton
  <2>2. Cardinality({i} \cup {j}) = Cardinality({i}) + 1
    BY <2>1, FS_AddElement
  <2> DEFINE m == Cardinality({i})
             n == Cardinality({i} \cup {j})
  <2>3. m = 1 /\ n = m + 1
    BY <2>1, <2>2
  <2> HIDE DEF m, n
  <2>4. n = 2
    BY <2>3
  <2> QED BY <2>1, <2>4 DEF n
<1>5. {i} \cup {j} \subseteq S
  BY <1>3
<1>6. Cardinality({i} \cup {j}) <= Cardinality(S)
  BY <1>1, <1>5, FS_Subset
<1> QED BY <1>2, <1>4, <1>6

LEMMA FlagIs ==
  ASSUME NEW unsure, FlagSplit(unsure), IsSeq(calls)', ~webSplit'
  PROVE  ~webSplit /\ ~unsure /\ Alone(calls')
<1>1. ~webSplit /\ ~unsure /\ ~(Cardinality({i \in DOMAIN calls' : calls'[i].cookie = None}) > 1)
  BY DEF FlagSplit
<1> QED BY <1>1, AloneIs

SameView(p) ==
    /\ PageOK(p)
    /\ p.screen = page.screen /\ p.id = page.id
    /\ p.main = page.main /\ p.list = page.list /\ p.side = page.side
    /\ p.reused = page.reused /\ p.crossed = page.crossed

LEMMA SameViews ==
  ASSUME PageOK(page), NEW x
  PROVE  /\ SameView(page)
         /\ SameView([page EXCEPT !.busy = x]) /\ [page EXCEPT !.busy = x].pick = page.pick
         /\ SameView([page EXCEPT !.typed = x]) /\ [page EXCEPT !.typed = x].pick = page.pick
         /\ SameView([page EXCEPT !.uploading = x])
         /\ [page EXCEPT !.uploading = x].pick = page.pick
         /\ SameView([page EXCEPT !.starting = x])
         /\ [page EXCEPT !.starting = x].pick = page.pick
         /\ SameView([page EXCEPT !.pick = x])
<1>1. SameView(page)
  BY DEF SameView
<1>2. SameView([page EXCEPT !.busy = x]) /\ [page EXCEPT !.busy = x].pick = page.pick
  BY DEF SameView, PageOK, PageFields, Slots
<1>3. SameView([page EXCEPT !.typed = x]) /\ [page EXCEPT !.typed = x].pick = page.pick
  BY DEF SameView, PageOK, PageFields, Slots
<1>4. SameView([page EXCEPT !.uploading = x]) /\ [page EXCEPT !.uploading = x].pick = page.pick
  BY DEF SameView, PageOK, PageFields, Slots
<1>5. SameView([page EXCEPT !.starting = x]) /\ [page EXCEPT !.starting = x].pick = page.pick
  BY DEF SameView, PageOK, PageFields, Slots
<1>6. SameView([page EXCEPT !.pick = x])
  BY DEF SameView, PageOK, PageFields, Slots
<1> QED BY <1>1, <1>2, <1>3, <1>4, <1>5, <1>6

\* A call that an act has made, about key about.
Act1(c, op, on, about) ==
    /\ New(c, jar, page.screen) /\ c.slot = "none" /\ c.about = about
    /\ c.q.op = op /\ c.q.on = on /\ c.typed = page.typed /\ c.reused = page.reused

LEMMA AskIs ==
  ASSUME WebInv, NEW q, NEW about, DOMAIN q = DOMAIN Request, Ask(q, about),
         <<page.screen, q.op>> \in ActTable, q.op \in Edits => q.on = about
  PROVE  /\ IsSeq(calls)' /\ FlagSplit(FALSE)
         /\ \E c : Act1(c, q.op, q.on, about) /\ Range(calls') = Range(calls) \cup {c}
<1>1. PICK c : c = Call(q, "none", about, jar)
  OBVIOUS
<1>2. /\ DOMAIN c = CallFields /\ c.slot = "none" /\ c.about = about /\ c.cookie = jar
      /\ c.live /\ c.st = "sent" /\ c.typed = page.typed /\ c.reused = page.reused
      /\ c.q.op = q.op /\ c.q.on = q.on /\ c.q.by = "web"
  BY <1>1, CallIs
<1>3. q.op \in Routed
  BY TablesRouted
<1>4. CallOK(c)
  BY <1>2, <1>3 DEF CallOK
<1>5. LiveOK(c, page.screen)
  BY <1>2 DEF LiveOK, Slots
<1>6. Act1(c, q.op, q.on, about)
  BY <1>2, <1>4, <1>5 DEF Act1, New
<1>7. calls' = Append(calls, c) /\ FlagSplit(FALSE)
  BY <1>1 DEF Ask
<1>8. IsSeq(calls') /\ Range(calls') = Range(calls) \cup {c}
  BY <1>7, AppendIs DEF WebInv
<1> QED BY <1>6, <1>7, <1>8 DEF IsSeq

\* A deletion that the page shown confirms.
Confirmed(c) ==
    /\ page.screen = "project" /\ page.main.phase = "ready" /\ c.q.on = page.id
    /\ c.typed = page.main.row.name /\ c.reused = page.reused

\* A call that is no load, of the screen that is shown.
Aside(c) ==
    /\ New(c, jar, page.screen) /\ c.slot \notin Slots
    /\ page.screen = "project" => c.about = page.id
    /\ c.slot = "none" /\ c.q.op = "deleteProject" => Confirmed(c)

\* An act, or a line in the terminal: the view stays, calls that are not
\* loads are made for it.
Acted ==
    /\ SameView(page') /\ (page'.pick = page.pick \/ page.screen = "session")
    /\ UNCHANGED <<api, jar>>
    /\ IsSeq(calls)'
    /\ \E N : Range(calls') = Range(calls) \cup N /\ \A c \in N : Aside(c)
    /\ ~webSplit' => ~webSplit /\ (Alone(calls) => Alone(calls'))

LEMMA OneAct ==
  ASSUME WebInv, NEW q, NEW about, DOMAIN q = DOMAIN Request, Ask(q, about),
         <<page.screen, q.op>> \in ActTable, q.op \in Edits => q.on = about,
         page.screen = "project" => about = page.id,
         q.op = "deleteProject" => /\ page.screen = "project" /\ page.main.phase = "ready"
                                   /\ q.on = page.id /\ page.typed = page.main.row.name,
         SameView(page'), page'.pick = page.pick, UNCHANGED <<api, jar>>
  PROVE  Acted
<1>1. IsSeq(calls)' /\ FlagSplit(FALSE)
  BY AskIs
<1>2. PICK c : Act1(c, q.op, q.on, about) /\ Range(calls') = Range(calls) \cup {c}
  BY AskIs
<1>3. Aside(c)
  BY <1>2 DEF Act1, Aside, Confirmed, Slots
<1>4. ~webSplit' => ~webSplit /\ Alone(calls')
  BY <1>1, FlagIs
<1> DEFINE N == {c}
<1>5. Range(calls') = Range(calls) \cup N /\ \A d \in N : Aside(d)
  BY <1>2, <1>3
<1> HIDE DEF N
<1> QED BY <1>1, <1>4, <1>5 DEF Acted

LEMMA NoAct ==
  ASSUME WebInv, SameView(page'), page'.pick = page.pick \/ page.screen = "session",
         UNCHANGED <<api, jar, calls, webSplit>>
  PROVE  Acted
<1> DEFINE N == {}
<1>1. Range(calls') = Range(calls) \cup N /\ \A d \in N : Aside(d)
  OBVIOUS
<1>0. IsSeq(calls)'
  BY DEF WebInv, IsSeq
<1> HIDE DEF N
<1>2. ~webSplit' => ~webSplit
  OBVIOUS
<1>3. Alone(calls) => Alone(calls')
  BY DEF Alone
<1> QED BY <1>0, <1>1, <1>2, <1>3 DEF Acted

LEMMA ProjectActs ==
  ASSUME WebInv, UNCHANGED rows,
         \/ SubmitProject \/ SaveRename \/ ToggleArchive \/ TypeName \/ ConfirmDelete
         \/ RemoveFile \/ Upload
  PROVE  Acted
<1>0. PageOK(page)
  BY DEF WebInv
<1>1. CASE SubmitProject
  <2>1. UNCHANGED <<api, jar>> /\ page.screen = "projects" /\ page' = [page EXCEPT !.busy = TRUE]
    BY <1>1 DEF SubmitProject, Click, Page, api
  <2>2. PICK n : Ask([Request EXCEPT !.op = "createProject", !.name = n], None)
    BY <1>1 DEF SubmitProject
  <2>3. PICK q : q = [Request EXCEPT !.op = "createProject", !.name = n]
    OBVIOUS
  <2>4. Ask(q, None) /\ DOMAIN q = DOMAIN Request /\ q.op = "createProject" /\ q.on = None
    BY <2>2, <2>3 DEF Request
  <2>5. <<page.screen, q.op>> \in ActTable /\ q.op \notin Edits
    BY <2>1, <2>4 DEF ActTable, Edits
  <2>6. SameView(page') /\ page'.pick = page.pick
    BY <1>0, <2>1, SameViews
  <2> QED BY <2>1, <2>4, <2>5, <2>6, OneAct
<1>2. CASE SaveRename
  <2>1. UNCHANGED <<api, jar>> /\ page.screen = "project" /\ page' = [page EXCEPT !.busy = TRUE]
    BY <1>2 DEF SaveRename, Click, Page, Ready, api
  <2>2. PICK n : Ask([Request EXCEPT !.op = "patchProject", !.on = page.id, !.name = n], page.id)
    BY <1>2 DEF SaveRename
  <2>3. PICK q : q = [Request EXCEPT !.op = "patchProject", !.on = page.id, !.name = n]
    OBVIOUS
  <2>4. Ask(q, page.id) /\ DOMAIN q = DOMAIN Request /\ q.op = "patchProject" /\ q.on = page.id
    BY <2>2, <2>3 DEF Request
  <2>5. <<page.screen, q.op>> \in ActTable
    BY <2>1, <2>4 DEF ActTable
  <2>6. SameView(page') /\ page'.pick = page.pick
    BY <1>0, <2>1, SameViews
  <2> QED BY <2>1, <2>4, <2>5, <2>6, OneAct
<1>3. CASE ToggleArchive
  <2>1. UNCHANGED <<api, jar>> /\ page.screen = "project" /\ page' = [page EXCEPT !.busy = TRUE]
    BY <1>3 DEF ToggleArchive, Click, Page, Ready, api
  <2>2. PICK op \in {"archiveProject", "unarchiveProject"} :
           Ask([Request EXCEPT !.op = op, !.on = page.id], page.id)
    BY <1>3 DEF ToggleArchive, Act
  <2>3. PICK q : q = [Request EXCEPT !.op = op, !.on = page.id]
    OBVIOUS
  <2>4. Ask(q, page.id) /\ DOMAIN q = DOMAIN Request /\ q.op = op /\ q.on = page.id
    BY <2>2, <2>3 DEF Request
  <2>5. <<page.screen, q.op>> \in ActTable /\ q.op # "deleteProject"
    BY <2>1, <2>4 DEF ActTable
  <2>6. SameView(page') /\ page'.pick = page.pick
    BY <1>0, <2>1, SameViews
  <2> QED BY <2>1, <2>4, <2>5, <2>6, OneAct
<1>4. CASE TypeName
  <2>1. UNCHANGED <<api, jar, calls, webSplit>>
        /\ page' = [page EXCEPT !.typed = page.main.row.name]
    BY <1>4 DEF TypeName, Click, Stay, Page, api
  <2>2. SameView(page') /\ page'.pick = page.pick
    BY <1>0, <2>1, SameViews
  <2> QED BY <2>1, <2>2, NoAct
<1>5. CASE ConfirmDelete
  <2>1. /\ UNCHANGED <<api, jar>> /\ page.screen = "project" /\ page' = [page EXCEPT !.busy = TRUE]
        /\ page.main.phase = "ready" /\ page.typed = page.main.row.name
    BY <1>5 DEF ConfirmDelete, Click, Page, Ready, api
  <2>2. Ask([Request EXCEPT !.op = "deleteProject", !.on = page.id], page.id)
    BY <1>5 DEF ConfirmDelete, Act
  <2>3. PICK q : q = [Request EXCEPT !.op = "deleteProject", !.on = page.id]
    OBVIOUS
  <2>4. Ask(q, page.id) /\ DOMAIN q = DOMAIN Request /\ q.op = "deleteProject" /\ q.on = page.id
    BY <2>2, <2>3 DEF Request
  <2>5. <<page.screen, q.op>> \in ActTable
    BY <2>1, <2>4 DEF ActTable
  <2>6. SameView(page') /\ page'.pick = page.pick
    BY <1>0, <2>1, SameViews
  <2> QED BY <2>1, <2>4, <2>5, <2>6, OneAct
<1>6. CASE RemoveFile
  <2>1. UNCHANGED <<api, jar>> /\ page.screen = "project" /\ page' = page
    BY <1>6 DEF RemoveFile, Click, Page, Ready, api
  <2>2. PICK f : Ask([Request EXCEPT !.op = "deleteFile", !.on = f], page.id)
    BY <1>6 DEF RemoveFile, Act
  <2>3. PICK q : q = [Request EXCEPT !.op = "deleteFile", !.on = f]
    OBVIOUS
  <2>4. Ask(q, page.id) /\ DOMAIN q = DOMAIN Request /\ q.op = "deleteFile"
    BY <2>2, <2>3 DEF Request
  <2>5. <<page.screen, q.op>> \in ActTable /\ q.op \notin Edits
    BY <2>1, <2>4 DEF ActTable, Edits
  <2>6. SameView(page') /\ page'.pick = page.pick
    BY <1>0, <2>1, SameViews
  <2> QED BY <2>1, <2>4, <2>5, <2>6, OneAct
<1>7. CASE Upload
  <2>1. UNCHANGED <<api, jar>> /\ page.screen = "project"
        /\ page' = [page EXCEPT !.uploading = TRUE]
    BY <1>7 DEF Upload, Click, Page, Ready, api
  <2>2. Ask([Request EXCEPT !.op = "uploadFile", !.on = page.id], page.id)
    BY <1>7 DEF Upload, Act
  <2>3. PICK q : q = [Request EXCEPT !.op = "uploadFile", !.on = page.id]
    OBVIOUS
  <2>4. Ask(q, page.id) /\ DOMAIN q = DOMAIN Request /\ q.op = "uploadFile"
    BY <2>2, <2>3 DEF Request
  <2>5. <<page.screen, q.op>> \in ActTable /\ q.op \notin Edits
    BY <2>1, <2>4 DEF ActTable, Edits
  <2>6. SameView(page') /\ page'.pick = page.pick
    BY <1>0, <2>1, SameViews
  <2> QED BY <2>1, <2>4, <2>5, <2>6, OneAct
<1> QED BY <1>1, <1>2, <1>3, <1>4, <1>5, <1>6, <1>7

LEMMA OtherActs ==
  ASSUME WebInv, UNCHANGED rows,
         \/ Analyze \/ PickInput \/ Submit \/ RemoveArtifact \/ StartNew \/ RenameThread
         \/ SetProject \/ RemoveThread
  PROVE  Acted
<1>0. PageOK(page)
  BY DEF WebInv
<1>1. CASE Analyze
  <2>1. UNCHANGED <<api, jar>> /\ page.screen \in {"project", "analysis"}
    BY <1>1 DEF Analyze, Click, Ready, api
  <2>2. PICK f, on : /\ Ask([Request EXCEPT !.op = "createSession", !.with = f, !.on = on],
                            page.id)
                     /\ page' = [page EXCEPT !.starting = f]
    BY <1>1 DEF Analyze, Page
  <2>3. PICK q : q = [Request EXCEPT !.op = "createSession", !.with = f, !.on = on]
    OBVIOUS
  <2>4. Ask(q, page.id) /\ DOMAIN q = DOMAIN Request /\ q.op = "createSession"
    BY <2>2, <2>3 DEF Request
  <2>5. <<page.screen, q.op>> \in ActTable /\ q.op \notin Edits
    BY <2>1, <2>4 DEF ActTable, Edits
  <2>6. SameView(page') /\ page'.pick = page.pick
    BY <1>0, <2>2, SameViews
  <2> QED BY <2>1, <2>4, <2>5, <2>6, OneAct
<1>2. CASE PickInput
  <2>1. PICK a : page' = [page EXCEPT !.pick = a] /\ UNCHANGED <<calls, webSplit>>
    BY <1>2 DEF PickInput, Stay, Page
  <2>2. UNCHANGED <<api, jar>> /\ page.screen = "session"
    BY <1>2 DEF PickInput, Click, Ready, api
  <2>3. SameView(page')
    BY <1>0, <2>1, SameViews
  <2> QED BY <2>1, <2>2, <2>3, NoAct
<1>3. CASE Submit
  <2>1. UNCHANGED <<api, jar>> /\ page.screen = "session" /\ page' = [page EXCEPT !.busy = TRUE]
    BY <1>3 DEF Submit, Click, Ready, Page, api
  <2>2. Ask([Request EXCEPT !.op = "postTurn", !.on = page.id, !.with = page.pick], page.id)
    BY <1>3 DEF Submit
  <2>3. PICK q : q = [Request EXCEPT !.op = "postTurn", !.on = page.id, !.with = page.pick]
    OBVIOUS
  <2>4. Ask(q, page.id) /\ DOMAIN q = DOMAIN Request /\ q.op = "postTurn"
    BY <2>2, <2>3 DEF Request
  <2>5. <<page.screen, q.op>> \in ActTable /\ q.op \notin Edits
    BY <2>1, <2>4 DEF ActTable, Edits
  <2>6. SameView(page') /\ page'.pick = page.pick
    BY <1>0, <2>1, SameViews
  <2> QED BY <2>1, <2>4, <2>5, <2>6, OneAct
<1>4. CASE RemoveArtifact \/ StartNew \/ RemoveThread
  <2>1. PICK op, on : /\ Ask([Request EXCEPT !.op = op, !.on = on], page.id)
                      /\ <<page.screen, op>> \in ActTable /\ op \notin Edits
                      /\ op # "deleteProject"
    <3>1. CASE RemoveArtifact
      <4>1. page.screen = "artifact" /\ <<page.screen, "deleteArtifact">> \in ActTable
        BY <3>1 DEF RemoveArtifact, Ready, ActTable
      <4>2. Ask([Request EXCEPT !.op = "deleteArtifact", !.on = page.main.of], page.id)
        BY <3>1 DEF RemoveArtifact, Act
      <4> QED BY <4>1, <4>2 DEF Edits
    <3>2. CASE StartNew
      <4>1. page.screen = "chat" /\ <<page.screen, "createConversation">> \in ActTable
        BY <3>2 DEF StartNew, ActTable
      <4>2. Ask([Request EXCEPT !.op = "createConversation", !.on = None], page.id)
        BY <3>2 DEF StartNew, Act
      <4> QED BY <4>1, <4>2 DEF Edits
    <3>3. CASE RemoveThread
      <4>1. page.screen = "chat" /\ <<page.screen, "deleteConversation">> \in ActTable
        BY <3>3 DEF RemoveThread, Ready, ActTable
      <4>2. Ask([Request EXCEPT !.op = "deleteConversation", !.on = page.main.of], page.id)
        BY <3>3 DEF RemoveThread, Act
      <4> QED BY <4>1, <4>2 DEF Edits
    <3> QED BY <1>4, <3>1, <3>2, <3>3
  <2>2. UNCHANGED <<api, jar>> /\ page' = page
    BY <1>4 DEF RemoveArtifact, StartNew, RemoveThread, Click, Page, api
  <2>3. PICK q : q = [Request EXCEPT !.op = op, !.on = on]
    OBVIOUS
  <2>4. Ask(q, page.id) /\ DOMAIN q = DOMAIN Request /\ q.op = op
    BY <2>1, <2>3 DEF Request
  <2>6. SameView(page') /\ page'.pick = page.pick
    BY <1>0, <2>2, SameViews
  <2> QED BY <2>1, <2>2, <2>4, <2>6, OneAct
<1>5. CASE RenameThread \/ SetProject
  <2>1. UNCHANGED <<api, jar>> /\ page.screen = "chat" /\ page' = page
    BY <1>5 DEF RenameThread, SetProject, Click, Ready, Page, api
  <2> DEFINE of == page.main.of
  <2>2. PICK x : \/ Ask([Request EXCEPT !.op = "patchConversation", !.on = of, !.name = x], of)
                 \/ Ask([Request EXCEPT !.op = "patchConversation", !.on = of, !.with = x], of)
    BY <1>5 DEF RenameThread, SetProject
  <2> HIDE DEF of
  <2>3. PICK q : /\ Ask(q, of)
                 /\ \/ q = [Request EXCEPT !.op = "patchConversation", !.on = of, !.name = x]
                    \/ q = [Request EXCEPT !.op = "patchConversation", !.on = of, !.with = x]
    BY <2>2
  <2>4. DOMAIN q = DOMAIN Request /\ q.op = "patchConversation" /\ q.on = of
    BY <2>3 DEF Request
  <2>5. <<page.screen, q.op>> \in ActTable
    BY <2>1, <2>4 DEF ActTable
  <2>6. SameView(page') /\ page'.pick = page.pick
    BY <1>0, <2>1, SameViews
  <2> QED BY <2>1, <2>3, <2>4, <2>5, <2>6, OneAct
<1> QED BY <1>1, <1>2, <1>3, <1>4, <1>5

\* A line or a pasted pair in the terminal.
LEMMA LineActs ==
  ASSUME WebInv, TypeLine \/ PasteLines
  PROVE  Acted
<1>1. PICK qs : /\ Enter(qs) /\ IsSeq(qs)
                /\ \A q \in Range(qs) : q.op \in Routed /\ DOMAIN q = DOMAIN Request
  <2>0. \A o : \A q \in Dispatched(o) : q.op \in Routed /\ DOMAIN q = DOMAIN Request
    <3>1. SUFFICES ASSUME NEW o, NEW q \in Dispatched(o)
                   PROVE  q.op \in Routed /\ DOMAIN q = DOMAIN Request
      OBVIOUS
    <3>2. o \in BINDINGS /\ q \in Arguments(o)
      BY DEF Dispatched
    <3>3. BINDINGS \subseteq Commands
      BY DEF BINDINGS, ProjectBindings, FileBindings, SessionBindings, ArtifactBindings,
             ConfigBindings, Commands, ProjectCommands, FileCommands, SessionCommands,
             ArtifactCommands, ConfigCommands
    <3> QED BY <3>2, <3>3, ArgumentsAre, CommandsRouted
  <2>1. CASE TypeLine
    <3>1. PICK o \in Typed : \E q \in Dispatched(o) : Enter(<<q>>)
      BY <2>1 DEF TypeLine
    <3>2. PICK q \in Dispatched(o) : Enter(<<q>>)
      BY <3>1
    <3>3. IsSeq(<<q>>) /\ Range(<<q>>) = {q}
      BY TuplesAre
    <3> QED BY <2>0, <3>2, <3>3
  <2>2. CASE PasteLines
    <3>1. PICK o, u \in Typed : \E q \in Dispatched(o), r \in Dispatched(u) : Enter(<<q, r>>)
      BY <2>2 DEF PasteLines
    <3>2. PICK q \in Dispatched(o), r \in Dispatched(u) : Enter(<<q, r>>)
      BY <3>1
    <3>3. IsSeq(<<q, r>>) /\ Range(<<q, r>>) = {q, r}
      BY TuplesAre
    <3> QED BY <2>0, <3>2, <3>3
  <2> QED BY <2>1, <2>2
<1>2. /\ UNCHANGED <<api, jar>> /\ page.screen = "terminal" /\ FlagSplit(FALSE)
      /\ page' = [page EXCEPT !.busy = TRUE]
      /\ calls' = calls \o [i \in DOMAIN qs |-> Call(qs[i], "term", None, jar)]
  BY <1>1 DEF Enter, Click, Page, api
<1> DEFINE TermCall(q) == Call(q, "term", None, jar)
           s == [i \in DOMAIN qs |-> TermCall(qs[i])]
<1>3. Len(qs) \in Nat /\ DOMAIN qs = 1 .. Len(qs)
  BY <1>1, SeqIs
<1> HIDE DEF TermCall
<1>4. IsSeq(s) /\ \A c \in Range(s) : \E q \in Range(qs) : c = TermCall(q)
  <2>1. DOMAIN s = 1 .. Len(qs) /\ s = [i \in 1 .. Len(qs) |-> s[i]]
    BY <1>3
  <2>2. IsSeq(s)
    BY <1>3, <2>1, CountedIs
  <2>3. \A i \in DOMAIN qs : s[i] = TermCall(qs[i])
    OBVIOUS
  <2>4. DOMAIN s = DOMAIN qs
    OBVIOUS
  <2> HIDE DEF s
  <2> QED BY <2>2, <2>3, <2>4 DEF Range
<1>5. calls' = calls \o s
  BY <1>2 DEF TermCall
<1> HIDE DEF s
<1>6. IsSeq(calls)' /\ Range(calls') = Range(calls) \cup Range(s)
  <2>1. IsSeq(calls \o s) /\ Range(calls \o s) = Range(calls) \cup Range(s)
    BY <1>4, JoinIs DEF WebInv
  <2> QED BY <1>5, <2>1
<1>7. ASSUME NEW c \in Range(s) PROVE Aside(c)
  <2>1. PICK q \in Range(qs) : c = Call(q, "term", None, jar)
    BY <1>4 DEF TermCall
  <2>2. q.op \in Routed /\ DOMAIN q = DOMAIN Request
    BY <1>1
  <2>3. /\ DOMAIN c = CallFields /\ c.slot = "term" /\ c.cookie = jar
        /\ c.live /\ c.st = "sent" /\ c.q.op = q.op /\ c.q.by = "web"
    BY <2>1, <2>2, CallIs
  <2>4. CallOK(c)
    BY <2>2, <2>3 DEF CallOK
  <2>5. LiveOK(c, page.screen)
    BY <2>3 DEF LiveOK, Slots
  <2> QED BY <1>2, <2>3, <2>4, <2>5 DEF Aside, New, Slots
<1>8. SameView(page') /\ page'.pick = page.pick
  BY <1>2, SameViews DEF WebInv
<1>9. ~webSplit' => ~webSplit /\ Alone(calls')
  BY <1>2, <1>6, FlagIs
<1> QED BY <1>2, <1>6, <1>7, <1>8, <1>9 DEF Acted

(***************************************************************************)
(* The location moves.                                                     *)
(***************************************************************************)

\* What is left of the calls of a screen that is gone.
Left(cs) == {[c EXCEPT !.live = FALSE] :
                c \in {d \in Range(cs) : d.slot \notin Slots \/ d.cookie = None}}

LEMMA LeftIs ==
  ASSUME NEW cs, IsSeq(cs), NEW u \in Unmounted(cs)
  PROVE  IsSeq(u) /\ Range(u) = Left(cs)
<1>1. IsSeq(u) /\ Range(u) = {[cs[i] EXCEPT !.live = FALSE] : i \in Kept(cs)}
  BY UnmountedIs
<1> DEFINE Gone(c) == [c EXCEPT !.live = FALSE]
<1> HIDE DEF Gone
<1>2. {Gone(cs[i]) : i \in Kept(cs)}
        = {Gone(c) : c \in {d \in Range(cs) : d.slot \notin Slots \/ d.cookie = None}}
  BY DEF Kept, Range
<1> QED BY <1>1, <1>2 DEF Left, Gone

\* A load that has just been made for screen.
NewLoad(c, screen, cookie) == New(c, cookie, screen) /\ c.slot \in Slots

LEMMA LoadsNew ==
  ASSUME NEW loads, IsSeq(loads), NEW screen, NEW cookie,
         \A l \in Range(loads) : Loadable(l, screen)
  PROVE  /\ IsSeq(Loads(loads, cookie))
         /\ \A c \in Range(Loads(loads, cookie)) :
              NewLoad(c, screen, cookie) /\ \E l \in Range(loads) : c.about = l.about
         /\ \A l \in Range(loads) :
              \E c \in Range(Loads(loads, cookie)) : c.slot = l.slot /\ c.about = l.about
<1>1. /\ IsSeq(Loads(loads, cookie))
      /\ Range(Loads(loads, cookie)) = {LoadCall(l, cookie) : l \in Range(loads)}
  BY LoadsAreNew
<1>2. \A l \in Range(loads) : /\ NewLoad(LoadCall(l, cookie), screen, cookie)
                              /\ LoadCall(l, cookie).slot = l.slot
                              /\ LoadCall(l, cookie).about = l.about
  BY LoadIsNew DEF NewLoad
<1> QED BY <1>1, <1>2

\* The same screen with another id, or a screen of another kind.
Moved(p, rest, screen, id) ==
    /\ page'.screen = screen /\ page'.id = id
    /\ page'.reused /\ page'.crossed = p.crossed /\ page'.pick = p.pick
    /\ page'.main = IF "main" \in Resets(screen) THEN Blank ELSE p.main
    /\ page'.list = IF "list" \in Resets(screen) THEN Blank ELSE p.list
    /\ page'.side = IF "side" \in Resets(screen) THEN Blank ELSE p.side
    /\ \E N : /\ Range(calls') = Range(rest) \cup N
              /\ \A c \in N : NewLoad(c, screen, jar') /\ c.about = id
              /\ screen = "project" => \A slot \in Slots : \E c \in N : c.slot = slot
              /\ screen = "session" => \E c \in N : c.slot = "main"

Opened(rest, screen, id) ==
    /\ page' = Fresh(screen, id)
    /\ \E N : /\ Range(calls') = Left(rest) \cup N
              /\ \A c \in N : /\ NewLoad(c, screen, jar')
                              /\ screen = "project" => c.about = id

LEMMA FreshIs ==
  ASSUME NEW screen, NEW id
  PROVE  /\ PageOK(Fresh(screen, id))
         /\ Fresh(screen, id).screen = screen /\ Fresh(screen, id).id = id
         /\ Fresh(screen, id).main = Blank /\ Fresh(screen, id).list = Blank
         /\ Fresh(screen, id).side = Blank
         /\ ~Fresh(screen, id).reused /\ ~Fresh(screen, id).crossed
  BY DEF Fresh, PageOK, PageFields, SlotFields, Slots, Blank

LEMMA LandIs ==
  ASSUME NEW p, NEW rest, NEW screen, NEW id, PageOK(p), IsSeq(rest),
         Land(p, rest, screen, id)
  PROVE  /\ PageOK(page') /\ IsSeq(calls)'
         /\ \/ screen = p.screen /\ Moved(p, rest, screen, id)
            \/ screen # p.screen /\ Opened(rest, screen, id)
<1>1. /\ IsSeq(Keyed(screen, id)) /\ IsSeq(Once(screen))
      /\ \A l \in Range(Keyed(screen, id)) : Loadable(l, screen) /\ l.about = id
      /\ \A l \in Range(Once(screen)) : Loadable(l, screen)
  BY KeyedAre, OnceAre
<1>2. CASE screen = p.screen
  <2>1. /\ page' = [f \in DOMAIN p |->
                      CASE f = "id"                -> id
                        [] f = "reused"            -> TRUE
                        [] f \in Resets(p.screen)  -> Blank
                        [] OTHER                   -> p[f]]
        /\ calls' = rest \o Loads(Keyed(screen, id), jar')
    BY <1>2 DEF Land
  <2> DEFINE L == Loads(Keyed(screen, id), jar')
  <2>2. /\ IsSeq(L)
        /\ \A c \in Range(L) : NewLoad(c, screen, jar') /\ c.about = id
        /\ \A l \in Range(Keyed(screen, id)) : \E c \in Range(L) : c.slot = l.slot
    BY <1>1, LoadsNew
  <2> HIDE DEF L
  <2>3. IsSeq(rest \o L) /\ Range(rest \o L) = Range(rest) \cup Range(L)
    BY <2>2, JoinIs
  <2>4. calls' = rest \o L
    BY <2>1 DEF L
  <2>5. DOMAIN p = PageFields /\ \A slot \in Slots : DOMAIN p[slot] = SlotFields
    BY DEF PageOK
  <2>6. Resets(screen) \subseteq Slots
    BY DEF Resets, Slots
  <2>7. /\ DOMAIN page' = PageFields /\ page'.screen = screen /\ page'.id = id
        /\ page'.reused /\ page'.crossed = p.crossed /\ page'.pick = p.pick
        /\ page'.main = IF "main" \in Resets(screen) THEN Blank ELSE p.main
        /\ page'.list = IF "list" \in Resets(screen) THEN Blank ELSE p.list
        /\ page'.side = IF "side" \in Resets(screen) THEN Blank ELSE p.side
    BY <1>2, <2>1, <2>5, <2>6 DEF PageFields, Slots
  <2>8. \A slot \in Slots : DOMAIN page'[slot] = SlotFields
    <3>1. DOMAIN Blank = SlotFields
      BY DEF Blank, SlotFields
    <3> QED BY <2>5, <2>7, <3>1 DEF Slots
  <2>9. /\ screen = "project" => \A slot \in Slots : \E c \in Range(L) : c.slot = slot
        /\ screen = "session" => \E c \in Range(L) : c.slot = "main"
    BY <2>2, KeyedAre
  <2>10. \E N : /\ Range(calls') = Range(rest) \cup N
                /\ \A c \in N : NewLoad(c, screen, jar') /\ c.about = id
                /\ screen = "project" => \A slot \in Slots : \E c \in N : c.slot = slot
                /\ screen = "session" => \E c \in N : c.slot = "main"
    BY <2>2, <2>3, <2>4, <2>9
  <2>11. Moved(p, rest, screen, id)
    BY <2>7, <2>10 DEF Moved
  <2>12. PageOK(page')
    BY <2>7, <2>8 DEF PageOK
  <2>13. IsSeq(calls)'
    BY <2>3, <2>4
  <2> QED BY <1>2, <2>11, <2>12, <2>13
<1>3. CASE screen # p.screen
  <2> DEFINE all == Once(screen) \o Keyed(screen, id)
  <2>1. IsSeq(all) /\ Range(all) = Range(Once(screen)) \cup Range(Keyed(screen, id))
    BY <1>1, JoinIs
  <2>2. \A l \in Range(all) : Loadable(l, screen) /\ (screen = "project" => l.about = id)
    <3>1. screen = "project" => Range(Once(screen)) = {}
      <4>1. screen = "project" => Once(screen) = <<>>
        BY DEF Once
      <4> QED BY <4>1, TuplesAre
    <3> QED BY <1>1, <2>1, <3>1
  <2>3. page' = Fresh(screen, id) /\ \E old \in Unmounted(rest) : calls' = old \o Loads(all, jar')
    BY <1>3 DEF Land
  <2> HIDE DEF all
  <2> DEFINE L == Loads(all, jar')
  <2>4. PICK old \in Unmounted(rest) : calls' = old \o L
    BY <2>3
  <2>5. IsSeq(old) /\ Range(old) = Left(rest)
    BY LeftIs
  <2>6. /\ IsSeq(L)
        /\ \A c \in Range(L) : NewLoad(c, screen, jar') /\ (screen = "project" => c.about = id)
    BY <2>1, <2>2, LoadsNew
  <2> HIDE DEF L
  <2>7. IsSeq(old \o L) /\ Range(old \o L) = Left(rest) \cup Range(L)
    BY <2>5, <2>6, JoinIs
  <2>8. Opened(rest, screen, id)
    BY <2>3, <2>4, <2>6, <2>7 DEF Opened
  <2>9. PageOK(page')
    BY <2>3, FreshIs
  <2> QED BY <1>3, <2>4, <2>7, <2>8, <2>9
<1> QED BY <1>2, <1>3

\* A project is selected, on the two screens with a selection.
Picked ==
    /\ page.screen \in {"analysis", "artifacts"} /\ PageOK(page')
    /\ page'.screen = page.screen /\ page'.id = page.id
    /\ page'.main = page.main /\ page'.side = page.side
    /\ page'.reused = page.reused /\ page'.crossed = page.crossed
    /\ UNCHANGED <<api, jar>> /\ IsSeq(calls)'
    /\ \E N : /\ Range(calls') = Range(calls) \cup N
              /\ \A c \in N : NewLoad(c, page.screen, jar) /\ c.slot = "list"
              /\ page'.list = Blank \/ (page'.list = page.list /\ N # {})
    /\ ~webSplit' => ~webSplit /\ Alone(calls')

LEMMA OneLoad ==
  ASSUME NEW screen, NEW op, NEW on, NEW cookie, <<screen, "list", op>> \in LoadTable,
         op # "getProject"
  PROVE  LET L == Loads(<<Load("list", op, on)>>, cookie) IN
         /\ IsSeq(L) /\ Range(L) # {}
         /\ \A c \in Range(L) : NewLoad(c, screen, cookie) /\ c.slot = "list"
<1> DEFINE l == Load("list", op, on)
           L == Loads(<<l>>, cookie)
<1>1. Loadable(l, screen) /\ l.slot = "list"
  BY LoadFields DEF Loadable
<1> HIDE DEF l
<1>2. IsSeq(<<l>>) /\ Range(<<l>>) = {l}
  BY TuplesAre
<1>3. IsSeq(L) /\ Range(L) = {LoadCall(l, cookie)}
  BY <1>2, LoadsAreNew
<1>4. NewLoad(LoadCall(l, cookie), screen, cookie) /\ LoadCall(l, cookie).slot = "list"
  BY <1>1, LoadIsNew DEF NewLoad
<1> HIDE DEF L
<1>5. /\ IsSeq(L) /\ Range(L) # {}
      /\ \A c \in Range(L) : NewLoad(c, screen, cookie) /\ c.slot = "list"
  BY <1>3, <1>4
<1> QED BY <1>5 DEF L, l

LEMMA PickIs ==
  ASSUME WebInv, Select \/ Filter, UNCHANGED rows
  PROVE  Picked
<1>0. PageOK(page) /\ IsSeq(calls)
  BY DEF WebInv
<1>1. UNCHANGED <<api, jar>> /\ FlagSplit(FALSE) /\ page.screen \in {"analysis", "artifacts"}
  BY DEF Select, Filter, Click, api
<1>2. /\ PageOK(page')
      /\ page'.screen = page.screen /\ page'.id = page.id
      /\ page'.main = page.main /\ page'.side = page.side
      /\ page'.reused = page.reused /\ page'.crossed = page.crossed
      /\ page'.list \in {page.list, Blank}
  <2>1. PICK p : page' \in {[page EXCEPT !.pick = p], [page EXCEPT !.pick = p, !.list = Blank]}
    BY DEF Select, Filter, Page
  <2>2. CASE page' = [page EXCEPT !.pick = p]
    BY <1>0, <2>2 DEF PageOK, PageFields, Slots
  <2>3. CASE page' = [page EXCEPT !.pick = p, !.list = Blank]
    <3>1. DOMAIN Blank = SlotFields
      BY DEF Blank, SlotFields
    <3> QED BY <1>0, <2>3, <3>1 DEF PageOK, PageFields, Slots
  <2> QED BY <2>1, <2>2, <2>3
<1>3. /\ IsSeq(calls)'
      /\ \E N : /\ Range(calls') = Range(calls) \cup N
                /\ \A c \in N : NewLoad(c, page.screen, jar) /\ c.slot = "list"
                /\ page'.list = Blank \/ (page'.list = page.list /\ N # {})
  <2>1. CASE UNCHANGED calls /\ page'.list = Blank
    <3> DEFINE N == {}
    <3>1. Range(calls') = Range(calls) \cup N /\ \A c \in N : NewLoad(c, page.screen, jar)
                                                             /\ c.slot = "list"
      BY <2>1
    <3>2. IsSeq(calls)'
      BY <1>0, <2>1
    <3> HIDE DEF N
    <3> QED BY <2>1, <3>1, <3>2
  <2>2. CASE \E p : \E op \in {"listFiles", "browseArtifacts"} :
               /\ <<page.screen, "list", op>> \in LoadTable
               /\ calls' = calls \o Loads(<<Load("list", op, p)>>, jar)
    <3>1. PICK p : \E op \in {"listFiles", "browseArtifacts"} :
             /\ <<page.screen, "list", op>> \in LoadTable
             /\ calls' = calls \o Loads(<<Load("list", op, p)>>, jar)
      BY <2>2
    <3>2. PICK op \in {"listFiles", "browseArtifacts"} :
             /\ <<page.screen, "list", op>> \in LoadTable
             /\ calls' = calls \o Loads(<<Load("list", op, p)>>, jar)
      BY <3>1
    <3> DEFINE L == Loads(<<Load("list", op, p)>>, jar)
    <3>3. /\ IsSeq(L) /\ Range(L) # {}
          /\ \A c \in Range(L) : NewLoad(c, page.screen, jar) /\ c.slot = "list"
      BY <3>2, OneLoad
    <3>4. calls' = calls \o L
      BY <3>2
    <3> HIDE DEF L
    <3>5. IsSeq(calls \o L) /\ Range(calls \o L) = Range(calls) \cup Range(L)
      BY <1>0, <3>3, JoinIs
    <3> QED BY <1>2, <3>3, <3>4, <3>5
  <2>3. CASE Select
    <3>1. page.screen = "analysis"
      BY <2>3 DEF Select
    <3>2. PICK p : IF p = None
                   THEN /\ Page([page EXCEPT !.pick = p, !.list = Blank])
                        /\ UNCHANGED calls
                   ELSE /\ Page([page EXCEPT !.pick = p])
                        /\ calls' = calls \o Loads(<<Load("list", "listFiles", p)>>, jar)
      BY <2>3 DEF Select
    <3>3. CASE p = None
      <4>1. UNCHANGED calls /\ page' = [page EXCEPT !.pick = p, !.list = Blank]
        BY <3>2, <3>3 DEF Page
      <4>2. page'.list = Blank
        BY <1>0, <4>1 DEF PageOK, PageFields
      <4> QED BY <2>1, <4>1, <4>2
    <3>4. CASE p # None
      <4>1. calls' = calls \o Loads(<<Load("list", "listFiles", p)>>, jar)
        BY <3>2, <3>4
      <4>2. <<page.screen, "list", "listFiles">> \in LoadTable
        BY <3>1 DEF LoadTable
      <4> QED BY <2>2, <4>1, <4>2
    <3> QED BY <3>3, <3>4
  <2>4. CASE Filter
    <3>1. <<page.screen, "list", "browseArtifacts">> \in LoadTable
      BY <2>4 DEF Filter, LoadTable
    <3>2. \E p : calls' = calls \o Loads(<<Load("list", "browseArtifacts", p)>>, jar)
      BY <2>4 DEF Filter
    <3> QED BY <2>2, <3>1, <3>2
  <2> QED BY <2>3, <2>4
<1>4. ~webSplit' => ~webSplit /\ Alone(calls')
  BY <1>1, <1>3, FlagIs
<1> QED BY <1>1, <1>2, <1>3, <1>4 DEF Picked

\* The user goes elsewhere.
LEMMA GoIs ==
  ASSUME WebInv, Go, UNCHANGED rows
  PROVE  /\ UNCHANGED <<api, jar>> /\ PageOK(page') /\ IsSeq(calls)'
         /\ \E screen, id : \/ screen = page.screen /\ Moved(page, calls, screen, id)
                            \/ screen # page.screen /\ Opened(calls, screen, id)
         /\ ~webSplit' => ~webSplit /\ Alone(calls')
<1>0. PageOK(page) /\ IsSeq(calls)
  BY DEF WebInv
<1>1. UNCHANGED <<api, jar>> /\ FlagSplit(FALSE)
  BY DEF Go, Click, api
<1>2. PICK r : Land(page, calls, r[1], r[2])
  BY DEF Go
<1>3. PICK screen, id : Land(page, calls, screen, id)
  BY <1>2
<1>4. /\ PageOK(page') /\ IsSeq(calls)'
      /\ \/ screen = page.screen /\ Moved(page, calls, screen, id)
         \/ screen # page.screen /\ Opened(calls, screen, id)
  BY <1>0, <1>3, LandIs
<1>5. ~webSplit' => ~webSplit /\ Alone(calls')
  BY <1>1, <1>4, FlagIs
<1> QED BY <1>1, <1>4, <1>5

\* Another tab changes rows of this visitor, and makes none.
LEMMA OtherTabIs ==
  ASSUME RowsInv, OtherTab
  PROVE  /\ UNCHANGED <<made, minted, jar, page, calls, webSplit>>
         /\ Follows(rows', "seed", jar) /\ DOMAIN rows' \subseteq DOMAIN rows /\ RowsInv'
<1>1. UNCHANGED <<made, minted, jar, page, calls, webSplit>>
  BY DEF OtherTab, Click
<1>2. PICK op \in {"patchProject", "deleteProject"} : \E q \in Arguments(op) :
         \E res \in Results(q, jar) : rows' = res.rows
  BY DEF OtherTab
<1>3. PICK q \in Arguments(op) : \E res \in Results(q, jar) : rows' = res.rows
  BY <1>2
<1>4. PICK res \in Results(q, jar) : rows' = res.rows
  BY <1>3
<1>5. q.op = op /\ q.by = "seed"
  BY ArgumentsAre DEF Arguments, Request
<1>6. Keeps(q, jar, res)
  BY <1>5, ResultsKeep DEF Writes
<1>7. Follows(rows', "seed", jar)
  BY <1>4, <1>5, <1>6 DEF Keeps
<1>8. DOMAIN res.rows \subseteq DOMAIN rows
  <2>1. res \in {PatchProject(q, jar), DeleteProject(q, jar)}
    BY <1>5, ResultsAre
  <2>2. DOMAIN PatchProject(q, jar).rows \subseteq DOMAIN rows
    BY DEF PatchProject, Refused, Updated, Result
  <2>3. DOMAIN DeleteProject(q, jar).rows \subseteq DOMAIN rows
    BY DEF DeleteProject, Refused, Deleted, Result, Restrict
  <2> QED BY <2>1, <2>2, <2>3
<1>9. WellFormed(rows')
  BY <1>7 DEF Follows
<1>10. RowsInv'
  BY <1>1, <1>4, <1>8, <1>9 DEF RowsInv, WellFormed
<1> QED BY <1>1, <1>4, <1>7, <1>8, <1>10

(***************************************************************************)
(* Answers.                                                                *)
(***************************************************************************)

\* The screen is the same one, about the same id.
Steady(p) ==
    /\ PageOK(p) /\ p.screen = page.screen /\ p.id = page.id
    /\ p.pick = page.pick /\ p.reused = page.reused

SameSlots(p) == p.main = page.main /\ p.list = page.list /\ p.side = page.side

\* An answer about a key that was left has been noted.
Uncrossed(p, c) == ~p.crossed => ~page.crossed /\ ~Stray(c)

LEMMA IdleIs ==
  ASSUME PageOK(page), NEW c, NEW ok
  PROVE  Steady(Idle(c, ok)) /\ SameSlots(Idle(c, ok)) /\ Uncrossed(Idle(c, ok), c)
<1> DEFINE p == Idle(c, ok)
<1>1. /\ DOMAIN p = DOMAIN page /\ p.screen = page.screen /\ p.id = page.id
      /\ p.pick = page.pick /\ p.reused = page.reused
      /\ p.main = page.main /\ p.list = page.list /\ p.side = page.side
  BY DEF Idle
<1>2. ~p.crossed => ~page.crossed /\ ~Stray(c)
  <2>1. p.crossed = (page.crossed \/ Stray(c))
    <3>1. "crossed" \in DOMAIN page
      BY DEF PageOK, PageFields
    <3> QED BY <3>1 DEF Idle
  <2> HIDE DEF p
  <2> QED BY <2>1
<1> HIDE DEF p
<1>3. PageOK(p)
  BY <1>1 DEF PageOK, Slots
<1>4. Steady(p) /\ SameSlots(p) /\ Uncrossed(p, c)
  BY <1>1, <1>2, <1>3 DEF Steady, SameSlots, Uncrossed
<1> QED BY <1>4 DEF p

LEMMA FilledIs ==
  ASSUME NEW c, NEW ans, NEW s, s = Filled(c, ans)
  PROVE  DOMAIN s = SlotFields /\ s.phase = "ready" /\ s.of = c.about /\ s.row = ans.row
  BY DEF Filled, SlotFields

LEMMA BlankIs ==
  /\ DOMAIN Blank = SlotFields /\ Blank.phase # "ready"
  /\ DOMAIN Failed = SlotFields /\ Failed.phase # "ready"
  BY DEF Blank, Failed, SlotFields

\* What an act changes on screen p: the row it is about, or the list.
Acking(p, r, c, ans) ==
    /\ PageOK(r) /\ r.screen = p.screen /\ r.id = p.id /\ r.pick = p.pick
    /\ r.reused = p.reused /\ r.crossed = p.crossed /\ r.side = p.side
    /\ IF c.q.op \in Edits
       THEN /\ r.main.phase = "ready" /\ r.main.of = c.q.on
            /\ c.q.op # "patchConversation" => r.main.row = ans.row
       ELSE r.main = p.main
    /\ r.list = Blank \/ (r.list.phase = p.list.phase /\ r.list.of = p.list.of)

LEMMA AppliedIs ==
  ASSUME NEW p, PageOK(p), NEW c, NEW ans
  PROVE  /\ Acking(p, Applied(p, c, ans), c, ans)
         /\ Moves(c, ans) # <<>> => Applied(p, c, ans) = p
<1> DEFINE r == Applied(p, c, ans)
<1>0. DOMAIN p = PageFields /\ \A slot \in Slots : DOMAIN p[slot] = SlotFields
  BY DEF PageOK
<1>1. CASE c.q.op \in {"patchProject", "archiveProject", "unarchiveProject"}
  <2>1. PICK s : s = Filled(c, ans)
    OBVIOUS
  <2>2. DOMAIN s = SlotFields /\ s.phase = "ready" /\ s.of = c.about /\ s.row = ans.row
    BY <2>1, FilledIs
  <2> DEFINE t == [s EXCEPT !.of = c.q.on]
  <2>3. DOMAIN t = SlotFields /\ t.phase = "ready" /\ t.of = c.q.on /\ t.row = ans.row
    BY <2>2 DEF SlotFields
  <2>4. r = [p EXCEPT !.main = t]
    BY <1>1, <2>1 DEF Applied
  <2> HIDE DEF r, t
  <2>5. /\ DOMAIN r = PageFields /\ r.screen = p.screen /\ r.id = p.id /\ r.pick = p.pick
        /\ r.reused = p.reused /\ r.crossed = p.crossed /\ r.side = p.side
        /\ r.main = t /\ r.list = p.list
    BY <1>0, <2>4 DEF PageFields
  <2>6. PageOK(r)
    BY <1>0, <2>3, <2>5 DEF PageOK, Slots
  <2>7. Acking(p, r, c, ans)
    BY <1>1, <2>3, <2>5, <2>6 DEF Acking, Edits
  <2>8. Moves(c, ans) = <<>>
    BY <1>1 DEF Moves
  <2> QED BY <2>7, <2>8 DEF r
<1>2. CASE c.q.op = "patchConversation"
  <2>1. PICK s : s = Filled(c, ans)
    OBVIOUS
  <2>2. DOMAIN s = SlotFields /\ s.phase = "ready"
    BY <2>1, FilledIs
  <2>3. PICK x : r = [p EXCEPT !.main = [s EXCEPT !.of = c.q.on, !.row = x]]
    BY <1>2, <2>1 DEF Applied
  <2> DEFINE t == [s EXCEPT !.of = c.q.on, !.row = x]
  <2>4. DOMAIN t = SlotFields /\ t.phase = "ready" /\ t.of = c.q.on
    BY <2>2 DEF SlotFields
  <2>5. r = [p EXCEPT !.main = t]
    BY <2>3
  <2> HIDE DEF r, t
  <2>6. /\ DOMAIN r = PageFields /\ r.screen = p.screen /\ r.id = p.id /\ r.pick = p.pick
        /\ r.reused = p.reused /\ r.crossed = p.crossed /\ r.side = p.side
        /\ r.main = t /\ r.list = p.list
    BY <1>0, <2>5 DEF PageFields
  <2>7. PageOK(r)
    BY <1>0, <2>4, <2>6 DEF PageOK, Slots
  <2>8. Acking(p, r, c, ans)
    BY <1>2, <2>4, <2>6, <2>7 DEF Acking, Edits
  <2>9. Moves(c, ans) = <<>>
    BY <1>2 DEF Moves
  <2> QED BY <2>8, <2>9 DEF r
<1>3. CASE c.q.op = "postTurn"
  <2>1. PICK x, y : r = [p EXCEPT !.list.items = x, !.tables = y]
    BY <1>3 DEF Applied
  <2> HIDE DEF r
  <2>2. /\ DOMAIN r = PageFields /\ r.screen = p.screen /\ r.id = p.id /\ r.pick = p.pick
        /\ r.reused = p.reused /\ r.crossed = p.crossed /\ r.side = p.side
        /\ r.main = p.main /\ DOMAIN r.list = SlotFields
        /\ r.list.phase = p.list.phase /\ r.list.of = p.list.of
    BY <1>0, <2>1 DEF PageFields, SlotFields, Slots
  <2>3. PageOK(r)
    BY <1>0, <2>2 DEF PageOK, Slots
  <2>4. Acking(p, r, c, ans)
    BY <1>3, <2>2, <2>3 DEF Acking, Edits
  <2>5. Moves(c, ans) = <<>>
    BY <1>3 DEF Moves
  <2> QED BY <2>4, <2>5 DEF r
<1>4. CASE c.q.op \in {"deleteFile", "uploadFile"}
  <2>1. r = [p EXCEPT !.list = Blank]
    BY <1>4 DEF Applied
  <2> HIDE DEF r
  <2>2. /\ DOMAIN r = PageFields /\ r.screen = p.screen /\ r.id = p.id /\ r.pick = p.pick
        /\ r.reused = p.reused /\ r.crossed = p.crossed /\ r.side = p.side
        /\ r.main = p.main /\ r.list = Blank
    BY <1>0, <2>1 DEF PageFields
  <2>3. PageOK(r)
    BY <1>0, <2>2, BlankIs DEF PageOK, Slots
  <2>4. Acking(p, r, c, ans)
    BY <1>4, <2>2, <2>3 DEF Acking, Edits
  <2>5. Moves(c, ans) = <<>>
    BY <1>4 DEF Moves
  <2> QED BY <2>4, <2>5 DEF r
<1>5. CASE c.q.op \notin {"patchProject", "archiveProject", "unarchiveProject",
                          "patchConversation", "postTurn", "deleteFile", "uploadFile"}
  <2>1. r = p
    BY <1>5 DEF Applied
  <2> HIDE DEF r
  <2>2. Acking(p, r, c, ans)
    BY <1>5, <2>1 DEF Acking, Edits
  <2> QED BY <2>1, <2>2 DEF r
<1> QED BY <1>1, <1>2, <1>3, <1>4, <1>5

\* The lists that an act makes its screen load again.
LEMMA AgainIs ==
  ASSUME NEW c, NEW screen, LiveOK(c, screen), c.slot = "none"
  PROVE  /\ IsSeq(Again(c))
         /\ \A l \in Range(Again(c)) : Loadable(l, screen) /\ (screen = "project" => l.about = c.about)
         /\ Moves(c, c.ans) # <<>> /\ Range(Again(c)) # {} => screen # "project"
<1>0. <<screen, c.q.op>> \in ActTable
  BY DEF LiveOK
<1>1. CASE c.q.op \in {"deleteFile", "uploadFile"}
  <2> DEFINE l == Load("list", "listFiles", c.about)
  <2>1. Again(c) = <<l>>
    BY <1>1 DEF Again
  <2>2. screen = "project"
    BY <1>0, <1>1 DEF ActTable
  <2>3. Loadable(l, screen) /\ l.about = c.about
    BY <2>2, LoadFields DEF Loadable, LoadTable
  <2>4. Moves(c, c.ans) = <<>>
    BY <1>1 DEF Moves
  <2> HIDE DEF l
  <2>5. IsSeq(<<l>>) /\ Range(<<l>>) = {l}
    BY TuplesAre
  <2> QED BY <2>1, <2>3, <2>4, <2>5
<1>2. CASE \/ c.q.op \in {"createConversation", "deleteConversation"}
           \/ c.q.op = "patchConversation" /\ c.q.name # None
  <2> DEFINE l == Load("list", "listConversations", None)
  <2>1. Again(c) = <<l>>
    BY <1>2 DEF Again
  <2>2. screen = "chat"
    BY <1>0, <1>2 DEF ActTable
  <2>3. Loadable(l, screen)
    BY <2>2, LoadFields DEF Loadable, LoadTable
  <2> HIDE DEF l
  <2>4. IsSeq(<<l>>) /\ Range(<<l>>) = {l}
    BY TuplesAre
  <2> QED BY <2>1, <2>2, <2>3, <2>4
<1>3. CASE ~(\/ c.q.op \in {"deleteFile", "uploadFile", "createConversation",
                            "deleteConversation"}
             \/ c.q.op = "patchConversation" /\ c.q.name # None)
  <2>1. Again(c) = <<>>
    BY <1>3 DEF Again
  <2> QED BY <2>1, TuplesAre
<1> QED BY <1>1, <1>2, <1>3

\* What is asked for after a load.
LEMMA FollowIs ==
  ASSUME NEW c, NEW ans, NEW screen, LiveOK(c, screen), c.slot \in Slots
  PROVE  /\ IsSeq(Follow(c, ans))
         /\ \A l \in Range(Follow(c, ans)) : Loadable(l, screen) /\ l.about = c.about
         /\ c.q.op = "getSession" /\ c.slot = "main" =>
              \E l \in Range(Follow(c, ans)) : l.slot = "side"
         /\ c.q.op = "getArtifact" => \E l \in Range(Follow(c, ans)) : l.slot = "list"
<1>0. <<screen, c.slot, c.q.op>> \in LoadTable
  BY DEF LiveOK
<1>1. CASE c.q.op = "getSession" /\ c.slot = "main"
  <2> DEFINE l == [Load("side", "getPreview", ans.row.on) EXCEPT !.about = c.about]
  <2>1. Follow(c, ans) = <<l>>
    BY <1>1 DEF Follow
  <2>2. screen = "session"
    BY <1>0, <1>1 DEF LoadTable
  <2>3. l.slot = "side" /\ l.op = "getPreview" /\ l.about = c.about
    BY DEF Load
  <2>4. Loadable(l, screen)
    BY <2>2, <2>3 DEF Loadable, LoadTable
  <2> HIDE DEF l
  <2>5. IsSeq(<<l>>) /\ Range(<<l>>) = {l}
    BY TuplesAre
  <2> QED BY <1>1, <2>1, <2>3, <2>4, <2>5
<1>2. CASE c.q.op = "getArtifact"
  <2> DEFINE l == [Load("side", "getSession", ans.row.on) EXCEPT !.about = c.about]
             m == Load("list", "getLineage", c.about)
  <2>1. Follow(c, ans) = <<l, m>>
    BY <1>2 DEF Follow
  <2>2. screen = "artifact"
    BY <1>0, <1>2 DEF LoadTable
  <2>3. /\ l.slot = "side" /\ l.op = "getSession" /\ l.about = c.about
        /\ m.slot = "list" /\ m.op = "getLineage" /\ m.about = c.about
    BY DEF Load
  <2>4. Loadable(l, screen) /\ Loadable(m, screen)
    BY <2>2, <2>3 DEF Loadable, LoadTable
  <2> HIDE DEF l, m
  <2>5. IsSeq(<<l, m>>) /\ Range(<<l, m>>) = {l, m}
    BY TuplesAre
  <2> QED BY <1>2, <2>1, <2>3, <2>4, <2>5
<1>3. CASE ~(c.q.op = "getSession" /\ c.slot = "main") /\ c.q.op # "getArtifact"
  <2>1. Follow(c, ans) = <<>>
    BY <1>3 DEF Follow
  <2> QED BY <1>3, <2>1, TuplesAre
<1> QED BY <1>1, <1>2, <1>3

\* A slot of p is filled, or two of them: the turns come with their session.
Fills(c, slot) == slot = c.slot \/ (c.q.op = "getSession" /\ c.slot = "main" /\ slot = "list")

LEMMA ShowIs ==
  ASSUME NEW p, Steady(p), SameSlots(p), NEW c, c.slot \in Slots, NEW ans
  PROVE  /\ Steady(Show(p, c, ans)) /\ Show(p, c, ans).crossed = p.crossed
         /\ \A slot \in Slots :
              LET s == Show(p, c, ans)[slot] IN
              IF Fills(c, slot)
              THEN s.phase = "ready" /\ s.of = c.about /\ s.row = ans.row
              ELSE s = page[slot]
<1>1. PICK s : s = Filled(c, ans)
  OBVIOUS
<1>2. DOMAIN s = SlotFields /\ s.phase = "ready" /\ s.of = c.about /\ s.row = ans.row
  BY <1>1, FilledIs
<1> DEFINE r == Show(p, c, ans)
<1>3. DOMAIN p = PageFields /\ \A slot \in Slots : DOMAIN p[slot] = SlotFields
  BY DEF Steady, PageOK
<1>4. /\ DOMAIN r = PageFields /\ r.screen = p.screen /\ r.id = p.id /\ r.pick = p.pick
      /\ r.reused = p.reused /\ r.crossed = p.crossed
      /\ \A slot \in Slots : r[slot] = IF Fills(c, slot) THEN s ELSE p[slot]
  <2>1. CASE c.q.op = "getSession" /\ c.slot = "main"
    <3>1. r = [p EXCEPT !.main = s, !.list = s, !.tables = {}]
      BY <1>1, <2>1 DEF Show
    <3> HIDE DEF r
    <3> QED BY <1>3, <2>1, <3>1 DEF PageFields, Slots, Fills
  <2>2. CASE ~(c.q.op = "getSession" /\ c.slot = "main")
    <3>1. r = [p EXCEPT ![c.slot] = s]
      BY <1>1, <2>2 DEF Show
    <3> HIDE DEF r
    <3> QED BY <1>3, <2>2, <3>1 DEF PageFields, Slots, Fills
  <2> QED BY <2>1, <2>2
<1> HIDE DEF r
<1>5. PageOK(r)
  BY <1>2, <1>3, <1>4 DEF PageOK
<1>6. Steady(r)
  BY <1>4, <1>5 DEF Steady
<1>7. \A slot \in Slots : p[slot] = page[slot]
  BY DEF SameSlots, Slots
<1>8. \A slot \in Slots :
        IF Fills(c, slot)
        THEN r[slot].phase = "ready" /\ r[slot].of = c.about /\ r[slot].row = ans.row
        ELSE r[slot] = page[slot]
  BY <1>2, <1>4, <1>7
<1> QED BY <1>4, <1>6, <1>8 DEF r

\* One slot fails; a conversation that is shown stays.
LEMMA FaultIs ==
  ASSUME NEW p, Steady(p), SameSlots(p), NEW c, c.slot \in Slots,
         LiveOK(c, page.screen), NEW r, r = Fault(p, c)
  PROVE  /\ Steady(r) /\ r.crossed = p.crossed
         /\ \/ SameSlots(r) /\ page.screen = "chat" /\ c.slot = "main"
            \/ \E f \in Slots :
                 /\ f = c.slot \/ (f = "main" /\ page.screen = "artifact" /\ c.slot = "list")
                 /\ r[f] = Failed
                 /\ \A slot \in Slots \ {f} : r[slot] = page[slot]
<1>0. <<page.screen, c.slot, c.q.op>> \in LoadTable
  BY DEF LiveOK
<1>1. DOMAIN p = PageFields /\ \A slot \in Slots : DOMAIN p[slot] = SlotFields
  BY DEF Steady, PageOK
<1>2. \A slot \in Slots : p[slot] = page[slot]
  BY DEF SameSlots, Slots
<1>3. CASE c.q.op = "getConversation" /\ p.main.phase = "ready"
  <2>1. r = p
    BY <1>3 DEF Fault
  <2>2. page.screen = "chat" /\ c.slot = "main"
    BY <1>0, <1>3 DEF LoadTable
  <2> QED BY <2>1, <2>2
<1>4. CASE ~(c.q.op = "getConversation" /\ p.main.phase = "ready")
  <2>1. PICK f \in Slots :
           /\ f = c.slot \/ (f = "main" /\ page.screen = "artifact" /\ c.slot = "list")
           /\ r = [p EXCEPT ![f] = Failed]
    <3>1. CASE c.q.op = "getLineage"
      <4>1. page.screen = "artifact" /\ c.slot = "list"
        BY <1>0, <3>1 DEF LoadTable
      <4>2. r = [p EXCEPT !["main"] = Failed]
        BY <3>1 DEF Fault
      <4> QED BY <4>1, <4>2 DEF Slots
    <3>2. CASE c.q.op # "getLineage"
      <4>1. r = [p EXCEPT ![c.slot] = Failed]
        BY <1>4, <3>2 DEF Fault
      <4> QED BY <4>1
    <3> QED BY <3>1, <3>2
  <2>2. /\ DOMAIN r = PageFields /\ r.screen = p.screen /\ r.id = p.id /\ r.pick = p.pick
        /\ r.reused = p.reused /\ r.crossed = p.crossed
        /\ r[f] = Failed /\ \A slot \in Slots \ {f} : r[slot] = p[slot]
    BY <1>1, <2>1 DEF PageFields, Slots
  <2>3. PageOK(r)
    BY <1>1, <2>2, BlankIs DEF PageOK
  <2>4. Steady(r)
    BY <2>2, <2>3 DEF Steady
  <2> QED BY <1>2, <2>1, <2>2, <2>4
<1> QED BY <1>3, <1>4

(***************************************************************************)
(* What comes of an answer to call c, with the calls rest besides it.      *)
(***************************************************************************)

\* Nothing but that it was heard.
Quiet(c, rest) ==
    /\ Steady(page') /\ SameSlots(page') /\ Uncrossed(page', c)
    /\ Range(calls') = Range(rest)
    /\ c.live /\ c.slot \in Slots => page.screen = "chat" /\ c.slot = "main"

\* A slot is filled, and more is asked for.
Filling(c, rest) ==
    /\ c.live /\ c.slot \in Slots /\ Steady(page') /\ Uncrossed(page', c)
    /\ c.ans.status < 300 \/ c.q.op \in Unchecked
    /\ \A slot \in Slots :
         IF Fills(c, slot)
         THEN page'[slot].phase = "ready" /\ page'[slot].of = c.about /\ page'[slot].row = c.ans.row
         ELSE page'[slot] = page[slot]
    /\ \E N : /\ Range(calls') = Range(rest) \cup N
              /\ \A d \in N : NewLoad(d, page.screen, jar') /\ d.about = c.about
              /\ c.q.op = "getSession" /\ c.slot = "main" => \E d \in N : d.slot = "side"
              /\ c.q.op = "getArtifact" => \E d \in N : d.slot = "list"

\* A slot fails.
Failing(c, rest) ==
    /\ c.live /\ c.slot \in Slots /\ Steady(page') /\ Uncrossed(page', c)
    /\ Range(calls') = Range(rest)
    /\ \E f \in Slots :
         /\ f = c.slot \/ (f = "main" /\ page.screen = "artifact" /\ c.slot = "list")
         /\ page'[f] = Failed
         /\ \A slot \in Slots \ {f} : page'[slot] = page[slot]

\* An act shows what it did, and some lists are asked for again.
Done(c, rest) ==
    /\ c.live /\ c.slot = "none" /\ Steady(page') /\ Uncrossed(page', c)
    /\ c.ans.status < 300 \/ c.q.op \in Unchecked
    /\ IF c.q.op \in Edits
       THEN /\ page'.main.phase = "ready" /\ page'.main.of = c.q.on
            /\ c.q.op # "patchConversation" => page'.main.row = c.ans.row
       ELSE page'.main = page.main
    /\ page'.side = page.side
    /\ page'.list = Blank \/ (page'.list.phase = page.list.phase /\ page'.list.of = page.list.of)
    /\ \E N : /\ Range(calls') = Range(rest) \cup N
              /\ \A d \in N : NewLoad(d, page.screen, jar')
                              /\ (page.screen = "project" => d.about = c.about)

\* An act moves the location.
Turned(c, rest) ==
    /\ c.slot = "none"
    /\ \E p, more, screen, id, M :
         /\ Steady(p) /\ SameSlots(p) /\ Uncrossed(p, c)
         /\ Range(more) = Range(rest) \cup M
         /\ \A d \in M : NewLoad(d, page.screen, jar') /\ page.screen # "project"
         /\ \/ screen = page.screen /\ Moved(p, more, screen, id)
            \/ screen # page.screen /\ Opened(more, screen, id)

LEMMA HearIs ==
  ASSUME PageOK(page), NEW c, CallOK(c), c.live => LiveOK(c, page.screen),
         NEW rest, IsSeq(rest), c.ans.status < 300 \/ c.q.op \in Unchecked,
         Hear(c, rest, c.ans)
  PROVE  /\ PageOK(page') /\ IsSeq(calls)'
         /\ Quiet(c, rest) \/ Filling(c, rest) \/ Done(c, rest) \/ Turned(c, rest)
<1>1. PICK p : p = Idle(c, TRUE)
  OBVIOUS
<1>2. Steady(p) /\ SameSlots(p) /\ Uncrossed(p, c) /\ PageOK(p)
  BY <1>1, IdleIs DEF Steady
<1> DEFINE r == IF c.live THEN Applied(p, c, c.ans) ELSE p
           more == IF c.live THEN rest \o Loads(Again(c), jar') ELSE rest
           to == Moves(c, c.ans)
<1>3. IF c.slot = "none"
      THEN IF to \in {<<>>, <<p.screen, p.id>>}
           THEN page' = r /\ calls' = more
           ELSE Land(r, more, to[1], to[2])
      ELSE IF c.slot \in Slots /\ c.live
      THEN page' = Show(p, c, c.ans) /\ calls' = rest \o Loads(Follow(c, c.ans), jar')
      ELSE page' = p /\ calls' = rest
  BY <1>1 DEF Hear
<1>4. CASE c.slot = "none"
  <2>1. PICK M : /\ IsSeq(more) /\ Range(more) = Range(rest) \cup M
                 /\ c.live => \A d \in M : /\ NewLoad(d, page.screen, jar')
                                           /\ page.screen = "project" => d.about = c.about
                 /\ ~c.live => M = {}
                 /\ c.live /\ to # <<>> => \A d \in M : page.screen # "project"
    <3>1. CASE c.live
      <4> DEFINE L == Loads(Again(c), jar')
      <4>1. /\ IsSeq(Again(c))
            /\ \A l \in Range(Again(c)) : Loadable(l, page.screen)
                                          /\ (page.screen = "project" => l.about = c.about)
            /\ to # <<>> /\ Range(Again(c)) # {} => page.screen # "project"
        BY <1>4, <3>1, AgainIs
      <4> HIDE DEF to
      <4>2. /\ IsSeq(L)
            /\ \A d \in Range(L) : NewLoad(d, page.screen, jar')
                                   /\ \E l \in Range(Again(c)) : d.about = l.about
        BY <4>1, LoadsNew
      <4> HIDE DEF L
      <4>3. IsSeq(rest \o L) /\ Range(rest \o L) = Range(rest) \cup Range(L)
        BY <4>2, JoinIs
      <4>4. more = rest \o L
        BY <3>1 DEF L
      <4> HIDE DEF more
      <4>5. \A d \in Range(L) : /\ NewLoad(d, page.screen, jar')
                                /\ page.screen = "project" => d.about = c.about
                                /\ to # <<>> => page.screen # "project"
        BY <4>1, <4>2
      <4> QED BY <3>1, <4>3, <4>4, <4>5
    <3>2. CASE ~c.live
      <4> HIDE DEF to
      <4>1. more = rest /\ Range(rest) = Range(rest) \cup {}
        BY <3>2
      <4> HIDE DEF more
      <4> DEFINE M == {}
      <4>2. Range(more) = Range(rest) \cup M /\ M = {}
        BY <4>1
      <4> HIDE DEF M
      <4> QED BY <3>2, <4>1, <4>2
    <3> QED BY <3>1, <3>2
  <2>2. c.live => Acking(p, r, c, c.ans) /\ (to # <<>> => r = p)
    BY <1>2, AppliedIs
  <2>3. ~c.live => r = p
    OBVIOUS
  <2> HIDE DEF r, more
  <2>4. CASE to \in {<<>>, <<p.screen, p.id>>}
    <3>1. page' = r /\ calls' = more
      BY <1>3, <1>4, <2>4
    <3> HIDE DEF to
    <3>2. CASE c.live
      <4>1. Acking(p, page', c, c.ans)
        BY <2>2, <3>1, <3>2
      <4>2. Steady(page') /\ Uncrossed(page', c)
        BY <1>2, <4>1 DEF Acking, Steady, Uncrossed
      <4>3. /\ IF c.q.op \in Edits
               THEN /\ page'.main.phase = "ready" /\ page'.main.of = c.q.on
                    /\ c.q.op # "patchConversation" => page'.main.row = c.ans.row
               ELSE page'.main = page.main
            /\ page'.side = page.side
            /\ page'.list = Blank
               \/ (page'.list.phase = page.list.phase /\ page'.list.of = page.list.of)
        BY <1>2, <4>1 DEF Acking, SameSlots
      <4>4. \A d \in M : NewLoad(d, page.screen, jar')
                         /\ (page.screen = "project" => d.about = c.about)
        BY <2>1, <3>2
      <4>5. Range(calls') = Range(rest) \cup M
        BY <2>1, <3>1
      <4>6. Done(c, rest)
        BY <1>4, <3>2, <4>2, <4>3, <4>4, <4>5 DEF Done
      <4>7. IsSeq(calls)'
        BY <2>1, <3>1
      <4>8. PageOK(page')
        BY <4>2 DEF Steady
      <4> QED BY <4>6, <4>7, <4>8
    <3>3. CASE ~c.live
      <4>1. page' = p /\ IsSeq(calls)' /\ Range(calls') = Range(rest)
        BY <2>1, <2>3, <3>1, <3>3
      <4> QED BY <1>2, <3>3, <4>1 DEF Quiet
    <3> QED BY <3>2, <3>3
  <2>5. CASE to \notin {<<>>, <<p.screen, p.id>>}
    <3>1. Land(r, more, to[1], to[2])
      BY <1>3, <1>4, <2>5
    <3>2. to # <<>>
      BY <2>5
    <3>3. PICK screen, id : Land(r, more, screen, id)
      BY <3>1
    <3> HIDE DEF to
    <3>4. r = p
      BY <2>2, <2>3, <3>2
    <3>5. Land(p, more, screen, id)
      BY <3>3, <3>4
    <3>6. /\ PageOK(page') /\ IsSeq(calls)'
          /\ \/ screen = p.screen /\ Moved(p, more, screen, id)
             \/ screen # p.screen /\ Opened(more, screen, id)
      BY <1>2, <2>1, <3>5, LandIs
    <3>7. p.screen = page.screen
      BY <1>2 DEF Steady
    <3>8. \A d \in M : NewLoad(d, page.screen, jar') /\ page.screen # "project"
      BY <2>1, <3>2
    <3>9. Turned(c, rest)
      BY <1>2, <1>4, <2>1, <3>6, <3>7, <3>8 DEF Turned
    <3> QED BY <3>6, <3>9
  <2> QED BY <2>4, <2>5
<1>5. CASE c.slot \in Slots /\ c.live
  <2>0. c.slot # "none"
    BY <1>5 DEF Slots
  <2>1. page' = Show(p, c, c.ans) /\ calls' = rest \o Loads(Follow(c, c.ans), jar')
    BY <1>3, <1>5, <2>0
  <2>2. PICK s : s = Show(p, c, c.ans)
    OBVIOUS
  <2>3. /\ Steady(s) /\ s.crossed = p.crossed
        /\ \A slot \in Slots :
             IF Fills(c, slot)
             THEN s[slot].phase = "ready" /\ s[slot].of = c.about /\ s[slot].row = c.ans.row
             ELSE s[slot] = page[slot]
    BY <1>2, <1>5, <2>2, ShowIs
  <2>4. page' = s
    BY <2>1, <2>2
  <2>5. /\ Steady(page') /\ Uncrossed(page', c) /\ PageOK(page')
        /\ \A slot \in Slots :
             IF Fills(c, slot)
             THEN /\ page'[slot].phase = "ready" /\ page'[slot].of = c.about
                  /\ page'[slot].row = c.ans.row
             ELSE page'[slot] = page[slot]
    BY <1>2, <2>3, <2>4 DEF Steady, Uncrossed
  <2> DEFINE F == Follow(c, c.ans)
             L == Loads(F, jar')
  <2>6. /\ IsSeq(F)
        /\ \A l \in Range(F) : Loadable(l, page.screen) /\ l.about = c.about
        /\ c.q.op = "getSession" /\ c.slot = "main" => \E l \in Range(F) : l.slot = "side"
        /\ c.q.op = "getArtifact" => \E l \in Range(F) : l.slot = "list"
    BY <1>5, FollowIs
  <2> HIDE DEF F
  <2>7. /\ IsSeq(L)
        /\ \A d \in Range(L) : NewLoad(d, page.screen, jar')
                               /\ \E l \in Range(F) : d.about = l.about
        /\ \A l \in Range(F) : \E d \in Range(L) : d.slot = l.slot
    BY <2>6, LoadsNew
  <2> HIDE DEF L
  <2>8. IsSeq(rest \o L) /\ Range(rest \o L) = Range(rest) \cup Range(L)
    BY <2>7, JoinIs
  <2>9. calls' = rest \o L
    BY <2>1 DEF L, F
  <2>10. /\ Range(calls') = Range(rest) \cup Range(L)
         /\ \A d \in Range(L) : NewLoad(d, page.screen, jar') /\ d.about = c.about
         /\ c.q.op = "getSession" /\ c.slot = "main" => \E d \in Range(L) : d.slot = "side"
         /\ c.q.op = "getArtifact" => \E d \in Range(L) : d.slot = "list"
    BY <2>6, <2>7, <2>8, <2>9
  <2>11. \E N : /\ Range(calls') = Range(rest) \cup N
                /\ \A d \in N : NewLoad(d, page.screen, jar') /\ d.about = c.about
                /\ c.q.op = "getSession" /\ c.slot = "main" => \E d \in N : d.slot = "side"
                /\ c.q.op = "getArtifact" => \E d \in N : d.slot = "list"
    BY <2>10
  <2>12. Filling(c, rest)
    BY <1>5, <2>5, <2>11 DEF Filling
  <2>13. IsSeq(calls)'
    BY <2>8, <2>9
  <2> QED BY <2>5, <2>12, <2>13
<1>6. CASE c.slot # "none" /\ ~(c.slot \in Slots /\ c.live)
  <2>1. page' = p /\ calls' = rest
    BY <1>3, <1>6
  <2> QED BY <1>2, <1>6, <2>1 DEF Quiet
<1> QED BY <1>4, <1>5, <1>6

LEMMA MissIs ==
  ASSUME PageOK(page), NEW c, CallOK(c), c.live => LiveOK(c, page.screen),
         NEW rest, IsSeq(rest), Miss(c, rest)
  PROVE  /\ PageOK(page') /\ IsSeq(calls)'
         /\ Quiet(c, rest) \/ Failing(c, rest)
<1>1. PICK p : p = Idle(c, FALSE)
  OBVIOUS
<1>2. Steady(p) /\ SameSlots(p) /\ Uncrossed(p, c)
  BY <1>1, IdleIs
<1>3. /\ page' = IF c.live /\ c.slot \in Slots THEN Fault(p, c) ELSE p
      /\ calls' = rest
  BY <1>1 DEF Miss
<1>4. CASE c.live /\ c.slot \in Slots
  <2>1. PICK r : r = Fault(p, c)
    OBVIOUS
  <2>2. /\ Steady(r) /\ r.crossed = p.crossed
        /\ \/ SameSlots(r) /\ page.screen = "chat" /\ c.slot = "main"
           \/ \E f \in Slots :
                /\ f = c.slot \/ (f = "main" /\ page.screen = "artifact" /\ c.slot = "list")
                /\ r[f] = Failed
                /\ \A slot \in Slots \ {f} : r[slot] = page[slot]
    BY <1>2, <1>4, <2>1, FaultIs
  <2>3. page' = r /\ calls' = rest
    BY <1>3, <1>4, <2>1
  <2>4. Uncrossed(page', c) /\ Steady(page') /\ PageOK(page')
    BY <1>2, <2>2, <2>3 DEF Uncrossed, Steady
  <2>5. IsSeq(calls)' /\ Range(calls') = Range(rest)
    BY <2>3
  <2>6. CASE SameSlots(r) /\ page.screen = "chat" /\ c.slot = "main"
    BY <2>3, <2>4, <2>5, <2>6 DEF Quiet
  <2>7. CASE \E f \in Slots :
               /\ f = c.slot \/ (f = "main" /\ page.screen = "artifact" /\ c.slot = "list")
               /\ r[f] = Failed
               /\ \A slot \in Slots \ {f} : r[slot] = page[slot]
    BY <1>4, <2>3, <2>4, <2>5, <2>7 DEF Failing
  <2> QED BY <2>2, <2>6, <2>7
<1>5. CASE ~(c.live /\ c.slot \in Slots)
  <2>1. page' = p /\ calls' = rest
    BY <1>3, <1>5
  <2> QED BY <1>2, <1>5, <2>1 DEF Quiet, Steady
<1> QED BY <1>4, <1>5

\* The requests whose answers carry a project.
OfProject == {"getProject", "patchProject", "archiveProject", "unarchiveProject"}

LEMMA ProjectAnswer ==
  ASSUME NEW q, NEW v, q.op \in OfProject, NEW res \in Results(q, v), res.status < 300
  PROVE  res.id = q.on /\ q.on \in DOMAIN res.rows
<1>1. CASE q.op = "getProject"
  <2>1. res = Read(q, v, Reads[q.op])
    BY <1>1, ResultsAre DEF Reads
  <2>2. res \in {Found(q.on), Refused(404)} /\ (res = Found(q.on) => Is(q.on, Reads[q.op]))
    BY <2>1 DEF Read, Found, Refused, Result
  <2> QED BY <2>2 DEF Found, Refused, Result, Is
<1>2. CASE q.op # "getProject"
  <2>1. res \in {PatchProject(q, v), SetState(q, v)}
    BY <1>2, ResultsAre DEF OfProject
  <2>2. \E s, row : \/ res = Refused(s) /\ s \in {403, 404, 409, 422}
                    \/ res = Updated(q.on, row) /\ q.on \in DOMAIN rows
    <3>1. CASE res = PatchProject(q, v)
      <4> DEFINE access == ActiveProjectForWrite(q.on, v)
      <4>1. access \in {200, 403, 404, 409} /\ (access = 200 => q.on \in DOMAIN rows)
        BY DEF ActiveProjectForWrite, ProjectForWrite, CanMutate, Is
      <4>2. res = IF access # 200 THEN Refused(access)
                  ELSE IF ~q.ok THEN Refused(422)
                  ELSE Updated(q.on, [rows[q.on] EXCEPT !.name = q.name])
        BY <3>1 DEF PatchProject
      <4> HIDE DEF access
      <4> QED BY <4>1, <4>2
    <3>2. CASE res = SetState(q, v)
      <4> DEFINE access == ProjectForWrite(q.on, v)
      <4>1. access \in {200, 403, 404} /\ (access = 200 => q.on \in DOMAIN rows)
        BY DEF ProjectForWrite, CanMutate, Is
      <4>2. res = IF access # 200 THEN Refused(access)
                  ELSE Updated(q.on, [rows[q.on] EXCEPT !.archived = (q.op = "archiveProject")])
        BY <3>2 DEF SetState
      <4> HIDE DEF access
      <4> QED BY <4>1, <4>2
    <3> QED BY <2>1, <3>1, <3>2
  <2>3. PICK s, row : \/ res = Refused(s) /\ s \in {403, 404, 409, 422}
                      \/ res = Updated(q.on, row) /\ q.on \in DOMAIN rows
    BY <2>2
  <2> QED BY <2>3 DEF Refused, Updated, Result
<1> QED BY <1>1, <1>2

\* The worker serves call c, which becomes d.
Served(c, d) ==
    /\ c.st = "sent" /\ d.st = "served" /\ DOMAIN d = CallFields
    /\ d.q = c.q /\ d.slot = c.slot /\ d.about = c.about /\ d.cookie = c.cookie
    /\ d.typed = c.typed /\ d.reused = c.reused /\ d.live = c.live
    /\ d.ans.cookie = IF c.cookie = None THEN minted + 1 ELSE None
    /\ c.q.op \in OfProject /\ d.ans.status < 300 =>
         c.q.on \in DOMAIN rows' /\ d.ans.row = rows'[c.q.on]

LEMMA ServeWebIs ==
  ASSUME RowsInv, WebInv, NEW i \in DOMAIN calls, ServeWeb(i)
  PROVE  /\ RowsInv' /\ Follows(rows', "web", Visitor(calls[i].cookie))
         /\ Served(calls[i], calls'[i])
         /\ DOMAIN calls' = DOMAIN calls /\ IsSeq(calls)'
         /\ \A j \in DOMAIN calls : j # i => calls'[j] = calls[j]
         /\ UNCHANGED <<jar, page, webSplit>>
<1> DEFINE c == calls[i]
           q == c.q
           k == c.cookie
           v == Visitor(k)
<1>1. c \in Range(calls) /\ CallOK(c) /\ IsSeq(calls)
  BY DEF WebInv, Range
<1>2. q.op \in Routed /\ q.by = "web" /\ DOMAIN c = CallFields
  BY <1>1 DEF CallOK
<1>3. PICK res \in Results(q, v) :
         /\ Serve(q, k, res)
         /\ calls' = [calls EXCEPT ![i].st = "served", ![i].ans = Answer(q, k, res)]
  BY DEF ServeWeb
<1>4. Keeps(q, v, res)
  BY <1>2, ResultsKeep DEF Routed
<1>5. Follows(res.rows, "web", v)
  BY <1>2, <1>4 DEF Keeps
<1>6. RowsInv' /\ rows' = res.rows
  BY <1>3, <1>5, ServeKeeps DEF Serve
<1>7. UNCHANGED <<jar, page, webSplit>> /\ c.st = "sent"
  BY DEF ServeWeb
<1>8. q.op \in OfProject /\ res.status < 300 => res.id = q.on /\ q.on \in DOMAIN res.rows
  BY ProjectAnswer
<1> DEFINE A == Answer(q, k, res)
<1>9. /\ A.status = res.status /\ A.cookie = IF k = None THEN minted + 1 ELSE None
      /\ A.row = IF res.id \in DOMAIN res.rows THEN res.rows[res.id] ELSE Row
  BY DEF Answer
<1> HIDE DEF A
<1>10. calls' = [calls EXCEPT ![i].st = "served", ![i].ans = A]
  BY <1>3 DEF A
<1>11. /\ DOMAIN calls' = DOMAIN calls
       /\ \A j \in DOMAIN calls : j # i => calls'[j] = calls[j]
       /\ calls'[i] = [c EXCEPT !.st = "served", !.ans = A]
  BY <1>10
<1>12. PICK d : d = [c EXCEPT !.st = "served", !.ans = A]
  OBVIOUS
<1> HIDE DEF q, k, v
<1>13. /\ DOMAIN d = CallFields /\ d.st = "served" /\ d.ans = A
       /\ d.q = c.q /\ d.slot = c.slot /\ d.about = c.about /\ d.cookie = c.cookie
       /\ d.typed = c.typed /\ d.reused = c.reused /\ d.live = c.live
  BY <1>2, <1>12 DEF CallFields
<1>14. Served(c, d)
  BY <1>6, <1>7, <1>8, <1>9, <1>13 DEF Served, q, k
<1>15. Served(calls[i], calls'[i])
  BY <1>11, <1>12, <1>14
<1>16. IsSeq(calls)'
  <2>1. Len(calls) \in Nat /\ DOMAIN calls = 1 .. Len(calls)
    BY <1>1, SeqIs
  <2>2. calls' = [j \in 1 .. Len(calls) |-> calls'[j]]
    BY <1>10, <2>1
  <2>3. DOMAIN calls' = 1 .. Len(calls)
    BY <1>11, <2>1
  <2> QED BY <2>1, <2>2, <2>3, CountedIs
<1> QED BY <1>5, <1>6, <1>7, <1>11, <1>15, <1>16 DEF v, k

LEMMA DeliverIs ==
  ASSUME WebInv, NEW i \in DOMAIN calls, Deliver(i)
  PROVE  LET c == calls[i]
             rest == RemoveAt(calls, i) IN
         /\ c.st = "served" /\ UNCHANGED api
         /\ jar' = IF c.ans.cookie = None THEN jar ELSE c.ans.cookie
         /\ Range(rest) = {calls[j] : j \in DOMAIN calls \ {i}}
         /\ PageOK(page') /\ IsSeq(calls)'
         /\ ~webSplit' => ~webSplit /\ Alone(calls')
         /\ \/ Quiet(c, rest) \/ Filling(c, rest) \/ Failing(c, rest)
            \/ Done(c, rest) \/ Turned(c, rest)
<1>1. PICK c : c = calls[i]
  OBVIOUS
<1>2. PICK rest : rest = RemoveAt(calls, i)
  OBVIOUS
<1>3. c \in Range(calls)
  BY <1>1 DEF Range
<1>4. PageOK(page) /\ IsSeq(calls) /\ CallOK(c) /\ (c.live => LiveOK(c, page.screen))
  BY <1>3 DEF WebInv
<1>5. IsSeq(rest) /\ Range(rest) = {calls[j] : j \in DOMAIN calls \ {i}}
  BY <1>2, <1>4, RemoveIs
<1>6. /\ c.st = "served" /\ UNCHANGED api /\ FlagSplit(FALSE)
      /\ jar' = IF c.ans.cookie = None THEN jar ELSE c.ans.cookie
      /\ IF c.ans.status < 300 \/ c.q.op \in Unchecked
         THEN Hear(c, rest, c.ans) ELSE Miss(c, rest)
  BY <1>1, <1>2 DEF Deliver
<1>7. /\ PageOK(page') /\ IsSeq(calls)'
      /\ \/ Quiet(c, rest) \/ Filling(c, rest) \/ Failing(c, rest)
         \/ Done(c, rest) \/ Turned(c, rest)
  BY <1>4, <1>5, <1>6, HearIs, MissIs
<1>8. ~webSplit' => ~webSplit /\ Alone(calls')
  BY <1>6, <1>7, FlagIs
<1> QED BY <1>1, <1>2, <1>5, <1>6, <1>7, <1>8

LEMMA LoseIs ==
  ASSUME WebInv, NEW i \in DOMAIN calls, Lose(i)
  PROVE  LET c == calls[i]
             rest == RemoveAt(calls, i) IN
         /\ UNCHANGED <<api, jar>>
         /\ Range(rest) = {calls[j] : j \in DOMAIN calls \ {i}}
         /\ PageOK(page') /\ IsSeq(calls)'
         /\ ~webSplit' => ~webSplit /\ c.cookie # None /\ Alone(calls')
         /\ Quiet(c, rest) \/ Failing(c, rest)
<1>1. PICK c : c = calls[i]
  OBVIOUS
<1>2. PICK rest : rest = RemoveAt(calls, i)
  OBVIOUS
<1>3. c \in Range(calls)
  BY <1>1 DEF Range
<1>4. PageOK(page) /\ IsSeq(calls) /\ CallOK(c) /\ (c.live => LiveOK(c, page.screen))
  BY <1>3 DEF WebInv
<1>5. IsSeq(rest) /\ Range(rest) = {calls[j] : j \in DOMAIN calls \ {i}}
  BY <1>2, <1>4, RemoveIs
<1>6. UNCHANGED <<api, jar>> /\ FlagSplit(c.cookie = None) /\ Miss(c, rest)
  BY <1>1, <1>2 DEF Lose
<1>7. PageOK(page') /\ IsSeq(calls)' /\ (Quiet(c, rest) \/ Failing(c, rest))
  BY <1>4, <1>5, <1>6, MissIs
<1>8. ~webSplit' => ~webSplit /\ c.cookie # None /\ Alone(calls')
  BY <1>6, <1>7, FlagIs
<1> QED BY <1>1, <1>2, <1>5, <1>6, <1>7, <1>8

(***************************************************************************)
(* The steps of the browser.                                               *)
(***************************************************************************)

Going ==
    /\ UNCHANGED <<api, jar>> /\ PageOK(page') /\ IsSeq(calls)'
    /\ \E screen, id : \/ screen = page.screen /\ Moved(page, calls, screen, id)
                       \/ screen # page.screen /\ Opened(calls, screen, id)
    /\ ~webSplit' => ~webSplit /\ Alone(calls')

LEMMA WebStepIs ==
  ASSUME WebInv, WebStep
  PROVE  \/ Acted \/ Picked \/ Going \/ OtherTab
         \/ \E i \in DOMAIN calls : ServeWeb(i) \/ Deliver(i) \/ Lose(i)
<1>1. CASE UserStep
  <2>1. CASE Go /\ UNCHANGED rows
    BY <2>1, GoIs DEF Going
  <2>2. CASE (SubmitProject \/ SaveRename \/ ToggleArchive \/ TypeName \/ ConfirmDelete
              \/ RemoveFile \/ Upload) /\ UNCHANGED rows
    BY <2>2, ProjectActs
  <2>3. CASE (Analyze \/ PickInput \/ Submit \/ RemoveArtifact \/ StartNew \/ RenameThread
              \/ SetProject \/ RemoveThread) /\ UNCHANGED rows
    BY <2>3, OtherActs
  <2>4. CASE (Select \/ Filter) /\ UNCHANGED rows
    BY <2>4, PickIs
  <2>5. CASE TypeLine \/ PasteLines
    BY <2>5, LineActs
  <2>6. CASE OtherTab
    BY <2>6
  <2> QED BY <1>1, <2>1, <2>2, <2>3, <2>4, <2>5, <2>6 DEF UserStep
<1>2. CASE \E i \in DOMAIN calls : ServeWeb(i) \/ Deliver(i) \/ Lose(i)
  BY <1>2
<1> QED BY <1>1, <1>2 DEF WebStep

\* A call is in order on a screen.
Fit(c, screen) == CallOK(c) /\ (c.live => LiveOK(c, screen))

LEMMA NewFits ==
  ASSUME NEW c, NEW cookie, NEW screen, New(c, cookie, screen)
  PROVE  Fit(c, screen)
  BY DEF New, Fit

\* A call whose screen is gone.
LEMMA GoneIs ==
  ASSUME NEW c, CallOK(c), NEW d, d = [c EXCEPT !.live = FALSE]
  PROVE  /\ \A screen : Fit(d, screen)
         /\ ~d.live /\ d.q = c.q /\ d.slot = c.slot /\ d.about = c.about
         /\ d.cookie = c.cookie /\ d.typed = c.typed /\ d.reused = c.reused
         /\ d.st = c.st /\ d.ans = c.ans
<1>1. /\ DOMAIN d = CallFields
      /\ ~d.live /\ d.q = c.q /\ d.slot = c.slot /\ d.about = c.about
      /\ d.cookie = c.cookie /\ d.typed = c.typed /\ d.reused = c.reused
      /\ d.st = c.st /\ d.ans = c.ans
  BY DEF CallOK, CallFields
<1>2. CallOK(d)
  BY <1>1 DEF CallOK
<1> QED BY <1>1, <1>2 DEF Fit

LEMMA MovedFits ==
  ASSUME NEW p, NEW rest, NEW screen, NEW id, Moved(p, rest, screen, id),
         \A c \in Range(rest) : Fit(c, screen)
  PROVE  \A c \in Range(calls') : Fit(c, page'.screen)
  BY NewFits DEF Moved, NewLoad

LEMMA OpenedFits ==
  ASSUME NEW rest, NEW screen, NEW id, Opened(rest, screen, id),
         \A c \in Range(rest) : CallOK(c)
  PROVE  \A c \in Range(calls') : Fit(c, page'.screen)
<1>1. page'.screen = screen
  BY FreshIs DEF Opened
<1>2. PICK N : Range(calls') = Left(rest) \cup N /\ \A c \in N : NewLoad(c, screen, jar')
  BY DEF Opened
<1>3. \A c \in N : Fit(c, screen)
  BY <1>2, NewFits DEF NewLoad
<1>4. ASSUME NEW d \in Left(rest) PROVE Fit(d, screen)
  <2>1. PICK c \in Range(rest) : d = [c EXCEPT !.live = FALSE]
    BY <1>4 DEF Left
  <2> QED BY <2>1, GoneIs
<1> QED BY <1>1, <1>2, <1>3, <1>4

LEMMA WebKeeps ==
  ASSUME RowsInv, WebInv, WebStep
  PROVE  WebInv'
<1>0. PageOK(page) /\ IsSeq(calls) /\ \A c \in Range(calls) : Fit(c, page.screen)
  BY DEF WebInv, Fit
<1>1. SUFFICES /\ PageOK(page)' /\ IsSeq(calls)'
               /\ \A c \in Range(calls') : Fit(c, page'.screen)
  BY DEF WebInv, Fit
<1>2. CASE Acted
  <2>1. PICK N : Range(calls') = Range(calls) \cup N /\ \A c \in N : Aside(c)
    BY <1>2 DEF Acted
  <2>2. \A c \in N : Fit(c, page.screen)
    BY <2>1, NewFits DEF Aside
  <2>3. PageOK(page)' /\ page'.screen = page.screen /\ IsSeq(calls)'
    BY <1>2 DEF Acted, SameView
  <2> QED BY <1>0, <2>1, <2>2, <2>3
<1>3. CASE Picked
  <2>1. PICK N : Range(calls') = Range(calls) \cup N /\ \A c \in N : NewLoad(c, page.screen, jar)
    BY <1>3 DEF Picked
  <2>2. \A c \in N : Fit(c, page.screen)
    BY <2>1, NewFits DEF NewLoad
  <2>3. PageOK(page)' /\ page'.screen = page.screen /\ IsSeq(calls)'
    BY <1>3 DEF Picked
  <2> QED BY <1>0, <2>1, <2>2, <2>3
<1>4. CASE Going
  <2>1. PageOK(page)' /\ IsSeq(calls)'
    BY <1>4 DEF Going
  <2>2. PICK screen, id : \/ screen = page.screen /\ Moved(page, calls, screen, id)
                          \/ screen # page.screen /\ Opened(calls, screen, id)
    BY <1>4 DEF Going
  <2>3. \A c \in Range(calls) : CallOK(c)
    BY <1>0 DEF Fit
  <2> QED BY <1>0, <2>1, <2>2, <2>3, MovedFits, OpenedFits
<1>5. CASE OtherTab
  <2>1. UNCHANGED <<page, calls>>
    BY <1>5 DEF OtherTab
  <2> QED BY <1>0, <2>1
<1>6. ASSUME NEW i \in DOMAIN calls, ServeWeb(i)
      PROVE  /\ PageOK(page)' /\ IsSeq(calls)'
             /\ \A c \in Range(calls') : Fit(c, page'.screen)
  <2>1. /\ Served(calls[i], calls'[i]) /\ UNCHANGED page /\ IsSeq(calls)'
        /\ DOMAIN calls' = DOMAIN calls
        /\ \A j \in DOMAIN calls : j # i => calls'[j] = calls[j]
    BY <1>6, ServeWebIs
  <2>2. Fit(calls[i], page.screen)
    BY <1>0, <1>6 DEF Range
  <2>3. Fit(calls'[i], page.screen)
    <3>1. PICK c, d : c = calls[i] /\ d = calls'[i]
      OBVIOUS
    <3>2. Served(c, d) /\ CallOK(c) /\ (c.live => LiveOK(c, page.screen))
      BY <2>1, <2>2, <3>1 DEF Fit
    <3>3. CallOK(d)
      BY <3>2 DEF CallOK, Served
    <3>4. d.live => LiveOK(d, page.screen)
      BY <3>2 DEF LiveOK, Served
    <3> QED BY <3>1, <3>3, <3>4 DEF Fit
  <2>4. \A j \in DOMAIN calls : Fit(calls'[j], page.screen)
    BY <1>0, <2>1, <2>3 DEF Range
  <2> QED BY <1>0, <2>1, <2>4 DEF Range
<1>7. ASSUME NEW c, Fit(c, page.screen), NEW rest, \A d \in Range(rest) : Fit(d, page.screen),
             PageOK(page'),
             \/ Quiet(c, rest) \/ Filling(c, rest) \/ Failing(c, rest)
             \/ Done(c, rest) \/ Turned(c, rest)
      PROVE  \A d \in Range(calls') : Fit(d, page'.screen)
  <2>1. CASE Quiet(c, rest) \/ Failing(c, rest)
    BY <1>7, <2>1 DEF Quiet, Failing, Steady
  <2>2. CASE Filling(c, rest)
    <3>1. PICK N : Range(calls') = Range(rest) \cup N /\ \A d \in N : NewLoad(d, page.screen, jar')
      BY <2>2 DEF Filling
    <3>2. page'.screen = page.screen
      BY <2>2 DEF Filling, Steady
    <3> QED BY <1>7, <3>1, <3>2, NewFits DEF NewLoad
  <2>3. CASE Done(c, rest)
    <3>1. PICK N : Range(calls') = Range(rest) \cup N /\ \A d \in N : NewLoad(d, page.screen, jar')
      BY <2>3 DEF Done
    <3>2. page'.screen = page.screen
      BY <2>3 DEF Done, Steady
    <3> QED BY <1>7, <3>1, <3>2, NewFits DEF NewLoad
  <2>4. CASE Turned(c, rest)
    <3>1. PICK p, more, screen, id, M :
             /\ Range(more) = Range(rest) \cup M
             /\ \A d \in M : NewLoad(d, page.screen, jar')
             /\ \/ screen = page.screen /\ Moved(p, more, screen, id)
                \/ screen # page.screen /\ Opened(more, screen, id)
      BY <2>4 DEF Turned
    <3>2. \A d \in Range(more) : Fit(d, page.screen)
      BY <1>7, <3>1, NewFits DEF NewLoad
    <3>3. \A d \in Range(more) : CallOK(d)
      BY <3>2 DEF Fit
    <3> QED BY <3>1, <3>2, <3>3, MovedFits, OpenedFits
  <2> QED BY <1>7, <2>1, <2>2, <2>3, <2>4
<1>8. ASSUME NEW i \in DOMAIN calls, Deliver(i) \/ Lose(i)
      PROVE  /\ PageOK(page)' /\ IsSeq(calls)'
             /\ \A c \in Range(calls') : Fit(c, page'.screen)
  <2>1. PICK c, rest : c = calls[i] /\ rest = RemoveAt(calls, i)
    OBVIOUS
  <2>2. /\ Range(rest) = {calls[j] : j \in DOMAIN calls \ {i}}
        /\ PageOK(page') /\ IsSeq(calls)'
        /\ \/ Quiet(c, rest) \/ Filling(c, rest) \/ Failing(c, rest)
           \/ Done(c, rest) \/ Turned(c, rest)
    BY <1>8, <2>1, DeliverIs, LoseIs
  <2>3. Fit(c, page.screen) /\ \A d \in Range(rest) : Fit(d, page.screen)
    BY <1>0, <2>1, <2>2 DEF Range
  <2> QED BY <1>7, <2>2, <2>3
<1> QED BY <1>2, <1>3, <1>4, <1>5, <1>6, <1>8, WebStepIs

(***************************************************************************)
(* The rows after a step: those of a client that did not make it are what  *)
(* they were.                                                              *)
(***************************************************************************)

Untouched(who) ==
    \A i \in DOMAIN rows' : rows'[i].by = who =>
       /\ i \in DOMAIN rows /\ rows[i].by = who
       /\ HolderIn(rows', i) = HolderIn(rows, i)

LEMMA HolderIs == \A i : OwnerOf(i) = HolderIn(rows, i)
  BY DEF OwnerOf, HolderIn, Threads

LEMMA FollowsIs ==
  ASSUME NEW b, NEW v, Follows(rows', b, v)
  PROVE  /\ \A who : who # b => Untouched(who)
         /\ \A i \in DOMAIN rows' : rows'[i].by = b =>
              \/ /\ i \in DOMAIN rows /\ rows[i].by = b
                 /\ HolderIn(rows', i) = HolderIn(rows, i)
              \/ HolderIn(rows', i) = v
<1>1. /\ \A i \in DOMAIN rows' \cap DOMAIN rows :
           rows'[i].by = rows[i].by /\ HolderIn(rows', i) = HolderIn(rows, i)
      /\ \A i \in DOMAIN rows' \ DOMAIN rows : rows'[i].by = b /\ HolderIn(rows', i) = v
  BY HolderIs DEF Follows
<1> QED BY <1>1 DEF Untouched

LEMMA SameRows ==
  ASSUME UNCHANGED rows
  PROVE  \A who : Untouched(who)
<1>1. \A i : HolderIn(rows', i) = HolderIn(rows, i)
  OBVIOUS
<1> HIDE DEF HolderIn
<1> QED BY <1>1 DEF Untouched

LEMMA CliStepIs ==
  ASSUME RowsInv, ProcInv, NEW p \in Procs, CliStep(p)
  PROVE  RowsInv' /\ ProcInv' /\ (\A who : who # "cli" => Untouched(who))
<1>1. CASE Local(p) \/ FailCheck(p) \/ Unreachable(p) \/ Receive(p)
  <2>1. UNCHANGED api
    BY <1>1 DEF Local, FailCheck, Unreachable, Receive
  <2>2. RowsInv'
    BY <2>1 DEF RowsInv, WellFormed, api
  <2>3. ProcInv'
    BY <1>1, LocalExits
  <2>4. UNCHANGED rows
    BY <2>1 DEF api
  <2> QED BY <2>2, <2>3, <2>4, SameRows
<1>2. CASE Invoke(p)
  <2>1. UNCHANGED api /\ ProcInv'
    BY <1>2, InvokeIs
  <2>2. RowsInv'
    BY <2>1 DEF RowsInv, WellFormed, api
  <2>3. UNCHANGED rows
    BY <2>1 DEF api
  <2> QED BY <2>1, <2>2, <2>3, SameRows
<1>3. CASE ServeCli(p)
  <2>1. RowsInv' /\ ProcInv' /\ Follows(rows', "cli", Visitor(proc[p].cookie))
    BY <1>3, ServeCliIs
  <2> QED BY <2>1, FollowsIs
<1> QED BY <1>1, <1>2, <1>3 DEF CliStep

LEMMA WebRows ==
  ASSUME RowsInv, WebInv, WebStep
  PROVE  RowsInv' /\ (\A who : who # "web" /\ who # "seed" => Untouched(who))
<1>1. CASE UNCHANGED api
  <2>1. RowsInv' /\ UNCHANGED rows
    BY <1>1 DEF RowsInv, WellFormed, api
  <2> QED BY <2>1, SameRows
<1>2. CASE OtherTab
  BY <1>2, OtherTabIs, FollowsIs
<1>3. CASE \E i \in DOMAIN calls : ServeWeb(i)
  <2>1. PICK i \in DOMAIN calls : ServeWeb(i)
    BY <1>3
  <2>2. RowsInv' /\ Follows(rows', "web", Visitor(calls[i].cookie))
    BY <2>1, ServeWebIs
  <2> QED BY <2>2, FollowsIs
<1>4. CASE Acted \/ Picked \/ Going \/ \E i \in DOMAIN calls : Deliver(i) \/ Lose(i)
  <2>1. UNCHANGED api
    BY <1>4, DeliverIs, LoseIs DEF Acted, Picked, Going, api
  <2> QED BY <1>1, <2>1
<1> QED BY <1>2, <1>3, <1>4, WebStepIs

(***************************************************************************)
(* The clients' invariant, and the exit codes.                             *)
(***************************************************************************)

ClientsInv == RowsInv /\ ProcInv /\ WebInv

LEMMA ClientsInit == Init => ClientsInv
<1> SUFFICES ASSUME Init PROVE ClientsInv
  OBVIOUS
<1>1. RowsInv
  BY InitRows
<1>2. ProcInv
  <2>1. proc = [p \in Procs |-> Unborn]
    BY DEF Init, CliInit
  <2>2. ProcOK(Unborn)
    BY DEF ProcOK, Unborn, ProcFields, Request
  <2> QED BY <2>1, <2>2 DEF ProcInv
<1>3. WebInv
  <2>1. page = Fresh("new tab", None) /\ calls = <<>>
    BY DEF Init, WebInit
  <2>2. IsSeq(calls) /\ Range(calls) = {}
    BY <2>1, TuplesAre
  <2> QED BY <2>1, <2>2, FreshIs DEF WebInv
<1> QED BY <1>1, <1>2, <1>3 DEF ClientsInv

LEMMA ClientsStep == ClientsInv /\ [Next]_vars => ClientsInv'
<1> SUFFICES ASSUME ClientsInv, [Next]_vars PROVE ClientsInv'
  OBVIOUS
<1>0. RowsInv /\ ProcInv /\ WebInv
  BY DEF ClientsInv
<1>1. ASSUME NEW p \in Procs, CliStep(p), UNCHANGED web PROVE ClientsInv'
  <2>1. RowsInv' /\ ProcInv'
    BY <1>0, <1>1, CliStepIs
  <2>2. WebInv'
    <3>1. UNCHANGED <<page, calls>>
      BY <1>1 DEF web
    <3> QED BY <1>0, <3>1 DEF WebInv
  <2> QED BY <2>1, <2>2 DEF ClientsInv
<1>2. CASE WebStep /\ UNCHANGED cli
  <2>1. RowsInv' /\ WebInv'
    BY <1>0, <1>2, WebRows, WebKeeps
  <2>2. UNCHANGED proc
    BY <1>2 DEF cli
  <2>3. ProcInv'
    BY <1>0, <2>2 DEF ProcInv
  <2> QED BY <2>1, <2>3 DEF ClientsInv
<1>3. CASE UNCHANGED vars
  <2>1. UNCHANGED <<rows, made, minted, proc, page, calls>>
    BY <1>3 DEF vars, api, cli, web
  <2>2. RowsInv'
    BY <1>0, <2>1 DEF RowsInv, WellFormed
  <2>3. ProcInv'
    BY <1>0, <2>1 DEF ProcInv
  <2>4. WebInv'
    BY <1>0, <2>1 DEF WebInv
  <2> QED BY <2>2, <2>3, <2>4 DEF ClientsInv
<1> QED BY <1>1, <1>2, <1>3 DEF Next

\* The rows, the processes and the calls are always in order: foreign keys
\* hold, a process knows what its request did, and a screen waits only for
\* calls of its own (store.ts, http.ts, the screens of relay-web).
THEOREM ClientsInOrder == Spec => []ClientsInv
<1>1. Init => ClientsInv
  BY ClientsInit
<1>2. ClientsInv /\ [Next]_vars => ClientsInv'
  BY ClientsStep
<1> QED BY <1>1, <1>2, PTL DEF Spec

\* Exit code 0 of a command that creates or deletes means that it did; 2 to 5
\* mean that no row has changed, but for a turn, which stays in the history of
\* its session (errors.ts, program.ts).
THEOREM ExitCodesTellTheTruth == Spec => []ExitTellsTheTruth
<1>1. ClientsInv => ExitTellsTheTruth
  BY DEF ClientsInv, ProcInv, ProcOK, Tells, ExitTellsTheTruth, OK, USAGE, VALIDATION
<1> QED BY <1>1, ClientsInOrder, PTL

(***************************************************************************)
(* One workspace for each client.                                          *)
(***************************************************************************)

Waits(x) == x.pc \in {"sent", "served"}

\* The rows of the command line have an owner; an answer brings a cookie to a
\* request that had none; and unless the identity could be split, what waits
\* goes by the saved one, or waits alone for the first.
CliIdentity ==
    /\ \A i \in DOMAIN rows : rows[i].by = "cli" => HolderIn(rows, i) # None
    /\ \A p \in Procs : proc[p].pc = "served" =>
                          (proc[p].ans.cookie = None <=> proc[p].cookie # None)
    /\ ~split =>
         /\ \A p \in Procs : Waits(proc[p]) => proc[p].cookie \in {None, saved}
         /\ \A p \in Procs : Waits(proc[p]) /\ proc[p].cookie = None =>
              /\ saved = None
              /\ \A r \in Procs : Waits(proc[r]) /\ proc[r].cookie = None => r = p
         /\ \A i \in DOMAIN rows : rows[i].by = "cli" =>
              \/ HolderIn(rows, i) = saved
              \/ \E p \in Procs : proc[p].pc = "served" /\ proc[p].ans.cookie = HolderIn(rows, i)

\* Rows that no step of the command line touches.
LEMMA CliRowsStay ==
  ASSUME CliIdentity, Untouched("cli"), UNCHANGED cli
  PROVE  CliIdentity'
<1>1. UNCHANGED <<saved, proc, split>>
  BY DEF cli
<1>2. \A i \in DOMAIN rows' : rows'[i].by = "cli" =>
         i \in DOMAIN rows /\ rows[i].by = "cli" /\ HolderIn(rows', i) = HolderIn(rows, i)
  BY DEF Untouched
<1> HIDE DEF HolderIn
<1>3. \A i \in DOMAIN rows' : rows'[i].by = "cli" => HolderIn(rows', i) # None
  BY <1>2 DEF CliIdentity
<1>4. ~split' =>
         /\ \A p \in Procs : Waits(proc'[p]) => proc'[p].cookie \in {None, saved'}
         /\ \A p \in Procs : Waits(proc'[p]) /\ proc'[p].cookie = None =>
              /\ saved' = None
              /\ \A r \in Procs : Waits(proc'[r]) /\ proc'[r].cookie = None => r = p
         /\ \A i \in DOMAIN rows' : rows'[i].by = "cli" =>
              \/ HolderIn(rows', i) = saved'
              \/ \E p \in Procs : proc'[p].pc = "served"
                                  /\ proc'[p].ans.cookie = HolderIn(rows', i)
  BY <1>1, <1>2 DEF CliIdentity
<1>5. \A p \in Procs :
         proc'[p].pc = "served" => (proc'[p].ans.cookie = None <=> proc'[p].cookie # None)
  BY <1>1 DEF CliIdentity
<1> QED BY <1>3, <1>4, <1>5 DEF CliIdentity, HolderIn, Waits

LEMMA CliIdentityStep ==
  ASSUME RowsInv, ProcInv, CliIdentity, NEW p \in Procs, CliStep(p)
  PROVE  CliIdentity'
<1> DEFINE Others == \A r \in Procs : r # p => proc'[r] = proc[r]
           Alike == \A i \in DOMAIN rows' : rows'[i].by = "cli" =>
                       /\ i \in DOMAIN rows /\ rows[i].by = "cli"
                       /\ HolderIn(rows', i) = HolderIn(rows, i)
<1> HIDE DEF HolderIn
<1>0. UNCHANGED rows => Alike
  <2>1. UNCHANGED rows => Untouched("cli")
    BY SameRows
  <2> QED BY <2>1 DEF Untouched
\* A process that has ended waits for nothing.
<1>1. ASSUME proc'[p].pc = "done", Others, Alike,
             ~split' =>
               /\ ~split
               /\ \/ saved' = saved /\ ~(proc[p].pc = "served" /\ proc[p].ans.cookie # None)
                  \/ proc[p].pc = "served" /\ proc[p].ans.cookie # None
                     /\ saved' = proc[p].ans.cookie
      PROVE  CliIdentity'
  <2>1. \A i \in DOMAIN rows' : rows'[i].by = "cli" => HolderIn(rows', i) # None
    BY <1>1 DEF CliIdentity
  <2>2. \A r \in Procs :
           /\ proc'[r].pc = "served" => (proc'[r].ans.cookie = None <=> proc'[r].cookie # None)
           /\ Waits(proc'[r]) => r # p
    BY <1>1 DEF CliIdentity, Waits
  <2>3. ASSUME ~split'
        PROVE  /\ \A r \in Procs : Waits(proc'[r]) => proc'[r].cookie \in {None, saved'}
               /\ \A r \in Procs : Waits(proc'[r]) /\ proc'[r].cookie = None =>
                    /\ saved' = None
                    /\ \A s \in Procs : Waits(proc'[s]) /\ proc'[s].cookie = None => s = r
               /\ \A i \in DOMAIN rows' : rows'[i].by = "cli" =>
                    \/ HolderIn(rows', i) = saved'
                    \/ \E r \in Procs : /\ proc'[r].pc = "served"
                                        /\ proc'[r].ans.cookie = HolderIn(rows', i)
    <3>1. ~split
      BY <1>1, <2>3
    <3>2. CASE saved' = saved /\ ~(proc[p].pc = "served" /\ proc[p].ans.cookie # None)
      <4>1. /\ \A r \in Procs : Waits(proc'[r]) => proc'[r].cookie \in {None, saved'}
            /\ \A r \in Procs : Waits(proc'[r]) /\ proc'[r].cookie = None =>
                 /\ saved' = None
                 /\ \A s \in Procs : Waits(proc'[s]) /\ proc'[s].cookie = None => s = r
        BY <1>1, <2>2, <3>1, <3>2 DEF CliIdentity
      <4>2. ASSUME NEW i \in DOMAIN rows', rows'[i].by = "cli"
            PROVE  \/ HolderIn(rows', i) = saved'
                   \/ \E r \in Procs : /\ proc'[r].pc = "served"
                                       /\ proc'[r].ans.cookie = HolderIn(rows', i)
        <5>1. /\ i \in DOMAIN rows /\ rows[i].by = "cli" /\ HolderIn(rows', i) = HolderIn(rows, i)
              /\ HolderIn(rows, i) # None
          BY <1>1, <4>2 DEF CliIdentity
        <5>2. CASE HolderIn(rows, i) = saved
          BY <3>2, <5>1, <5>2
        <5>3. CASE \E r \in Procs : proc[r].pc = "served" /\ proc[r].ans.cookie = HolderIn(rows, i)
          <6>1. PICK r \in Procs : proc[r].pc = "served" /\ proc[r].ans.cookie = HolderIn(rows, i)
            BY <5>3
          <6>2. r # p
            BY <3>2, <5>1, <6>1
          <6> QED BY <1>1, <5>1, <6>1, <6>2
        <5> QED BY <3>1, <5>1, <5>2, <5>3 DEF CliIdentity
      <4> QED BY <4>1, <4>2
    <3>3. CASE /\ proc[p].pc = "served" /\ proc[p].ans.cookie # None
               /\ saved' = proc[p].ans.cookie
      <4>1. proc[p].cookie = None /\ Waits(proc[p])
        BY <3>3 DEF CliIdentity, Waits
      <4>2. saved = None /\ \A r \in Procs : Waits(proc[r]) /\ proc[r].cookie = None => r = p
        BY <3>1, <4>1 DEF CliIdentity
      <4>3. \A r \in Procs : Waits(proc[r]) => r = p
        BY <3>1, <4>2 DEF CliIdentity
      <4>4. \A r \in Procs : ~Waits(proc'[r])
        BY <1>1, <2>2, <4>3
      <4>5. ASSUME NEW i \in DOMAIN rows', rows'[i].by = "cli" PROVE HolderIn(rows', i) = saved'
        <5>1. /\ i \in DOMAIN rows /\ rows[i].by = "cli" /\ HolderIn(rows', i) = HolderIn(rows, i)
              /\ HolderIn(rows, i) # None
          BY <1>1, <4>5 DEF CliIdentity
        <5>2. PICK r \in Procs : proc[r].pc = "served" /\ proc[r].ans.cookie = HolderIn(rows, i)
          BY <3>1, <4>2, <5>1 DEF CliIdentity
        <5>3. r = p
          BY <4>3, <5>2 DEF Waits
        <5> QED BY <3>3, <5>1, <5>2, <5>3
      <4> QED BY <4>4, <4>5
    <3> QED BY <1>1, <2>3, <3>2, <3>3
  <2> QED BY <1>1, <2>1, <2>2, <2>3 DEF CliIdentity, Waits
<1>2. CASE Local(p) \/ FailCheck(p)
  <2>1. proc'[p].pc = "done" /\ Others
    BY <1>2, LocalExits
  <2>2. UNCHANGED <<api, saved, split>> /\ proc[p].pc = "unborn"
    BY <1>2 DEF Local, FailCheck
  <2>3. UNCHANGED rows
    BY <2>2 DEF api
  <2> QED BY <1>0, <1>1, <2>1, <2>2, <2>3
<1>3. CASE Unreachable(p)
  <2>1. proc'[p].pc = "done" /\ Others
    BY <1>3, LocalExits
  <2>2. UNCHANGED <<api, saved>> /\ split' = (split \/ proc[p].cookie = None)
    BY <1>3 DEF Unreachable
  <2>3. UNCHANGED rows
    BY <2>2 DEF api
  <2>4. ~split' => ~split /\ proc[p].cookie # None
    BY <2>2
  <2>5. ~split' => ~(proc[p].pc = "served" /\ proc[p].ans.cookie # None)
    BY <2>4 DEF CliIdentity
  <2> QED BY <1>0, <1>1, <2>1, <2>2, <2>3, <2>4, <2>5
<1>4. CASE Receive(p)
  <2>1. proc'[p].pc = "done" /\ Others
    BY <1>4, LocalExits
  <2>2. UNCHANGED api /\ proc[p].pc = "served" /\ persistSessionCookie(p)
    BY <1>4 DEF Receive
  <2>3. UNCHANGED rows
    BY <2>2 DEF api
  <2>4. IF proc[p].ans.cookie = None THEN UNCHANGED <<saved, split>>
        ELSE \/ saved' = proc[p].ans.cookie /\ UNCHANGED split
             \/ split' = TRUE /\ UNCHANGED saved
    BY <2>2 DEF persistSessionCookie
  <2>6. ~split' =>
          /\ ~split
          /\ \/ saved' = saved /\ ~(proc[p].pc = "served" /\ proc[p].ans.cookie # None)
             \/ proc[p].pc = "served" /\ proc[p].ans.cookie # None
                /\ saved' = proc[p].ans.cookie
    BY <2>2, <2>4
  <2> QED BY <1>0, <1>1, <2>1, <2>3, <2>6
<1>5. CASE Invoke(p)
  <2>1. /\ proc[p].pc = "unborn" /\ proc'[p].pc = "sent" /\ proc'[p].cookie = saved
        /\ split' = (split \/ /\ saved = None
                              /\ \E r \in Procs : Waiting(r) /\ proc[r].cookie = None)
        /\ UNCHANGED <<api, saved>> /\ Others
    BY <1>5, InvokeIs
  <2>2. Alike
    BY <1>0, <2>1 DEF api
  <2>3. ~split' => ~split /\ (saved = None => \A r \in Procs : Waits(proc[r]) => proc[r].cookie # None)
    BY <2>1 DEF Waiting, Waits
  <2>4. \A i \in DOMAIN rows' : rows'[i].by = "cli" => HolderIn(rows', i) # None
    BY <2>2 DEF CliIdentity
  <2>5. \A r \in Procs :
           proc'[r].pc = "served" => (proc'[r].ans.cookie = None <=> proc'[r].cookie # None)
    BY <2>1 DEF CliIdentity
  <2>6. ASSUME ~split'
        PROVE  /\ \A r \in Procs : Waits(proc'[r]) => proc'[r].cookie \in {None, saved'}
               /\ \A r \in Procs : Waits(proc'[r]) /\ proc'[r].cookie = None =>
                    /\ saved' = None
                    /\ \A s \in Procs : Waits(proc'[s]) /\ proc'[s].cookie = None => s = r
    <3>1. \A r \in Procs : r # p => proc'[r] = proc[r]
      BY <2>1
    <3>2. \A r \in Procs : Waits(proc[r]) => proc[r].cookie \in {None, saved}
      BY <2>3, <2>6 DEF CliIdentity
    <3>3. \A r \in Procs : Waits(proc[r]) /\ proc[r].cookie = None =>
            /\ saved = None
            /\ \A s \in Procs : Waits(proc[s]) /\ proc[s].cookie = None => s = r
      BY <2>3, <2>6 DEF CliIdentity
    <3>4. \A r \in Procs : r # p /\ Waits(proc'[r]) => proc'[r].cookie # None
      BY <2>3, <2>6, <3>1, <3>3
    <3> QED BY <2>1, <3>1, <3>2, <3>4
  <2>7. ASSUME ~split', NEW i \in DOMAIN rows', rows'[i].by = "cli"
        PROVE  \/ HolderIn(rows', i) = saved'
               \/ \E r \in Procs : /\ proc'[r].pc = "served"
                                   /\ proc'[r].ans.cookie = HolderIn(rows', i)
    <3>1. i \in DOMAIN rows /\ rows[i].by = "cli" /\ HolderIn(rows', i) = HolderIn(rows, i)
      BY <2>2, <2>7
    <3>2. \/ HolderIn(rows, i) = saved
          \/ \E r \in Procs : proc[r].pc = "served" /\ proc[r].ans.cookie = HolderIn(rows, i)
      BY <2>3, <2>7, <3>1 DEF CliIdentity
    <3> QED BY <2>1, <3>1, <3>2
  <2> QED BY <2>4, <2>5, <2>6, <2>7 DEF CliIdentity
<1>6. CASE ServeCli(p)
  <2>1. /\ Follows(rows', "cli", Visitor(proc[p].cookie))
        /\ proc[p].pc = "sent" /\ proc'[p].pc = "served"
        /\ proc'[p].cookie = proc[p].cookie
        /\ proc'[p].ans.cookie = IF proc[p].cookie = None THEN minted + 1 ELSE None
        /\ UNCHANGED <<saved, split>> /\ Others
    BY <1>6, ServeCliIs
  <2> DEFINE v == Visitor(proc[p].cookie)
  <2>2. /\ v # None
        /\ v = IF proc[p].cookie = None THEN proc'[p].ans.cookie ELSE proc[p].cookie
        /\ proc'[p].ans.cookie = None <=> proc[p].cookie # None
    <3>1. minted + 1 # None
      BY DEF RowsInv, None
    <3> QED BY <2>1, <3>1 DEF Visitor
  <2>3. \A i \in DOMAIN rows' : rows'[i].by = "cli" =>
           \/ /\ i \in DOMAIN rows /\ rows[i].by = "cli"
              /\ HolderIn(rows', i) = HolderIn(rows, i)
           \/ HolderIn(rows', i) = v
    BY <2>1, FollowsIs
  <2> HIDE DEF v
  <2>4. \A i \in DOMAIN rows' : rows'[i].by = "cli" => HolderIn(rows', i) # None
    BY <2>2, <2>3 DEF CliIdentity
  <2>5. \A r \in Procs :
           proc'[r].pc = "served" => (proc'[r].ans.cookie = None <=> proc'[r].cookie # None)
    BY <2>1, <2>2 DEF CliIdentity
  <2>6. ASSUME ~split'
        PROVE  /\ \A r \in Procs : Waits(proc'[r]) => proc'[r].cookie \in {None, saved'}
               /\ \A r \in Procs : Waits(proc'[r]) /\ proc'[r].cookie = None =>
                    /\ saved' = None
                    /\ \A s \in Procs : Waits(proc'[s]) /\ proc'[s].cookie = None => s = r
    <3>1. \A r \in Procs : proc'[r].cookie = proc[r].cookie /\ (Waits(proc'[r]) <=> Waits(proc[r]))
      BY <2>1 DEF Waits
    <3>2. ~split /\ saved' = saved
      BY <2>1, <2>6
    <3> QED BY <3>1, <3>2 DEF CliIdentity
  <2>7. ASSUME ~split', NEW i \in DOMAIN rows', rows'[i].by = "cli"
        PROVE  \/ HolderIn(rows', i) = saved'
               \/ \E r \in Procs : /\ proc'[r].pc = "served"
                                   /\ proc'[r].ans.cookie = HolderIn(rows', i)
    <3>0. ~split /\ saved' = saved
      BY <2>1, <2>7
    <3>1. CASE /\ i \in DOMAIN rows /\ rows[i].by = "cli"
               /\ HolderIn(rows', i) = HolderIn(rows, i)
      <4>1. \/ HolderIn(rows, i) = saved
            \/ \E r \in Procs : proc[r].pc = "served" /\ proc[r].ans.cookie = HolderIn(rows, i)
        BY <3>0, <3>1 DEF CliIdentity
      <4> QED BY <2>1, <3>0, <3>1, <4>1
    <3>2. CASE HolderIn(rows', i) = v
      <4>1. CASE proc[p].cookie = None
        BY <2>1, <2>2, <3>2, <4>1
      <4>2. CASE proc[p].cookie # None
        <5>1. proc[p].cookie = saved
          BY <2>1, <3>0, <4>2 DEF CliIdentity, Waits
        <5> QED BY <2>2, <3>0, <3>2, <4>2, <5>1
      <4> QED BY <4>1, <4>2
    <3> QED BY <2>3, <2>7, <3>1, <3>2
  <2> QED BY <2>4, <2>5, <2>6, <2>7 DEF CliIdentity
<1> QED BY <1>2, <1>3, <1>4, <1>5, <1>6 DEF CliStep

(***************************************************************************)
(* What becomes of the calls: a call stays what it is, whether its screen  *)
(* is still there or not, and the rest are new loads.                      *)
(***************************************************************************)

Like(d, e) ==
    /\ d.st = e.st /\ d.ans = e.ans /\ d.cookie = e.cookie /\ d.q = e.q
    /\ d.slot = e.slot /\ d.typed = e.typed /\ d.reused = e.reused

From(R) ==
    /\ \A d \in Range(calls') : \/ \E e \in R : Like(d, e)
                                \/ d.st = "sent" /\ d.cookie = jar' /\ d.slot \in Slots
    /\ \A e \in R : e.cookie = None => \E d \in Range(calls') : Like(d, e)

LEMMA LikeIs == \A d : Like(d, d)
  BY DEF Like

LEMMA MovedFrom ==
  ASSUME NEW p, NEW rest, NEW screen, NEW id, Moved(p, rest, screen, id)
  PROVE  From(Range(rest))
<1>1. PICK N : Range(calls') = Range(rest) \cup N /\ \A c \in N : NewLoad(c, screen, jar')
  BY DEF Moved
<1> QED BY <1>1, LikeIs DEF From, NewLoad, New

LEMMA OpenedFrom ==
  ASSUME NEW rest, NEW screen, NEW id, Opened(rest, screen, id), \A c \in Range(rest) : CallOK(c)
  PROVE  From(Range(rest))
<1>1. PICK N : Range(calls') = Left(rest) \cup N /\ \A c \in N : NewLoad(c, screen, jar')
  BY DEF Opened
<1>2. ASSUME NEW e \in Range(rest) PROVE Like([e EXCEPT !.live = FALSE], e)
  <2>1. PICK d : d = [e EXCEPT !.live = FALSE]
    OBVIOUS
  <2>2. Like(d, e)
    BY <2>1, GoneIs DEF Like
  <2> QED BY <2>1, <2>2
<1>3. \A d \in Left(rest) : \E e \in Range(rest) : Like(d, e)
  BY <1>2 DEF Left
<1>4. ASSUME NEW e \in Range(rest), e.cookie = None PROVE \E d \in Left(rest) : Like(d, e)
  BY <1>2, <1>4 DEF Left
<1> QED BY <1>1, <1>3, <1>4 DEF From, NewLoad, New

LEMMA HeardFrom ==
  ASSUME NEW c, NEW rest, \A d \in Range(rest) : CallOK(d),
         \/ Quiet(c, rest) \/ Filling(c, rest) \/ Failing(c, rest)
         \/ Done(c, rest) \/ Turned(c, rest)
  PROVE  From(Range(rest))
<1>1. CASE Quiet(c, rest) \/ Failing(c, rest)
  BY <1>1, LikeIs DEF Quiet, Failing, From
<1>2. CASE Filling(c, rest) \/ Done(c, rest)
  <2>1. PICK N : Range(calls') = Range(rest) \cup N /\ \A d \in N : NewLoad(d, page.screen, jar')
    BY <1>2 DEF Filling, Done
  <2> QED BY <2>1, LikeIs DEF From, NewLoad, New
<1>3. CASE Turned(c, rest)
  <2>1. PICK p, more, screen, id, M :
           /\ Range(more) = Range(rest) \cup M
           /\ \A d \in M : NewLoad(d, page.screen, jar')
           /\ \/ screen = page.screen /\ Moved(p, more, screen, id)
              \/ screen # page.screen /\ Opened(more, screen, id)
    BY <1>3 DEF Turned
  <2>2. \A d \in Range(more) : CallOK(d)
    BY <2>1 DEF NewLoad, New
  <2>3. CASE Moved(p, more, screen, id)
    <3>1. PICK N : Range(calls') = Range(more) \cup N /\ \A d \in N : NewLoad(d, screen, jar')
      BY <2>3 DEF Moved
    <3> QED BY <2>1, <3>1, LikeIs DEF From, NewLoad, New
  <2>4. CASE Opened(more, screen, id)
    <3>1. PICK N : Range(calls') = Left(more) \cup N /\ \A d \in N : NewLoad(d, screen, jar')
      BY <2>4 DEF Opened
    <3>2. ASSUME NEW e \in Range(more)
          PROVE  /\ Like([e EXCEPT !.live = FALSE], e)
                 /\ [e EXCEPT !.live = FALSE].cookie = e.cookie
      <4>1. PICK d : d = [e EXCEPT !.live = FALSE]
        OBVIOUS
      <4>2. Like(d, e) /\ d.cookie = e.cookie
        BY <2>2, <4>1, GoneIs DEF Like
      <4> QED BY <4>1, <4>2
    <3>3. ASSUME NEW d \in Left(more)
          PROVE  (\E e \in Range(rest) : Like(d, e)) \/ (d.st = "sent" /\ d.cookie = jar' /\ d.slot \in Slots)
      <4>1. PICK e \in Range(more) : d = [e EXCEPT !.live = FALSE]
        BY <3>3 DEF Left
      <4>2. Like(d, e)
        BY <3>2, <4>1
      <4>3. CASE e \in Range(rest)
        BY <4>2, <4>3
      <4>4. CASE e \in M
        BY <2>1, <4>2, <4>4 DEF Like, NewLoad, New
      <4> QED BY <2>1, <4>1, <4>3, <4>4
    <3>4. ASSUME NEW d \in Range(calls')
          PROVE  (\E e \in Range(rest) : Like(d, e)) \/ (d.st = "sent" /\ d.cookie = jar' /\ d.slot \in Slots)
      BY <3>1, <3>3 DEF NewLoad, New
    <3>5. ASSUME NEW e \in Range(rest), e.cookie = None
          PROVE  \E d \in Range(calls') : Like(d, e)
      <4>1. e \in Range(more)
        BY <2>1
      <4>2. PICK d : d = [e EXCEPT !.live = FALSE]
        OBVIOUS
      <4>3. d \in Left(more)
        BY <3>5, <4>1, <4>2 DEF Left
      <4>4. Like(d, e)
        BY <3>2, <4>1, <4>2
      <4> QED BY <3>1, <4>3, <4>4
    <3> QED BY <3>4, <3>5 DEF From
  <2> QED BY <2>1, <2>3, <2>4
<1> QED BY <1>1, <1>2, <1>3

\* As of the command line: the rows of the browser have an owner; an answer
\* brings a cookie to a call that had none; and unless the identity could be
\* split, calls go by the cookie in the jar, or one alone for the first.
Theirs(jarred, cs, holder) ==
    holder = jarred \/ \E c \in Range(cs) : c.st = "served" /\ c.ans.cookie = holder

WebIdentity ==
    /\ \A i \in DOMAIN rows : rows[i].by = "web" => HolderIn(rows, i) # None
    /\ \A c \in Range(calls) : c.st = "served" => (c.ans.cookie = None <=> c.cookie # None)
    /\ ~webSplit =>
         /\ Alone(calls)
         /\ \A c \in Range(calls) : c.cookie \in {None, jar} /\ (c.cookie = None => jar = None)
         /\ \A i \in DOMAIN rows : rows[i].by = "web" => Theirs(jar, calls, HolderIn(rows, i))

\* A step that changes neither the rows of the browser nor its jar, and does
\* away with no answer that brings a cookie.
LEMMA WebIdentityStays ==
  ASSUME WebIdentity, Untouched("web"), jar' = jar,
         NEW R, R \subseteq Range(calls),
         \A d \in Range(calls') : \/ \E e \in R : Like(d, e)
                                  \/ d.st = "sent" /\ d.cookie = jar',
         \A e \in R : e.cookie = None => \E d \in Range(calls') : Like(d, e),
         ~webSplit' => /\ ~webSplit /\ (Alone(calls) => Alone(calls'))
                       /\ \A c \in Range(calls) \ R : c.st = "served" => c.ans.cookie = None
  PROVE  WebIdentity'
<1>1. \A i \in DOMAIN rows' : rows'[i].by = "web" =>
         i \in DOMAIN rows /\ rows[i].by = "web" /\ HolderIn(rows', i) = HolderIn(rows, i)
  BY DEF Untouched
<1> HIDE DEF HolderIn, Alone
<1>2. \A i \in DOMAIN rows' : rows'[i].by = "web" => HolderIn(rows', i) # None
  BY <1>1 DEF WebIdentity
<1>3. \A c \in Range(calls') : c.st = "served" => (c.ans.cookie = None <=> c.cookie # None)
  BY DEF WebIdentity, Like
<1>4. ASSUME ~webSplit'
      PROVE  /\ Alone(calls')
             /\ \A c \in Range(calls') : c.cookie \in {None, jar'} /\ (c.cookie = None => jar' = None)
  <2>1. ~webSplit /\ Alone(calls')
    BY <1>4 DEF WebIdentity
  <2>2. \A c \in R : c.cookie \in {None, jar} /\ (c.cookie = None => jar = None)
    BY <2>1 DEF WebIdentity
  <2> QED BY <2>1, <2>2 DEF Like
<1>5. ASSUME ~webSplit', NEW i \in DOMAIN rows', rows'[i].by = "web"
      PROVE  Theirs(jar', calls', HolderIn(rows', i))
  <2>1. /\ i \in DOMAIN rows /\ rows[i].by = "web" /\ HolderIn(rows', i) = HolderIn(rows, i)
        /\ HolderIn(rows, i) # None
    BY <1>1, <1>5 DEF WebIdentity
  <2>2. Theirs(jar, calls, HolderIn(rows, i))
    BY <1>5, <2>1 DEF WebIdentity
  <2>3. CASE HolderIn(rows, i) = jar
    BY <2>1, <2>3 DEF Theirs
  <2>4. CASE \E c \in Range(calls) : c.st = "served" /\ c.ans.cookie = HolderIn(rows, i)
    <3>1. PICK c \in Range(calls) : c.st = "served" /\ c.ans.cookie = HolderIn(rows, i)
      BY <2>4
    <3>2. c \in R /\ c.cookie = None
      BY <1>5, <2>1, <3>1 DEF WebIdentity
    <3>3. PICK d \in Range(calls') : Like(d, c)
      BY <3>2
    <3>4. d.st = "served" /\ d.ans.cookie = HolderIn(rows', i)
      BY <2>1, <3>1, <3>3 DEF Like
    <3> QED BY <3>4 DEF Theirs
  <2> QED BY <2>2, <2>3, <2>4 DEF Theirs
<1>6. \A i \in DOMAIN rows' : rows'[i].by = "web" /\ ~webSplit' =>
         Theirs(jar', calls', HolderIn(rows', i))
  BY <1>5
<1> QED BY <1>2, <1>3, <1>4, <1>6 DEF WebIdentity, HolderIn, Alone

\* The jar gets the cookie of an answer.
LEMMA FirstCookie ==
  ASSUME WebInv, WebIdentity, NEW i \in DOMAIN calls, Deliver(i), calls[i].ans.cookie # None
  PROVE  WebIdentity'
<1>1. PICK c : c = calls[i]
  OBVIOUS
<1>2. PICK rest : rest = RemoveAt(calls, i)
  OBVIOUS
<1>3. /\ c.st = "served" /\ UNCHANGED api /\ jar' = c.ans.cookie
      /\ Range(rest) = {calls[j] : j \in DOMAIN calls \ {i}}
      /\ ~webSplit' => ~webSplit /\ Alone(calls')
      /\ \/ Quiet(c, rest) \/ Filling(c, rest) \/ Failing(c, rest)
         \/ Done(c, rest) \/ Turned(c, rest)
  BY <1>1, <1>2, DeliverIs
<1>4. c \in Range(calls) /\ Range(rest) \subseteq Range(calls)
  BY <1>1, <1>3 DEF Range
<1>5. \A d \in Range(rest) : CallOK(d)
  BY <1>4 DEF WebInv
<1>6. From(Range(rest))
  BY <1>3, <1>5, HeardFrom
<1>7. c.cookie = None /\ c.ans.cookie # None /\ UNCHANGED rows
  BY <1>1, <1>3, <1>4 DEF WebIdentity, api
<1> HIDE DEF HolderIn, Alone
<1>8. \A d \in Range(calls') : d.st = "served" => (d.ans.cookie = None <=> d.cookie # None)
  <2>1. \A e \in Range(rest) : e.st = "served" => (e.ans.cookie = None <=> e.cookie # None)
    BY <1>4 DEF WebIdentity
  <2> QED BY <1>6, <2>1 DEF From, Like
<1>9. ~webSplit' => Range(rest) = {} /\ jar = None
  <2> SUFFICES ASSUME ~webSplit' PROVE Range(rest) = {} /\ jar = None
    OBVIOUS
  <2>1. ~webSplit
    BY <1>3
  <2>2. jar = None
    BY <1>4, <1>7, <2>1 DEF WebIdentity
  <2>3. \A j \in DOMAIN calls : calls[j].cookie = None
    BY <2>1, <2>2 DEF WebIdentity, Range
  <2>4. \A j \in DOMAIN calls : j = i
    BY <2>1, <2>3 DEF WebIdentity, Alone
  <2> QED BY <1>3, <2>2, <2>4
<1>10. ~webSplit' => \A d \in Range(calls') : d.cookie = jar'
  BY <1>6, <1>9 DEF From
<1>11. \A j \in DOMAIN rows' : rows'[j].by = "web" => HolderIn(rows', j) # None
  BY <1>7 DEF WebIdentity
<1>12. ASSUME ~webSplit', NEW j \in DOMAIN rows', rows'[j].by = "web"
       PROVE  HolderIn(rows', j) = jar'
  <2>1. ~webSplit /\ jar = None /\ \A d \in Range(calls) : d = c
    BY <1>1, <1>3, <1>9, <1>12 DEF Range
  <2>2. Theirs(jar, calls, HolderIn(rows', j)) /\ HolderIn(rows', j) # None
    BY <1>7, <1>12, <2>1 DEF WebIdentity
  <2> QED BY <1>3, <2>1, <2>2 DEF Theirs
<1>13. ~webSplit' =>
         /\ Alone(calls')
         /\ \A d \in Range(calls') : d.cookie \in {None, jar'} /\ (d.cookie = None => jar' = None)
         /\ \A j \in DOMAIN rows' : rows'[j].by = "web" => Theirs(jar', calls', HolderIn(rows', j))
  BY <1>3, <1>10, <1>12 DEF Theirs
<1> QED BY <1>8, <1>11, <1>13 DEF WebIdentity, HolderIn, Alone

\* The worker serves a call.
LEMMA ServeIdentity ==
  ASSUME RowsInv, WebInv, WebIdentity, NEW i \in DOMAIN calls, ServeWeb(i)
  PROVE  WebIdentity'
<1>1. PICK c : c = calls[i]
  OBVIOUS
<1>2. PICK d : d = calls'[i]
  OBVIOUS
<1>3. /\ Follows(rows', "web", Visitor(c.cookie)) /\ Served(c, d)
      /\ DOMAIN calls' = DOMAIN calls /\ UNCHANGED <<jar, webSplit>>
      /\ \A j \in DOMAIN calls : j # i => calls'[j] = calls[j]
  BY <1>1, <1>2, ServeWebIs
<1>4. /\ c.st = "sent" /\ d.st = "served" /\ d.cookie = c.cookie
      /\ d.ans.cookie = IF c.cookie = None THEN minted + 1 ELSE None
  BY <1>3 DEF Served
<1>5. PICK v : v = Visitor(c.cookie)
  OBVIOUS
<1>6. /\ v # None /\ v = IF c.cookie = None THEN d.ans.cookie ELSE c.cookie
      /\ d.ans.cookie = None <=> d.cookie # None
  <2>1. minted + 1 # None
    BY DEF RowsInv, None
  <2> QED BY <1>4, <1>5, <2>1 DEF Visitor
<1>7. \A k \in DOMAIN rows' : rows'[k].by = "web" =>
        \/ k \in DOMAIN rows /\ rows[k].by = "web" /\ HolderIn(rows', k) = HolderIn(rows, k)
        \/ HolderIn(rows', k) = v
  <2>1. Follows(rows', "web", v)
    BY <1>3, <1>5
  <2> QED BY <2>1, FollowsIs
<1>8. c \in Range(calls) /\ d \in Range(calls')
  BY <1>1, <1>2, <1>3 DEF Range
<1>9. \A e \in Range(calls') : e = d \/ e \in Range(calls)
  BY <1>2, <1>3 DEF Range
<1> HIDE DEF HolderIn
<1>10. \A k \in DOMAIN rows' : rows'[k].by = "web" => HolderIn(rows', k) # None
  BY <1>6, <1>7 DEF WebIdentity
<1>11. \A e \in Range(calls') : e.st = "served" => (e.ans.cookie = None <=> e.cookie # None)
  BY <1>6, <1>9 DEF WebIdentity
<1>12. ASSUME ~webSplit'
       PROVE  /\ Alone(calls')
              /\ \A e \in Range(calls') : e.cookie \in {None, jar'} /\ (e.cookie = None => jar' = None)
  <2>1. ~webSplit /\ jar' = jar
    BY <1>3, <1>12
  <2>2. \A j \in DOMAIN calls : calls'[j].cookie = calls[j].cookie
    BY <1>1, <1>2, <1>3, <1>4
  <2>3. Alone(calls')
    BY <1>3, <2>1, <2>2 DEF WebIdentity, Alone
  <2>4. \A e \in Range(calls) : e.cookie \in {None, jar} /\ (e.cookie = None => jar = None)
    BY <2>1 DEF WebIdentity
  <2> QED BY <1>4, <1>8, <1>9, <2>1, <2>3, <2>4
<1>13. ASSUME ~webSplit', NEW k \in DOMAIN rows', rows'[k].by = "web"
       PROVE  Theirs(jar', calls', HolderIn(rows', k))
  <2>1. ~webSplit /\ jar' = jar
    BY <1>3, <1>13
  <2>2. CASE k \in DOMAIN rows /\ rows[k].by = "web" /\ HolderIn(rows', k) = HolderIn(rows, k)
    <3>1. Theirs(jar, calls, HolderIn(rows', k))
      BY <2>1, <2>2 DEF WebIdentity
    <3>2. ASSUME NEW e \in Range(calls), e.st = "served" PROVE e \in Range(calls')
      <4>1. PICK j \in DOMAIN calls : e = calls[j]
        BY DEF Range
      <4>2. j # i
        BY <1>1, <1>4, <3>2, <4>1
      <4> QED BY <1>3, <4>1, <4>2 DEF Range
    <3> QED BY <2>1, <3>1, <3>2 DEF Theirs
  <2>3. CASE HolderIn(rows', k) = v
    <3>1. c.cookie \in {None, jar}
      BY <1>8, <2>1 DEF WebIdentity
    <3> QED BY <1>4, <1>6, <1>8, <2>1, <2>3, <3>1 DEF Theirs
  <2> QED BY <1>7, <1>13, <2>2, <2>3
<1>14. \A k \in DOMAIN rows' : rows'[k].by = "web" /\ ~webSplit' =>
         Theirs(jar', calls', HolderIn(rows', k))
  BY <1>13
<1> QED BY <1>10, <1>11, <1>12, <1>14 DEF WebIdentity, HolderIn, Alone

LEMMA FromStays ==
  ASSUME WebIdentity, Untouched("web"), jar' = jar, NEW R, R \subseteq Range(calls), From(R),
         ~webSplit' => /\ ~webSplit /\ (Alone(calls) => Alone(calls'))
                       /\ \A c \in Range(calls) \ R : c.st = "served" => c.ans.cookie = None
  PROVE  WebIdentity'
<1>1. /\ \A d \in Range(calls') : \/ \E e \in R : Like(d, e)
                                  \/ d.st = "sent" /\ d.cookie = jar'
      /\ \A e \in R : e.cookie = None => \E d \in Range(calls') : Like(d, e)
  BY DEF From
<1> QED BY <1>1, WebIdentityStays

\* Rows that no step of the browser touches.
LEMMA WebRowsStay ==
  ASSUME WebIdentity, Untouched("web"), UNCHANGED <<jar, calls, webSplit>>
  PROVE  WebIdentity'
<1>1. /\ \A d \in Range(calls') : \E e \in Range(calls) : Like(d, e)
      /\ \A e \in Range(calls) : \E d \in Range(calls') : Like(d, e)
  BY LikeIs
<1>2. Alone(calls) => Alone(calls')
  OBVIOUS
<1> HIDE DEF Alone, WebIdentity
<1> QED BY <1>1, <1>2, WebIdentityStays

LEMMA WebIdentityStep ==
  ASSUME RowsInv, WebInv, WebIdentity, WebStep
  PROVE  WebIdentity'
<1>0. UNCHANGED api => Untouched("web")
  BY SameRows DEF api
<1>1. CASE Acted \/ Picked
  <2>1. PICK N : /\ Range(calls') = Range(calls) \cup N
                 /\ \A c \in N : c.st = "sent" /\ c.cookie = jar
    BY <1>1 DEF Acted, Aside, Picked, NewLoad, New
  <2>2. /\ \A d \in Range(calls') : \/ \E e \in Range(calls) : Like(d, e)
                                    \/ d.st = "sent" /\ d.cookie = jar
        /\ \A e \in Range(calls) : e.cookie = None => \E d \in Range(calls') : Like(d, e)
    BY <2>1, LikeIs
  <2>3. /\ UNCHANGED <<api, jar>>
        /\ ~webSplit' => ~webSplit /\ (Alone(calls) => Alone(calls'))
    BY <1>1 DEF Acted, Picked
  <2> HIDE DEF Alone, Like, WebIdentity, Untouched
  <2> QED BY <1>0, <2>2, <2>3, WebIdentityStays
<1>2. CASE Going
  <2>1. PICK screen, id : \/ screen = page.screen /\ Moved(page, calls, screen, id)
                          \/ screen # page.screen /\ Opened(calls, screen, id)
    BY <1>2 DEF Going
  <2>2. From(Range(calls))
    BY <2>1, MovedFrom, OpenedFrom DEF WebInv
  <2>3. UNCHANGED <<api, jar>> /\ (~webSplit' => ~webSplit /\ Alone(calls'))
    BY <1>2 DEF Going
  <2> QED BY <1>0, <2>2, <2>3, FromStays
<1>3. CASE OtherTab
  <2>1. Untouched("web")
    BY <1>3, OtherTabIs, FollowsIs
  <2>2. UNCHANGED <<jar, calls, webSplit>>
    BY <1>3, OtherTabIs
  <2> QED BY <2>1, <2>2, WebRowsStay
<1>4. ASSUME NEW i \in DOMAIN calls, Deliver(i) PROVE WebIdentity'
  <2>1. CASE calls[i].ans.cookie # None
    BY <1>4, <2>1, FirstCookie
  <2>2. CASE calls[i].ans.cookie = None
    <3>1. PICK c, rest : c = calls[i] /\ rest = RemoveAt(calls, i)
      OBVIOUS
    <3>2. /\ UNCHANGED <<api, jar>>
          /\ Range(rest) = {calls[j] : j \in DOMAIN calls \ {i}}
          /\ ~webSplit' => ~webSplit /\ Alone(calls')
          /\ \/ Quiet(c, rest) \/ Filling(c, rest) \/ Failing(c, rest)
             \/ Done(c, rest) \/ Turned(c, rest)
      BY <1>4, <2>2, <3>1, DeliverIs
    <3>3. Range(rest) \subseteq Range(calls) /\ Range(calls) \subseteq Range(rest) \cup {c}
      BY <3>1, <3>2 DEF Range
    <3>4. From(Range(rest))
      <4>1. \A d \in Range(rest) : CallOK(d)
        BY <3>3 DEF WebInv
      <4> QED BY <3>2, <4>1, HeardFrom
    <3>5. \A d \in Range(calls) \ Range(rest) : d.ans.cookie = None
      BY <2>2, <3>1, <3>3
    <3> QED BY <1>0, <3>2, <3>3, <3>4, <3>5, FromStays
  <2> QED BY <2>1, <2>2
<1>5. ASSUME NEW i \in DOMAIN calls, Lose(i) PROVE WebIdentity'
  <2>1. PICK c, rest : c = calls[i] /\ rest = RemoveAt(calls, i)
    OBVIOUS
  <2>2. /\ UNCHANGED <<api, jar>>
        /\ Range(rest) = {calls[j] : j \in DOMAIN calls \ {i}}
        /\ ~webSplit' => ~webSplit /\ c.cookie # None /\ Alone(calls')
        /\ Quiet(c, rest) \/ Failing(c, rest)
    BY <1>5, <2>1, LoseIs
  <2>3. Range(rest) \subseteq Range(calls) /\ Range(calls) \subseteq Range(rest) \cup {c}
    BY <2>1, <2>2 DEF Range
  <2>4. From(Range(rest))
    <3>1. \A d \in Range(rest) : CallOK(d)
      BY <2>3 DEF WebInv
    <3> QED BY <2>2, <3>1, HeardFrom
  <2>5. ~webSplit' => \A d \in Range(calls) \ Range(rest) : d.st = "served" => d.ans.cookie = None
    BY <2>2, <2>3 DEF WebIdentity
  <2> QED BY <1>0, <2>2, <2>3, <2>4, <2>5, FromStays
<1> QED BY <1>1, <1>2, <1>3, <1>4, <1>5, WebStepIs, ServeIdentity

Identities == ClientsInv /\ CliIdentity /\ WebIdentity

LEMMA IdentitiesInit == Init => Identities
<1> SUFFICES ASSUME Init PROVE Identities
  OBVIOUS
<1>1. \A i \in DOMAIN rows : rows[i].by = "seed"
  BY RowsAssumption DEF Init
<1>2. calls = <<>> /\ proc = [p \in Procs |-> Unborn]
  BY DEF Init, CliInit, WebInit
<1>3. CliIdentity
  <2>1. Unborn.pc = "unborn"
    BY DEF Unborn
  <2>2. \A p \in Procs : proc[p].pc = "unborn"
    BY <1>2, <2>1
  <2> QED BY <1>1, <2>2 DEF CliIdentity, Waits
<1>4. WebIdentity
  <2>1. DOMAIN calls = {} /\ Range(calls) = {}
    BY <1>2, TuplesAre
  <2> QED BY <1>1, <2>1 DEF WebIdentity, Alone
<1> QED BY <1>3, <1>4, ClientsInit DEF Identities

LEMMA IdentitiesStep == Identities /\ [Next]_vars => Identities'
<1> SUFFICES ASSUME Identities, [Next]_vars PROVE Identities'
  OBVIOUS
<1>0. ClientsInv /\ CliIdentity /\ WebIdentity /\ RowsInv /\ ProcInv /\ WebInv
  BY DEF Identities, ClientsInv
<1>1. SUFFICES CliIdentity' /\ WebIdentity'
  BY <1>0, ClientsStep DEF Identities
<1>2. ASSUME NEW p \in Procs, CliStep(p), UNCHANGED web PROVE CliIdentity' /\ WebIdentity'
  <2>1. CliIdentity'
    BY <1>0, <1>2, CliIdentityStep
  <2>2. Untouched("web")
    BY <1>0, <1>2, CliStepIs
  <2>3. WebIdentity'
    BY <1>0, <1>2, <2>2, WebRowsStay DEF web
  <2> QED BY <2>1, <2>3
<1>3. CASE WebStep /\ UNCHANGED cli
  <2>1. Untouched("cli")
    BY <1>0, <1>3, WebRows
  <2>2. CliIdentity'
    BY <1>0, <1>3, <2>1, CliRowsStay
  <2>3. WebIdentity'
    BY <1>0, <1>3, WebIdentityStep
  <2> QED BY <2>2, <2>3
<1>4. CASE UNCHANGED vars
  <2>1. UNCHANGED <<rows, cli, jar, calls, webSplit>>
    BY <1>4 DEF vars, api, web
  <2>2. Untouched("web") /\ Untouched("cli")
    BY <2>1, SameRows
  <2> QED BY <1>0, <2>1, <2>2, CliRowsStay, WebRowsStay
<1> QED BY <1>2, <1>3, <1>4 DEF Next

\* What a client has made belongs to the identity that it keeps, or that the
\* answer it waits for will bring, unless its identity could be split
\* (http.ts, demo-auth.ts).
THEOREM OneWorkspace == Spec => []OneWorkspaceUnlessUnsure
<1>1. Identities => OneWorkspaceUnlessUnsure
  <2> SUFFICES ASSUME Identities PROVE OneWorkspaceUnlessUnsure
    OBVIOUS
  <2>1. ASSUME ~split, NEW i \in MadeBy("cli")
        PROVE  \/ OwnerOf(i) = saved
               \/ \E p \in Procs : proc[p].pc = "served" /\ proc[p].ans.cookie = OwnerOf(i)
    BY <2>1, HolderIs DEF MadeBy, Identities, CliIdentity
  <2>2. ASSUME ~webSplit, NEW i \in MadeBy("web")
        PROVE  \/ OwnerOf(i) = jar
               \/ \E j \in DOMAIN calls : /\ calls[j].st = "served"
                                          /\ calls[j].ans.cookie = OwnerOf(i)
    <3>1. Theirs(jar, calls, OwnerOf(i))
      BY <2>2, HolderIs DEF MadeBy, Identities, WebIdentity
    <3> QED BY <3>1 DEF Theirs, Range
  <2> QED BY <2>1, <2>2 DEF OneWorkspaceUnlessUnsure
<1> QED BY <1>1, IdentitiesInit, IdentitiesStep, PTL DEF Spec

(***************************************************************************)
(* The names of projects.                                                  *)
(***************************************************************************)

Named(i, n) == i \in DOMAIN known /\ n \in known[i]

\* The rows have their names; an answer brings one of its project's; a screen
\* that was not reused shows one of its project's, and waits for calls about
\* it; and a deletion was confirmed with one.
RowsNamed    == \A i \in DOMAIN rows : Named(i, rows[i].name)
AnswersNamed == \A c \in Range(calls) :
                   c.st = "served" /\ c.q.op \in OfProject /\ c.ans.status < 300 =>
                      Named(c.q.on, c.ans.row.name)
DeletesNamed == \A c \in Range(calls) :
                   c.q.op = "deleteProject" /\ c.slot = "none" => c.reused \/ Named(c.q.on, c.typed)
ScreenNamed  == page.screen = "project" /\ ~page.reused =>
                   /\ page.main.phase = "ready" => Named(page.id, page.main.row.name)
                   /\ \A c \in Range(calls) : c.live => c.about = page.id

NamesInv == RowsNamed /\ AnswersNamed /\ DeletesNamed /\ ScreenNamed

\* No name is forgotten.
LEMMA NamesKept ==
  ASSUME Remember
  PROVE  /\ RowsNamed'
         /\ \A i, n : Named(i, n) => Named(i, n)'
<1>1. /\ DOMAIN known' = DOMAIN known \cup DOMAIN rows'
      /\ \A i \in DOMAIN known : known[i] \subseteq known'[i]
      /\ \A i \in DOMAIN rows' : rows'[i].name \in known'[i]
  BY DEF Remember
<1> QED BY <1>1 DEF RowsNamed, Named

LEMMA CallsNamed ==
  ASSUME NamesInv, Remember, NEW R, R \subseteq Range(calls), From(R)
  PROVE  AnswersNamed' /\ DeletesNamed'
<1>1. \A i, n : Named(i, n) => Named(i, n)'
  BY NamesKept
<1>2. ASSUME NEW c \in Range(calls')
      PROVE  (\E e \in Range(calls) : Like(c, e)) \/ (c.st = "sent" /\ c.slot \in Slots)
  BY DEF From
<1> HIDE DEF Named
<1>3. AnswersNamed'
  BY <1>1, <1>2 DEF AnswersNamed, NamesInv, Like
<1>4. DeletesNamed'
  BY <1>1, <1>2 DEF DeletesNamed, NamesInv, Like, Slots
<1> QED BY <1>3, <1>4

\* A step that is neither the browser's nor an answer to it.
LEMMA NamesStay ==
  ASSUME NamesInv, Remember, UNCHANGED <<page, calls>>
  PROVE  NamesInv'
<1>1. RowsNamed' /\ \A i, n : Named(i, n) => Named(i, n)'
  BY NamesKept
<1> HIDE DEF Named
<1>2. AnswersNamed'
  BY <1>1 DEF AnswersNamed, NamesInv
<1>3. DeletesNamed'
  BY <1>1 DEF DeletesNamed, NamesInv
<1>4. ScreenNamed'
  BY <1>1 DEF ScreenNamed, NamesInv
<1> QED BY <1>1, <1>2, <1>3, <1>4 DEF NamesInv

\* Another id for the screen of a project marks it, another screen is empty.
LEMMA MovedNamed ==
  ASSUME NEW p, NEW rest, NEW screen, NEW id,
         Moved(p, rest, screen, id) \/ Opened(rest, screen, id),
         \A c \in Range(rest) : CallOK(c)
  PROVE  ScreenNamed'
<1>1. CASE Moved(p, rest, screen, id)
  BY <1>1 DEF Moved, ScreenNamed
<1>2. CASE Opened(rest, screen, id)
  <2>1. page'.screen = screen /\ page'.id = id /\ page'.main.phase # "ready"
    BY <1>2, FreshIs, BlankIs DEF Opened
  <2>2. PICK N : /\ Range(calls') = Left(rest) \cup N
                 /\ \A c \in N : screen = "project" => c.about = id
    BY <1>2 DEF Opened
  <2>3. \A d \in Left(rest) : ~d.live
    <3>1. SUFFICES ASSUME NEW c \in Range(rest) PROVE ~[c EXCEPT !.live = FALSE].live
      BY DEF Left
    <3>2. PICK d : d = [c EXCEPT !.live = FALSE]
      OBVIOUS
    <3>3. ~d.live
      BY <3>2, GoneIs
    <3> QED BY <3>2, <3>3
  <2> QED BY <2>1, <2>2, <2>3 DEF ScreenNamed
<1> QED BY <1>1, <1>2

\* A call is heard of.
LEMMA HeardNamed ==
  ASSUME WebInv, NamesInv, Remember, NEW c \in Range(calls),
         NEW rest, Range(rest) \subseteq Range(calls),
         \/ Quiet(c, rest) \/ Failing(c, rest)
         \/ c.st = "served" /\ (Filling(c, rest) \/ Done(c, rest) \/ Turned(c, rest))
  PROVE  NamesInv'
<1>1. RowsNamed' /\ \A i, n : Named(i, n) => Named(i, n)'
  BY NamesKept
<1>2. \A d \in Range(calls) : CallOK(d)
  BY DEF WebInv
<1>3. AnswersNamed' /\ DeletesNamed'
  <2>1. From(Range(rest))
    BY <1>2, HeardFrom
  <2> QED BY <2>1, CallsNamed
<1> DEFINE Steadily == page'.screen = page.screen /\ page'.id = page.id /\ page'.reused = page.reused
           Here == page.screen = "project" /\ ~page.reused
<1>4. Here => /\ page.main.phase = "ready" => Named(page.id, page.main.row.name)
              /\ \A d \in Range(calls) : d.live => d.about = page.id
  BY DEF NamesInv, ScreenNamed
<1>5. c.live => LiveOK(c, page.screen)
  BY DEF WebInv
<1>6. c.st = "served" /\ c.q.op \in OfProject /\ c.ans.status < 300 => Named(c.q.on, c.ans.row.name)
  BY DEF NamesInv, AnswersNamed
<1> HIDE DEF Named
<1>7. CASE Quiet(c, rest)
  <2>1. Steadily /\ page'.main = page.main /\ Range(calls') \subseteq Range(calls)
    BY <1>7 DEF Quiet, Steady, SameSlots
  <2>2. ScreenNamed'
    BY <1>1, <1>4, <2>1 DEF ScreenNamed
  <2> QED BY <1>1, <1>3, <2>2 DEF NamesInv
<1>8. CASE Failing(c, rest)
  <2>1. /\ Steadily /\ Range(calls') \subseteq Range(calls)
        /\ page'.main = page.main \/ page'.main = Failed
    BY <1>8 DEF Failing, Steady, Slots
  <2>2. page'.main.phase = "ready" => page'.main = page.main
    BY <2>1, BlankIs
  <2>3. ScreenNamed'
    BY <1>1, <1>4, <2>1, <2>2 DEF ScreenNamed
  <2> QED BY <1>1, <1>3, <2>3 DEF NamesInv
<1>9. CASE c.st = "served" /\ Filling(c, rest)
  <2>1. /\ Steadily /\ c.live /\ c.slot \in Slots
        /\ c.ans.status < 300 \/ c.q.op \in Unchecked
        /\ IF Fills(c, "main")
           THEN page'.main.row = c.ans.row
           ELSE page'.main = page.main
    BY <1>9 DEF Filling, Steady, Slots
  <2>2. PICK N : Range(calls') = Range(rest) \cup N /\ \A d \in N : d.about = c.about
    BY <1>9 DEF Filling
  <2>3. ASSUME Here, Fills(c, "main") PROVE Named(page.id, page'.main.row.name)
    <3>1. c.slot = "main"
      BY <2>3 DEF Fills
    <3>2. c.q.op = "getProject" /\ c.q.on = c.about
      BY <1>5, <2>1, <2>3, <3>1 DEF LiveOK, LoadTable
    <3>3. c.ans.status < 300 /\ c.q.op \in OfProject
      BY <2>1, <3>2 DEF Unchecked, OfProject
    <3> QED BY <1>4, <1>6, <1>9, <2>1, <2>3, <3>2, <3>3
  <2>4. Here => \A d \in Range(calls') : d.live => d.about = page.id
    BY <1>4, <2>1, <2>2
  <2>5. Here /\ page'.main.phase = "ready" => Named(page.id, page'.main.row.name)
    BY <1>4, <2>1, <2>3
  <2>6. ScreenNamed'
    BY <1>1, <2>1, <2>4, <2>5 DEF ScreenNamed
  <2> QED BY <1>1, <1>3, <2>6 DEF NamesInv
<1>10. CASE c.st = "served" /\ Done(c, rest)
  <2>1. /\ Steadily /\ c.live /\ c.slot = "none"
        /\ c.ans.status < 300 \/ c.q.op \in Unchecked
        /\ IF c.q.op \in Edits
           THEN c.q.op # "patchConversation" => page'.main.row = c.ans.row
           ELSE page'.main = page.main
    BY <1>10 DEF Done, Steady
  <2>2. PICK N : /\ Range(calls') = Range(rest) \cup N
                 /\ \A d \in N : page.screen = "project" => d.about = c.about
    BY <1>10 DEF Done
  <2>3. ASSUME Here, c.q.op \in Edits PROVE Named(page.id, page'.main.row.name)
    <3>1. <<page.screen, c.q.op>> \in ActTable /\ c.q.on = c.about
      BY <1>5, <2>1, <2>3 DEF LiveOK
    <3>2. c.q.op \in OfProject /\ c.q.op # "patchConversation"
      BY <2>3, <3>1 DEF ActTable, Edits, OfProject
    <3>3. c.ans.status < 300
      BY <2>1, <3>2 DEF Unchecked, OfProject
    <3> QED BY <1>4, <1>6, <1>10, <2>1, <2>3, <3>1, <3>2, <3>3
  <2>4. Here => \A d \in Range(calls') : d.live => d.about = page.id
    BY <1>4, <2>1, <2>2
  <2>5. Here /\ page'.main.phase = "ready" => Named(page.id, page'.main.row.name)
    BY <1>4, <2>1, <2>3
  <2>6. ScreenNamed'
    BY <1>1, <2>1, <2>4, <2>5 DEF ScreenNamed
  <2> QED BY <1>1, <1>3, <2>6 DEF NamesInv
<1>11. CASE Turned(c, rest)
  <2>1. PICK p, more, screen, id, M :
           /\ Range(more) = Range(rest) \cup M
           /\ \A d \in M : NewLoad(d, page.screen, jar')
           /\ Moved(p, more, screen, id) \/ Opened(more, screen, id)
    BY <1>11 DEF Turned
  <2>2. \A d \in Range(more) : CallOK(d)
    BY <1>2, <2>1 DEF NewLoad, New
  <2>3. ScreenNamed'
    BY <2>1, <2>2, MovedNamed
  <2> QED BY <1>1, <1>3, <2>3 DEF NamesInv
<1> QED BY <1>7, <1>8, <1>9, <1>10, <1>11

\* An act: a deletion is confirmed with the name that is shown.
LEMMA ActedNamed ==
  ASSUME WebInv, NamesInv, Remember, Acted
  PROVE  NamesInv'
<1>1. RowsNamed' /\ \A i, n : Named(i, n) => Named(i, n)'
  BY NamesKept
<1>2. /\ page'.screen = page.screen /\ page'.id = page.id /\ page'.reused = page.reused
      /\ page'.main = page.main
  BY DEF Acted, SameView
<1>3. PICK N : Range(calls') = Range(calls) \cup N /\ \A c \in N : Aside(c)
  BY DEF Acted
<1>4. \A c \in N : c.st = "sent" /\ (page.screen = "project" => c.about = page.id)
  BY <1>3 DEF Aside, New
<1> HIDE DEF Named
<1>5. AnswersNamed'
  BY <1>1, <1>3, <1>4 DEF NamesInv, AnswersNamed
<1>6. ScreenNamed'
  BY <1>1, <1>2, <1>3, <1>4 DEF NamesInv, ScreenNamed
<1>7. ASSUME NEW c \in N, c.q.op = "deleteProject", c.slot = "none"
      PROVE  c.reused \/ Named(c.q.on, c.typed)
  BY <1>3, <1>7 DEF Aside, Confirmed, NamesInv, ScreenNamed
<1>8. DeletesNamed'
  BY <1>1, <1>3, <1>7 DEF NamesInv, DeletesNamed
<1> QED BY <1>1, <1>5, <1>6, <1>8 DEF NamesInv

\* Selections and moves.
LEMMA PickedNamed ==
  ASSUME WebInv, NamesInv, Remember, Picked \/ Going
  PROVE  NamesInv'
<1>1. RowsNamed'
  BY NamesKept
<1>2. CASE Picked
  <2>1. PICK N : Range(calls') = Range(calls) \cup N /\ \A c \in N : NewLoad(c, page.screen, jar)
    BY <1>2 DEF Picked
  <2>2. From(Range(calls))
    BY <1>2, <2>1, LikeIs DEF From, NewLoad, New, Picked
  <2>3. ScreenNamed'
    BY <1>2 DEF Picked, ScreenNamed
  <2> QED BY <1>1, <2>2, <2>3, CallsNamed DEF NamesInv
<1>3. CASE Going
  <2>1. PICK screen, id : Moved(page, calls, screen, id) \/ Opened(calls, screen, id)
    BY <1>3 DEF Going
  <2>2. \A c \in Range(calls) : CallOK(c)
    BY DEF WebInv
  <2>3. From(Range(calls))
    BY <2>1, <2>2, MovedFrom, OpenedFrom
  <2> QED BY <1>1, <2>1, <2>2, <2>3, MovedNamed, CallsNamed DEF NamesInv
<1> QED BY <1>2, <1>3

\* The answer to a request about a project brings one of its names.
LEMMA ServedNamed ==
  ASSUME RowsInv, WebInv, NamesInv, Remember, NEW i \in DOMAIN calls, ServeWeb(i)
  PROVE  NamesInv'
<1>1. RowsNamed' /\ \A j, n : Named(j, n) => Named(j, n)'
  BY NamesKept
<1>2. PICK c, d : c = calls[i] /\ d = calls'[i]
  OBVIOUS
<1>3. /\ Served(c, d) /\ UNCHANGED page /\ DOMAIN calls' = DOMAIN calls
      /\ \A j \in DOMAIN calls : j # i => calls'[j] = calls[j]
  BY <1>2, ServeWebIs
<1>4. c \in Range(calls) /\ \A e \in Range(calls') : e = d \/ e \in Range(calls)
  BY <1>2, <1>3 DEF Range
<1>5. d.q.op \in OfProject /\ d.ans.status < 300 => Named(d.q.on, d.ans.row.name)'
  BY <1>1, <1>3 DEF Served, RowsNamed
<1>6. d.q = c.q /\ d.slot = c.slot /\ d.reused = c.reused /\ d.typed = c.typed
      /\ d.live = c.live /\ d.about = c.about
  BY <1>3 DEF Served
<1> HIDE DEF Named
<1>7. AnswersNamed'
  BY <1>1, <1>4, <1>5 DEF NamesInv, AnswersNamed
<1>8. DeletesNamed'
  BY <1>1, <1>4, <1>6 DEF NamesInv, DeletesNamed
<1>9. ScreenNamed'
  BY <1>1, <1>3, <1>4, <1>6 DEF NamesInv, ScreenNamed
<1> QED BY <1>1, <1>7, <1>8, <1>9 DEF NamesInv

LEMMA NamesInit == Init => NamesInv
<1> SUFFICES ASSUME Init PROVE NamesInv
  OBVIOUS
<1>1. RowsNamed
  BY DEF Init, RowsNamed, Named
<1>2. calls = <<>> /\ page = Fresh("new tab", None)
  BY DEF Init, WebInit
<1>3. Range(calls) = {}
  BY <1>2, TuplesAre
<1>4. page.screen = "new tab"
  BY <1>2, FreshIs
<1> QED BY <1>1, <1>3, <1>4 DEF NamesInv, AnswersNamed, DeletesNamed, ScreenNamed

LEMMA NamesStep == ClientsInv /\ NamesInv /\ [Next]_vars => NamesInv'
<1> SUFFICES ASSUME ClientsInv, NamesInv, [Next]_vars PROVE NamesInv'
  OBVIOUS
<1>0. RowsInv /\ WebInv
  BY DEF ClientsInv
<1>1. CASE UNCHANGED web /\ Remember
  BY <1>1, NamesStay DEF web
<1>2. CASE WebStep /\ Remember
  <2>1. CASE OtherTab
    BY <1>0, <1>2, <2>1, OtherTabIs, NamesStay
  <2>2. ASSUME NEW i \in DOMAIN calls, Deliver(i) \/ Lose(i) PROVE NamesInv'
    <3>1. PICK c, rest : c = calls[i] /\ rest = RemoveAt(calls, i)
      OBVIOUS
    <3>2. /\ Range(rest) = {calls[j] : j \in DOMAIN calls \ {i}}
          /\ \/ Quiet(c, rest) \/ Failing(c, rest)
             \/ c.st = "served" /\ (Filling(c, rest) \/ Done(c, rest) \/ Turned(c, rest))
      BY <1>0, <2>2, <3>1, DeliverIs, LoseIs
    <3>3. c \in Range(calls) /\ Range(rest) \subseteq Range(calls)
      BY <3>1, <3>2 DEF Range
    <3> QED BY <1>0, <1>2, <3>2, <3>3, HeardNamed
  <2> QED BY <1>0, <1>2, <2>1, <2>2, WebStepIs, ActedNamed, PickedNamed, ServedNamed
<1>3. CASE UNCHANGED vars
  BY <1>3 DEF vars, web, api, NamesInv, RowsNamed, AnswersNamed, DeletesNamed, ScreenNamed, Named
<1> QED BY <1>1, <1>2, <1>3 DEF Next

\* A project is deleted from its screen only after one of its names has been
\* typed, unless the screen was given another id (ProjectDetail.tsx).
THEOREM DeletesAreNamed == Spec => []DeletesAreNamedUnlessReused
<1>1. NamesInv => DeletesAreNamedUnlessReused
  BY DEF NamesInv, DeletesNamed, DeletesAreNamedUnlessReused, Deletions, TypedNameIsIts, Named, Range
<1>2. Spec => [](ClientsInv /\ NamesInv)
  BY ClientsInit, ClientsStep, NamesInit, NamesStep, PTL DEF Spec
<1> QED BY <1>1, <1>2, PTL

(***************************************************************************)
(* The screens that wait for nothing.                                      *)
(***************************************************************************)

KeyIn(p, slot) ==
    CASE p.screen \in {"project", "session", "artifact"}         -> p.id
      [] p.screen = "chat" /\ slot = "main"                      -> p.id
      [] p.screen \in {"analysis", "artifacts"} /\ slot = "list" -> p.pick
      [] OTHER -> None

Live(cs, slot) == \E c \in Range(cs) : c.live /\ c.slot = slot

\* A slot of screen p, with the calls cs, that shows what it was loaded for
\* under another key: it is being loaded, or will be once the main slot is,
\* and is hidden until then.
Excused(p, cs, slot) ==
    \/ Live(cs, slot) /\ ~(p.screen = "chat" /\ slot = "main")
    \/ p.screen = "session" /\ slot # "main" /\ (p.main.phase # "ready" \/ Live(cs, "main"))
    \/ p.screen = "artifact" /\ slot = "list" /\ p.main.phase # "ready"

ScreenInv ==
    ~page.crossed =>
       \A slot \in Slots : page[slot].phase = "ready" =>
          page[slot].of = KeyIn(page, slot) \/ Excused(page, calls, slot)

LEMMA KeyIs == \A slot : Key(slot) = KeyIn(page, slot)
  BY DEF Key, KeyIn

\* Excuses stay while nothing is heard of.
LEMMA ExcusedStays ==
  ASSUME NEW p, NEW q, q.screen = p.screen, q.main.phase = p.main.phase, NEW cs, NEW ds,
         \A s \in Slots : ~(p.screen = "chat" /\ s = "main") /\ Live(cs, s) => Live(ds, s),
         NEW slot \in Slots, Excused(p, cs, slot)
  PROVE  Excused(q, ds, slot)
<1> HIDE DEF Live
<1> QED BY DEF Excused, Slots

\* The id of a screen changes.
LEMMA MovedShown ==
  ASSUME ScreenInv, NEW p, SameSlots(p), p.pick = page.pick, ~p.crossed => ~page.crossed,
         NEW rest, NEW id, Moved(p, rest, page.screen, id),
         \A s \in Slots : Live(calls, s) => Live(rest, s)
  PROVE  ScreenInv'
<1>1. PICK N : /\ Range(calls') = Range(rest) \cup N
               /\ \A c \in N : NewLoad(c, page.screen, jar')
               /\ page.screen = "project" => \A slot \in Slots : \E c \in N : c.slot = slot
               /\ page.screen = "session" => \E c \in N : c.slot = "main"
  BY DEF Moved
<1>2. \A c \in N : c.live
  BY <1>1 DEF NewLoad, New
<1>3. /\ \A s \in Slots : Live(calls, s) => Live(calls', s)
      /\ page.screen = "project" => \A s \in Slots : Live(calls', s)
      /\ page.screen = "session" => Live(calls', "main")
  BY <1>1, <1>2 DEF Live, Slots
<1>4. /\ page'.screen = page.screen /\ page'.pick = page.pick
      /\ page'.crossed = p.crossed
      /\ \A s \in Slots : page'[s] = IF s \in Resets(page.screen) THEN Blank ELSE page[s]
  BY DEF Moved, SameSlots, Slots
<1> SUFFICES ASSUME ~page'.crossed, NEW slot \in Slots, page'[slot].phase = "ready",
                    page'[slot].of # KeyIn(page', slot)
             PROVE  Excused(page', calls', slot)
  BY DEF ScreenInv
<1>5. slot \notin Resets(page.screen) /\ page'[slot] = page[slot] /\ ~page.crossed
  BY <1>4, BlankIs
<1> HIDE DEF Live
<1>6. CASE page.screen \in {"project", "session"}
  BY <1>3, <1>4, <1>6 DEF Excused, Slots
<1>7. CASE page.screen = "artifact"
  <2>1. slot = "list" /\ page'.main = Blank
    BY <1>4, <1>5, <1>7 DEF Resets, Slots
  <2> QED BY <1>4, <1>7, <2>1, BlankIs DEF Excused
<1>8. CASE page.screen \notin {"project", "session", "artifact"}
  <2>1. KeyIn(page', slot) = KeyIn(page, slot)
    BY <1>4, <1>5, <1>8 DEF KeyIn, Resets
  <2>2. Excused(page, calls, slot)
    BY <1>5, <2>1 DEF ScreenInv
  <2> QED BY <1>3, <1>4, <1>8, <2>2 DEF Excused
<1> QED BY <1>6, <1>7, <1>8

\* A screen of another kind shows nothing yet.
LEMMA OpenedShown ==
  ASSUME NEW rest, NEW screen, NEW id, Opened(rest, screen, id)
  PROVE  ScreenInv'
<1>1. page'.main = Blank /\ page'.list = Blank /\ page'.side = Blank
  BY FreshIs DEF Opened
<1> QED BY <1>1, BlankIs DEF ScreenInv, Slots

\* Nothing is heard of.
LEMMA ShownStays ==
  ASSUME ScreenInv, page'.screen = page.screen, page'.id = page.id,
         page'.pick = page.pick \/ page.screen = "session",
         ~page'.crossed => ~page.crossed,
         \A slot \in Slots : page'[slot] = page[slot],
         \A s \in Slots : ~(page.screen = "chat" /\ s = "main") /\ Live(calls, s) => Live(calls', s)
  PROVE  ScreenInv'
<1> SUFFICES ASSUME ~page'.crossed, NEW slot \in Slots, page'[slot].phase = "ready",
                    page'[slot].of # KeyIn(page', slot)
             PROVE  Excused(page', calls', slot)
  BY DEF ScreenInv
<1>1. KeyIn(page', slot) = KeyIn(page, slot)
  BY DEF KeyIn
<1>2. Excused(page, calls, slot)
  BY <1>1 DEF ScreenInv
<1>3. page'.main.phase = page.main.phase
  BY DEF Slots
<1> HIDE DEF Excused, Live
<1> QED BY <1>2, <1>3, ExcusedStays

\* The key that a call which was not stray is about.
LEMMA KeyHeard ==
  ASSUME NEW c, ~Stray(c), c.live
  PROVE  c.about = IF c.slot \in Slots THEN KeyIn(page, c.slot) ELSE page.id
  BY KeyIs DEF Stray

LEMMA FailingShown ==
  ASSUME WebInv, ScreenInv, NEW c \in Range(calls), NEW rest,
         Range(calls) \subseteq Range(rest) \cup {c}, Failing(c, rest)
  PROVE  ScreenInv'
<1>1. PICK f \in Slots :
         /\ f = c.slot \/ (f = "main" /\ page.screen = "artifact" /\ c.slot = "list")
         /\ page'[f] = Failed
         /\ \A slot \in Slots \ {f} : page'[slot] = page[slot]
  BY DEF Failing
<1>2. /\ page'.screen = page.screen /\ page'.id = page.id /\ page'.pick = page.pick
      /\ ~page'.crossed => ~page.crossed
      /\ Range(calls') = Range(rest)
  BY DEF Failing, Steady, Uncrossed
<1>3. \A s \in Slots : s # c.slot /\ Live(calls, s) => Live(calls', s)
  BY <1>2 DEF Live
<1> SUFFICES ASSUME ~page'.crossed, NEW slot \in Slots, page'[slot].phase = "ready",
                    page'[slot].of # KeyIn(page', slot)
             PROVE  Excused(page', calls', slot)
  BY DEF ScreenInv
<1>4. slot # f /\ page'[slot] = page[slot]
  BY <1>1, BlankIs
<1>5. KeyIn(page', slot) = KeyIn(page, slot)
  BY <1>2 DEF KeyIn
<1>6. Excused(page, calls, slot)
  BY <1>2, <1>4, <1>5 DEF ScreenInv
<1>7. page'.main.phase # "ready" \/ (page'.main = page.main /\ f # "main")
  BY <1>1, BlankIs DEF Slots
<1> HIDE DEF Live
<1>8. CASE slot = c.slot
  <2>1. f = "main" /\ page.screen = "artifact" /\ slot = "list"
    BY <1>1, <1>4, <1>8
  <2> QED BY <1>2, <1>7, <2>1 DEF Excused
<1>9. CASE slot # c.slot
  <2>1. page.screen = "session" /\ c.slot = "main" => page'.main.phase # "ready"
    BY <1>1, <1>7
  <2> QED BY <1>2, <1>3, <1>6, <1>7, <1>9, <2>1 DEF Excused, Slots
<1> QED BY <1>8, <1>9

LEMMA FillingShown ==
  ASSUME WebInv, ScreenInv, NEW c \in Range(calls), NEW rest,
         Range(calls) \subseteq Range(rest) \cup {c}, Filling(c, rest)
  PROVE  ScreenInv'
<1>1. /\ page'.screen = page.screen /\ page'.id = page.id /\ page'.pick = page.pick
      /\ Uncrossed(page', c) /\ c.live /\ c.slot \in Slots
      /\ \A slot \in Slots : IF Fills(c, slot)
                             THEN page'[slot].of = c.about
                             ELSE page'[slot] = page[slot]
  BY DEF Filling, Steady
<1>2. PICK N : /\ Range(calls') = Range(rest) \cup N
               /\ \A d \in N : NewLoad(d, page.screen, jar')
               /\ c.q.op = "getSession" /\ c.slot = "main" => \E d \in N : d.slot = "side"
               /\ c.q.op = "getArtifact" => \E d \in N : d.slot = "list"
  BY DEF Filling
<1>3. \A d \in N : d.live
  BY <1>2 DEF NewLoad, New
<1>4. /\ \A s \in Slots : s # c.slot /\ Live(calls, s) => Live(calls', s)
      /\ c.q.op = "getSession" /\ c.slot = "main" => Live(calls', "side")
      /\ c.q.op = "getArtifact" => Live(calls', "list")
  BY <1>2, <1>3 DEF Live
<1>5. <<page.screen, c.slot, c.q.op>> \in LoadTable
  BY <1>1 DEF WebInv, LiveOK
<1> SUFFICES ASSUME ~page'.crossed, NEW slot \in Slots, page'[slot].phase = "ready",
                    page'[slot].of # KeyIn(page', slot)
             PROVE  Excused(page', calls', slot)
  BY DEF ScreenInv
<1>6. ~page.crossed /\ ~Stray(c)
  BY <1>1 DEF Uncrossed
<1>7. KeyIn(page', slot) = KeyIn(page, slot)
  BY <1>1 DEF KeyIn
<1>8. ~Fills(c, slot)
  <2>1. c.about = KeyIn(page, c.slot)
    BY <1>1, <1>6, KeyHeard
  <2>2. CASE slot = c.slot
    BY <1>1, <1>7, <2>1, <2>2
  <2>3. CASE c.q.op = "getSession" /\ c.slot = "main" /\ slot = "list"
    <3>1. page.screen = "session"
      BY <1>5, <2>3 DEF LoadTable
    <3>2. KeyIn(page, slot) = KeyIn(page, c.slot)
      BY <3>1 DEF KeyIn
    <3> QED BY <1>1, <1>7, <2>1, <2>3, <3>2 DEF Fills
  <2> QED BY <2>2, <2>3 DEF Fills
<1>9. page'[slot] = page[slot] /\ slot # c.slot
  BY <1>1, <1>8 DEF Fills
<1>10. Excused(page, calls, slot)
  BY <1>6, <1>7, <1>9 DEF ScreenInv
<1>11. c.slot # "main" => page'.main = page.main
  BY <1>1 DEF Fills, Slots
<1>12. page.screen = "session" /\ c.slot = "main" => c.q.op = "getSession" /\ slot = "side"
  <2>1. page.screen = "session" /\ c.slot = "main" => c.q.op = "getSession"
    BY <1>5 DEF LoadTable
  <2> QED BY <1>8, <1>9, <2>1 DEF Fills, Slots
<1>13. page.screen = "artifact" /\ c.slot = "main" => c.q.op = "getArtifact"
  BY <1>5 DEF LoadTable
<1> HIDE DEF Live
<1> QED BY <1>1, <1>4, <1>9, <1>10, <1>11, <1>12, <1>13 DEF Excused, Slots

LEMMA DoneShown ==
  ASSUME WebInv, ScreenInv, NEW c \in Range(calls), NEW rest,
         Range(calls) \subseteq Range(rest) \cup {c}, Done(c, rest)
  PROVE  ScreenInv'
<1>1. /\ page'.screen = page.screen /\ page'.id = page.id /\ page'.pick = page.pick
      /\ Uncrossed(page', c) /\ c.live /\ c.slot = "none"
      /\ IF c.q.op \in Edits THEN page'.main.of = c.q.on ELSE page'.main = page.main
      /\ page'.side = page.side
      /\ page'.list = Blank \/ (page'.list.phase = page.list.phase /\ page'.list.of = page.list.of)
  BY DEF Done, Steady
<1>2. \A s \in Slots : Live(calls, s) => Live(calls', s)
  <2>1. Range(rest) \subseteq Range(calls')
    BY DEF Done
  <2> QED BY <1>1, <2>1 DEF Live, Slots
<1>3. <<page.screen, c.q.op>> \in ActTable /\ (c.q.op \in Edits => c.q.on = c.about)
  BY <1>1 DEF WebInv, LiveOK
<1>4. c.q.op \in Edits => page.screen \in {"project", "chat"}
  BY <1>3 DEF ActTable, Edits
<1> SUFFICES ASSUME ~page'.crossed, NEW slot \in Slots, page'[slot].phase = "ready",
                    page'[slot].of # KeyIn(page', slot)
             PROVE  Excused(page', calls', slot)
  BY DEF ScreenInv
<1>5. ~page.crossed /\ ~Stray(c)
  BY <1>1 DEF Uncrossed
<1>6. KeyIn(page', slot) = KeyIn(page, slot)
  BY <1>1 DEF KeyIn
<1>7. ~(slot = "main" /\ c.q.op \in Edits)
  <2>1. c.about = page.id
    BY <1>1, <1>5, KeyHeard DEF Slots
  <2>2. page.screen \in {"project", "chat"} => KeyIn(page, "main") = page.id
    BY DEF KeyIn
  <2> QED BY <1>1, <1>3, <1>4, <1>6, <2>1, <2>2
<1>8. page'[slot].phase = page[slot].phase /\ page'[slot].of = page[slot].of
  BY <1>1, <1>7, BlankIs DEF Slots
<1>9. Excused(page, calls, slot)
  BY <1>5, <1>6, <1>8 DEF ScreenInv
<1>10. page.screen \in {"session", "artifact"} => page'.main = page.main
  BY <1>1, <1>4
<1> HIDE DEF Live
<1> QED BY <1>1, <1>2, <1>9, <1>10 DEF Excused, Slots

\* A call is heard of.
LEMMA HeardShown ==
  ASSUME WebInv, ScreenInv, NEW c \in Range(calls),
         NEW rest, Range(calls) \subseteq Range(rest) \cup {c},
         \/ Quiet(c, rest) \/ Filling(c, rest) \/ Failing(c, rest)
         \/ Done(c, rest) \/ Turned(c, rest)
  PROVE  ScreenInv'
<1>1. CASE Quiet(c, rest)
  <2>1. /\ page'.screen = page.screen /\ page'.id = page.id /\ page'.pick = page.pick
        /\ ~page'.crossed => ~page.crossed
        /\ \A slot \in Slots : page'[slot] = page[slot]
        /\ Range(calls') = Range(rest)
        /\ c.live /\ c.slot \in Slots => page.screen = "chat" /\ c.slot = "main"
    BY <1>1 DEF Quiet, Steady, SameSlots, Uncrossed, Slots
  <2>2. \A s \in Slots : ~(page.screen = "chat" /\ s = "main") /\ Live(calls, s) => Live(calls', s)
    BY <2>1 DEF Live
  <2> HIDE DEF Live, ScreenInv
  <2> QED BY <2>1, <2>2, ShownStays
<1>2. CASE Turned(c, rest)
  <2>1. PICK p, more, screen, id, M :
           /\ c.slot = "none"
           /\ Steady(p) /\ SameSlots(p) /\ Uncrossed(p, c)
           /\ Range(more) = Range(rest) \cup M
           /\ \/ screen = page.screen /\ Moved(p, more, screen, id)
              \/ screen # page.screen /\ Opened(more, screen, id)
    BY <1>2 DEF Turned
  <2>2. \A s \in Slots : Live(calls, s) => Live(more, s)
    BY <2>1 DEF Live, Slots
  <2>3. p.pick = page.pick /\ (~p.crossed => ~page.crossed)
    BY <2>1 DEF Steady, Uncrossed
  <2> HIDE DEF Live, ScreenInv
  <2> QED BY <2>1, <2>2, <2>3, MovedShown, OpenedShown
<1> QED BY <1>1, <1>2, FillingShown, FailingShown, DoneShown

\* A selection: the list is loaded again.
LEMMA PickedShown ==
  ASSUME ScreenInv, Picked
  PROVE  ScreenInv'
<1>1. PICK N : /\ Range(calls') = Range(calls) \cup N
               /\ \A c \in N : NewLoad(c, page.screen, jar) /\ c.slot = "list"
               /\ page'.list = Blank \/ (page'.list = page.list /\ N # {})
  BY DEF Picked
<1>2. /\ page.screen \in {"analysis", "artifacts"}
      /\ page'.screen = page.screen /\ page'.id = page.id
      /\ page'.main = page.main /\ page'.side = page.side /\ page'.crossed = page.crossed
  BY DEF Picked
<1>3. /\ \A s \in Slots : Live(calls, s) => Live(calls', s)
      /\ N # {} => Live(calls', "list")
  BY <1>1 DEF Live, NewLoad, New
<1> SUFFICES ASSUME ~page'.crossed, NEW slot \in Slots, page'[slot].phase = "ready",
                    page'[slot].of # KeyIn(page', slot)
             PROVE  Excused(page', calls', slot)
  BY DEF ScreenInv
<1> HIDE DEF Live
<1>4. CASE slot = "list"
  <2>1. Live(calls', "list")
    BY <1>1, <1>3, <1>4, BlankIs
  <2> QED BY <1>2, <1>4, <2>1 DEF Excused
<1>5. CASE slot # "list"
  <2>1. page'[slot] = page[slot] /\ KeyIn(page', slot) = KeyIn(page, slot)
    BY <1>2, <1>5 DEF KeyIn, Slots
  <2>2. Excused(page, calls, slot)
    BY <1>2, <2>1 DEF ScreenInv
  <2> QED BY <1>2, <1>3, <2>2 DEF Excused
<1> QED BY <1>4, <1>5

LEMMA ShownInit == Init => ScreenInv
<1> SUFFICES ASSUME Init PROVE ScreenInv
  OBVIOUS
<1>1. page = Fresh("new tab", None)
  BY DEF Init, WebInit
<1>2. page.main = Blank /\ page.list = Blank /\ page.side = Blank
  <2>1. PICK screen, id : page = Fresh(screen, id)
    BY <1>1
  <2> QED BY <2>1, FreshIs
<1> QED BY <1>2, BlankIs DEF ScreenInv, Slots

LEMMA ShownStep == ClientsInv /\ ScreenInv /\ [Next]_vars => ScreenInv'
<1> SUFFICES ASSUME ClientsInv, ScreenInv, [Next]_vars PROVE ScreenInv'
  OBVIOUS
<1>0. RowsInv /\ WebInv
  BY DEF ClientsInv
<1>1. CASE UNCHANGED <<page, calls>>
  <2> HIDE DEF Live, KeyIn, Excused
  <2> QED BY <1>1 DEF ScreenInv, KeyIn, Excused, Live
<1>2. CASE WebStep
  <2>1. CASE Acted
    <3>1. /\ page'.screen = page.screen /\ page'.id = page.id
          /\ page'.pick = page.pick \/ page.screen = "session"
          /\ page'.crossed = page.crossed
          /\ \A slot \in Slots : page'[slot] = page[slot]
      BY <2>1 DEF Acted, SameView, Slots
    <3>2. \A s \in Slots : Live(calls, s) => Live(calls', s)
      BY <2>1 DEF Acted, Live
    <3> HIDE DEF Live, ScreenInv
    <3> QED BY <3>1, <3>2, ShownStays
  <2>2. CASE Going
    <3>1. PICK screen, id : \/ screen = page.screen /\ Moved(page, calls, screen, id)
                            \/ screen # page.screen /\ Opened(calls, screen, id)
      BY <2>2 DEF Going
    <3>2. SameSlots(page)
      BY DEF SameSlots
    <3> HIDE DEF Live, ScreenInv, SameSlots
    <3>3. CASE Moved(page, calls, page.screen, id)
      BY <3>2, <3>3, MovedShown
    <3>4. CASE Opened(calls, screen, id)
      BY <3>4, OpenedShown
    <3> QED BY <3>1, <3>3, <3>4
  <2>3. CASE OtherTab
    BY <1>0, <1>1, <2>3, OtherTabIs
  <2>4. ASSUME NEW i \in DOMAIN calls, ServeWeb(i) PROVE ScreenInv'
    <3>1. PICK c, d : c = calls[i] /\ d = calls'[i]
      OBVIOUS
    <3>2. /\ Served(c, d) /\ UNCHANGED page /\ DOMAIN calls' = DOMAIN calls
          /\ \A j \in DOMAIN calls : j # i => calls'[j] = calls[j]
      BY <1>0, <2>4, <3>1, ServeWebIs
    <3>3. d.live = c.live /\ d.slot = c.slot
      BY <3>2 DEF Served
    <3>4. \A s \in Slots : Live(calls, s) => Live(calls', s)
      <4>1. SUFFICES ASSUME NEW s \in Slots, NEW e \in Range(calls), e.live, e.slot = s
                     PROVE  \E f \in Range(calls') : f.live /\ f.slot = s
        BY DEF Live
      <4>2. PICK j \in DOMAIN calls : e = calls[j]
        BY DEF Range
      <4>3. calls'[j] \in Range(calls')
        BY <3>2 DEF Range
      <4>4. calls'[j].live /\ calls'[j].slot = s
        BY <3>1, <3>2, <3>3, <4>1, <4>2
      <4> QED BY <4>3, <4>4
    <3> HIDE DEF Live, ScreenInv
    <3> QED BY <3>2, <3>4, ShownStays
  <2>5. ASSUME NEW i \in DOMAIN calls, Deliver(i) \/ Lose(i) PROVE ScreenInv'
    <3>1. PICK c, rest : c = calls[i] /\ rest = RemoveAt(calls, i)
      OBVIOUS
    <3>2. /\ Range(rest) = {calls[j] : j \in DOMAIN calls \ {i}}
          /\ \/ Quiet(c, rest) \/ Filling(c, rest) \/ Failing(c, rest)
             \/ Done(c, rest) \/ Turned(c, rest)
      BY <1>0, <2>5, <3>1, DeliverIs, LoseIs
    <3>3. c \in Range(calls) /\ Range(calls) \subseteq Range(rest) \cup {c}
      BY <3>1, <3>2 DEF Range
    <3> QED BY <1>0, <3>2, <3>3, HeardShown
  <2> QED BY <1>0, <1>2, <2>1, <2>2, <2>3, <2>4, <2>5, WebStepIs, PickedShown
<1>3. CASE UNCHANGED web \/ UNCHANGED vars
  <2>1. UNCHANGED <<page, calls>>
    BY <1>3 DEF web, vars
  <2> QED BY <1>1, <2>1
<1> QED BY <1>2, <1>3 DEF Next

\* A screen that waits for nothing shows what its URL names, unless it has
\* heard of an id that it had left (the screens of relay-web).
THEOREM SettledScreensAreTrue == Spec => []SettledScreensShowTheirKey
<1>1. ScreenInv => SettledScreensShowTheirKey
  <2> SUFFICES ASSUME ScreenInv, ~page.crossed,
                      ~\E i \in DOMAIN calls : calls[i].live /\ calls[i].slot \in Slots,
                      NEW slot \in Slots, Shown(slot)
               PROVE  page[slot].of = Key(slot)
    BY DEF SettledScreensShowTheirKey
  <2>1. \A s \in Slots : ~Live(calls, s)
    BY DEF Live, Range
  <2>2. page[slot].phase = "ready"
        /\ (page.screen \in {"project", "session", "artifact"} => page.main.phase = "ready")
    BY DEF Shown
  <2>3. ~Excused(page, calls, slot)
    BY <2>1, <2>2 DEF Excused, Slots
  <2> QED BY <2>2, <2>3, KeyIs DEF ScreenInv
<1>2. Spec => [](ClientsInv /\ ScreenInv)
  BY ClientsInit, ClientsStep, ShownInit, ShownStep, PTL DEF Spec
<1> QED BY <1>1, <1>2, PTL
============================================================================

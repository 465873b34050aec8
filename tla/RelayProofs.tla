------------------------------ MODULE RelayProofs ------------------------------
(***************************************************************************)
(* What holds of the Relay worker for any set of requests, any number of   *)
(* outputs and any limits: first the shape of its state, then what is said *)
(* of objects, of counters and of archived projects, and last the path of  *)
(* a request from call to call, with what conversations and the rows of    *)
(* turns are along it.                                                     *)
(***************************************************************************)
EXTENDS Relay, FiniteSetTheorems, WellFoundedInduction, TLAPS

Ops == {"none", "createProject", "archive", "unarchive", "upload", "deleteFile",
        "createSession", "deleteSession", "deleteProject", "reset",
        "deleteArtifact", "turn", "narrate", "createChat", "bindChat",
        "freeChat", "renameChat", "deleteChat", "send", "regenerate"}

ModelOps == {"turn", "narrate", "send", "regenerate"}
Thens    == {"none", "t_refuse", "t_fail", "t_dataset", "n_close"}

Call == [pc : Labels, op : Ops, on : Ids, file : Ids, art : ArtifactIds \cup {<<>>},
         keys : SUBSET Keys, n : Nat, k : 0 .. Outputs, then : Thens, calls : 0 .. 2]

\* The steps at which a request's counters are about to be used.
Counting == {"idle", "g_spend", "g_count", "g_row", "c_user", "c_drop", "c_stream",
             "n_turn", "n_object", "n_stream", "t_file", "t_input", "t_insert",
             "t_preview", "t_call", "t_ledger", "t_put", "t_complete", "a_put", "a_row"}
Uncalled == Counting \ {"t_call", "t_ledger", "t_put", "t_complete", "a_put", "a_row"}

Guarded  == {"t_file", "g_spend", "g_count", "g_row"}

Stage(q) ==
    /\ q.pc \in Uncalled => q.calls = 0
    /\ q.pc \in Guarded => q.op \in ModelOps
    /\ q.pc = "t_call" => q.calls \in 0 .. 1
    /\ q.pc = "t_ledger" => q.then # "none" /\ q.calls \in 1 .. 2
    /\ q.pc \in {"t_put", "t_complete"} => q.n \in 1 .. Outputs
    /\ q.pc \in {"a_put", "a_row"} => q.n \in 1 .. Outputs /\ q.k \in 1 .. q.n

ReqOK == req \in [Reqs -> Call] /\ \A r \in Reqs : Stage(req[r])

Message == [role : {"user", "assistant"}, of : Ids]

Shapes ==
    /\ project \in {"none", "active", "archived", "gone"}
    /\ files \subseteq Ids
    /\ sessions \subseteq [id : Ids, file : files]
    /\ turns \subseteq [id : Ids, session : SessionIds, status : Statuses]
    /\ artifacts \subseteq ArtifactIds
    /\ convs \subseteq [id : Ids, bound : BOOLEAN]
    /\ ~Exists => files = {} /\ artifacts = {} /\ \A c \in convs : ~c.bound
    /\ msgs \in [Ids -> Seq(Message)]
    /\ \A c \in Ids \ ConvIds : msgs[c] = <<>>
    /\ objects \subseteq Keys
    /\ rate \in [Routes -> Nat] /\ ledger \in Nat /\ spent \in Nat

LEMMA IdleCall == /\ Idle \in Call /\ Idle.calls = 0 /\ Idle.n = 0 /\ Idle.k = 0
                  /\ Idle.keys = {} /\ Idle.art = <<>>
  BY OldAssumption, BoundsAssumption DEF Idle, Call, Labels, Ops, Thens, Ids

LEMMA Lift ==
  ASSUME ReqOK, NEW r \in Reqs, NEW q \in Call, Stage(q), Becomes(r, q)
  PROVE  ReqOK'
  BY DEF ReqOK, Becomes

LEMMA AdmitKeeps ==
  ASSUME ReqOK, NEW r \in Reqs, NEW q \in Call, Stage(q), Admit(r, q)
  PROVE  ReqOK'
  BY Lift DEF Admit

LEMMA Opened ==
  ASSUME ReqOK, NEW r \in Reqs, NEW q \in Call, q.pc \in Labels \ Counting, Admit(r, q)
  PROVE  ReqOK'
  BY AdmitKeeps DEF Stage, Guarded, Counting, Uncalled

LEMMA GoKeeps ==
  ASSUME ReqOK, NEW r \in Reqs, NEW l \in Labels, Go(r, l),
         Stage([req[r] EXCEPT !.pc = l])
  PROVE  ReqOK'
  BY Lift DEF ReqOK, Go, Call

LEMMA PlainGo ==
  ASSUME ReqOK, NEW r \in Reqs, NEW l \in Labels \ Counting, Go(r, l)
  PROVE  ReqOK'
<1>1. [req[r] EXCEPT !.pc = l].pc = l
  BY DEF ReqOK, Call
<1>2. Stage([req[r] EXCEPT !.pc = l])
  BY <1>1 DEF Stage, Guarded, Counting, Uncalled
<1> QED BY <1>2, GoKeeps

LEMMA UncalledGo ==
  ASSUME ReqOK, NEW r \in Reqs, NEW l \in Uncalled, Go(r, l), req[r].pc \in Uncalled,
         req[r].pc \in Guarded \/ l \notin Guarded
  PROVE  ReqOK'
<1>1. req[r] \in Call /\ Stage(req[r]) /\ l \in Labels
  BY DEF ReqOK, Uncalled, Counting, Labels
<1> DEFINE q == [req[r] EXCEPT !.pc = l]
<1>2. q.pc = l /\ q.calls = req[r].calls /\ q.op = req[r].op
  BY <1>1 DEF Call
<1>3. Stage(q)
  BY <1>1, <1>2 DEF Stage, Guarded, Uncalled, Counting
<1> QED BY <1>1, <1>3, GoKeeps

LEMMA OpenedModel ==
  ASSUME ReqOK, NEW r \in Reqs, NEW q \in Call, q.pc \in Guarded, q.calls = 0,
         q.op \in ModelOps, Admit(r, q)
  PROVE  ReqOK'
  BY AdmitKeeps DEF Stage, Guarded

LEMMA AnswerKeeps ==
  ASSUME ReqOK, NEW r \in Reqs, NEW how \in Ended, Answer(r, how)
  PROVE  ReqOK'
<1> DEFINE q == [req[r] EXCEPT !.pc = how, !.keys = {}]
<1>0. how \in Labels
  BY DEF Ended, Labels
<1>1. q \in Call /\ q.pc = how
  BY <1>0 DEF Call, ReqOK
<1>2. Stage(q)
  BY <1>1 DEF Stage, Guarded, Ended, Uncalled, Counting
<1> QED BY <1>1, <1>2, Lift DEF Answer

LEMMA WorkspaceReqs ==
  ASSUME ReqOK, NEW r \in Reqs, WorkspaceStep(r), Shapes
  PROVE  ReqOK'
<1>1. {"ok", "refused", "dead"} \subseteq Ended
  BY DEF Ended
<1>2. {"up_row", "df_count", "df_row", "df_object", "cs_row", "objects", "da_object"}
      \subseteq Labels \ Counting
  BY DEF Labels, Counting
<1>3. CASE \/ CreateProject(r) \/ SetState(r) \/ Upload(r) \/ DeleteFile(r) \/ CreateSession(r)
           \/ DeleteSession(r) \/ DeleteProject(r) \/ Reset(r) \/ DeleteArtifact(r)
  <2>1. {"ok", "st_row", "up_put", "df_project", "cs_file", "keys", "da_row"}
        \subseteq Labels \ Counting
    BY DEF Labels, Counting
  <2>2. /\ \A f \in files : f \in Ids
        /\ \A s \in SessionIds : s \in Ids
        /\ \A a \in artifacts : a \in ArtifactIds
    BY DEF Shapes, SessionIds
  <2> USE IdleCall DEF Call, Ops
  <2>3. CASE CreateProject(r)
    BY <2>1, <2>2, <2>3, Opened DEF CreateProject
  <2>4. CASE SetState(r)
    BY <2>1, <2>2, <2>4, Opened DEF SetState
  <2>5. CASE Upload(r)
    BY <2>1, <2>2, <2>5, Opened DEF Upload
  <2>6. CASE DeleteFile(r)
    BY <2>1, <2>2, <2>6, Opened DEF DeleteFile
  <2>7. CASE CreateSession(r)
    BY <2>1, <2>2, <2>7, Opened DEF CreateSession
  <2>8. CASE DeleteSession(r)
    BY <2>1, <2>2, <2>8, Opened DEF DeleteSession
  <2>9. CASE DeleteProject(r)
    BY <2>1, <2>2, <2>9, Opened DEF DeleteProject
  <2>10. CASE Reset(r)
    BY <2>1, <2>2, <2>10, Opened DEF Reset
  <2>11. CASE DeleteArtifact(r)
    BY <2>1, <2>2, <2>11, Opened DEF DeleteArtifact
  <2> QED BY <1>3, <2>3, <2>4, <2>5, <2>6, <2>7, <2>8, <2>9, <2>10, <2>11
<1>4. CASE DeleteKeys(r)
  <2> DEFINE q == [req[r] EXCEPT !.pc = "batch",
                                 !.keys = IF req[r].op = "deleteSession"
                                          THEN SessionKeys(req[r].on) ELSE RowKeys]
  <2>1. SessionKeys(req[r].on) \subseteq Keys /\ RowKeys \subseteq Keys
    BY DEF SessionKeys, RowKeys, Keys, FileKeys, ResultKeys, ArtifactKeys, Shapes
  <2>2. "batch" \in Labels
    BY DEF Labels
  <2>3. q \in Call /\ q.pc = "batch"
    BY <2>1, <2>2 DEF Call, ReqOK
  <2> QED BY <1>4, <2>3, Lift DEF DeleteKeys, Stage, Guarded, Counting, Uncalled
<1>5. CASE ~\/ CreateProject(r) \/ SetState(r) \/ Upload(r) \/ DeleteFile(r) \/ CreateSession(r)
            \/ DeleteSession(r) \/ DeleteProject(r) \/ Reset(r) \/ DeleteArtifact(r)
            \/ DeleteKeys(r)
  BY <1>1, <1>2, <1>5, PlainGo, AnswerKeeps DEF WorkspaceStep, UploadPut, UploadRow,
     DeleteFileProject, DeleteFileCount, DeleteFileRow, DeleteFileObject,
     CreateSessionFile, CreateSessionRow, DeleteSessionRows, DeleteProjectRows,
     AfterBatch, DeleteObjects, LogOrphans, SetStateRow, DeleteArtifactRow,
     DeleteArtifactObject
<1> QED BY <1>3, <1>4, <1>5

WithCalls(q, l, t, c) == [q EXCEPT !.pc = l, !.then = t, !.calls = c]

LEMMA CallsFields ==
  ASSUME NEW q \in Call, NEW l \in Labels, NEW t \in Thens, NEW c \in 0 .. 2
  PROVE  /\ WithCalls(q, l, t, c) \in Call /\ WithCalls(q, l, t, c).pc = l
         /\ WithCalls(q, l, t, c).then = t /\ WithCalls(q, l, t, c).calls = c
  BY DEF Call, WithCalls

LEMMA TurnReqs ==
  ASSUME ReqOK, NEW r \in Reqs, TurnStep(r), Shapes
  PROVE  ReqOK'
<1>1. {"ok", "refused", "dead"} \subseteq Ended
  BY DEF Ended
<1>2. {"t_fail", "t_refuse", "t_dataset", "t_kernel", "n_close"} \subseteq Labels \ Counting
  BY DEF Labels, Counting
<1>3. Counting \subseteq Labels
  BY DEF Labels, Counting
<1>4. req[r] \in Call /\ Stage(req[r])
  BY DEF ReqOK
<1>5. CASE Turn(r) \/ Narrate(r)
  <2>1. /\ \A u \in sessions : u.id \in Ids /\ u.file \in Ids
        /\ \A t \in TurnIds : t \in Ids
        /\ \A a \in Ids \X (2 .. Outputs) : a \in ArtifactIds
        /\ {"g_spend", "t_file"} \subseteq Labels
    BY BoundsAssumption DEF Shapes, SessionIds, TurnIds, ArtifactIds, Labels
  <2> USE IdleCall DEF Call, Ops, ModelOps, Guarded
  <2>2. CASE Turn(r)
    BY <2>1, <2>2, OpenedModel DEF Turn
  <2>3. CASE Narrate(r)
    BY <2>1, <2>3, OpenedModel DEF Narrate
  <2> QED BY <1>5, <2>2, <2>3
<1>6. CASE GuardSpend(r) \/ TurnFile(r) \/ TurnInput(r) \/ TurnInsert(r)
  <2>1. {"g_spend", "g_count", "g_row", "t_file", "t_input", "t_insert", "t_preview"} \subseteq Uncalled
    BY DEF Uncalled, Counting
  <2>2. {"g_spend", "g_count", "g_row", "t_file"} \subseteq Guarded /\ {"t_insert", "t_preview"} \cap Guarded = {}
    BY DEF Guarded
  <2> QED BY <1>1, <1>2, <1>4, <1>6, <2>1, <2>2, PlainGo, UncalledGo, AnswerKeeps
     DEF GuardSpend, TurnFile, TurnInput, TurnInsert, At
<1>7. CASE GuardCount(r) \/ GuardRow(r)
  <2>1. PICK l \in {"g_row", "t_input", "n_turn", "c_user", "c_drop"}, n \in Nat :
           \/ Answer(r, "refused")
           \/ Becomes(r, [req[r] EXCEPT !.pc = l, !.n = n]) /\ req[r].pc \in {"g_count", "g_row"}
    <3>1. RouteOf(r) \in Routes
      BY DEF RouteOf, Routes
    <3>2. GuardRow(r) => AfterGuard(r) \in {"t_input", "n_turn", "c_user", "c_drop"}
      BY <1>4 DEF GuardRow, At, AfterGuard, Stage, Guarded, ModelOps
    <3> QED BY <1>7, <3>1, <3>2 DEF GuardCount, GuardRow, At, Shapes
  <2> DEFINE q == [req[r] EXCEPT !.pc = l, !.n = n]
  <2>2. q \in Call /\ q.pc = l /\ q.calls = req[r].calls /\ q.op = req[r].op
    BY <1>3, <1>4 DEF Call, Counting
  <2>3. req[r].pc \in {"g_count", "g_row"} => Stage(q)
    BY <1>4, <2>2 DEF Stage, Guarded, Uncalled, Counting
  <2> QED BY <1>1, <2>1, <2>2, <2>3, Lift, AnswerKeeps
<1>8. CASE TurnPreview(r)
  <2>1. [req[r] EXCEPT !.pc = "t_call"].calls = 0
    BY <1>4, <1>8 DEF TurnPreview, At, Stage, Uncalled, Counting, Call
  <2>2. [req[r] EXCEPT !.pc = "t_call"].pc = "t_call" /\ "t_call" \in Labels
    BY <1>4 DEF Call, Labels
  <2>3. Stage([req[r] EXCEPT !.pc = "t_call"])
    BY <2>1, <2>2 DEF Stage, Guarded, Uncalled, Counting
  <2> QED BY <1>2, <1>8, <2>2, <2>3, PlainGo, GoKeeps DEF TurnPreview
<1>9. CASE CallModel(r)
  <2> DEFINE again == [req[r] EXCEPT !.calls = 1]
             done(then) == WithCalls(req[r], "t_ledger", then, req[r].calls + 1)
  <2>1. req[r].pc = "t_call" /\ req[r].calls \in 0 .. 1
    BY <1>4, <1>9 DEF CallModel, At, Stage
  <2>2. Becomes(r, again) \/ \E then \in {"t_refuse", "t_fail", "t_dataset"} : Becomes(r, done(then))
    BY <1>9 DEF CallModel, WithCalls
  <2>3. again \in Call /\ Stage(again)
    BY <1>4, <2>1 DEF Call, Stage, Guarded, Uncalled, Counting
  <2>4. ASSUME NEW then \in {"t_refuse", "t_fail", "t_dataset"}
        PROVE  done(then) \in Call /\ Stage(done(then))
    <3>1. "t_ledger" \in Labels /\ then \in Thens /\ then # "none"
      BY DEF Labels, Thens
    <3>3. req[r].calls + 1 \in 0 .. 2 /\ req[r].calls + 1 \in 1 .. 2
      BY <2>1
    <3>2. /\ done(then) \in Call /\ done(then).pc = "t_ledger"
          /\ done(then).then = then /\ done(then).calls \in 1 .. 2
      BY <1>4, <3>1, <3>3, CallsFields
    <3> QED BY <3>1, <3>2 DEF Stage, Guarded, Uncalled, Counting
  <2> QED BY <2>2, <2>3, <2>4, Lift
<1>10. CASE RecordCall(r)
  <2>1. req[r].pc = "t_ledger" /\ req[r].calls \in 1 .. 2 /\ req[r].then \in Thens \ {"none"}
    BY <1>4, <1>10 DEF RecordCall, At, Stage, Call
  <2>2. Thens \ {"none"} \subseteq Labels /\ 0 \in 0 .. 2
    BY DEF Labels, Thens
  <2>3. CASE req[r].calls = 1
    <3> DEFINE q == WithCalls(req[r], req[r].then, req[r].then, 0)
    <3>0. req[r].then \in Labels /\ req[r].then \in Thens
      BY <2>1, <2>2
    <3>1. q \in Call /\ q.pc = req[r].then
      BY <1>4, <2>2, <3>0, CallsFields
    <3>2. Stage(q)
      BY <2>1, <3>1 DEF Stage, Guarded, Uncalled, Counting, Thens
    <3>3. Becomes(r, q)
      BY <1>4, <1>10, <2>3 DEF RecordCall, WithCalls, Call
    <3> QED BY <3>1, <3>2, <3>3, Lift
  <2>4. CASE req[r].calls = 2
    <3> DEFINE q == [req[r] EXCEPT !.calls = 1]
    <3>1. q \in Call /\ q.pc = "t_ledger" /\ q.calls = 1 /\ q.then = req[r].then
      BY <1>4, <2>1 DEF Call
    <3>2. Stage(q)
      BY <2>1, <3>1 DEF Stage, Guarded, Uncalled, Counting
    <3>3. Becomes(r, q)
      BY <1>10, <2>4 DEF RecordCall
    <3> QED BY <3>1, <3>2, <3>3, Lift
  <2> QED BY <2>1, <2>3, <2>4
<1>11. CASE \/ TurnRefused(r) \/ TurnFailed(r) \/ TurnDataset(r)
            \/ NarrateTurn(r) \/ NarrateObject(r) \/ NarrateClose(r)
  <2>1. {"n_turn", "n_object", "n_stream"} \subseteq Uncalled \ Guarded
    BY DEF Uncalled, Counting, Guarded
  <2> QED BY <1>1, <1>2, <1>11, <2>1, PlainGo, UncalledGo, AnswerKeeps
      DEF TurnRefused, TurnFailed, TurnDataset, NarrateTurn, NarrateObject, NarrateClose, At
<1>12. CASE CallKernel(r)
  <2> DEFINE again == [req[r] EXCEPT !.n = 1]
             result(m) == [req[r] EXCEPT !.pc = "t_put", !.n = m]
  <2>1. \/ Go(r, "t_fail") \/ Becomes(r, again)
        \/ \E m \in 1 .. Outputs : Becomes(r, result(m))
    BY <1>12 DEF CallKernel
  <2>2. again \in Call /\ again.pc = "t_kernel"
    BY <1>4, <1>12 DEF CallKernel, At, Call
  <2>3. Stage(again)
    BY <2>2 DEF Stage, Guarded, Uncalled, Counting
  <2>4. ASSUME NEW m \in 1 .. Outputs
        PROVE  result(m) \in Call /\ Stage(result(m))
    <3>1. "t_put" \in Labels /\ m \in Nat
      BY BoundsAssumption DEF Labels
    <3>2. result(m) \in Call /\ result(m).pc = "t_put" /\ result(m).n = m
      BY <1>4, <3>1 DEF Call
    <3> QED BY <3>2 DEF Stage, Guarded, Uncalled, Counting
  <2> QED BY <1>2, <2>1, <2>2, <2>3, <2>4, PlainGo, Lift
<1>13. CASE TurnPut(r) \/ TurnComplete(r) \/ ArtifactPut(r) \/ ArtifactRow(r)
  <2> DEFINE move(l, k) == [req[r] EXCEPT !.pc = l, !.k = k]
  <2>1. PICK l \in {"t_complete", "a_put", "a_row"}, k \in 0 .. Outputs :
          /\ Answer(r, "ok") \/ Becomes(r, move(l, k))
          /\ req[r].n \in 1 .. Outputs
          /\ l # "t_complete" => k \in 1 .. req[r].n
    <3>1. CASE TurnPut(r)
      <4>1. [req[r] EXCEPT !.pc = "t_complete"] = move("t_complete", req[r].k)
        BY <1>4 DEF Call
      <4> QED BY <1>4, <3>1, <4>1 DEF TurnPut, Go, At, Call, Stage
    <3>2. CASE TurnComplete(r)
      <4>1. req[r].n \in 1 .. Outputs
        BY <1>4, <3>2 DEF TurnComplete, At, Stage
      <4>2. 1 \in 0 .. Outputs /\ 1 \in 1 .. req[r].n
        BY <4>1, BoundsAssumption
      <4> QED BY <3>2, <4>1, <4>2 DEF TurnComplete
    <3>3. CASE ArtifactPut(r)
      <4>1. [req[r] EXCEPT !.pc = "a_row"] = move("a_row", req[r].k)
        BY <1>4 DEF Call
      <4> QED BY <1>4, <3>3, <4>1 DEF ArtifactPut, Go, At, Call, Stage
    <3>4. CASE ArtifactRow(r)
      <4>1. req[r].k \in 0 .. Outputs /\ req[r].n \in 1 .. Outputs /\ req[r].k \in 1 .. req[r].n
        BY <1>4, <3>4 DEF ArtifactRow, At, Call, Stage
      <4>2. CASE req[r].k = req[r].n
        BY <3>4, <4>1, <4>2 DEF ArtifactRow
      <4>3. CASE req[r].k # req[r].n
        <5>1. Becomes(r, move("a_put", req[r].k + 1))
          BY <1>4, <3>4, <4>3 DEF ArtifactRow, Call
        <5>2. req[r].k + 1 \in 1 .. req[r].n /\ req[r].k + 1 \in 0 .. Outputs
          BY <4>1, <4>3, BoundsAssumption
        <5> QED BY <4>1, <5>1, <5>2
      <4> QED BY <4>2, <4>3
    <3> QED BY <1>13, <3>1, <3>2, <3>3, <3>4
  <2>2. l \in Labels
    BY DEF Labels
  <2>3. move(l, k) \in Call /\ move(l, k).pc = l /\ move(l, k).k = k /\ move(l, k).n = req[r].n
    BY <1>4, <2>2 DEF Call
  <2>4. Stage(move(l, k))
    BY <2>1, <2>3 DEF Stage, Guarded, Uncalled, Counting
  <2> QED BY <1>1, <2>1, <2>3, <2>4, Lift, AnswerKeeps
<1>14. CASE NarrateStream(r)
  <2> DEFINE q == WithCalls(req[r], "t_ledger", "n_close", 1)
  <2>1. "t_ledger" \in Labels /\ "n_close" \in Thens /\ 1 \in 0 .. 2
    BY DEF Labels, Thens
  <2>2. q \in Call /\ q.pc = "t_ledger" /\ q.calls = 1 /\ q.then = "n_close"
    BY <1>4, <2>1, CallsFields
  <2>3. Stage(q)
    BY <2>2 DEF Stage, Guarded, Uncalled, Counting
  <2> QED BY <1>14, <2>2, <2>3, Lift DEF NarrateStream, WithCalls
<1> QED BY <1>5, <1>6, <1>7, <1>8, <1>9, <1>10, <1>11, <1>12, <1>13, <1>14 DEF TurnStep

(* The latest of the positions of a sequence at which something holds.     *)
LEMMA LastExists ==
  ASSUME NEW S, NEW s \in Seq(S), NEW Q, Q \subseteq DOMAIN s, Q # {}
  PROVE  \E i \in Q : \A j \in Q : j <= i
<1> DEFINE T == {n \in Nat : Len(s) - n \in Q}
<1>1. DOMAIN s = 1 .. Len(s) /\ Len(s) \in Nat
  OBVIOUS
<1>2. T \subseteq Nat /\ T # {}
  <2>1. PICK i \in Q : TRUE
    OBVIOUS
  <2>2. Len(s) - i \in Nat /\ Len(s) - (Len(s) - i) = i
    BY <1>1
  <2> QED BY <2>1, <2>2
<1>3. PICK m \in T : \A n \in T : ~(<<n, m>> \in OpToRel(<, Nat))
  BY <1>2, NatLessThanWellFounded, WFMin
<1>4. ASSUME NEW j \in Q PROVE j <= Len(s) - m
  <2>1. Len(s) - j \in T
    BY <1>1
  <2>2. ~(Len(s) - j < m)
    BY <1>2, <1>3, <2>1 DEF OpToRel
  <2> QED BY <1>1, <2>2
<1> QED BY <1>1, <1>3, <1>4

LEMMA LastOfIs ==
  ASSUME NEW s \in Seq(Message), NEW role, Of(s, role) # {}
  PROVE  LastOf(s, role) \in DOMAIN s /\ s[LastOf(s, role)].role = role
<1>1. Of(s, role) \subseteq DOMAIN s
  BY DEF Of
<1>2. \E i \in Of(s, role) : \A j \in Of(s, role) : j <= i
  BY <1>1, LastExists
<1>3. LastOf(s, role) \in Of(s, role)
  BY <1>2 DEF LastOf
<1> QED BY <1>3 DEF Of

LEMMA ChatReqs ==
  ASSUME ReqOK, NEW r \in Reqs, ChatStep(r), Shapes
  PROVE  ReqOK'
<1>1. {"ok", "refused", "dead"} \subseteq Ended
  BY DEF Ended
<1>2. {"pc_row", "c_end", "c_usage", "c_answer"} \subseteq Labels \ Counting
  BY DEF Labels, Counting
<1>3. {"c_drop", "c_user", "c_stream"} \subseteq Uncalled \ Guarded
  BY DEF Uncalled, Counting, Guarded
<1>4. req[r] \in Call /\ Stage(req[r])
  BY DEF ReqOK
<1>5. CASE \/ CreateChat(r) \/ CreateBoundChat(r) \/ PatchChat(r) \/ DeleteChat(r)
  <2>1. {"ok", "cc_row", "pc_project", "pc_row", "dc_rows"} \subseteq Labels \ Counting
    BY DEF Labels, Counting
  <2>2. \A c \in convs : c.id \in Ids
    BY DEF Shapes
  <2> USE IdleCall DEF Call, Ops
  <2>3. CASE CreateChat(r)
    BY <2>1, <2>3, Opened DEF CreateChat
  <2>4. CASE CreateBoundChat(r)
    BY <2>1, <2>4, Opened DEF CreateBoundChat
  <2>5. CASE PatchChat(r)
    BY <2>1, <2>2, <2>5, Opened DEF PatchChat
  <2>6. CASE DeleteChat(r)
    BY <2>1, <2>2, <2>6, Opened DEF DeleteChat, ConvIds
  <2> QED BY <1>5, <2>3, <2>4, <2>5, <2>6
<1>6. CASE Stream(r)
  <2>1. PICK c \in ConvIds :
          \/ Admit(r, [Idle EXCEPT !.op = "send", !.on = c, !.file = r, !.pc = "g_spend"])
          \/ /\ Of(msgs[c], "user") # {}
             /\ Admit(r, [Idle EXCEPT !.op = "regenerate", !.on = c,
                                      !.file = msgs[c][LastOf(msgs[c], "user")].of,
                                      !.pc = "g_spend"])
    BY <1>6 DEF Stream
  <2>2. c \in Ids /\ msgs[c] \in Seq(Message) /\ r \in Ids /\ "g_spend" \in Labels
    BY DEF Shapes, ConvIds, Ids, Labels
  <2>3. ASSUME Of(msgs[c], "user") # {}
        PROVE  msgs[c][LastOf(msgs[c], "user")].of \in Ids
    <3>1. LastOf(msgs[c], "user") \in DOMAIN msgs[c]
      BY <2>2, <2>3, LastOfIs
    <3>2. msgs[c][LastOf(msgs[c], "user")] \in Message
      BY <2>2, <3>1
    <3> QED BY <3>2 DEF Message
  <2> DEFINE q(op, f) == [Idle EXCEPT !.op = op, !.on = c, !.file = f, !.pc = "g_spend"]
  <2>4. ASSUME NEW op \in {"send", "regenerate"}, NEW f \in Ids, Admit(r, q(op, f))
        PROVE  ReqOK'
    <3>1. op \in Ops /\ op \in ModelOps /\ "g_spend" \in Guarded
      BY DEF Ops, ModelOps, Guarded
    <3>2. /\ q(op, f) \in Call /\ q(op, f).pc = "g_spend"
          /\ q(op, f).calls = 0 /\ q(op, f).op = op
      BY <2>2, <3>1, IdleCall DEF Call
    <3> QED BY <2>4, <3>1, <3>2, OpenedModel
  <2> QED BY <2>1, <2>2, <2>3, <2>4
<1>7. CASE PatchChatProject(r)
  <2> DEFINE q == [req[r] EXCEPT !.pc = "pc_row", !.n = 1]
  <2>1. q \in Call /\ q.pc = "pc_row"
    BY <1>2, <1>4 DEF Call
  <2>2. Stage(q)
    BY <1>2, <2>1 DEF Stage, Guarded, Uncalled, Counting
  <2> QED BY <1>1, <1>7, <2>1, <2>2, Lift, AnswerKeeps DEF PatchChatProject
<1>8. CASE CallChatModel(r) \/ RecordUsage(r)
  <2>1. PICK l \in {"c_end", "c_answer"}, n \in 0 .. 1 :
          Becomes(r, [req[r] EXCEPT !.pc = l, !.calls = n])
    BY <1>8 DEF CallChatModel, RecordUsage
  <2> DEFINE q == [req[r] EXCEPT !.pc = l, !.calls = n]
  <2>2. l \in Labels /\ n \in 0 .. 2
    BY <1>2
  <2>3. q \in Call /\ q.pc = l
    BY <1>4, <2>2 DEF Call
  <2>4. Stage(q)
    BY <1>2, <2>3 DEF Stage, Guarded, Uncalled, Counting
  <2> QED BY <2>1, <2>3, <2>4, Lift
<1>9. CASE StoreQuestion(r) \/ DropAnswer(r)
  BY <1>3, <1>9, UncalledGo DEF StoreQuestion, DropAnswer, At
<1>10. CASE \/ CreateBoundChatRow(r) \/ PatchChatRow(r) \/ DeleteChatRows(r)
            \/ EndStream(r) \/ AbortStream(r) \/ StoreAnswer(r)
  BY <1>1, <1>2, <1>10, PlainGo, AnswerKeeps
     DEF CreateBoundChatRow, PatchChatRow, DeleteChatRows, EndStream, AbortStream, StoreAnswer
<1> QED BY <1>5, <1>6, <1>7, <1>8, <1>9, <1>10 DEF ChatStep

LEMMA DieReqs ==
  ASSUME ReqOK, NEW r \in Reqs, Die(r)
  PROVE  ReqOK'
  BY AnswerKeeps DEF Die, Ended

Stored == <<project, files, sessions, turns, artifacts, convs, msgs, objects, rate,
            ledger, spent>>

LEMMA WorkspaceShapes ==
  ASSUME ReqOK, Shapes, NEW r \in Reqs, WorkspaceStep(r)
  PROVE  Shapes'
<1> USE DEF Shapes, SessionIds, Exists, Rest, chats, meters, rows, history
<1>1. r \in Ids /\ req[r] \in Call
  BY DEF Ids, ReqOK
<1>2. CASE CreateProject(r) \/ SetStateRow(r)
  BY <1>2 DEF CreateProject, SetStateRow, ConvIds
<1>3. CASE UploadRow(r)
  BY <1>1, <1>3 DEF UploadRow, ConvIds
<1>4. CASE UploadPut(r)
  <2>1. FileKey(r) \in Keys
    BY <1>1 DEF Keys
  <2> QED BY <1>4, <2>1 DEF UploadPut, ConvIds
<1>5. CASE DeleteFileRow(r)
  BY <1>5 DEF DeleteFileRow, InUse, ConvIds
<1>6. CASE DeleteFileObject(r) \/ DeleteObjects(r) \/ DeleteArtifactObject(r)
  BY <1>6 DEF DeleteFileObject, DeleteObjects, DeleteArtifactObject, ConvIds
<1>7. CASE CreateSessionRow(r)
  BY <1>1, <1>7 DEF CreateSessionRow, ConvIds
<1>8. CASE DeleteSessionRows(r)
  BY <1>8 DEF DeleteSessionRows, ConvIds
<1>9. CASE DeleteProjectRows(r)
  BY <1>9 DEF DeleteProjectRows, ConvIds
<1>10. CASE DeleteArtifactRow(r)
  BY <1>10 DEF DeleteArtifactRow, ConvIds
<1>11. CASE UNCHANGED Stored
  BY <1>11 DEF Stored, ConvIds
<1> QED BY <1>2, <1>3, <1>4, <1>5, <1>6, <1>7, <1>8, <1>9, <1>10, <1>11
  DEF WorkspaceStep, Stored, SetState, Upload, DeleteFile, DeleteFileProject,
      DeleteFileCount, CreateSession, CreateSessionFile, DeleteSession, DeleteProject,
      Reset, DeleteKeys, LogOrphans, DeleteArtifact

LEMMA TurnShapes ==
  ASSUME ReqOK, Shapes, NEW r \in Reqs, TurnStep(r)
  PROVE  Shapes'
<1> USE DEF Shapes, SessionIds, Exists, chats, meters, rows, history, Unmetered, Unstored
<1>1. r \in Ids /\ req[r] \in Call /\ Stage(req[r])
  BY DEF Ids, ReqOK
<1>2. CASE GuardRow(r)
  <2>1. RouteOf(r) \in Routes
    BY DEF RouteOf, Routes
  <2> QED BY <1>2, <2>1 DEF GuardRow, ConvIds
<1>3. CASE TurnInsert(r)
  <2>1. [id |-> r, session |-> req[r].on, status |-> "pending"] \in
           [id : Ids, session : SessionIds, status : Statuses]
    BY <1>1, <1>3 DEF TurnInsert, Statuses
  <2> QED BY <1>3, <2>1 DEF TurnInsert, ConvIds
<1>4. CASE TurnRefused(r) \/ TurnFailed(r) \/ TurnComplete(r)
  <2>1. PICK status \in Statuses : SetTurn(r, status)
    BY <1>4 DEF TurnRefused, TurnFailed, TurnComplete, Statuses
  <2>2. turns' \subseteq [id : Ids, session : SessionIds, status : Statuses]
    BY <2>1 DEF SetTurn
  <2> QED BY <1>4, <2>2 DEF TurnRefused, TurnFailed, TurnComplete, ConvIds
<1>5. CASE CallModel(r) \/ NarrateStream(r) \/ RecordCall(r)
  <2>1. UNCHANGED <<project, files, sessions, turns, artifacts, convs, msgs, objects, rate>>
    BY <1>5 DEF CallModel, NarrateStream, RecordCall
  <2>2. ledger' \in {ledger, ledger + 1} /\ spent' \in {spent, spent + 1}
    BY <1>5 DEF CallModel, NarrateStream, RecordCall
  <2> QED BY <2>1, <2>2 DEF ConvIds
<1>6. CASE TurnPut(r)
  <2>1. ResultKey(r) \in Keys
    BY <1>1 DEF Keys
  <2> QED BY <1>6, <2>1 DEF TurnPut, ConvIds
<1>7. CASE ArtifactPut(r) \/ ArtifactRow(r)
  <2>1. req[r].k \in 1 .. Outputs
    BY <1>1, <1>7, BoundsAssumption DEF ArtifactPut, ArtifactRow, At, Stage
  <2>2. <<r, req[r].k>> \in ArtifactIds
    BY <1>1, <2>1 DEF ArtifactIds
  <2>3. ArtifactKey(<<r, req[r].k>>) \in Keys
    BY <2>2 DEF Keys
  <2> QED BY <1>7, <2>2, <2>3 DEF ArtifactPut, ArtifactRow, ConvIds
<1>8. CASE UNCHANGED Stored
  BY <1>8 DEF Stored, ConvIds
<1> QED BY <1>2, <1>3, <1>4, <1>5, <1>6, <1>7, <1>8
  DEF TurnStep, Stored, GuardSpend, GuardCount, Turn, TurnFile, TurnInput, TurnPreview,
      TurnDataset, CallKernel, Narrate, NarrateTurn, NarrateObject, NarrateClose

LEMMA ChatShapes ==
  ASSUME ReqOK, Shapes, NEW r \in Reqs, ChatStep(r)
  PROVE  Shapes'
<1> USE DEF Shapes, SessionIds, Exists, chats, meters, rows, history, Apart
<1>1. r \in Ids /\ req[r] \in Call
  BY DEF Ids, ReqOK
<1>2. CASE CreateChat(r) \/ CreateBoundChatRow(r)
  <2>1. PICK bound \in BOOLEAN :
          /\ convs' = convs \cup {[id |-> r, bound |-> bound]}
          /\ bound => Exists
          /\ UNCHANGED <<project, files, sessions, turns, artifacts, msgs, objects, meters>>
    BY <1>2 DEF CreateChat, CreateBoundChatRow
  <2>2. convs' \subseteq [id : Ids, bound : BOOLEAN] /\ ConvIds \subseteq ConvIds'
    BY <1>1, <2>1 DEF ConvIds
  <2> QED BY <2>1, <2>2
<1>3. CASE PatchChatRow(r)
  <2> DEFINE patched(c) == IF c.id = req[r].on THEN [c EXCEPT !.bound = (req[r].n = 1)] ELSE c
  <2>0. \A c \in convs : patched(c) \in [id : Ids, bound : BOOLEAN] /\ patched(c).id = c.id
    OBVIOUS
  <2>01. convs' = {patched(c) : c \in convs}
    BY <1>3 DEF PatchChatRow
  <2> HIDE DEF patched
  <2>02. \A d \in convs' : \E c \in convs : d = patched(c)
    BY <2>01
  <2>03. \A c \in convs : patched(c) \in convs'
    BY <2>01
  <2>1. convs' \subseteq [id : Ids, bound : BOOLEAN] /\ ConvIds' = ConvIds
    <3>1. convs' \subseteq [id : Ids, bound : BOOLEAN]
      BY <2>0, <2>02
    <3>2. ConvIds' \subseteq ConvIds
      BY <2>0, <2>02 DEF ConvIds
    <3>3. ConvIds \subseteq ConvIds'
      BY <2>0, <2>03 DEF ConvIds
    <3> QED BY <3>1, <3>2, <3>3
  <2>2. ~Exists => \A c \in convs' : ~c.bound
    BY <1>3 DEF PatchChatRow, ConvIds
  <2> QED BY <1>3, <2>1, <2>2 DEF PatchChatRow
<1>4. CASE DeleteChatRows(r)
  BY <1>1, <1>4 DEF DeleteChatRows, ConvIds, Call
<1>5. CASE StoreQuestion(r) \/ StoreAnswer(r)
  <2>1. /\ [role |-> "user", of |-> r] \in Message
        /\ [role |-> "assistant", of |-> req[r].file] \in Message
        /\ req[r].on \in Ids
    BY <1>1 DEF Message, Call
  <2>2. \A m \in Message : Append(msgs[req[r].on], m) \in Seq(Message)
    BY <2>1
  <2> QED BY <1>5, <2>1, <2>2 DEF StoreQuestion, StoreAnswer, ConvIds
<1>6. CASE DropAnswer(r)
  <2> DEFINE s == msgs[req[r].on]
             i == LastOf(s, "assistant")
  <2>1. req[r].on \in Ids /\ s \in Seq(Message)
    BY <1>1 DEF Call
  <2>2. ASSUME Of(s, "assistant") # {}
        PROVE  /\ SubSeq(s, 1, i - 1) \o SubSeq(s, i + 1, Len(s)) \in Seq(Message)
               /\ req[r].on \in ConvIds
    <3>1. i \in 1 .. Len(s)
      BY <2>1, <2>2, LastOfIs
    <3>2. SubSeq(s, 1, i - 1) \in Seq(Message) /\ SubSeq(s, i + 1, Len(s)) \in Seq(Message)
      BY <2>1, <3>1
    <3>3. s # <<>>
      BY <2>1, <3>1
    <3> QED BY <2>1, <3>2, <3>3
  <2> QED BY <1>6, <2>1, <2>2 DEF DropAnswer, ConvIds
<1>7. CASE CallChatModel(r) \/ RecordUsage(r)
  BY <1>7 DEF CallChatModel, RecordUsage, ConvIds
<1>8. CASE UNCHANGED Stored
  BY <1>8 DEF Stored, ConvIds
<1> QED BY <1>2, <1>3, <1>4, <1>5, <1>6, <1>7, <1>8
  DEF ChatStep, Stored, CreateBoundChat, PatchChat, PatchChatProject, DeleteChat, Stream,
      EndStream, AbortStream

LEMMA InitShapes == Init => ReqOK /\ Shapes
<1> SUFFICES ASSUME Init PROVE ReqOK /\ Shapes
  OBVIOUS
<1>1. ReqOK
  <2>1. Idle.pc = "idle" /\ Stage(Idle)
    BY IdleCall DEF Stage, Idle, Guarded
  <2> QED BY <2>1, IdleCall DEF Init, ReqOK
<1>2. Shapes
  <2>1. Old \in Ids /\ RateCap - 1 \in Nat /\ Budget - 1 \in Nat
    BY BoundsAssumption DEF Ids
  <2>2. /\ files \subseteq {Old} /\ files \subseteq Ids
        /\ artifacts \subseteq ArtifactIds
    BY <2>1 DEF Init, ArtifactIds
  <2>3. RowKeys \subseteq Keys
    <3>1. \A t \in turns : t.id \in Ids
      BY <2>2 DEF Init
    <3> QED BY <2>2, <3>1 DEF RowKeys, FileKeys, ResultKeys, ArtifactKeys, Keys
  <2>4. msgs \in [Ids -> Seq(Message)]
    <3>1. \A c \in Ids : /\ [role |-> "user", of |-> c] \in Message
                         /\ [role |-> "assistant", of |-> c] \in Message
      BY DEF Message
    <3>2. \A c \in Ids : <<[role |-> "user", of |-> c],
                           [role |-> "assistant", of |-> c]>> \in Seq(Message)
      <4>1. \A x, y \in Message : <<x, y>> \in Seq(Message)
        OBVIOUS
      <4> QED BY <3>1, <4>1
    <3>3. msgs = [c \in Ids |-> IF c \in files
                                THEN <<[role |-> "user", of |-> c],
                                       [role |-> "assistant", of |-> c]>>
                                ELSE <<>>]
      BY DEF Init
    <3> QED BY <3>2, <3>3
  <2>5. sessions \subseteq [id : Ids, file : files] /\ SessionIds = files
    <3>1. sessions = {[id |-> f, file |-> f] : f \in files}
      BY DEF Init
    <3>2. \A f \in files : [id |-> f, file |-> f] \in sessions
      BY <3>1
    <3>3. \A s \in sessions : s = [id |-> s.id, file |-> s.id] /\ s.id \in files
      BY <3>1
    <3>4. \A f \in files : f \in SessionIds
      <4> TAKE f \in files
      <4>1. [id |-> f, file |-> f] \in sessions
        BY <3>1
      <4> QED BY <4>1 DEF SessionIds
    <3>5. \A i \in SessionIds : i \in files
      BY <3>3 DEF SessionIds
    <3>6. \A s \in sessions : s \in [id : Ids, file : files]
      BY <2>2, <3>3
    <3> QED BY <3>4, <3>5, <3>6
  <2>6. /\ turns \subseteq [id : Ids, session : SessionIds, status : Statuses]
        /\ convs \subseteq [id : Ids, bound : BOOLEAN] /\ ConvIds = files
    <3>1. /\ turns = {[id |-> f, session |-> f, status |-> "completed"] : f \in files}
          /\ convs = {[id |-> f, bound |-> TRUE] : f \in files}
      BY DEF Init
    <3>2. /\ \A t \in turns : t \in [id : Ids, session : SessionIds, status : Statuses]
          /\ \A c \in convs : c \in [id : Ids, bound : BOOLEAN]
      <4>1. \A f \in files : f \in Ids /\ f \in SessionIds
        BY <2>2, <2>5
      <4>2. "completed" \in Statuses
        BY DEF Statuses
      <4>3. ASSUME NEW f \in files
            PROVE  /\ [id |-> f, session |-> f, status |-> "completed"]
                        \in [id : Ids, session : SessionIds, status : Statuses]
                   /\ [id |-> f, bound |-> TRUE] \in [id : Ids, bound : BOOLEAN]
        BY <4>1, <4>2
      <4> QED BY <3>1, <4>3
    <3>3. \A f \in files : f \in ConvIds
      <4> TAKE f \in files
      <4>1. [id |-> f, bound |-> TRUE] \in convs
        BY <3>1
      <4> QED BY <4>1 DEF ConvIds
    <3>4. \A i \in ConvIds : i \in files
      BY <3>1 DEF ConvIds
    <3> QED BY <3>2, <3>3, <3>4
  <2> QED BY <2>1, <2>2, <2>3, <2>4, <2>5, <2>6 DEF Init, Shapes, Exists
<1> QED BY <1>1, <1>2

THEOREM ShapesHold == Spec => [](ReqOK /\ Shapes)
<1>1. Start => ReqOK /\ Shapes
  BY InitShapes DEF Start
<1>2. ASSUME ReqOK, Shapes, [Next]_<<vars, late>>
      PROVE  ReqOK' /\ Shapes'
  <2>1. CASE UNCHANGED <<vars, late>>
    <3>1. UNCHANGED Stored /\ UNCHANGED req
      BY <2>1 DEF vars, rows, chats, meters, Stored
    <3> QED BY <1>2, <3>1 DEF ReqOK, Stored, Shapes, SessionIds, ConvIds, Exists
  <2>2. ASSUME NEW r \in Reqs, WorkspaceStep(r) PROVE ReqOK' /\ Shapes'
    BY <1>2, <2>2, WorkspaceReqs, WorkspaceShapes
  <2>3. ASSUME NEW r \in Reqs, TurnStep(r) PROVE ReqOK' /\ Shapes'
    BY <1>2, <2>3, TurnReqs, TurnShapes
  <2>4. ASSUME NEW r \in Reqs, ChatStep(r) PROVE ReqOK' /\ Shapes'
    BY <1>2, <2>4, ChatReqs, ChatShapes
  <2>5. ASSUME NEW r \in Reqs, Die(r) PROVE ReqOK' /\ Shapes'
    <3>1. UNCHANGED Stored
      BY <2>5 DEF Die, rows, chats, meters, Stored
    <3> QED BY <1>2, <2>5, <3>1, DieReqs DEF Stored, Shapes, SessionIds, ConvIds, Exists
  <2> QED BY <1>2, <2>1, <2>2, <2>3, <2>4, <2>5 DEF Next
<1> QED BY <1>1, <1>2, PTL DEF Spec

(* Every row and every request has its type, and no row ever refers to     *)
(* one that is gone: TypeOK, whatever requests come.                       *)
THEOREM TypeOKHolds == Spec => []TypeOK
<1>1. ReqOK /\ Shapes => TypeOK
  BY DEF ReqOK, Shapes, TypeOK, Call
<1> QED BY <1>1, ShapesHold, PTL

(***************************************************************************)
(* Rows and objects agree: every key a row names is in the bucket, and     *)
(* every object without a row is accounted for, for any set of requests.   *)
(*                                                                         *)
(* Two things are needed beyond the two properties.  A key that a request  *)
(* may still write a row for is no other request's to delete, because what *)
(* a delete takes is or was a row, and a key has a row only once; and a    *)
(* request that is about to delete objects has no row of them left.        *)
(***************************************************************************)

\* The steps from which a turn may still come to store its result.
Turning == {"idle", "t_file", "g_spend", "g_count", "g_row", "t_input", "t_insert",
            "t_preview", "t_call", "t_ledger", "t_refuse", "t_fail", "t_dataset",
            "t_kernel", "t_put", "t_complete", "n_turn", "n_object", "n_stream"}

\* Those of them at which it has no row of its own yet.
Before == {"idle", "t_file", "g_spend", "g_count", "g_row", "t_input", "t_insert"}

\* The keys of the rows that request r may still write.
Coming(r) ==
    (IF req[r].pc \in {"idle", "up_put", "up_row"} THEN {FileKey(r)} ELSE {})
    \cup (IF req[r].pc \in Turning
          THEN {ResultKey(r)} \cup {ArtifactKey(<<r, i>>) : i \in 1 .. Outputs} ELSE {})
    \cup (IF req[r].pc \in {"a_put", "a_row"}
          THEN {ArtifactKey(<<r, i>>) : i \in req[r].k .. Outputs} ELSE {})

\* The keys of the objects that it may still delete.
Targets(r) ==
    req[r].keys
    \cup (IF req[r].pc \in {"df_project", "df_count", "df_row", "df_object"}
          THEN {FileKey(req[r].file)} ELSE {})
    \cup (IF req[r].pc \in {"da_row", "da_object"} THEN {ArtifactKey(req[r].art)} ELSE {})

\* The two halves of Held: the key its next step writes a row for, and the
\* objects its next step deletes.
Naming(r) ==
    CASE At(r, "up_row")     -> {FileKey(r)}
      [] At(r, "t_complete") -> {ResultKey(r)}
      [] At(r, "a_row")      -> {ArtifactKey(<<r, req[r].k>>)}
      [] OTHER               -> {}

Doomed(r) ==
    CASE At(r, "df_object")  -> {FileKey(req[r].file)}
      [] At(r, "da_object")  -> {ArtifactKey(req[r].art)}
      [] At(r, "objects")    -> req[r].keys
      [] OTHER               -> {}

\* The keys of the rows that a batch takes.
Losing(r) == IF req[r].op = "deleteSession" THEN SessionKeys(req[r].on) ELSE RowKeys

Reserved == \A r, q \in Reqs : Targets(q) \cap Coming(r) = {}
Fresh  == \A r \in Reqs : RowKeys \cap Coming(r) = {}
Named  == \A r \in Reqs : Naming(r) \subseteq objects
Gone   == \A r \in Reqs : Doomed(r) \cap RowKeys = {}
Listed == \A r \in Reqs : At(r, "batch") =>
             /\ Losing(r) \subseteq req[r].keys \cup late
             /\ req[r].op = "deleteSession" =>
                  /\ req[r].keys \subseteq {ResultKey(t) : t \in Ids}
                  /\ \A u \in turns : ResultKey(u.id) \in req[r].keys
                                         => u.session = req[r].on

\* A turn has one row.
OneRow == /\ \A r \in Reqs : req[r].pc \in Before => \A u \in turns : u.id # r
          /\ \A u, v \in turns : u.id = v.id => u.session = v.session

\* What is deleted is an output of a turn.
Chosen == \A r \in Reqs : req[r].pc \in {"da_row", "da_object"} => req[r].art \in ArtifactIds

KeysInv == /\ Chosen /\ OneRow /\ Reserved /\ Fresh /\ Named /\ Gone /\ Listed
           /\ RowsHaveObjects /\ OrphansAccounted

------------------------------------------------------------------------------
(* What every step of a request does to rows, objects and requests.        *)

Effect(r) ==
    /\ \A q \in Reqs : q # r => req'[q] = req[q]
    /\ Coming(r)' \subseteq Coming(r)
    /\ Targets(r)' \subseteq Targets(r) \cup RowKeys
    /\ RowKeys' \subseteq RowKeys \cup (Naming(r) \ Coming(r)')
    /\ objects \ Doomed(r) \subseteq objects'
    /\ objects' \subseteq objects \cup Naming(r)'
    /\ Naming(r)' \subseteq objects'
    /\ Doomed(r)' \cap RowKeys' = {}
    /\ lost \subseteq lost'
    /\ objects' \cap (RowKeys \cup Held(r)) \subseteq RowKeys' \cup Held(r)' \cup lost' \cup late
    /\ \A u \in turns' : \/ \E v \in turns : v.id = u.id /\ v.session = u.session
                         \/ u.id = r /\ u.session = req[r].on /\ req[r].pc \in Before
    /\ req'[r].pc \in Before => req[r].pc \in Before /\ turns' = turns
    /\ \A s \in Ids : SessionKeys(s)' \subseteq SessionKeys(s) \cup (RowKeys' \ RowKeys)
    /\ req'[r].pc \in {"da_row", "da_object"} => req'[r].art \in ArtifactIds

\* A batch stands before its request only after it has read the keys.
Reads(r) ==
    At(r, "batch")' =>
        /\ req'[r].keys = Losing(r)' /\ UNCHANGED <<turns, files, artifacts>>

Late == late' = IF \E q \in Reqs : At(q, "batch")
                THEN late \cup (RowKeys' \ RowKeys) ELSE late

LEMMA HeldIs == ASSUME NEW r PROVE Held(r) = Naming(r) \cup Doomed(r)
  BY DEF Held, Naming, Doomed, At

LEMMA NamingComes ==
  ASSUME ReqOK, NEW r \in Reqs
  PROVE  Naming(r) \subseteq Coming(r)
<1>1. At(r, "a_row") => req[r].k \in req[r].k .. Outputs
  BY BoundsAssumption DEF ReqOK, Stage, At, Call
<1> QED BY <1>1 DEF Naming, Coming, At, Turning

LEMMA DoomedTargets == ASSUME NEW r PROVE Doomed(r) \subseteq Targets(r)
  BY DEF Doomed, Targets, At

\* What is said of a request depends on that request alone.
LEMMA OthersSame ==
  ASSUME NEW q, req'[q] = req[q]
  PROVE  /\ Coming(q)' = Coming(q) /\ Targets(q)' = Targets(q)
         /\ Naming(q)' = Naming(q) /\ Doomed(q)' = Doomed(q) /\ Held(q)' = Held(q)
  BY DEF Coming, Targets, Naming, Doomed, Held, At, FileKey, ResultKey, ArtifactKey

LEMMA KeysStep ==
  ASSUME ReqOK, Shapes, KeysInv, NEW r \in Reqs, Effect(r), Reads(r), Late
  PROVE  KeysInv'
<1>1. \A q \in Reqs : q # r =>
         /\ Coming(q)' = Coming(q) /\ Targets(q)' = Targets(q)
         /\ Naming(q)' = Naming(q) /\ Doomed(q)' = Doomed(q) /\ Held(q)' = Held(q)
  BY OthersSame DEF Effect
<1>2. \A q \in Reqs : Naming(q) \subseteq Coming(q)
  BY NamingComes
<1>3. Reserved'
  BY <1>1 DEF Effect, KeysInv, Reserved, Fresh
<1>4. Fresh'
  <2> SUFFICES ASSUME NEW q \in Reqs PROVE (RowKeys \cap Coming(q) = {})'
    BY DEF Fresh
  <2>1. CASE q = r
    BY <2>1 DEF Effect, KeysInv, Fresh
  <2>2. CASE q # r
    <3>1. Naming(r) \cap Coming(q) = {}
      BY <1>2, <2>2 DEF Naming, Coming, At, FileKey, ResultKey, ArtifactKey
    <3> QED BY <1>1, <2>2, <3>1 DEF Effect, KeysInv, Fresh
  <2> QED BY <2>1, <2>2
<1>5. Named'
  <2> SUFFICES ASSUME NEW q \in Reqs, q # r PROVE Naming(q) \subseteq objects'
    BY <1>1 DEF Effect, Named
  <2>1. Naming(q) \cap Doomed(r) = {}
    BY <1>2, DoomedTargets DEF KeysInv, Reserved
  <2> QED BY <2>1 DEF Effect, KeysInv, Named
<1>6. Gone'
  <2> SUFFICES ASSUME NEW q \in Reqs, q # r PROVE Doomed(q) \cap RowKeys' = {}
    BY <1>1 DEF Effect, Gone
  <2>1. Naming(r) \cap Doomed(q) = {}
    BY <1>2, DoomedTargets DEF KeysInv, Reserved
  <2> QED BY <2>1 DEF Effect, KeysInv, Gone
<1>7. RowsHaveObjects'
  <2>1. Naming(r) \cap Doomed(r) = {}
    BY <1>2, DoomedTargets DEF KeysInv, Reserved
  <2> QED BY <2>1 DEF Effect, KeysInv, RowsHaveObjects, Gone, Named
<1>8. OrphansAccounted'
  <2>1. late \subseteq late'
    BY DEF Late
  <2> SUFFICES ASSUME NEW key \in objects',
                      key \notin RowKeys', key \notin lost', key \notin late'
               PROVE  \E q \in Reqs : key \in Held(q)'
    BY DEF OrphansAccounted
  <2>2. CASE key \in Naming(r)'
    BY <2>2, HeldIs DEF Held, Naming, At
  <2>3. CASE key \in RowKeys \cup Held(r)
    BY <2>1, <2>3 DEF Effect
  <2>4. CASE key \notin RowKeys \cup Held(r) /\ key \in objects
    <3>1. PICK q \in Reqs : key \in Held(q)
      BY <2>1, <2>4 DEF Effect, KeysInv, OrphansAccounted
    <3> QED BY <1>1, <2>4, <3>1
  <2> QED BY <2>2, <2>3, <2>4 DEF Effect
<1>9. Listed'
  <2> SUFFICES ASSUME NEW q \in Reqs, q # r, At(q, "batch")
               PROVE  /\ Losing(q)' \subseteq req[q].keys \cup late'
                      /\ req[q].op = "deleteSession" =>
                           /\ req[q].keys \subseteq {ResultKey(t) : t \in Ids}
                           /\ \A u \in turns' : ResultKey(u.id) \in req[q].keys
                                                  => u.session = req[q].on
    <3>1. ASSUME At(r, "batch")'
          PROVE  /\ Losing(r)' \subseteq req'[r].keys \cup late'
                 /\ req'[r].op = "deleteSession" =>
                           /\ req'[r].keys \subseteq {ResultKey(t) : t \in Ids}
                           /\ \A u \in turns' : ResultKey(u.id) \in req'[r].keys
                                                  => u.session = req'[r].on
      <4>1. req'[r].keys = Losing(r)' /\ turns' = turns
        BY <3>1 DEF Reads
      <4>2. ASSUME req'[r].op = "deleteSession"
            PROVE  Losing(r)' = SessionKeys(req[r].on)'
        BY <4>2 DEF Losing
      <4>3. \A u \in turns : u.id \in Ids
        BY DEF Shapes
      <4>4. SessionKeys(req[r].on)' =
               {ResultKey(t.id) : t \in {u \in turns : u.session = req'[r].on
                                                      /\ u.status = "completed"}}
        BY <4>1 DEF SessionKeys
      <4>5. ASSUME req'[r].op = "deleteSession",
                   NEW u \in turns, ResultKey(u.id) \in req'[r].keys
            PROVE  u.session = req'[r].on
        <5>1. PICK t \in turns : t.session = req'[r].on /\ ResultKey(u.id) = ResultKey(t.id)
          BY <4>1, <4>2, <4>4, <4>5
        <5>2. u.id = t.id
          BY <5>1 DEF ResultKey
        <5> QED BY <5>1, <5>2 DEF KeysInv, OneRow
      <4>6. ASSUME req'[r].op = "deleteSession"
            PROVE  req'[r].keys \subseteq {ResultKey(t) : t \in Ids}
        BY <4>1, <4>2, <4>3, <4>4, <4>6
      <4> QED BY <4>1, <4>5, <4>6
    <3>2. ASSUME NEW x \in Reqs, At(x, "batch")'
          PROVE  /\ Losing(x)' \subseteq req'[x].keys \cup late'
                 /\ req'[x].op = "deleteSession" =>
                           /\ req'[x].keys \subseteq {ResultKey(t) : t \in Ids}
                           /\ \A u \in turns' : ResultKey(u.id) \in req'[x].keys
                                                  => u.session = req'[x].on
      <4>1. CASE x = r
        BY <3>1, <3>2, <4>1
      <4>2. CASE x # r
        <5>1. req'[x] = req[x] /\ At(x, "batch")
          BY <3>2, <4>2 DEF Effect, At
        <5> QED BY <4>2, <5>1
      <4> QED BY <4>1, <4>2
    <3> QED BY <3>2 DEF Listed
  <2>1. late' = late \cup (RowKeys' \ RowKeys) /\ req'[q] = req[q] /\ req[q].on \in Ids
    BY DEF Late, Effect, ReqOK, Call
  <2>2. Losing(q)' \subseteq Losing(q) \cup (RowKeys' \ RowKeys)
    BY <2>1 DEF Losing, Effect
  <2>3. \A u \in turns' : ResultKey(u.id) \in req[q].keys => ResultKey(u.id) \notin Coming(r)
    BY DEF KeysInv, Reserved, Targets
  <2>4. req[r].pc \in Before => ResultKey(r) \in Coming(r)
    BY DEF Before, Turning, Coming
  <2> QED BY <2>1, <2>2, <2>3, <2>4 DEF Effect, KeysInv, Listed
<1>10. OneRow'
  BY DEF Effect, KeysInv, OneRow
<1>11. Chosen'
  BY DEF Effect, KeysInv, Chosen
<1> QED BY <1>11, <1>10, <1>3, <1>4, <1>5, <1>6, <1>7, <1>8, <1>9 DEF KeysInv

------------------------------------------------------------------------------
(* The steps that leave rows and objects alone.                            *)

Loud     == {"up_row", "t_complete", "a_row", "df_object", "da_object", "objects", "batch"}
Dropping == {"df_project", "df_count", "df_row"}
Closed   == Labels \ (Turning \cup Dropping \cup Loud \cup {"up_put", "a_put", "da_row"})

Silent == UNCHANGED <<turns, files, artifacts, objects>>

LEMMA QuietEffect ==
  ASSUME ReqOK, NEW r \in Reqs, \A q \in Reqs : q # r => req'[q] = req[q],
         req'[r].pc # "idle", Silent, lost \cup Held(r) \subseteq lost',
         req'[r].keys \subseteq req[r].keys,
         \/ req'[r].pc \in Closed
         \/ req[r].pc = "idle" /\ req'[r].pc \in {"up_put"} \cup Before
         \/ /\ req[r].pc \in Turning /\ req'[r].pc \in Turning \ Loud
            /\ req'[r].pc \in Before => req[r].pc \in Before
         \/ req[r].pc \in Dropping /\ req'[r].pc \in Dropping /\ req'[r].file = req[r].file
  PROVE  Effect(r) /\ Reads(r)
<1>1. UNCHANGED RowKeys /\ \A s \in Ids : UNCHANGED SessionKeys(s)
  BY DEF Silent, RowKeys, FileKeys, ResultKeys, ArtifactKeys, SessionKeys, FileKey,
         ResultKey, ArtifactKey
<1>2. req'[r].pc \notin Loud
  BY DEF Closed, Before, Dropping, Loud
<1>3. Naming(r)' = {} /\ Doomed(r)' = {} /\ ~At(r, "batch")'
  BY <1>2 DEF Naming, Doomed, At, Loud
<1>4. Coming(r)' \subseteq Coming(r)
  <2>1. CASE req'[r].pc \in Closed \cup Dropping
    <3>1. Coming(r)' = {}
      BY <2>1 DEF Coming, Closed, Dropping, Loud, Turning
    <3> QED BY <3>1
  <2>2. CASE req[r].pc \in Turning /\ req'[r].pc \in Turning \ Loud /\ req'[r].pc # "idle"
    <3>1. Coming(r)' = {ResultKey(r)} \cup {ArtifactKey(<<r, i>>) : i \in 1 .. Outputs}
      BY <2>2 DEF Coming, Turning, FileKey, ResultKey, ArtifactKey
    <3> QED BY <2>2, <3>1 DEF Coming
  <2>3. CASE req[r].pc = "idle" /\ req'[r].pc = "up_put"
    BY <2>3 DEF Coming, Turning, FileKey
  <2> QED BY <2>1, <2>2, <2>3 DEF Before, Turning, Loud
<1>5. Targets(r)' \subseteq Targets(r)
  BY DEF Targets, Closed, Turning, Before, Dropping, Loud, FileKey, ArtifactKey
<1>6. req'[r].pc \in Before => req[r].pc \in Before
  BY DEF Closed, Turning, Before, Dropping
<1>7. req'[r].pc \notin {"da_row", "da_object"}
  BY DEF Closed, Turning, Before, Dropping, Loud
<1> QED BY <1>1, <1>3, <1>4, <1>5, <1>6, <1>7 DEF Effect, Reads, Silent

\* The fields of a request after each way of moving it on.
LEMMA GoIs ==
  ASSUME ReqOK, NEW r \in Reqs, NEW l, Go(r, l)
  PROVE  /\ \A q \in Reqs : q # r => req'[q] = req[q]
         /\ req'[r].pc = l /\ req'[r].keys = req[r].keys /\ req'[r].op = req[r].op
         /\ req'[r].file = req[r].file /\ req'[r].art = req[r].art
         /\ req'[r].on = req[r].on /\ req'[r].n = req[r].n /\ req'[r].k = req[r].k
         /\ req'[r].calls = req[r].calls
  BY DEF ReqOK, Go, Becomes, Call

LEMMA AnswerIs ==
  ASSUME ReqOK, NEW r \in Reqs, NEW how, Answer(r, how)
  PROVE  /\ \A q \in Reqs : q # r => req'[q] = req[q]
         /\ req'[r].pc = how /\ req'[r].keys = {} /\ req'[r].op = req[r].op
         /\ req'[r].file = req[r].file /\ req'[r].art = req[r].art
         /\ req'[r].on = req[r].on /\ req'[r].n = req[r].n /\ req'[r].k = req[r].k
         /\ req'[r].calls = req[r].calls
  BY DEF ReqOK, Answer, Becomes, Call

LEMMA BecomesIs ==
  ASSUME ReqOK, NEW r \in Reqs, NEW q, Becomes(r, q)
  PROVE  req'[r] = q /\ \A x \in Reqs : x # r => req'[x] = req[x]
  BY DEF ReqOK, Becomes

LEMMA EndedClosed == Ended \subseteq Closed
  BY DEF Ended, Closed, Labels, Turning, Dropping, Loud

LEMMA OpenQuiet ==
  ASSUME ReqOK, NEW r \in Reqs, NEW q, Admit(r, q), q.keys = {},
         q.pc \in Closed \cup {"up_put", "t_file", "g_spend"}, Silent, lost' = lost
  PROVE  Effect(r) /\ Reads(r)
<1>1. req[r].pc = "idle" /\ Held(r) = {}
  BY DEF Admit, At, Held
<1>2. q.pc # "idle"
  BY DEF Closed, Turning
<1>3. q.pc \in Closed \/ q.pc \in {"up_put"} \cup Before
  BY DEF Before
<1> QED BY <1>1, <1>2, <1>3, BecomesIs, QuietEffect DEF Admit

LEMMA GoQuiet ==
  ASSUME ReqOK, NEW r \in Reqs, NEW l, Go(r, l), Silent, lost' = lost,
         req[r].pc \notin Loud \cup {"idle"}, l # "idle",
         \/ l \in Closed
         \/ req[r].pc \in Turning /\ l \in Turning \ Loud /\ (l \in Before => req[r].pc \in Before)
         \/ req[r].pc \in Dropping /\ l \in Dropping
  PROVE  Effect(r) /\ Reads(r)
<1>1. Held(r) = {}
  BY DEF Held, At, Loud
<1> QED BY <1>1, GoIs, QuietEffect

LEMMA AnswerQuiet ==
  ASSUME ReqOK, NEW r \in Reqs, NEW how \in Ended, Answer(r, how), Silent,
         lost \cup Held(r) \subseteq lost'
  PROVE  Effect(r) /\ Reads(r)
<1>1. how # "idle" /\ how \in Closed
  BY EndedClosed DEF Ended
<1> QED BY <1>1, AnswerIs, QuietEffect

LEMMA WorkspaceQuiet ==
  ASSUME ReqOK, NEW r \in Reqs,
         \/ CreateProject(r) \/ SetState(r) \/ SetStateRow(r) \/ Upload(r)
         \/ DeleteFileProject(r) \/ DeleteFileCount(r) \/ CreateSession(r)
         \/ CreateSessionFile(r) \/ CreateSessionRow(r) \/ DeleteSession(r)
         \/ DeleteProject(r) \/ Reset(r) \/ LogOrphans(r)
  PROVE  Effect(r) /\ Reads(r)
<1> USE DEF Silent, Rest, rows, history
<1>1. {"ok", "st_row", "cs_file", "cs_row", "keys"} \subseteq Closed
  BY DEF Closed, Labels, Turning, Dropping, Loud
<1>2. /\ Idle.keys = {}
      /\ \A op, f, o, l : /\ [Idle EXCEPT !.op = op, !.pc = l].pc = l
                          /\ [Idle EXCEPT !.op = op, !.pc = l].keys = {}
                          /\ [Idle EXCEPT !.op = op, !.file = f, !.pc = l].pc = l
                          /\ [Idle EXCEPT !.op = op, !.file = f, !.pc = l].keys = {}
                          /\ [Idle EXCEPT !.op = op, !.on = o, !.pc = l].pc = l
                          /\ [Idle EXCEPT !.op = op, !.on = o, !.pc = l].keys = {}
  BY DEF Idle
<1>3. CASE \/ CreateProject(r) \/ SetState(r) \/ Upload(r) \/ CreateSession(r)
           \/ DeleteSession(r) \/ DeleteProject(r) \/ Reset(r)
  <2>1. CASE CreateProject(r)
    <3> DEFINE q == [Idle EXCEPT !.op = "createProject", !.pc = "ok"]
    <3>1. Admit(r, q) /\ Silent /\ lost' = lost
      BY <2>1 DEF CreateProject
    <3>2. q.pc \in Closed \cup {"up_put", "t_file", "g_spend"} /\ q.keys = {}
      BY <1>1, <1>2
    <3> HIDE DEF Silent, q
    <3> QED BY <3>1, <3>2, OpenQuiet
  <2>2. CASE SetState(r)
    <3>1. PICK op \in {"archive", "unarchive"} : Admit(r, [Idle EXCEPT !.op = op, !.pc = "st_row"])
      BY <2>2 DEF SetState
    <3>2. Silent /\ lost' = lost
      BY <2>2 DEF SetState
    <3>3. [Idle EXCEPT !.op = op, !.pc = "st_row"].pc \in Closed
      BY <1>1, <1>2
    <3> HIDE DEF Silent
    <3> QED BY <1>2, <3>1, <3>2, <3>3, OpenQuiet
  <2>3. CASE Upload(r)
    <3> DEFINE q == [Idle EXCEPT !.op = "upload", !.pc = "up_put"]
    <3>1. Admit(r, q) /\ Silent /\ lost' = lost
      BY <2>3 DEF Upload
    <3>2. q.pc \in Closed \cup {"up_put", "t_file", "g_spend"} /\ q.keys = {}
      BY <1>1, <1>2
    <3> HIDE DEF Silent, q
    <3> QED BY <3>1, <3>2, OpenQuiet
  <2>4. CASE CreateSession(r)
    <3> DEFINE q(f) == [Idle EXCEPT !.op = "createSession", !.file = f, !.pc = "cs_file"]
    <3>1. PICK f \in Ids : Admit(r, q(f))
      BY <2>4 DEF CreateSession
    <3>2. Silent /\ lost' = lost
      BY <2>4 DEF CreateSession
    <3>3. q(f).pc \in Closed /\ q(f).keys = {}
      BY <1>1, <1>2
    <3> HIDE DEF Silent, q
    <3> QED BY <3>1, <3>2, <3>3, OpenQuiet
  <2>5. CASE DeleteSession(r)
    <3> DEFINE q(s) == [Idle EXCEPT !.op = "deleteSession", !.on = s, !.pc = "keys"]
    <3>1. PICK s \in SessionIds : Admit(r, q(s))
      BY <2>5 DEF DeleteSession
    <3>2. Silent /\ lost' = lost
      BY <2>5 DEF DeleteSession
    <3>3. q(s).pc \in Closed /\ q(s).keys = {}
      BY <1>1, <1>2
    <3> HIDE DEF Silent, q
    <3> QED BY <3>1, <3>2, <3>3, OpenQuiet
  <2>6. CASE DeleteProject(r)
    <3> DEFINE q == [Idle EXCEPT !.op = "deleteProject", !.pc = "keys"]
    <3>1. Admit(r, q) /\ Silent /\ lost' = lost
      BY <2>6 DEF DeleteProject
    <3>2. q.pc \in Closed \cup {"up_put", "t_file", "g_spend"} /\ q.keys = {}
      BY <1>1, <1>2
    <3> HIDE DEF Silent, q
    <3> QED BY <3>1, <3>2, OpenQuiet
  <2>7. CASE Reset(r)
    <3> DEFINE q == [Idle EXCEPT !.op = "reset", !.pc = "keys"]
    <3>1. Admit(r, q) /\ Silent /\ lost' = lost
      BY <2>7 DEF Reset
    <3>2. q.pc \in Closed \cup {"up_put", "t_file", "g_spend"} /\ q.keys = {}
      BY <1>1, <1>2
    <3> HIDE DEF Silent, q
    <3> QED BY <3>1, <3>2, OpenQuiet
  <2> QED BY <1>3, <2>1, <2>2, <2>3, <2>4, <2>5, <2>6, <2>7
<1>4. CASE \/ SetStateRow(r) \/ DeleteFileProject(r) \/ DeleteFileCount(r)
           \/ CreateSessionFile(r) \/ CreateSessionRow(r)
  <2>1. /\ {"df_count", "df_row"} \subseteq Dropping /\ {"ok", "refused"} \subseteq Ended
        /\ req[r].pc \notin Loud \cup {"idle"} /\ Held(r) = {}
        /\ DeleteFileProject(r) \/ DeleteFileCount(r) => req[r].pc \in Dropping
    BY <1>4 DEF Dropping, Ended, Held, At, Loud, SetStateRow, DeleteFileProject,
       DeleteFileCount, CreateSessionFile, CreateSessionRow
  <2>2. "df_count" # "idle" /\ "df_row" # "idle" /\ "cs_row" # "idle"
    OBVIOUS
  <2> QED BY <1>1, <1>4, <2>1, <2>2, GoQuiet, AnswerQuiet DEF SetStateRow, DeleteFileProject,
       DeleteFileCount, CreateSessionFile, CreateSessionRow
<1>5. CASE LogOrphans(r)
  <2>1. Held(r) = req[r].keys /\ "ok" \in Ended
    BY <1>5 DEF LogOrphans, Held, At, Ended
  <2> QED BY <1>5, <2>1, AnswerQuiet DEF LogOrphans
<1> QED BY <1>3, <1>4, <1>5

LEMMA DieQuiet ==
  ASSUME ReqOK, NEW r \in Reqs, Die(r)
  PROVE  Effect(r) /\ Reads(r)
  BY AnswerQuiet DEF Die, Silent, rows, Ended

LEMMA BecomesQuiet ==
  ASSUME ReqOK, NEW r \in Reqs, NEW q, Becomes(r, q), Silent, lost' = lost,
         req[r].pc \notin Loud \cup {"idle"}, q.pc # "idle", q.keys = req[r].keys,
         \/ q.pc \in Closed
         \/ req[r].pc \in Turning /\ q.pc \in Turning \ Loud /\ (q.pc \in Before => req[r].pc \in Before)
  PROVE  Effect(r) /\ Reads(r)
<1>1. Held(r) = {}
  BY DEF Held, At, Loud
<1> QED BY <1>1, BecomesIs, QuietEffect

LEMMA TurnQuiet ==
  ASSUME ReqOK, NEW r \in Reqs,
         \/ GuardSpend(r) \/ GuardCount(r) \/ GuardRow(r)
         \/ Turn(r) \/ TurnFile(r) \/ TurnInput(r) \/ TurnPreview(r)
         \/ CallModel(r) \/ RecordCall(r) \/ TurnDataset(r) \/ CallKernel(r)
         \/ Narrate(r) \/ NarrateTurn(r) \/ NarrateObject(r)
         \/ NarrateStream(r) \/ NarrateClose(r)
  PROVE  Effect(r) /\ Reads(r)
<1> USE DEF Unmetered, rows, history
<1>1. Silent /\ lost' = lost
  BY DEF Silent, GuardSpend, GuardCount, GuardRow, Turn, TurnFile, TurnInput, TurnPreview,
     CallModel, RecordCall, TurnDataset, CallKernel, Narrate, NarrateTurn, NarrateObject,
     NarrateStream, NarrateClose
<1>2. "refused" \in Ended /\ "ok" \in Ended /\ {"c_user", "c_drop", "n_close"} \subseteq Closed
  BY DEF Ended, Closed, Labels, Turning, Dropping, Loud
<1>3. req[r] \in Call /\ Stage(req[r])
  BY DEF ReqOK
<1>4. CASE Turn(r)
  <2>1. PICK u \in sessions, a \in (Ids \X (2 .. Outputs)) \cup {<<>>} :
           Admit(r, [Idle EXCEPT !.op = "turn", !.on = u.id, !.file = u.file,
                                 !.art = a, !.pc = "t_file"])
    BY <1>4 DEF Turn
  <2> DEFINE q == [Idle EXCEPT !.op = "turn", !.on = u.id, !.file = u.file,
                               !.art = a, !.pc = "t_file"]
  <2>2. q.keys = {} /\ q.pc = "t_file"
    BY DEF Idle
  <2> QED BY <1>1, <2>1, <2>2, OpenQuiet
<1>5. CASE Narrate(r)
  <2>1. PICK t \in TurnIds :
           Admit(r, [Idle EXCEPT !.op = "narrate", !.on = t, !.pc = "g_spend"])
    BY <1>5 DEF Narrate
  <2> DEFINE q == [Idle EXCEPT !.op = "narrate", !.on = t, !.pc = "g_spend"]
  <2>2. q.keys = {} /\ q.pc = "g_spend"
    BY DEF Idle
  <2> QED BY <1>1, <2>1, <2>2, OpenQuiet
<1>6. CASE \/ GuardSpend(r) \/ TurnFile(r) \/ TurnInput(r) \/ TurnPreview(r)
           \/ TurnDataset(r) \/ NarrateTurn(r) \/ NarrateObject(r) \/ NarrateClose(r)
  <2>1. PICK l \in {"g_spend", "g_count", "t_insert", "t_call", "t_fail", "t_kernel",
                    "n_object", "n_stream", "ok", "refused"} :
          /\ Go(r, l) \/ (l \in Ended /\ Answer(r, l))
          /\ req[r].pc \in Turning \ (Loud \cup {"idle"}) \/ req[r].pc = "n_close"
          /\ l \in Before => req[r].pc \in Before
          /\ l \in Ended \/ (l \in Turning \ Loud /\ l # "idle" /\ req[r].pc # "n_close")
    BY <1>2, <1>6 DEF GuardSpend, TurnFile, TurnInput, TurnPreview, TurnDataset, NarrateTurn,
       NarrateObject, NarrateClose, At, Before, Turning, Loud, Ended
  <2>2. Held(r) = {} /\ req[r].pc \notin Loud \cup {"idle"}
    BY <2>1 DEF Held, At, Loud, Turning
  <2>3. l \in Ended => l \in Closed /\ l # "idle"
    BY EndedClosed DEF Ended
  <2> QED BY <1>1, <2>1, <2>2, <2>3, GoQuiet, AnswerQuiet
<1>7. CASE GuardCount(r) \/ GuardRow(r)
  <2>1. PICK l \in {"g_row", "t_input", "n_turn", "c_user", "c_drop"}, n \in Nat \cup {rate[RouteOf(r)]} :
           \/ Answer(r, "refused") /\ req[r].pc = "g_count"
           \/ /\ Becomes(r, [req[r] EXCEPT !.pc = l, !.n = n])
              /\ req[r].pc \in {"g_count", "g_row"}
    <3>1. GuardRow(r) => AfterGuard(r) \in {"t_input", "n_turn", "c_user", "c_drop"}
      BY <1>3 DEF GuardRow, At, AfterGuard, Stage, Guarded, ModelOps
    <3> QED BY <1>7, <3>1 DEF GuardCount, GuardRow, At
  <2> DEFINE q == [req[r] EXCEPT !.pc = l, !.n = n]
  <2>2. q.pc = l /\ q.keys = req[r].keys
    BY <1>3 DEF Call
  <2>3. \/ l \in Closed
        \/ l \in Turning \ Loud /\ l # "idle"
    BY <1>2 DEF Turning, Loud
  <2>4. {"g_count", "g_row"} \subseteq Turning \ (Loud \cup {"idle"})
        /\ {"g_count", "g_row"} \subseteq Before /\ l # "idle"
    BY DEF Turning, Loud, Before
  <2>5. req[r].pc = "g_count" => Held(r) = {}
    BY DEF Held, At
  <2> QED BY <1>1, <1>2, <2>1, <2>2, <2>3, <2>4, <2>5, BecomesQuiet, AnswerQuiet
<1>8. CASE CallModel(r) \/ NarrateStream(r) \/ RecordCall(r)
  <2>1. /\ {"t_ledger", "t_refuse", "t_fail", "t_dataset"} \subseteq Turning \ (Loud \cup Before)
        /\ {"t_call", "t_ledger", "n_stream"} \subseteq Turning \ (Loud \cup Before \cup {"idle"})
    BY DEF Turning, Loud, Before
  <2>2. ASSUME NEW q, Becomes(r, q), q.keys = req[r].keys,
               q.pc \in {"t_call", "t_ledger", "t_refuse", "t_fail", "t_dataset", "n_close"},
               req[r].pc \in {"t_call", "t_ledger", "n_stream"}
        PROVE  Effect(r) /\ Reads(r)
    BY <1>1, <1>2, <2>1, <2>2, BecomesQuiet
  <2>4. CASE CallModel(r)
    <3>1. req[r].pc = "t_call"
      BY <2>4 DEF CallModel, At
    <3>2. CASE Becomes(r, [req[r] EXCEPT !.calls = 1])
      <4> DEFINE q == [req[r] EXCEPT !.calls = 1]
      <4>1. q.pc = "t_call" /\ q.keys = req[r].keys
        BY <1>3, <3>1 DEF Call
      <4> QED BY <2>2, <3>1, <3>2, <4>1
    <3>3. ASSUME NEW t, Becomes(r, WithCalls(req[r], "t_ledger", t, req[r].calls + 1))
          PROVE  Effect(r) /\ Reads(r)
      <4> DEFINE q == WithCalls(req[r], "t_ledger", t, req[r].calls + 1)
      <4>1. q.pc = "t_ledger" /\ q.keys = req[r].keys
        BY <1>3 DEF Call, WithCalls
      <4> QED BY <2>2, <3>1, <3>3, <4>1
    <3> QED BY <2>4, <3>2, <3>3 DEF CallModel, WithCalls
  <2>5. CASE NarrateStream(r)
    <3> DEFINE q == WithCalls(req[r], "t_ledger", "n_close", 1)
    <3>1. req[r].pc = "n_stream" /\ Becomes(r, q)
      BY <2>5 DEF NarrateStream, At, WithCalls
    <3>2. q.pc = "t_ledger" /\ q.keys = req[r].keys
      BY <1>3 DEF Call, WithCalls
    <3> QED BY <2>2, <3>1, <3>2
  <2>6. CASE RecordCall(r)
    <3>1. /\ req[r].pc = "t_ledger"
          /\ req[r].then \in {"t_refuse", "t_fail", "t_dataset", "n_close"}
      BY <1>3, <2>6 DEF RecordCall, At, Stage, Call, Thens
    <3>2. CASE Becomes(r, [req[r] EXCEPT !.pc = req[r].then, !.calls = 0])
      <4> DEFINE q == [req[r] EXCEPT !.pc = req[r].then, !.calls = 0]
      <4>1. q.pc = req[r].then /\ q.keys = req[r].keys
        BY <1>3 DEF Call
      <4> QED BY <2>2, <3>1, <3>2, <4>1
    <3>3. CASE Becomes(r, [req[r] EXCEPT !.calls = @ - 1])
      <4> DEFINE q == [req[r] EXCEPT !.calls = @ - 1]
      <4>1. q.pc = "t_ledger" /\ q.keys = req[r].keys
        BY <1>3, <3>1 DEF Call
      <4> QED BY <2>2, <3>1, <3>3, <4>1
    <3> QED BY <2>6, <3>2, <3>3 DEF RecordCall
  <2> QED BY <1>8, <2>4, <2>5, <2>6
<1>9. CASE CallKernel(r)
  <2>1. req[r].pc = "t_kernel" /\ "t_kernel" \in Turning \ (Loud \cup {"idle"} \cup Before)
        /\ {"t_fail", "t_put"} \subseteq Turning \ (Loud \cup Before)
    BY <1>9 DEF CallKernel, At, Turning, Loud, Before
  <2>2. CASE Go(r, "t_fail")
    BY <1>1, <2>1, <2>2, GoQuiet
  <2>3. CASE \E q : /\ Becomes(r, q) /\ q.pc \in {"t_kernel", "t_put"}
                    /\ q.keys = req[r].keys
    BY <1>1, <2>1, <2>3, BecomesQuiet
  <2>4. /\ \A m : [req[r] EXCEPT !.pc = "t_put", !.n = m].pc = "t_put"
        /\ \A m : [req[r] EXCEPT !.pc = "t_put", !.n = m].keys = req[r].keys
        /\ [req[r] EXCEPT !.n = 1].pc = "t_kernel" /\ [req[r] EXCEPT !.n = 1].keys = req[r].keys
    BY <1>3, <2>1 DEF Call
  <2> QED BY <1>9, <2>2, <2>3, <2>4 DEF CallKernel
<1> QED BY <1>4, <1>5, <1>6, <1>7, <1>8, <1>9

LEMMA ChatQuiet ==
  ASSUME ReqOK, NEW r \in Reqs, ChatStep(r)
  PROVE  Effect(r) /\ Reads(r)
<1> USE DEF Apart, rows
<1>1. Silent /\ lost' = lost
  BY DEF Silent, ChatStep, CreateChat, CreateBoundChat, CreateBoundChatRow, PatchChat,
     PatchChatProject, PatchChatRow, DeleteChat, DeleteChatRows, Stream, StoreQuestion,
     DropAnswer, CallChatModel, EndStream, AbortStream, RecordUsage, StoreAnswer
<1>2. /\ {"cc_row", "pc_project", "pc_row", "dc_rows", "c_stream", "c_end", "c_usage",
         "c_answer", "ok", "dead", "refused"} \subseteq Closed
      /\ {"ok", "dead", "refused"} \subseteq Ended
  BY DEF Ended, Closed, Labels, Turning, Dropping, Loud
<1>3. req[r] \in Call
  BY DEF ReqOK
<1>4. CASE CreateChat(r) \/ CreateBoundChat(r) \/ PatchChat(r) \/ DeleteChat(r) \/ Stream(r)
  <2>1. ASSUME NEW q, Admit(r, q), q.keys = {}, q.pc \in Closed \cup {"g_spend"}
        PROVE  Effect(r) /\ Reads(r)
    BY <1>1, <2>1, OpenQuiet
  <2>3. CASE CreateChat(r)
    <3> DEFINE q == [Idle EXCEPT !.op = "createChat", !.pc = "ok"]
    <3>1. q.keys = {} /\ q.pc = "ok" /\ Admit(r, q)
      BY <2>3 DEF Idle, CreateChat
    <3> QED BY <1>2, <2>1, <3>1
  <2>4. CASE CreateBoundChat(r)
    <3> DEFINE q == [Idle EXCEPT !.op = "createChat", !.pc = "cc_row"]
    <3>1. q.keys = {} /\ q.pc = "cc_row" /\ Admit(r, q)
      BY <2>4 DEF Idle, CreateBoundChat
    <3> QED BY <1>2, <2>1, <3>1
  <2>5. CASE PatchChat(r)
    <3> DEFINE bind(c) == [Idle EXCEPT !.op = "bindChat", !.on = c.id, !.pc = "pc_project"]
               free(c) == [Idle EXCEPT !.op = "freeChat", !.on = c.id, !.pc = "pc_row"]
               name(c) == [Idle EXCEPT !.op = "renameChat", !.on = c.id, !.pc = "pc_row",
                                       !.n = IF c.bound THEN 1 ELSE 0]
    <3>1. PICK c \in convs : Admit(r, bind(c)) \/ Admit(r, free(c)) \/ Admit(r, name(c))
      BY <2>5 DEF PatchChat
    <3>2. /\ bind(c).keys = {} /\ bind(c).pc = "pc_project"
          /\ free(c).keys = {} /\ free(c).pc = "pc_row"
          /\ name(c).keys = {} /\ name(c).pc = "pc_row"
      BY DEF Idle
    <3> QED BY <1>2, <2>1, <3>1, <3>2
  <2>6. CASE DeleteChat(r)
    <3> DEFINE q(c) == [Idle EXCEPT !.op = "deleteChat", !.on = c, !.pc = "dc_rows"]
    <3>1. PICK c \in ConvIds : Admit(r, q(c))
      BY <2>6 DEF DeleteChat
    <3>2. q(c).keys = {} /\ q(c).pc = "dc_rows"
      BY DEF Idle
    <3> QED BY <1>2, <2>1, <3>1, <3>2
  <2>7. CASE Stream(r)
    <3> DEFINE q(op, c, f) == [Idle EXCEPT !.op = op, !.on = c, !.file = f, !.pc = "g_spend"]
    <3> DEFINE f(c) == msgs[c][LastOf(msgs[c], "user")].of
    <3>1. PICK c \in ConvIds :
             Admit(r, q("send", c, r)) \/ Admit(r, q("regenerate", c, f(c)))
      BY <2>7 DEF Stream
    <3>2. \A op, x : q(op, c, x).keys = {} /\ q(op, c, x).pc = "g_spend"
      BY DEF Idle
    <3> HIDE DEF q, f
    <3> QED BY <2>1, <3>1, <3>2
  <2> QED BY <1>4, <2>3, <2>4, <2>5, <2>6, <2>7
<1>5. CASE ~(CreateChat(r) \/ CreateBoundChat(r) \/ PatchChat(r) \/ DeleteChat(r) \/ Stream(r))
  <2>1. req[r].pc \in {"cc_row", "pc_project", "pc_row", "dc_rows", "c_user", "c_drop",
                      "c_stream", "c_end", "c_usage", "c_answer"}
    BY <1>5 DEF ChatStep, At, CreateBoundChatRow, PatchChatProject, PatchChatRow,
       DeleteChatRows, StoreQuestion, DropAnswer, CallChatModel, EndStream, AbortStream,
       RecordUsage, StoreAnswer
  <2>2. req[r].pc \notin Loud \cup {"idle"} /\ Held(r) = {}
    BY <2>1 DEF Loud, Held, At
  <2>3. ASSUME NEW l \in Closed, Go(r, l) PROVE Effect(r) /\ Reads(r)
    BY <1>1, <2>2, <2>3, GoQuiet DEF Closed, Turning
  <2>4. ASSUME NEW how \in Ended, Answer(r, how) PROVE Effect(r) /\ Reads(r)
    BY <1>1, <2>2, <2>4, AnswerQuiet
  <2>5. ASSUME NEW q, Becomes(r, q), q.pc \in Closed, q.keys = req[r].keys
        PROVE  Effect(r) /\ Reads(r)
    BY <1>1, <2>2, <2>5, BecomesQuiet DEF Closed, Turning
  <2>6. CASE PatchChatProject(r)
    <3> DEFINE q == [req[r] EXCEPT !.pc = "pc_row", !.n = 1]
    <3>1. q.pc \in Closed /\ q.keys = req[r].keys
      BY <1>2, <1>3 DEF Call
    <3> QED BY <1>2, <2>4, <2>5, <2>6, <3>1 DEF PatchChatProject
  <2>7. CASE CallChatModel(r)
    <3> DEFINE q == [req[r] EXCEPT !.pc = "c_end", !.calls = 1]
    <3>1. q.pc \in Closed /\ q.keys = req[r].keys
      BY <1>2, <1>3 DEF Call
    <3> QED BY <2>5, <2>7, <3>1 DEF CallChatModel
  <2>8. CASE RecordUsage(r)
    <3> DEFINE q == [req[r] EXCEPT !.pc = "c_answer", !.calls = 0]
    <3>1. q.pc \in Closed /\ q.keys = req[r].keys
      BY <1>2, <1>3 DEF Call
    <3> QED BY <2>5, <2>8, <3>1 DEF RecordUsage
  <2>9. CASE \/ CreateBoundChatRow(r) \/ PatchChatRow(r) \/ DeleteChatRows(r)
             \/ StoreQuestion(r) \/ DropAnswer(r) \/ EndStream(r) \/ AbortStream(r)
             \/ StoreAnswer(r)
    BY <1>2, <2>3, <2>4, <2>9 DEF CreateBoundChatRow, PatchChatRow, DeleteChatRows,
       StoreQuestion, DropAnswer, EndStream, AbortStream, StoreAnswer
  <2> QED BY <1>5, <2>6, <2>7, <2>8, <2>9 DEF ChatStep
<1> QED BY <1>4, <1>5

------------------------------------------------------------------------------
(* The steps that change rows or objects.                                  *)

LEMMA SameTurns ==
  ASSUME turns' = turns
  PROVE  ResultKeys' = ResultKeys /\ \A s : SessionKeys(s)' = SessionKeys(s)
  BY DEF ResultKeys, SessionKeys

LEMMA SameRows ==
  ASSUME UNCHANGED <<files, turns, artifacts>>
  PROVE  RowKeys' = RowKeys /\ \A s : SessionKeys(s)' = SessionKeys(s)
  BY SameTurns DEF RowKeys, FileKeys, ArtifactKeys

\* Of the three kinds of keys, each changes alone.
LEMMA KeysApart ==
  /\ \A f, t : FileKey(f) # ResultKey(t)
  /\ \A f, a : FileKey(f) # ArtifactKey(a)
  /\ \A t, a : ResultKey(t) # ArtifactKey(a)
  /\ \A f, g : FileKey(f) = FileKey(g) => f = g
  /\ \A t, u : ResultKey(t) = ResultKey(u) => t = u
  /\ \A a, b \in ArtifactIds : ArtifactKey(a) = ArtifactKey(b) => a = b
  BY DEF FileKey, ResultKey, ArtifactKey, ArtifactIds

LEMMA UploadEffects ==
  ASSUME ReqOK, Shapes, KeysInv, NEW r \in Reqs, UploadPut(r) \/ UploadRow(r)
  PROVE  Effect(r) /\ Reads(r)
<1> USE DEF Rest, rows
<1>1. CASE UploadPut(r)
  <2>1. /\ UNCHANGED <<files, turns, artifacts, lost>> /\ req[r].pc = "up_put"
        /\ objects' = objects \cup {FileKey(r)} /\ Go(r, "up_row")
    BY <1>1 DEF UploadPut, At
  <2>2. req'[r].pc = "up_row" /\ req'[r].keys = req[r].keys
    BY <2>1, GoIs
  <2>3. /\ Coming(r) = {FileKey(r)} /\ Coming(r)' = {FileKey(r)}
        /\ Targets(r)' \subseteq Targets(r)
        /\ Naming(r)' = {FileKey(r)} /\ Doomed(r)' = {} /\ Doomed(r) = {} /\ Held(r) = {}
        /\ req'[r].pc \notin Before
    BY <2>1, <2>2 DEF Coming, Targets, Naming, Doomed, Held, At, Turning, Before, FileKey
  <2> QED BY <2>1, <2>2, <2>3, GoIs, SameRows DEF Effect, Reads, At
<1>2. CASE UploadRow(r)
  <2>1. /\ UNCHANGED <<turns, artifacts, objects, lost>> /\ req[r].pc = "up_row"
        /\ files' = files \cup {r} /\ Answer(r, "ok")
    BY <1>2 DEF UploadRow, At
  <2>2. RowKeys' = RowKeys \cup {FileKey(r)} /\ \A s : SessionKeys(s)' = SessionKeys(s)
    BY <2>1, SameTurns DEF RowKeys, FileKeys, ArtifactKeys
  <2>3. req'[r].pc = "ok" /\ req'[r].keys = {}
    BY <2>1, AnswerIs
  <2>4. /\ Coming(r)' = {} /\ Targets(r)' = {} /\ Naming(r) = {FileKey(r)}
        /\ Naming(r)' = {} /\ Doomed(r)' = {} /\ Doomed(r) = {} /\ Held(r) = {FileKey(r)}
        /\ req'[r].pc \notin Before
    BY <2>1, <2>3 DEF Coming, Targets, Naming, Doomed, Held, At, Turning, Before
  <2> QED BY <2>1, <2>2, <2>3, <2>4, AnswerIs DEF Effect, Reads, At
<1> QED BY <1>1, <1>2

LEMMA DeleteFileEffects ==
  ASSUME ReqOK, Shapes, KeysInv, NEW r \in Reqs,
         DeleteFile(r) \/ DeleteFileRow(r) \/ DeleteFileObject(r)
  PROVE  Effect(r) /\ Reads(r)
<1> USE DEF Rest, rows
<1>1. CASE DeleteFile(r)
  <2> DEFINE q(f) == [Idle EXCEPT !.op = "deleteFile", !.file = f, !.pc = "df_project"]
  <2>1. PICK f \in files : Admit(r, q(f))
    BY <1>1 DEF DeleteFile
  <2>2. UNCHANGED <<files, turns, artifacts, objects, lost>>
    BY <1>1 DEF DeleteFile
  <2>3. q(f).pc = "df_project" /\ q(f).keys = {} /\ q(f).file = f
    BY DEF Idle
  <2>4. req'[r] = q(f) /\ (\A x \in Reqs : x # r => req'[x] = req[x]) /\ req[r].pc = "idle"
    BY <2>1, BecomesIs DEF Admit, At
  <2> HIDE DEF q
  <2>5. /\ Coming(r)' = {} /\ Targets(r)' = {FileKey(f)}
        /\ Naming(r)' = {} /\ Doomed(r)' = {} /\ Doomed(r) = {} /\ Held(r) = {}
        /\ req'[r].pc \notin Before \cup {"batch", "da_row", "da_object"}
    BY <2>3, <2>4 DEF Coming, Targets, Naming, Doomed, Held, At, Turning, Before
  <2>6. FileKey(f) \in RowKeys
    BY DEF RowKeys, FileKeys
  <2> QED BY <2>2, <2>4, <2>5, <2>6, SameRows DEF Effect, Reads, At
<1>2. CASE DeleteFileRow(r)
  <2>1. /\ UNCHANGED <<turns, artifacts, objects, lost>> /\ req[r].pc = "df_row"
        /\ files' = files \ {req[r].file} /\ Go(r, "df_object")
    BY <1>2 DEF DeleteFileRow, At
  <2>2. /\ RowKeys' = RowKeys \ {FileKey(req[r].file)}
        /\ \A s : SessionKeys(s)' = SessionKeys(s)
    BY <2>1, SameTurns, KeysApart DEF RowKeys, FileKeys, ResultKeys, ArtifactKeys
  <2>3. req'[r].pc = "df_object" /\ req'[r].keys = req[r].keys /\ req'[r].file = req[r].file
    BY <2>1, GoIs
  <2>4. /\ Coming(r)' = {} /\ Targets(r)' = Targets(r)
        /\ Naming(r)' = {} /\ Doomed(r)' = {FileKey(req[r].file)} /\ Doomed(r) = {}
        /\ Held(r) = {} /\ Held(r)' = {FileKey(req[r].file)}
        /\ req'[r].pc \notin Before \cup {"batch"}
    BY <2>1, <2>3 DEF Coming, Targets, Naming, Doomed, Held, At, Turning, Before, FileKey
  <2> QED BY <2>1, <2>2, <2>3, <2>4, GoIs DEF Effect, Reads, At
<1>3. CASE DeleteFileObject(r)
  <2>1. /\ UNCHANGED <<files, turns, artifacts, lost>> /\ req[r].pc = "df_object"
        /\ objects' = objects \ {FileKey(req[r].file)} /\ Answer(r, "ok")
    BY <1>3 DEF DeleteFileObject, At
  <2>2. req'[r].pc = "ok" /\ req'[r].keys = {}
    BY <2>1, AnswerIs
  <2>3. /\ Coming(r)' = {} /\ Targets(r)' = {}
        /\ Naming(r)' = {} /\ Doomed(r)' = {} /\ Doomed(r) = {FileKey(req[r].file)}
        /\ Held(r) = {FileKey(req[r].file)} /\ req'[r].pc \notin Before \cup {"batch"}
    BY <2>1, <2>2 DEF Coming, Targets, Naming, Doomed, Held, At, Turning, Before
  <2> QED BY <2>1, <2>2, <2>3, AnswerIs, SameRows DEF Effect, Reads, At
<1> QED BY <1>1, <1>2, <1>3

LEMMA DeleteArtifactEffects ==
  ASSUME ReqOK, Shapes, KeysInv, NEW r \in Reqs,
         DeleteArtifact(r) \/ DeleteArtifactRow(r) \/ DeleteArtifactObject(r)
  PROVE  Effect(r) /\ Reads(r)
<1> USE DEF Rest, rows
<1>1. CASE DeleteArtifact(r)
  <2> DEFINE q(a) == [Idle EXCEPT !.op = "deleteArtifact", !.art = a, !.pc = "da_row"]
  <2>1. PICK a \in artifacts : Admit(r, q(a))
    BY <1>1 DEF DeleteArtifact
  <2>2. UNCHANGED <<files, turns, artifacts, objects, lost>>
    BY <1>1 DEF DeleteArtifact
  <2>3. q(a).pc = "da_row" /\ q(a).keys = {} /\ q(a).art = a
    BY DEF Idle
  <2>4. req'[r] = q(a) /\ (\A x \in Reqs : x # r => req'[x] = req[x]) /\ req[r].pc = "idle"
    BY <2>1, BecomesIs DEF Admit, At
  <2> HIDE DEF q
  <2>5. /\ Coming(r)' = {} /\ Targets(r)' = {ArtifactKey(a)}
        /\ Naming(r)' = {} /\ Doomed(r)' = {} /\ Doomed(r) = {} /\ Held(r) = {}
        /\ req'[r].pc \notin Before \cup {"batch"}
    BY <2>3, <2>4 DEF Coming, Targets, Naming, Doomed, Held, At, Turning, Before
  <2>6. ArtifactKey(a) \in RowKeys
    BY DEF RowKeys, ArtifactKeys
  <2>7. req'[r].art \in ArtifactIds
    BY <2>3, <2>4 DEF Shapes
  <2> QED BY <2>2, <2>4, <2>5, <2>6, <2>7, SameRows DEF Effect, Reads, At
<1>2. CASE DeleteArtifactRow(r)
  <2>1. /\ UNCHANGED <<files, turns, objects, lost>> /\ req[r].pc = "da_row"
        /\ artifacts' = artifacts \ {req[r].art} /\ Go(r, "da_object")
    BY <1>2 DEF DeleteArtifactRow, At
  <2>2. /\ RowKeys' \subseteq RowKeys /\ RowKeys \ {ArtifactKey(req[r].art)} \subseteq RowKeys'
        /\ \A s : SessionKeys(s)' = SessionKeys(s)
    BY <2>1, SameTurns DEF RowKeys, FileKeys, ArtifactKeys
  <2>3. ArtifactKey(req[r].art) \notin RowKeys'
    <3>1. req[r].art \in ArtifactIds
      BY <2>1 DEF KeysInv, Chosen
    <3> QED BY <2>1, <3>1, SameTurns, KeysApart
         DEF Shapes, RowKeys, FileKeys, ResultKeys, ArtifactKeys
  <2>4. req'[r].pc = "da_object" /\ req'[r].keys = req[r].keys /\ req'[r].art = req[r].art
    BY <2>1, GoIs
  <2>5. /\ Coming(r)' = {} /\ Targets(r)' = Targets(r)
        /\ Naming(r)' = {} /\ Doomed(r)' = {ArtifactKey(req[r].art)} /\ Doomed(r) = {}
        /\ Held(r) = {} /\ Held(r)' = {ArtifactKey(req[r].art)}
        /\ req'[r].pc \notin Before \cup {"batch"} /\ req'[r].art \in ArtifactIds
    BY <2>1, <2>4 DEF Coming, Targets, Naming, Doomed, Held, At, Turning, Before, ArtifactKey,
       KeysInv, Chosen
  <2> QED BY <2>1, <2>2, <2>3, <2>4, <2>5, GoIs DEF Effect, Reads, At
<1>3. CASE DeleteArtifactObject(r)
  <2>1. /\ UNCHANGED <<files, turns, artifacts, lost>> /\ req[r].pc = "da_object"
        /\ objects' = objects \ {ArtifactKey(req[r].art)} /\ Answer(r, "ok")
    BY <1>3 DEF DeleteArtifactObject, At
  <2>2. req'[r].pc = "ok" /\ req'[r].keys = {}
    BY <2>1, AnswerIs
  <2>3. /\ Coming(r)' = {} /\ Targets(r)' = {}
        /\ Naming(r)' = {} /\ Doomed(r)' = {} /\ Doomed(r) = {ArtifactKey(req[r].art)}
        /\ Held(r) = {ArtifactKey(req[r].art)} /\ req'[r].pc \notin Before \cup {"batch"}
    BY <2>1, <2>2 DEF Coming, Targets, Naming, Doomed, Held, At, Turning, Before
  <2> QED BY <2>1, <2>2, <2>3, AnswerIs, SameRows DEF Effect, Reads, At
<1> QED BY <1>1, <1>2, <1>3

LEMMA BatchEffects ==
  ASSUME ReqOK, Shapes, KeysInv, NEW r \in Reqs,
         DeleteKeys(r) \/ DeleteSessionRows(r) \/ DeleteProjectRows(r) \/ DeleteObjects(r)
  PROVE  Effect(r) /\ Reads(r)
<1> USE DEF Rest, rows, history
<1>1. CASE DeleteKeys(r)
  <2> DEFINE q == [req[r] EXCEPT !.pc = "batch", !.keys = Losing(r)]
  <2>1. Becomes(r, q) /\ UNCHANGED <<files, turns, artifacts, objects, lost>> /\ req[r].pc = "keys"
    BY <1>1 DEF DeleteKeys, Losing, At
  <2>2. q.pc = "batch" /\ q.keys = Losing(r) /\ q.op = req[r].op /\ q.on = req[r].on
    BY DEF ReqOK, Call
  <2>3. req'[r] = q /\ \A x \in Reqs : x # r => req'[x] = req[x]
    BY <2>1, BecomesIs
  <2> HIDE DEF q
  <2>4. RowKeys' = RowKeys /\ Losing(r)' = Losing(r) /\ Losing(r) \subseteq RowKeys
    BY <2>1, <2>2, <2>3, SameRows DEF Losing, SessionKeys, RowKeys, ResultKeys
  <2>5. /\ Coming(r)' = {} /\ Targets(r)' = Losing(r)
        /\ Naming(r)' = {} /\ Doomed(r)' = {} /\ Doomed(r) = {} /\ Held(r) = {}
        /\ req'[r].pc \notin Before
    BY <2>1, <2>2, <2>3 DEF Coming, Targets, Naming, Doomed, Held, At, Turning, Before
  <2> QED BY <2>1, <2>2, <2>3, <2>4, <2>5, SameRows DEF Effect, Reads, At
<1>2. CASE DeleteObjects(r)
  <2>1. /\ UNCHANGED <<files, turns, artifacts, lost>> /\ req[r].pc = "objects"
        /\ objects' = objects \ req[r].keys /\ Answer(r, "ok")
    BY <1>2 DEF DeleteObjects, At
  <2>2. req'[r].pc = "ok" /\ req'[r].keys = {}
    BY <2>1, AnswerIs
  <2>3. /\ Coming(r)' = {} /\ Targets(r)' = {}
        /\ Naming(r)' = {} /\ Doomed(r)' = {} /\ Doomed(r) = req[r].keys
        /\ Held(r) = req[r].keys /\ req'[r].pc \notin Before \cup {"batch"}
    BY <2>1, <2>2 DEF Coming, Targets, Naming, Doomed, Held, At, Turning, Before
  <2> QED BY <2>1, <2>2, <2>3, AnswerIs, SameRows DEF Effect, Reads, At
<1>3. ASSUME req[r].pc = "batch", AfterBatch(r), objects' = objects, lost' = lost,
             RowKeys' \subseteq RowKeys, RowKeys' \cap req[r].keys = {},
             RowKeys \subseteq RowKeys' \cup req[r].keys \cup late,
             turns' \subseteq turns, \A s \in Ids : SessionKeys(s)' \subseteq SessionKeys(s)
      PROVE  Effect(r) /\ Reads(r)
  <2>1. /\ \A q \in Reqs : q # r => req'[q] = req[q]
        /\ \/ req[r].keys = {} /\ req'[r].pc = "ok" /\ req'[r].keys = {}
           \/ req'[r].pc = "objects" /\ req'[r].keys = req[r].keys
    BY <1>3, AnswerIs, GoIs DEF AfterBatch
  <2>2. /\ Coming(r)' = {} /\ Targets(r)' \subseteq Targets(r)
        /\ Naming(r)' = {} /\ Doomed(r)' = req[r].keys /\ Doomed(r) = {}
        /\ Held(r) = {} /\ Held(r)' = req[r].keys /\ req'[r].pc \notin Before \cup {"batch"}
    BY <1>3, <2>1 DEF Coming, Targets, Naming, Doomed, Held, At, Turning, Before
  <2> QED BY <1>3, <2>1, <2>2 DEF Effect, Reads, At
<1>4. CASE DeleteSessionRows(r)
  <2>1. /\ UNCHANGED <<files, artifacts, objects, lost>> /\ req[r].pc = "batch" /\ AfterBatch(r)
        /\ turns' = {t \in turns : t.session # req[r].on} /\ req[r].op = "deleteSession"
    BY <1>4 DEF DeleteSessionRows, At
  <2>2. /\ SessionKeys(req[r].on) \subseteq req[r].keys \cup late
        /\ req[r].keys \subseteq {ResultKey(t) : t \in Ids}
        /\ \A u \in turns : ResultKey(u.id) \in req[r].keys => u.session = req[r].on
    BY <2>1 DEF KeysInv, Listed, Losing, At
  <2>3. /\ FileKeys' = FileKeys /\ ArtifactKeys' = ArtifactKeys
        /\ ResultKeys' \subseteq ResultKeys
        /\ ResultKeys \subseteq ResultKeys' \cup SessionKeys(req[r].on)
    BY <2>1 DEF FileKeys, ArtifactKeys, ResultKeys, SessionKeys
  <2>4. ResultKeys' \cap req[r].keys = {}
    BY <2>1, <2>2 DEF ResultKeys
  <2>5. (FileKeys \cup ArtifactKeys) \cap req[r].keys = {}
    BY <2>2, KeysApart DEF FileKeys, ArtifactKeys
  <2>6. \A s \in Ids : SessionKeys(s)' \subseteq SessionKeys(s)
    BY <2>1 DEF SessionKeys
  <2> QED BY <1>3, <2>1, <2>2, <2>3, <2>4, <2>5, <2>6 DEF RowKeys
<1>5. CASE DeleteProjectRows(r)
  <2>1. /\ UNCHANGED <<objects, lost>> /\ req[r].pc = "batch" /\ AfterBatch(r)
        /\ files' = {} /\ turns' = {} /\ artifacts' = {} /\ req[r].op # "deleteSession"
    BY <1>5 DEF DeleteProjectRows, At
  <2>2. RowKeys \subseteq req[r].keys \cup late
    BY <2>1 DEF KeysInv, Listed, Losing, At
  <2>3. RowKeys' = {} /\ \A s \in Ids : SessionKeys(s)' = {}
    BY <2>1 DEF RowKeys, FileKeys, ResultKeys, ArtifactKeys, SessionKeys
  <2> QED BY <1>3, <2>1, <2>2, <2>3
<1> QED BY <1>1, <1>2, <1>4, <1>5

LEMMA SetTurnKeys ==
  ASSUME Shapes, NEW r \in Reqs, NEW status, SetTurn(r, status),
         UNCHANGED <<files, artifacts>>, ResultKey(r) \notin RowKeys
  PROVE  /\ \A u \in turns' : \E v \in turns : v.id = u.id /\ v.session = u.session
         /\ RowKeys \subseteq RowKeys' /\ RowKeys' \subseteq RowKeys \cup {ResultKey(r)}
         /\ \A s : SessionKeys(s)' \subseteq SessionKeys(s) \cup (RowKeys' \ RowKeys)
         /\ status = "completed" /\ r \in TurnIds => ResultKey(r) \in RowKeys'
         /\ status # "completed" => RowKeys' = RowKeys
<1> DEFINE T(t) == IF t.id = r THEN [t EXCEPT !.status = status] ELSE t
<1>1. turns' = {T(t) : t \in turns}
  BY DEF SetTurn
<1>2. \A t \in turns : /\ T(t).id = t.id /\ T(t).session = t.session
                       /\ T(t).status = IF t.id = r THEN status ELSE t.status
  BY DEF Shapes
<1> HIDE DEF T
<1>3. /\ FileKeys' = FileKeys /\ ArtifactKeys' = ArtifactKeys
  BY DEF FileKeys, ArtifactKeys
<1>4. \A t \in turns : t.status = "completed" => t.id # r
  BY DEF RowKeys, ResultKeys
<1>5. ResultKeys \subseteq ResultKeys' /\ ResultKeys' \subseteq ResultKeys \cup {ResultKey(r)}
  BY <1>1, <1>2, <1>4 DEF ResultKeys
<1>6. status = "completed" /\ r \in TurnIds => ResultKey(r) \in ResultKeys'
  BY <1>1, <1>2 DEF ResultKeys, TurnIds
<1>7. status # "completed" => ResultKeys' \subseteq ResultKeys
  BY <1>1, <1>2 DEF ResultKeys
<1>8. ASSUME NEW s PROVE SessionKeys(s)' \subseteq SessionKeys(s) \cup (RowKeys' \ RowKeys)
  <2> SUFFICES ASSUME NEW t \in turns, T(t).session = s, T(t).status = "completed"
               PROVE  ResultKey(t.id) \in SessionKeys(s) \cup (RowKeys' \ RowKeys)
    BY <1>1, <1>2 DEF SessionKeys
  <2>1. CASE t.id = r
    <3>1. ResultKey(r) \in ResultKeys'
      BY <1>1, <1>2, <2>1 DEF ResultKeys
    <3> QED BY <2>1, <3>1 DEF RowKeys
  <2>2. CASE t.id # r
    BY <1>2, <2>2 DEF SessionKeys
  <2> QED BY <2>1, <2>2
<1>9. \A u \in turns' : \E v \in turns : v.id = u.id /\ v.session = u.session
  BY <1>1, <1>2
<1> QED BY <1>3, <1>5, <1>6, <1>7, <1>8, <1>9 DEF RowKeys

LEMMA TurnEffects ==
  ASSUME ReqOK, Shapes, KeysInv, NEW r \in Reqs,
         \/ TurnInsert(r) \/ TurnRefused(r) \/ TurnFailed(r) \/ TurnPut(r) \/ TurnComplete(r)
         \/ ArtifactPut(r) \/ ArtifactRow(r)
  PROVE  Effect(r) /\ Reads(r)
<1> USE DEF Unstored, rows
<1>1. req[r] \in Call /\ Stage(req[r])
  BY DEF ReqOK
<1>2. req[r].pc \in Turning => ResultKey(r) \notin RowKeys
  BY DEF KeysInv, Fresh, Coming
<1>3. CASE TurnInsert(r)
  <2>1. PICK l \in {"t_fail", "t_preview"} :
          /\ UNCHANGED <<files, artifacts, objects, lost>> /\ req[r].pc = "t_insert"
          /\ turns' = turns \cup {[id |-> r, session |-> req[r].on, status |-> "pending"]}
          /\ Go(r, l)
    BY <1>3 DEF TurnInsert, At
  <2>2. /\ FileKeys' = FileKeys /\ ArtifactKeys' = ArtifactKeys /\ ResultKeys' = ResultKeys
        /\ \A s : SessionKeys(s)' = SessionKeys(s)
    BY <2>1 DEF FileKeys, ArtifactKeys, ResultKeys, SessionKeys
  <2>3. req'[r].pc = l /\ req'[r].keys = req[r].keys
    BY <2>1, GoIs
  <2>4. /\ Coming(r)' = Coming(r) /\ Targets(r)' = Targets(r)
        /\ Naming(r)' = {} /\ Doomed(r)' = {} /\ Held(r) = {} /\ Doomed(r) = {}
        /\ req'[r].pc \notin Before \cup {"batch", "da_row", "da_object"}
        /\ req[r].pc \in Before
    BY <2>1, <2>3 DEF Coming, Targets, Naming, Doomed, Held, At, Turning, Before,
       FileKey, ResultKey, ArtifactKey
  <2>5. \A u \in turns' : \/ \E v \in turns : v.id = u.id /\ v.session = u.session
                          \/ u.id = r /\ u.session = req[r].on
    BY <2>1
  <2>6. RowKeys' = RowKeys
    BY <2>2 DEF RowKeys
  <2> QED BY <2>1, <2>2, <2>4, <2>5, <2>6, GoIs DEF Effect, Reads, At
<1>4. CASE TurnRefused(r) \/ TurnFailed(r)
  <2>1. PICK status \in {"refused", "failed"} :
          /\ UNCHANGED <<files, artifacts, objects, lost>> /\ req[r].pc \in {"t_refuse", "t_fail"}
          /\ SetTurn(r, status) /\ Answer(r, "ok")
    BY <1>4 DEF TurnRefused, TurnFailed, At
  <2>2. ResultKey(r) \notin RowKeys
    BY <1>2, <2>1 DEF Turning
  <2>3. /\ \A u \in turns' : \E v \in turns : v.id = u.id /\ v.session = u.session
        /\ RowKeys' = RowKeys /\ \A s : SessionKeys(s)' \subseteq SessionKeys(s)
    BY <2>1, <2>2, SetTurnKeys
  <2>4. req'[r].pc = "ok" /\ req'[r].keys = {}
    BY <2>1, AnswerIs
  <2>5. /\ Coming(r)' = {} /\ Targets(r)' = {}
        /\ Naming(r)' = {} /\ Doomed(r)' = {} /\ Held(r) = {} /\ Doomed(r) = {}
        /\ req'[r].pc \notin Before \cup {"batch", "da_row", "da_object"}
    BY <2>1, <2>4 DEF Coming, Targets, Naming, Doomed, Held, At, Turning, Before
  <2> QED BY <2>1, <2>3, <2>5, AnswerIs DEF Effect, Reads, At
<1>5. CASE TurnPut(r)
  <2>1. /\ UNCHANGED <<files, turns, artifacts, lost>> /\ req[r].pc = "t_put"
        /\ objects' = objects \cup {ResultKey(r)} /\ Go(r, "t_complete")
    BY <1>5 DEF TurnPut, At
  <2>2. req'[r].pc = "t_complete" /\ req'[r].keys = req[r].keys
    BY <2>1, GoIs
  <2>3. /\ Coming(r)' = Coming(r) /\ Targets(r)' = Targets(r)
        /\ Naming(r)' = {ResultKey(r)} /\ Doomed(r)' = {} /\ Held(r) = {} /\ Doomed(r) = {}
        /\ req'[r].pc \notin Before \cup {"batch", "da_row", "da_object"}
    BY <2>1, <2>2 DEF Coming, Targets, Naming, Doomed, Held, At, Turning, Before,
       FileKey, ResultKey, ArtifactKey
  <2> QED BY <2>1, <2>3, GoIs, SameRows DEF Effect, Reads, At
<1>6. CASE TurnComplete(r)
  <2> DEFINE q == [req[r] EXCEPT !.pc = "a_put", !.k = 1]
  <2>1. /\ UNCHANGED <<files, artifacts, objects>> /\ req[r].pc = "t_complete"
        /\ SetTurn(r, "completed") /\ Becomes(r, q)
        /\ lost' = IF r \in TurnIds THEN lost ELSE lost \cup {ResultKey(r)}
    BY <1>6 DEF TurnComplete, At
  <2>2. ResultKey(r) \notin RowKeys
    BY <1>2, <2>1 DEF Turning
  <2>3. /\ \A u \in turns' : \E v \in turns : v.id = u.id /\ v.session = u.session
        /\ RowKeys \subseteq RowKeys' /\ RowKeys' \subseteq RowKeys \cup {ResultKey(r)}
        /\ \A s : SessionKeys(s)' \subseteq SessionKeys(s) \cup (RowKeys' \ RowKeys)
        /\ r \in TurnIds => ResultKey(r) \in RowKeys'
    BY <2>1, <2>2, SetTurnKeys
  <2>4. q.pc = "a_put" /\ q.k = 1 /\ q.keys = req[r].keys
    BY <1>1, <2>1 DEF Call
  <2>5. req'[r] = q /\ \A x \in Reqs : x # r => req'[x] = req[x]
    BY <2>1, BecomesIs
  <2> HIDE DEF q
  <2>6. Coming(r)' = {ArtifactKey(<<r, i>>) : i \in 1 .. Outputs}
    BY <2>4, <2>5 DEF Coming, Turning, ArtifactKey
  <2>7. Coming(r)' \subseteq Coming(r) /\ ResultKey(r) \notin Coming(r)'
    BY <2>1, <2>6, KeysApart DEF Coming, Turning
  <2>8. /\ Targets(r)' = Targets(r) /\ Naming(r) = {ResultKey(r)}
        /\ Naming(r)' = {} /\ Doomed(r)' = {} /\ Held(r) = {ResultKey(r)} /\ Doomed(r) = {}
        /\ req'[r].pc \notin Before \cup {"batch", "da_row", "da_object"}
    BY <2>1, <2>4, <2>5 DEF Targets, Naming, Doomed, Held, At, Before
  <2> QED BY <2>1, <2>3, <2>5, <2>7, <2>8 DEF Effect, Reads, At
<1>7. CASE ArtifactPut(r)
  <2>1. /\ UNCHANGED <<files, turns, artifacts, lost>> /\ req[r].pc = "a_put"
        /\ objects' = objects \cup {ArtifactKey(<<r, req[r].k>>)} /\ Go(r, "a_row")
    BY <1>7 DEF ArtifactPut, At
  <2>2. req'[r].pc = "a_row" /\ req'[r].keys = req[r].keys /\ req'[r].k = req[r].k
    BY <2>1, GoIs
  <2>3. /\ Coming(r)' = Coming(r) /\ Targets(r)' = Targets(r)
        /\ Naming(r)' = {ArtifactKey(<<r, req[r].k>>)}
        /\ Doomed(r)' = {} /\ Held(r) = {} /\ Doomed(r) = {}
        /\ req'[r].pc \notin Before \cup {"batch", "da_row", "da_object"}
    BY <2>1, <2>2 DEF Coming, Targets, Naming, Doomed, Held, At, Turning, Before,
       FileKey, ResultKey, ArtifactKey
  <2> QED BY <2>1, <2>3, GoIs, SameRows DEF Effect, Reads, At
<1>8. CASE ArtifactRow(r)
  <2> DEFINE q == [req[r] EXCEPT !.pc = "a_put", !.k = @ + 1]
             key == ArtifactKey(<<r, req[r].k>>)
  <2>1. /\ UNCHANGED <<files, turns, objects, lost>> /\ req[r].pc = "a_row"
        /\ artifacts' = artifacts \cup {<<r, req[r].k>>}
        /\ Answer(r, "ok") \/ Becomes(r, q)
    BY <1>8 DEF ArtifactRow, At
  <2>2. RowKeys' = RowKeys \cup {key} /\ \A s : SessionKeys(s)' = SessionKeys(s)
    BY <2>1, SameTurns DEF RowKeys, FileKeys, ArtifactKeys
  <2>3. q.pc = "a_put" /\ q.k = req[r].k + 1 /\ q.keys = req[r].keys /\ req[r].k \in Nat
    BY <1>1, <2>1 DEF Call
  <2>4. /\ \A x \in Reqs : x # r => req'[x] = req[x]
        /\ \/ req'[r].pc = "ok" /\ req'[r].keys = {}
           \/ req'[r].pc = "a_put" /\ req'[r].k = req[r].k + 1 /\ req'[r].keys = req[r].keys
    BY <2>1, <2>3, BecomesIs, AnswerIs
  <2> HIDE DEF q
  <2>5. Coming(r) = {ArtifactKey(<<r, i>>) : i \in req[r].k .. Outputs}
    BY <2>1 DEF Coming, Turning
  <2>6. Coming(r)' \subseteq {ArtifactKey(<<r, i>>) : i \in req[r].k + 1 .. Outputs}
    BY <2>4 DEF Coming, Turning, ArtifactKey
  <2>7. Coming(r)' \subseteq Coming(r) /\ key \notin Coming(r)'
    <3>1. \A i \in req[r].k + 1 .. Outputs :
             /\ i \in req[r].k .. Outputs /\ ArtifactKey(<<r, i>>) # key
      BY <2>3, BoundsAssumption DEF ArtifactKey
    <3> HIDE DEF key
    <3> QED BY <2>5, <2>6, <3>1
  <2>8. /\ Targets(r)' \subseteq Targets(r) /\ Naming(r) = {key}
        /\ Naming(r)' = {} /\ Doomed(r)' = {} /\ Held(r) = {key} /\ Doomed(r) = {}
        /\ req'[r].pc \notin Before \cup {"batch", "da_row", "da_object"}
    BY <2>1, <2>4 DEF Targets, Naming, Doomed, Held, At, Before
  <2> HIDE DEF key
  <2> QED BY <2>1, <2>2, <2>4, <2>7, <2>8 DEF Effect, Reads, At
<1> QED BY <1>3, <1>4, <1>5, <1>6, <1>7, <1>8

------------------------------------------------------------------------------
(* The invariant and the two properties.                                   *)

LEMMA StepEffect ==
  ASSUME ReqOK, Shapes, KeysInv, NEW r \in Reqs,
         WorkspaceStep(r) \/ TurnStep(r) \/ ChatStep(r) \/ Die(r)
  PROVE  Effect(r) /\ Reads(r)
<1>1. CASE WorkspaceStep(r)
  BY <1>1, WorkspaceQuiet, UploadEffects, DeleteFileEffects, DeleteArtifactEffects, BatchEffects
     DEF WorkspaceStep
<1>2. CASE TurnStep(r)
  BY <1>2, TurnQuiet, TurnEffects DEF TurnStep
<1> QED BY <1>1, <1>2, ChatQuiet, DieQuiet

LEMMA KeysInit ==
  ASSUME Start
  PROVE  KeysInv
<1>1. /\ \A r \in Reqs : /\ req[r].pc = "idle" /\ req[r].keys = {}
                         /\ Held(r) = {} /\ Naming(r) = {} /\ Doomed(r) = {} /\ Targets(r) = {}
      /\ objects = RowKeys /\ files \subseteq {Old} /\ Old \notin Reqs
      /\ artifacts = files \X (1 .. Outputs)
      /\ turns = {[id |-> f, session |-> f, status |-> "completed"] : f \in files}
  BY OldAssumption DEF Start, Init, Idle, Held, Naming, Doomed, Targets, At
<1>2. \A u \in turns : u.id = Old /\ u.session = Old
  BY <1>1
<1>3. OneRow /\ Chosen /\ Reserved /\ Named /\ Gone /\ Listed
  BY <1>1, <1>2 DEF OneRow, Chosen, Reserved, Named, Gone, Listed, At
<1>4. RowsHaveObjects /\ OrphansAccounted
  BY <1>1 DEF RowsHaveObjects, OrphansAccounted
<1>5. ASSUME NEW r \in Reqs PROVE RowKeys \cap Coming(r) = {}
  <2>1. RowKeys \subseteq {FileKey(Old), ResultKey(Old)}
                       \cup {ArtifactKey(<<Old, i>>) : i \in 1 .. Outputs}
    BY <1>1, <1>2 DEF RowKeys, FileKeys, ResultKeys, ArtifactKeys
  <2>2. Coming(r) \subseteq {FileKey(r), ResultKey(r)} \cup {ArtifactKey(<<r, i>>) : i \in 1 .. Outputs}
    BY <1>1 DEF Coming, Turning
  <2>3. r # Old
    BY <1>1
  <2> QED BY <2>1, <2>2, <2>3 DEF FileKey, ResultKey, ArtifactKey
<1> QED BY <1>3, <1>4, <1>5 DEF KeysInv, Fresh

LEMMA KeysStill ==
  ASSUME KeysInv, UNCHANGED <<vars, late>>
  PROVE  KeysInv'
<1> USE DEF vars, rows
<1>1. RowKeys' = RowKeys /\ \A s : SessionKeys(s)' = SessionKeys(s)
  BY SameRows
<1>2. \A r \in Reqs : /\ Coming(r)' = Coming(r) /\ Targets(r)' = Targets(r) /\ Held(r)' = Held(r)
                     /\ Naming(r)' = Naming(r) /\ Doomed(r)' = Doomed(r) /\ Losing(r)' = Losing(r)
  BY <1>1, OthersSame DEF Losing
<1>3. Chosen' /\ OneRow' /\ Listed'
  BY <1>1, <1>2 DEF KeysInv, Chosen, OneRow, Listed, At, ResultKey
<1>4. Reserved' /\ Fresh' /\ Named' /\ Gone'
  BY <1>1, <1>2 DEF KeysInv, Reserved, Fresh, Named, Gone
<1>5. RowsHaveObjects' /\ OrphansAccounted'
  <2>1. UNCHANGED <<objects, lost, late>>
    BY DEF history
  <2>2. UNION {Held(r)' : r \in Reqs} = UNION {Held(r) : r \in Reqs}
    BY <1>2
  <2> QED BY <1>1, <2>1, <2>2 DEF KeysInv, RowsHaveObjects, OrphansAccounted
<1> QED BY <1>3, <1>4, <1>5 DEF KeysInv

(* Rows and objects agree, and what that rests on, in every state.         *)
THEOREM KeysHold == Spec => []KeysInv
<1>1. Start => KeysInv
  BY KeysInit
<1>2. KeysInv /\ ReqOK /\ Shapes /\ [Next]_<<vars, late>> => KeysInv'
  <2> SUFFICES ASSUME KeysInv, ReqOK, Shapes, [Next]_<<vars, late>> PROVE KeysInv'
    OBVIOUS
  <2>1. CASE Next
    <3>1. PICK r \in Reqs : WorkspaceStep(r) \/ TurnStep(r) \/ ChatStep(r) \/ Die(r)
      BY <2>1 DEF Next
    <3>2. Late
      BY <2>1 DEF Next, Late
    <3> QED BY <3>1, <3>2, StepEffect, KeysStep
  <2>2. CASE UNCHANGED <<vars, late>>
    BY <2>2, KeysStill
  <2> QED BY <2>1, <2>2
<1> QED BY <1>1, <1>2, ShapesHold, PTL DEF Spec

(* Every key that a row names is in the bucket: no interleaving of         *)
(* uploads, turns, deletes and crashes leaves a row whose bytes are gone.  *)
THEOREM RowsHaveObjectsHold == Spec => []RowsHaveObjects
<1>1. KeysInv => RowsHaveObjects
  BY DEF KeysInv
<1> QED BY <1>1, KeysHold, PTL

(* Every object is named by a row, in the hands of a request, or was       *)
(* dropped at one of the points where the code can drop one.               *)
THEOREM OrphansAccountedHold == Spec => []OrphansAccounted
<1>1. KeysInv => OrphansAccounted
  BY DEF KeysInv
<1> QED BY <1>1, KeysHold, PTL

(***************************************************************************)
(* The limits of the Relay worker, for any set of requests and any caps:   *)
(* the hourly count, the ledger of model calls, and the archived project.  *)
(*                                                                         *)
(* Each property relates shared counters to what requests carry between    *)
(* two calls: the count a request was let in on, the calls it has made and *)
(* not recorded, the check of the project that it passed.  So the          *)
(* invariant says of each request what it carries at each of its steps.    *)
(***************************************************************************)
\* The steps at which a request may have calls that are not on the ledger.
Calling == {"t_call", "t_ledger", "c_end", "c_usage", "c_answer", "dead"}

TurnLabels == {"t_file", "t_input", "t_insert", "t_preview", "t_call", "t_refuse",
               "t_fail", "t_dataset", "t_kernel", "t_put", "t_complete", "a_put", "a_row"}

\* The operations that check that the project is active and then write to it.
Writers == {"upload", "createSession", "turn", "createChat", "bindChat"}

\* What a request is doing at each step, and what it carries.
Doing(q) ==
    /\ q.pc \in {"up_put", "up_row"} => q.op = "upload"
    /\ q.pc \in {"cs_file", "cs_row"} => q.op = "createSession"
    /\ q.pc \in TurnLabels => q.op = "turn"
    /\ q.pc = "t_ledger" /\ q.then # "n_close" => q.op = "turn"
    /\ q.pc = "cc_row" => q.op = "createChat"
    /\ q.pc = "pc_project" => q.op = "bindChat"
    /\ q.pc = "pc_row" => q.op \in {"bindChat", "renameChat"} \/ q.n = 0

\* It has passed the check of the project (a bind makes it as its second call).
Writing(r) == Running(r) /\ req[r].op \in Writers /\ req[r].pc # "pc_project"

Track(q) ==
    /\ Doing(q)
    /\ q.pc = "g_row" => q.n < RateCap
    /\ q.pc \notin Calling => q.calls = 0
    /\ q.pc \in {"c_end", "c_usage"} => q.calls = 1

LimitsInv ==
    /\ \A r \in Reqs : Track(req[r])
    /\ RateKeptUnlessRaced
    /\ IsFiniteSet(UnrecordedCalls)
    /\ ledger + Cardinality(UnrecordedCalls) = spent
    /\ \A r \in Reqs : project = "archived" /\ Writing(r) => r \in stale

------------------------------------------------------------------------------
(* What a step of request r does to counters, project and request.         *)

Metered(r) ==
    \/ UNCHANGED <<ledger, spent>> /\ req'[r].calls = req[r].calls
    \/ /\ spent' = spent + 1 /\ ledger' = ledger
       /\ req'[r].calls = req[r].calls + 1
    \/ /\ ledger' = ledger + 1 /\ spent' = spent
       /\ req[r].calls > 0 /\ req'[r].calls = req[r].calls - 1

Stays == stale' = stale /\ (project' = "archived" => project = "archived")

Moved(r) ==
    /\ \A q \in Reqs : q # r => req'[q] = req[q]
    /\ Track(req'[r])
    /\ Writing(r)' => Writing(r) \/ project = "active"

Tracked(r) ==
    /\ Moved(r) /\ Metered(r)
    /\ UNCHANGED <<rate, raced>> \/ GuardRow(r)
    /\ SetStateRow(r) \/ Stays

LEMMA IdleFields ==
  /\ Idle.calls = 0 /\ Idle.op = "none" /\ Idle.pc = "idle" /\ Idle.n = 0
  /\ \A r \in Reqs : ReqOK /\ At(r, "idle") => req[r].calls = 0
  BY DEF Idle, ReqOK, Stage, At, Uncalled, Counting

LEMMA AdmitMoves ==
  ASSUME ReqOK, NEW r \in Reqs, NEW q, Admit(r, q), Track(q), q.calls = 0,
         q.op \in Writers => project = "active" \/ q.pc \in {"ok", "pc_project"}
  PROVE  Moved(r) /\ req'[r].calls = req[r].calls
<1>1. req'[r] = q /\ (\A x \in Reqs : x # r => req'[x] = req[x]) /\ req[r].calls = 0
  BY BecomesIs, IdleFields DEF Admit
<1> QED BY <1>1 DEF Moved, Writing, Running, Ended

LEMMA GoMoves ==
  ASSUME ReqOK, NEW r \in Reqs, NEW l, Go(r, l), Running(r), Track(req[r]),
         l \notin {"g_row", "t_ledger", "c_end", "pc_row", "cc_row", "pc_project", "up_put", "cs_file"},
         l \in Calling \/ req[r].calls = 0,
         l = "c_usage" => req[r].pc = "c_end",
         l = "up_row" => req[r].pc = "up_put",
         l = "cs_row" => req[r].pc = "cs_file",
         l \in TurnLabels => req[r].op = "turn", req[r].pc # "pc_project"
  PROVE  Moved(r) /\ req'[r].calls = req[r].calls
<1>1. /\ \A q \in Reqs : q # r => req'[q] = req[q]
      /\ req'[r].pc = l /\ req'[r].op = req[r].op /\ req'[r].calls = req[r].calls
  BY GoIs
<1>2. Track(req'[r])
  BY <1>1 DEF Track, Doing
<1> QED BY <1>1, <1>2 DEF Moved, Writing, Running, Ended

LEMMA AnswerMoves ==
  ASSUME ReqOK, NEW r \in Reqs, NEW how \in Ended, Answer(r, how), Running(r),
         how = "dead" \/ req[r].calls = 0
  PROVE  Moved(r) /\ req'[r].calls = req[r].calls
<1>1. /\ \A q \in Reqs : q # r => req'[q] = req[q]
      /\ req'[r].pc = how /\ req'[r].op = req[r].op /\ req'[r].calls = req[r].calls
  BY AnswerIs
<1>2. Track(req'[r])
  BY <1>1 DEF Track, Doing, Ended, TurnLabels, Calling
<1> QED BY <1>1, <1>2 DEF Moved, Writing, Running, Ended

LEMMA WorkspaceMoves ==
  ASSUME ReqOK, NEW r \in Reqs, Track(req[r]), WorkspaceStep(r)
  PROVE  Moved(r) /\ req'[r].calls = req[r].calls
<1>1. CASE \/ CreateProject(r) \/ SetState(r) \/ Upload(r) \/ DeleteFile(r) \/ CreateSession(r)
           \/ DeleteSession(r) \/ DeleteProject(r) \/ Reset(r) \/ DeleteArtifact(r)
  <2>1. ASSUME NEW q, Admit(r, q), q.calls = 0,
               \/ q.op = "upload" /\ q.pc = "up_put" /\ project = "active"
               \/ q.op = "createSession" /\ q.pc = "cs_file" /\ project = "active"
               \/ q.op \notin Writers /\ q.pc \in {"ok", "st_row", "df_project", "keys", "da_row"}
        PROVE  Moved(r) /\ req'[r].calls = req[r].calls
    <3>1. Track(q) /\ (q.op \in Writers => project = "active" \/ q.pc \in {"ok", "pc_project"})
      BY <2>1 DEF Track, Doing, TurnLabels, Calling
    <3> QED BY <2>1, <3>1, AdmitMoves
  <2>2. CASE CreateProject(r)
    <3> DEFINE q == [Idle EXCEPT !.op = "createProject", !.pc = "ok"]
    <3>1. q.op = "createProject" /\ q.pc = "ok" /\ q.calls = 0 /\ q.op \notin Writers
      BY DEF Idle, Writers
    <3>2. Admit(r, q)
      BY <2>2 DEF CreateProject
    <3> QED BY <2>1, <3>1, <3>2
  <2>3. CASE Upload(r)
    <3> DEFINE q == [Idle EXCEPT !.op = "upload", !.pc = "up_put"]
    <3>1. q.op = "upload" /\ q.pc = "up_put" /\ q.calls = 0
      BY DEF Idle, Writers
    <3>2. Admit(r, q) /\ project = "active"
      BY <2>3 DEF Upload
    <3> QED BY <2>1, <3>1, <3>2
  <2>4. CASE DeleteProject(r)
    <3> DEFINE q == [Idle EXCEPT !.op = "deleteProject", !.pc = "keys"]
    <3>1. q.op = "deleteProject" /\ q.pc = "keys" /\ q.calls = 0 /\ q.op \notin Writers
      BY DEF Idle, Writers
    <3>2. Admit(r, q)
      BY <2>4 DEF DeleteProject
    <3> QED BY <2>1, <3>1, <3>2
  <2>5. CASE Reset(r)
    <3> DEFINE q == [Idle EXCEPT !.op = "reset", !.pc = "keys"]
    <3>1. q.op = "reset" /\ q.pc = "keys" /\ q.calls = 0 /\ q.op \notin Writers
      BY DEF Idle, Writers
    <3>2. Admit(r, q)
      BY <2>5 DEF Reset
    <3> QED BY <2>1, <3>1, <3>2
  <2>6. CASE SetState(r)
    <3> DEFINE q(op) == [Idle EXCEPT !.op = op, !.pc = "st_row"]
    <3>1. PICK op \in {"archive", "unarchive"} : Admit(r, q(op))
      BY <2>6 DEF SetState
    <3>2. q(op).op = op /\ q(op).pc = "st_row" /\ q(op).calls = 0 /\ q(op).op \notin Writers
      BY DEF Idle, Writers
    <3> QED BY <2>1, <3>1, <3>2
  <2>7. CASE DeleteFile(r)
    <3> DEFINE q(f) == [Idle EXCEPT !.op = "deleteFile", !.file = f, !.pc = "df_project"]
    <3>1. PICK f \in files : Admit(r, q(f))
      BY <2>7 DEF DeleteFile
    <3>2. q(f).op = "deleteFile" /\ q(f).pc = "df_project" /\ q(f).calls = 0 /\ q(f).op \notin Writers
      BY DEF Idle, Writers
    <3> QED BY <2>1, <3>1, <3>2
  <2>8. CASE CreateSession(r)
    <3> DEFINE q(f) == [Idle EXCEPT !.op = "createSession", !.file = f, !.pc = "cs_file"]
    <3>1. PICK f \in Ids : Admit(r, q(f)) /\ project = "active"
      BY <2>8 DEF CreateSession
    <3>2. q(f).op = "createSession" /\ q(f).pc = "cs_file" /\ q(f).calls = 0
      BY DEF Idle, Writers
    <3> QED BY <2>1, <3>1, <3>2
  <2>9. CASE DeleteSession(r)
    <3> DEFINE q(s) == [Idle EXCEPT !.op = "deleteSession", !.on = s, !.pc = "keys"]
    <3>1. PICK s \in SessionIds : Admit(r, q(s))
      BY <2>9 DEF DeleteSession
    <3>2. q(s).op = "deleteSession" /\ q(s).pc = "keys" /\ q(s).calls = 0 /\ q(s).op \notin Writers
      BY DEF Idle, Writers
    <3> QED BY <2>1, <3>1, <3>2
  <2>10. CASE DeleteArtifact(r)
    <3> DEFINE q(a) == [Idle EXCEPT !.op = "deleteArtifact", !.art = a, !.pc = "da_row"]
    <3>1. PICK a \in artifacts : Admit(r, q(a))
      BY <2>10 DEF DeleteArtifact
    <3>2. q(a).op = "deleteArtifact" /\ q(a).pc = "da_row" /\ q(a).calls = 0 /\ q(a).op \notin Writers
      BY DEF Idle, Writers
    <3> QED BY <2>1, <3>1, <3>2
  <2> QED BY <1>1, <2>2, <2>3, <2>4, <2>5, <2>6, <2>7, <2>8, <2>9, <2>10
<1>2. CASE DeleteKeys(r)
  <2> DEFINE q == [req[r] EXCEPT !.pc = "batch", !.keys = Losing(r)]
  <2>1. Becomes(r, q) /\ req[r].pc = "keys"
    BY <1>2 DEF DeleteKeys, Losing, At
  <2>2. q.pc = "batch" /\ q.calls = req[r].calls /\ q.op = req[r].op
    BY DEF ReqOK, Call
  <2>3. req'[r] = q /\ \A x \in Reqs : x # r => req'[x] = req[x]
    BY <2>1, BecomesIs
  <2> HIDE DEF q
  <2>4. Track(q) /\ Running(r)
    BY <2>1, <2>2 DEF Track, Doing, TurnLabels, Calling, Running, Ended
  <2> QED BY <2>1, <2>2, <2>3, <2>4 DEF Moved, Writing
<1>3. CASE ~\/ CreateProject(r) \/ SetState(r) \/ Upload(r) \/ DeleteFile(r) \/ CreateSession(r)
            \/ DeleteSession(r) \/ DeleteProject(r) \/ Reset(r) \/ DeleteArtifact(r)
            \/ DeleteKeys(r)
  <2>1. PICK l \in {"up_row", "df_count", "df_row", "df_object", "cs_row", "objects", "da_object",
                    "ok", "refused"} :
          /\ Go(r, l) \/ (l \in {"ok", "refused"} /\ Answer(r, l))
          /\ req[r].pc \in {"st_row", "up_put", "up_row", "df_project", "df_count", "df_row",
                            "df_object", "cs_file", "cs_row", "batch", "objects", "da_row",
                            "da_object"}
          /\ l = "up_row" => req[r].pc = "up_put"
          /\ l = "cs_row" => req[r].pc = "cs_file"
    BY <1>3 DEF WorkspaceStep, UploadPut, UploadRow, DeleteFileProject, DeleteFileCount,
       DeleteFileRow, DeleteFileObject, CreateSessionFile, CreateSessionRow,
       DeleteSessionRows, DeleteProjectRows, AfterBatch, DeleteObjects, LogOrphans,
       SetStateRow, DeleteArtifactRow, DeleteArtifactObject, At
  <2>2. Running(r) /\ req[r].calls = 0 /\ {"ok", "refused"} \subseteq Ended
    BY <2>1 DEF Running, Ended, Track, Calling
  <2>3. l \notin TurnLabels
    BY DEF TurnLabels
  <2> QED BY <2>1, <2>2, <2>3, GoMoves, AnswerMoves
<1> QED BY <1>1, <1>2, <1>3

LEMMA WorkspaceTracked ==
  ASSUME ReqOK, NEW r \in Reqs, Track(req[r]), WorkspaceStep(r)
  PROVE  Tracked(r)
<1>1. UNCHANGED <<rate, raced, ledger, spent>>
  BY DEF WorkspaceStep, CreateProject, SetState, Upload, DeleteFile, CreateSession,
     DeleteSession, DeleteProject, Reset, DeleteArtifact, DeleteKeys,
     UploadPut, UploadRow, DeleteFileProject, DeleteFileCount,
     DeleteFileRow, DeleteFileObject, CreateSessionFile, CreateSessionRow,
     DeleteSessionRows, DeleteProjectRows, DeleteObjects, LogOrphans,
     SetStateRow, DeleteArtifactRow, DeleteArtifactObject, Rest, meters, history
<1>2. SetStateRow(r) \/ Stays
  BY DEF WorkspaceStep, CreateProject, SetState, Upload, DeleteFile, CreateSession,
     DeleteSession, DeleteProject, Reset, DeleteArtifact, DeleteKeys,
     UploadPut, UploadRow, DeleteFileProject, DeleteFileCount,
     DeleteFileRow, DeleteFileObject, CreateSessionFile, CreateSessionRow,
     DeleteSessionRows, DeleteProjectRows, DeleteObjects, LogOrphans,
     DeleteArtifactRow, DeleteArtifactObject, Rest, rows, history, Stays
<1> QED BY <1>1, <1>2, WorkspaceMoves DEF Tracked, Metered

\* A step of a request that is written out field by field.
LEMMA BecomesMoves ==
  ASSUME ReqOK, NEW r \in Reqs, NEW q, Becomes(r, q), Running(r), Track(q), q.op = req[r].op,
         req[r].pc # "pc_project" \/ project = "active"
  PROVE  Moved(r) /\ req'[r].calls = q.calls
  BY BecomesIs DEF Moved, Writing

LEMMA TurnTracked ==
  ASSUME ReqOK, Shapes, NEW r \in Reqs, Track(req[r]), TurnStep(r)
  PROVE  Tracked(r)
<1>1. req[r] \in Call /\ Stage(req[r])
  BY DEF ReqOK
<1>2. /\ UNCHANGED <<rate, raced>> \/ GuardRow(r)
      /\ Stays
  BY DEF TurnStep, GuardSpend, GuardCount, GuardRow, Turn, TurnFile, TurnInput, TurnInsert,
     TurnPreview, CallModel, RecordCall, TurnRefused, TurnFailed, TurnDataset, CallKernel,
     TurnPut, TurnComplete, ArtifactPut, ArtifactRow, Narrate, NarrateTurn, NarrateObject,
     NarrateStream, NarrateClose, Unmetered, Unstored, rows, meters, history, Stays
<1>3. CallModel(r) \/ NarrateStream(r) \/ RecordCall(r) \/ UNCHANGED <<ledger, spent>>
  BY DEF TurnStep, GuardSpend, GuardCount, GuardRow, Turn, TurnFile, TurnInput, TurnInsert,
     TurnPreview, TurnRefused, TurnFailed, TurnDataset, CallKernel,
     TurnPut, TurnComplete, ArtifactPut, ArtifactRow, Narrate, NarrateTurn, NarrateObject,
     NarrateClose, Unmetered, Unstored, meters
<1>4. ASSUME Moved(r), Metered(r) PROVE Tracked(r)
  BY <1>2, <1>4 DEF Tracked
<1>5. ASSUME Moved(r), req'[r].calls = req[r].calls, UNCHANGED <<ledger, spent>>
      PROVE  Tracked(r)
  BY <1>4, <1>5 DEF Metered
<1>6. CASE Turn(r)
  <2>1. PICK u \in sessions, a \in (Ids \X (2 .. Outputs)) \cup {<<>>} :
           Admit(r, [Idle EXCEPT !.op = "turn", !.on = u.id, !.file = u.file,
                                 !.art = a, !.pc = "t_file"])
    BY <1>6 DEF Turn
  <2> DEFINE q == [Idle EXCEPT !.op = "turn", !.on = u.id, !.file = u.file,
                               !.art = a, !.pc = "t_file"]
  <2>2. q.op = "turn" /\ q.pc = "t_file" /\ q.calls = 0
    BY DEF Idle
  <2>3. project = "active" /\ UNCHANGED <<ledger, spent>>
    BY <1>6 DEF Turn, Unmetered, meters
  <2> HIDE DEF q
  <2>4. Track(q)
    BY <2>2 DEF Track, Doing
  <2> QED BY <1>5, <2>1, <2>2, <2>3, <2>4, AdmitMoves DEF q
<1>7. CASE Narrate(r)
  <2>1. PICK t \in TurnIds :
           Admit(r, [Idle EXCEPT !.op = "narrate", !.on = t, !.pc = "g_spend"])
    BY <1>7 DEF Narrate
  <2> DEFINE q == [Idle EXCEPT !.op = "narrate", !.on = t, !.pc = "g_spend"]
  <2>2. q.op = "narrate" /\ q.pc = "g_spend" /\ q.calls = 0
    BY DEF Idle
  <2>3. UNCHANGED <<ledger, spent>>
    BY <1>7 DEF Narrate, Unmetered, meters
  <2> HIDE DEF q
  <2>4. Track(q) /\ q.op \notin Writers
    BY <2>2 DEF Track, Doing, TurnLabels, Writers
  <2> QED BY <1>5, <2>1, <2>2, <2>3, <2>4, AdmitMoves DEF q
<1>8. CASE \/ GuardSpend(r) \/ TurnFile(r) \/ TurnInput(r) \/ TurnInsert(r) \/ TurnPreview(r)
           \/ TurnRefused(r) \/ TurnFailed(r) \/ TurnDataset(r) \/ TurnPut(r) \/ ArtifactPut(r)
           \/ NarrateTurn(r) \/ NarrateObject(r) \/ NarrateClose(r)
  <2>1. PICK l \in {"g_spend", "g_count", "t_insert", "t_preview", "t_call", "t_fail", "t_kernel",
                    "t_complete", "a_row", "n_object", "n_stream", "ok", "refused"} :
          /\ Go(r, l) \/ (l \in {"ok", "refused"} /\ Answer(r, l))
          /\ req[r].pc \in {"g_spend", "t_file", "t_input", "t_insert", "t_preview", "t_refuse",
                            "t_fail", "t_dataset", "t_put", "a_put", "n_turn", "n_object", "n_close"}
          /\ l \in {"t_insert", "t_preview", "t_call", "t_fail", "t_kernel", "t_complete", "a_row"}
               => req[r].pc \in TurnLabels
    BY <1>8 DEF GuardSpend, TurnFile, TurnInput, TurnInsert, TurnPreview, TurnRefused,
       TurnFailed, TurnDataset, TurnPut, ArtifactPut, NarrateTurn, NarrateObject,
       NarrateClose, At, TurnLabels
  <2>2. Running(r) /\ req[r].calls = 0 /\ {"ok", "refused"} \subseteq Ended
    BY <2>1 DEF Running, Ended, Track, Calling
  <2>3. l \in TurnLabels => req[r].op = "turn"
    BY <2>1 DEF TurnLabels, Track, Doing
  <2>4. UNCHANGED <<ledger, spent>>
    BY <1>3, <2>1 DEF CallModel, NarrateStream, RecordCall, At
  <2> QED BY <1>5, <2>1, <2>2, <2>3, <2>4, GoMoves, AnswerMoves
<1>9. CASE GuardCount(r)
  <2> DEFINE q == [req[r] EXCEPT !.pc = "g_row", !.n = rate[RouteOf(r)]]
  <2>1. /\ req[r].pc = "g_count" /\ UNCHANGED <<ledger, spent>>
        /\ \/ Answer(r, "refused")
           \/ Becomes(r, q) /\ ~(rate[RouteOf(r)] >= RateCap)
    BY <1>9 DEF GuardCount, At, Unmetered, meters
  <2>2. q.pc = "g_row" /\ q.n = rate[RouteOf(r)] /\ q.op = req[r].op /\ q.calls = req[r].calls
    BY <1>1 DEF Call
  <2>3. Running(r) /\ req[r].calls = 0 /\ "refused" \in Ended
    BY <2>1 DEF Running, Ended, Track, Calling
  <2>4. rate[RouteOf(r)] \in Nat
    BY DEF Shapes, RouteOf, Routes
  <2> HIDE DEF q
  <2>5. ~(rate[RouteOf(r)] >= RateCap) => Track(q)
    BY <2>2, <2>3, <2>4, BoundsAssumption DEF Track, Doing, TurnLabels
  <2> QED BY <1>5, <2>1, <2>2, <2>3, <2>5, AnswerMoves, BecomesMoves
<1>10. CASE GuardRow(r)
  <2> DEFINE q == [req[r] EXCEPT !.pc = AfterGuard(r), !.n = 0]
  <2>1. req[r].pc = "g_row" /\ UNCHANGED <<ledger, spent>> /\ Becomes(r, q)
    BY <1>10 DEF GuardRow, At
  <2>2. q.pc = AfterGuard(r) /\ q.op = req[r].op /\ q.calls = req[r].calls
    BY <1>1 DEF Call
  <2>3. Running(r) /\ req[r].calls = 0 /\ req[r].op \in ModelOps
    BY <1>1, <2>1 DEF Running, Ended, Track, Calling, Stage, Guarded
  <2>4. \/ req[r].op = "turn" /\ AfterGuard(r) = "t_input"
        \/ AfterGuard(r) \in {"n_turn", "c_user", "c_drop"}
    BY <2>3 DEF AfterGuard, ModelOps
  <2> HIDE DEF q
  <2>5. Track(q)
    BY <2>2, <2>3, <2>4 DEF Track, Doing, TurnLabels
  <2> QED BY <1>5, <2>1, <2>2, <2>3, <2>5, BecomesMoves
<1>11. CASE CallModel(r)
  <2>1. /\ req[r].pc = "t_call" /\ spent' = spent + 1 /\ ledger' = ledger
        /\ \/ req[r].calls = 0 /\ Becomes(r, [req[r] EXCEPT !.calls = 1])
           \/ \E then \in Thens : Becomes(r, WithCalls(req[r], "t_ledger", then, req[r].calls + 1))
    BY <1>11 DEF CallModel, At, WithCalls, Thens
  <2>2. req[r].op = "turn" /\ Running(r)
    BY <2>1 DEF Track, Doing, TurnLabels, Running, Ended
  <2>3. CASE req[r].calls = 0 /\ Becomes(r, [req[r] EXCEPT !.calls = 1])
    <3> DEFINE q == [req[r] EXCEPT !.calls = 1]
    <3>1. q.pc = "t_call" /\ q.op = req[r].op /\ q.calls = 1
      BY <1>1, <2>1 DEF Call
    <3> HIDE DEF q
    <3>2. Track(q)
      BY <2>2, <3>1 DEF Track, Doing, TurnLabels, Calling
    <3>3. Moved(r) /\ req'[r].calls = 1
      BY <2>1, <2>2, <2>3, <3>1, <3>2, BecomesMoves DEF q
    <3> QED BY <1>4, <2>1, <2>3, <3>3 DEF Metered
  <2>4. ASSUME NEW then \in Thens, Becomes(r, WithCalls(req[r], "t_ledger", then, req[r].calls + 1))
        PROVE  Tracked(r)
    <3> DEFINE q == WithCalls(req[r], "t_ledger", then, req[r].calls + 1)
    <3>1. q.pc = "t_ledger" /\ q.op = req[r].op /\ q.calls = req[r].calls + 1
      BY <1>1 DEF Call, WithCalls
    <3> HIDE DEF q
    <3>2. Track(q)
      BY <2>2, <3>1 DEF Track, Doing, TurnLabels, Calling
    <3>3. Moved(r) /\ req'[r].calls = req[r].calls + 1
      BY <2>1, <2>2, <2>4, <3>1, <3>2, BecomesMoves DEF q
    <3> QED BY <1>4, <2>1, <3>3 DEF Metered
  <2> QED BY <2>1, <2>3, <2>4
<1>12. CASE NarrateStream(r)
  <2> DEFINE q == WithCalls(req[r], "t_ledger", "n_close", 1)
  <2>1. /\ req[r].pc = "n_stream" /\ spent' = spent + 1 /\ ledger' = ledger
        /\ Becomes(r, q)
    BY <1>12 DEF NarrateStream, At, WithCalls
  <2>2. q.pc = "t_ledger" /\ q.op = req[r].op /\ q.calls = 1 /\ q.then = "n_close"
    BY <1>1 DEF Call, WithCalls
  <2>3. Running(r) /\ req[r].calls = 0
    BY <2>1 DEF Running, Ended, Track, Calling
  <2> HIDE DEF q
  <2>4. Track(q)
    BY <2>2 DEF Track, Doing, TurnLabels, Calling
  <2>5. Moved(r) /\ req'[r].calls = 1
    BY <2>1, <2>2, <2>3, <2>4, BecomesMoves
  <2> QED BY <1>4, <2>1, <2>3, <2>5 DEF Metered
<1>13. CASE RecordCall(r)
  <2>1. /\ req[r].pc = "t_ledger" /\ spent' = spent /\ ledger' = ledger + 1
        /\ IF req[r].calls = 1
           THEN Becomes(r, [req[r] EXCEPT !.pc = req[r].then, !.calls = 0])
           ELSE Becomes(r, [req[r] EXCEPT !.calls = @ - 1])
    BY <1>13 DEF RecordCall, At
  <2>2. /\ req[r].calls \in 1 .. 2 /\ Running(r)
        /\ req[r].then \in {"t_refuse", "t_fail", "t_dataset", "n_close"}
        /\ req[r].then # "n_close" => req[r].op = "turn"
    BY <1>1, <2>1 DEF Stage, Running, Ended, Call, Thens, Track, Doing
  <2>3. CASE req[r].calls = 1
    <3> DEFINE q == [req[r] EXCEPT !.pc = req[r].then, !.calls = 0]
    <3>1. q.pc = req[r].then /\ q.op = req[r].op /\ q.calls = 0
      BY <1>1 DEF Call
    <3> HIDE DEF q
    <3>2. Track(q)
      BY <2>2, <3>1 DEF Track, Doing, TurnLabels, Calling
    <3>3. Moved(r) /\ req'[r].calls = 0
      BY <2>1, <2>2, <2>3, <3>1, <3>2, BecomesMoves DEF q
    <3> QED BY <1>4, <2>1, <2>3, <3>3 DEF Metered
  <2>4. CASE req[r].calls # 1
    <3> DEFINE q == [req[r] EXCEPT !.calls = @ - 1]
    <3>1. q.pc = "t_ledger" /\ q.op = req[r].op /\ q.calls = req[r].calls - 1 /\ q.then = req[r].then
      BY <1>1, <2>1 DEF Call
    <3> HIDE DEF q
    <3>2. Track(q)
      BY <2>2, <3>1 DEF Track, Doing, TurnLabels, Calling
    <3>3. Moved(r) /\ req'[r].calls = req[r].calls - 1
      BY <2>1, <2>2, <2>4, <3>1, <3>2, BecomesMoves DEF q
    <3> QED BY <1>4, <2>1, <2>2, <3>3 DEF Metered
  <2> QED BY <2>3, <2>4
<1>14. CASE CallKernel(r)
  <2>1. /\ req[r].pc = "t_kernel" /\ UNCHANGED <<ledger, spent>>
        /\ \/ Go(r, "t_fail")
           \/ Becomes(r, [req[r] EXCEPT !.n = 1])
           \/ \E m \in 1 .. Outputs : Becomes(r, [req[r] EXCEPT !.pc = "t_put", !.n = m])
    BY <1>14 DEF CallKernel, At, Unmetered, meters
  <2>2. req[r].op = "turn" /\ Running(r) /\ req[r].calls = 0
    BY <2>1 DEF Track, Doing, TurnLabels, Calling, Running, Ended
  <2>3. ASSUME NEW q, Becomes(r, q), q.pc \in {"t_kernel", "t_put"}, q.op = req[r].op, q.calls = req[r].calls
        PROVE  Tracked(r)
    <3>1. Track(q)
      BY <2>2, <2>3 DEF Track, Doing
    <3> QED BY <1>5, <2>1, <2>2, <2>3, <3>1, BecomesMoves
  <2>4. /\ \A m : LET q == [req[r] EXCEPT !.pc = "t_put", !.n = m]
                  IN q.pc = "t_put" /\ q.op = req[r].op /\ q.calls = req[r].calls
        /\ LET q == [req[r] EXCEPT !.n = 1]
           IN q.pc = "t_kernel" /\ q.op = req[r].op /\ q.calls = req[r].calls
    BY <1>1, <2>1 DEF Call
  <2>5. CASE Go(r, "t_fail")
    BY <1>5, <2>1, <2>2, <2>5, GoMoves
  <2> QED BY <2>1, <2>3, <2>4, <2>5
<1>15. CASE TurnComplete(r) \/ ArtifactRow(r)
  <2>1. PICK k \in {1, req[r].k + 1} :
          /\ req[r].pc \in {"t_complete", "a_row"} /\ UNCHANGED <<ledger, spent>>
          /\ Answer(r, "ok") \/ Becomes(r, [req[r] EXCEPT !.pc = "a_put", !.k = k])
    BY <1>15 DEF TurnComplete, ArtifactRow, At, Unstored, meters
  <2> DEFINE q == [req[r] EXCEPT !.pc = "a_put", !.k = k]
  <2>2. q.pc = "a_put" /\ q.op = req[r].op /\ q.calls = req[r].calls
    BY <1>1 DEF Call
  <2>3. req[r].op = "turn" /\ Running(r) /\ req[r].calls = 0 /\ "ok" \in Ended
    BY <2>1 DEF Track, Doing, TurnLabels, Calling, Running, Ended
  <2> HIDE DEF q
  <2>4. Track(q)
    BY <2>2, <2>3 DEF Track, Doing
  <2> QED BY <1>5, <2>1, <2>2, <2>3, <2>4, AnswerMoves, BecomesMoves DEF q
<1> QED BY <1>6, <1>7, <1>8, <1>9, <1>10, <1>11, <1>12, <1>13, <1>14, <1>15 DEF TurnStep

LEMMA ChatTracked ==
  ASSUME ReqOK, NEW r \in Reqs, Track(req[r]), ChatStep(r)
  PROVE  Tracked(r)
<1>1. req[r] \in Call /\ Stage(req[r])
  BY DEF ReqOK
<1>2. UNCHANGED <<rate, raced>> /\ Stays
  BY DEF ChatStep, CreateChat, CreateBoundChat, CreateBoundChatRow, PatchChat,
     PatchChatProject, PatchChatRow, DeleteChat, DeleteChatRows, Stream, StoreQuestion,
     DropAnswer, CallChatModel, EndStream, AbortStream, RecordUsage, StoreAnswer,
     Apart, rows, meters, Stays
<1>3. CallChatModel(r) \/ RecordUsage(r) \/ UNCHANGED <<ledger, spent>>
  BY DEF ChatStep, CreateChat, CreateBoundChat, CreateBoundChatRow, PatchChat,
     PatchChatProject, PatchChatRow, DeleteChat, DeleteChatRows, Stream, StoreQuestion,
     DropAnswer, EndStream, AbortStream, StoreAnswer, Apart, meters
<1>4. ASSUME Moved(r), Metered(r) PROVE Tracked(r)
  BY <1>2, <1>4 DEF Tracked
<1>5. ASSUME Moved(r), req'[r].calls = req[r].calls, UNCHANGED <<ledger, spent>>
      PROVE  Tracked(r)
  BY <1>4, <1>5 DEF Metered
<1>6. CASE CreateChat(r) \/ CreateBoundChat(r) \/ PatchChat(r) \/ DeleteChat(r) \/ Stream(r)
  <2>1. At(r, "idle") /\ UNCHANGED <<ledger, spent>>
    BY <1>3, <1>6 DEF CreateChat, CreateBoundChat, PatchChat, DeleteChat, Stream, Admit, At,
       CallChatModel, RecordUsage
  <2>2. ASSUME NEW q, Admit(r, q), q.calls = 0,
               \/ q.op = "createChat" /\ q.pc = "ok"
               \/ q.op = "createChat" /\ q.pc = "cc_row" /\ project = "active"
               \/ q.op = "freeChat" /\ q.pc = "pc_row" /\ q.n = 0
               \/ q.op = "bindChat" /\ q.pc = "pc_project"
               \/ q.op = "renameChat" /\ q.pc = "pc_row"
               \/ q.op \in {"deleteChat", "send", "regenerate"} /\ q.pc \in {"dc_rows", "g_spend"}
        PROVE  Tracked(r)
    <3>1. Track(q) /\ (q.op \in Writers => project = "active" \/ q.pc \in {"ok", "pc_project"})
      BY <2>2 DEF Track, Doing, TurnLabels, Calling, Writers
    <3> QED BY <1>5, <2>1, <2>2, <3>1, AdmitMoves
  <2>3. CASE CreateChat(r)
    <3> DEFINE q == [Idle EXCEPT !.op = "createChat", !.pc = "ok"]
    <3>1. q.op = "createChat" /\ q.pc = "ok" /\ q.calls = 0 /\ Admit(r, q)
      BY <2>3 DEF Idle, CreateChat
    <3> QED BY <2>2, <3>1
  <2>4. CASE CreateBoundChat(r)
    <3> DEFINE q == [Idle EXCEPT !.op = "createChat", !.pc = "cc_row"]
    <3>1. q.op = "createChat" /\ q.pc = "cc_row" /\ q.calls = 0 /\ Admit(r, q) /\ project = "active"
      BY <2>4 DEF Idle, CreateBoundChat
    <3> QED BY <2>2, <3>1
  <2>6. CASE DeleteChat(r)
    <3> DEFINE q(c) == [Idle EXCEPT !.op = "deleteChat", !.on = c, !.pc = "dc_rows"]
    <3>1. PICK c \in ConvIds : Admit(r, q(c))
      BY <2>6 DEF DeleteChat
    <3>2. q(c).op = "deleteChat" /\ q(c).pc = "dc_rows" /\ q(c).calls = 0
      BY DEF Idle
    <3> QED BY <2>2, <3>1, <3>2
  <2>7. CASE Stream(r)
    <3> DEFINE q(op, c, f) == [Idle EXCEPT !.op = op, !.on = c, !.file = f, !.pc = "g_spend"]
    <3> DEFINE f(c) == msgs[c][LastOf(msgs[c], "user")].of
    <3>1. PICK c \in ConvIds :
             Admit(r, q("send", c, r)) \/ Admit(r, q("regenerate", c, f(c)))
      BY <2>7 DEF Stream
    <3>2. \A op, x : q(op, c, x).op = op /\ q(op, c, x).pc = "g_spend" /\ q(op, c, x).calls = 0
      BY DEF Idle
    <3> HIDE DEF q, f
    <3> QED BY <2>2, <3>1, <3>2
  <2>5. CASE PatchChat(r)
    <3> DEFINE bind(c) == [Idle EXCEPT !.op = "bindChat", !.on = c.id, !.pc = "pc_project"]
               free(c) == [Idle EXCEPT !.op = "freeChat", !.on = c.id, !.pc = "pc_row"]
               name(c) == [Idle EXCEPT !.op = "renameChat", !.on = c.id, !.pc = "pc_row",
                                       !.n = IF c.bound THEN 1 ELSE 0]
    <3>1. PICK c \in convs : Admit(r, bind(c)) \/ Admit(r, free(c)) \/ Admit(r, name(c))
      BY <2>5 DEF PatchChat
    <3>2. /\ bind(c).op = "bindChat" /\ bind(c).pc = "pc_project" /\ bind(c).calls = 0
          /\ free(c).op = "freeChat" /\ free(c).pc = "pc_row" /\ free(c).calls = 0 /\ free(c).n = 0
          /\ name(c).op = "renameChat" /\ name(c).pc = "pc_row" /\ name(c).calls = 0
      BY DEF Idle
    <3> QED BY <2>2, <3>1, <3>2
  <2> QED BY <1>6, <2>3, <2>4, <2>5, <2>6, <2>7
<1>7. CASE PatchChatProject(r)
  <2> DEFINE q == [req[r] EXCEPT !.pc = "pc_row", !.n = 1]
  <2>1. req[r].pc = "pc_project" /\ UNCHANGED <<ledger, spent>>
        /\ (Answer(r, "refused") \/ (Becomes(r, q) /\ project = "active"))
    BY <1>7 DEF PatchChatProject, At, meters
  <2>2. q.pc = "pc_row" /\ q.op = req[r].op /\ q.calls = req[r].calls
    BY <1>1 DEF Call
  <2>3. Running(r) /\ req[r].calls = 0 /\ req[r].op = "bindChat" /\ "refused" \in Ended
    BY <2>1 DEF Running, Ended, Track, Doing, Calling
  <2> HIDE DEF q
  <2>4. Track(q)
    BY <2>2, <2>3 DEF Track, Doing, TurnLabels
  <2> QED BY <1>5, <2>1, <2>2, <2>3, <2>4, AnswerMoves, BecomesMoves
<1>8. CASE CallChatModel(r)
  <2> DEFINE q == [req[r] EXCEPT !.pc = "c_end", !.calls = 1]
  <2>1. req[r].pc = "c_stream" /\ Becomes(r, q) /\ spent' = spent + 1 /\ ledger' = ledger
    BY <1>8 DEF CallChatModel, At
  <2>2. q.pc = "c_end" /\ q.op = req[r].op /\ q.calls = 1
    BY <1>1 DEF Call
  <2>3. Running(r) /\ req[r].calls = 0
    BY <2>1 DEF Running, Ended, Track, Calling
  <2> HIDE DEF q
  <2>4. Track(q)
    BY <2>2 DEF Track, Doing, TurnLabels, Calling
  <2>5. Moved(r) /\ req'[r].calls = 1
    BY <2>1, <2>2, <2>3, <2>4, BecomesMoves
  <2> QED BY <1>4, <2>1, <2>3, <2>5 DEF Metered
<1>9. CASE RecordUsage(r)
  <2> DEFINE q == [req[r] EXCEPT !.pc = "c_answer", !.calls = 0]
  <2>1. req[r].pc = "c_usage" /\ Becomes(r, q) /\ spent' = spent /\ ledger' = ledger + 1
    BY <1>9 DEF RecordUsage, At
  <2>2. q.pc = "c_answer" /\ q.op = req[r].op /\ q.calls = 0
    BY <1>1 DEF Call
  <2>3. Running(r) /\ req[r].calls = 1
    BY <2>1 DEF Running, Ended, Track
  <2> HIDE DEF q
  <2>4. Track(q)
    BY <2>2 DEF Track, Doing, TurnLabels, Calling
  <2>5. Moved(r) /\ req'[r].calls = 0
    BY <2>1, <2>2, <2>3, <2>4, BecomesMoves
  <2> QED BY <1>4, <2>1, <2>3, <2>5 DEF Metered
<1>10. CASE \/ CreateBoundChatRow(r) \/ PatchChatRow(r) \/ DeleteChatRows(r)
            \/ StoreQuestion(r) \/ DropAnswer(r) \/ EndStream(r) \/ AbortStream(r) \/ StoreAnswer(r)
  <2>1. PICK l \in {"c_stream", "c_usage", "c_answer", "ok", "dead"} :
          /\ Go(r, l) \/ (l \in {"ok", "dead"} /\ Answer(r, l))
          /\ req[r].pc \in {"cc_row", "pc_row", "dc_rows", "c_user", "c_drop", "c_end", "c_answer"}
          /\ l = "c_usage" => req[r].pc = "c_end"
          /\ l \in {"c_usage", "c_answer", "dead"} \/ req[r].calls = 0
    BY <1>10 DEF CreateBoundChatRow, PatchChatRow, DeleteChatRows, StoreQuestion, DropAnswer,
       EndStream, AbortStream, StoreAnswer, At, Track, Calling
  <2>2. Running(r) /\ {"ok", "dead"} \subseteq Ended
    BY <2>1 DEF Running, Ended
  <2>3. UNCHANGED <<ledger, spent>>
    BY <1>3, <2>1 DEF CallChatModel, RecordUsage, At
  <2>4. l \notin TurnLabels /\ {"c_usage", "c_answer"} \subseteq Calling
    BY DEF TurnLabels, Calling
  <2>5. "dead" \in Calling
    BY DEF Calling
  <2> QED BY <1>5, <2>1, <2>2, <2>3, <2>4, <2>5, GoMoves, AnswerMoves
<1> QED BY <1>6, <1>7, <1>8, <1>9, <1>10 DEF ChatStep

LEMMA StepTracked ==
  ASSUME ReqOK, Shapes, NEW r \in Reqs, Track(req[r]),
         WorkspaceStep(r) \/ TurnStep(r) \/ ChatStep(r) \/ Die(r)
  PROVE  Tracked(r)
<1>1. CASE Die(r)
  <2>1. Running(r) /\ Answer(r, "dead") /\ UNCHANGED <<rate, raced, ledger, spent>> /\ Stays
    BY <1>1 DEF Die, rows, meters, Stays
  <2> QED BY <2>1, AnswerMoves DEF Tracked, Metered, Ended
<1> QED BY <1>1, WorkspaceTracked, TurnTracked, ChatTracked

------------------------------------------------------------------------------
(* The three limits, step by step.                                         *)

LEMMA RateStep ==
  ASSUME ReqOK, Shapes, LimitsInv, NEW r \in Reqs, Tracked(r)
  PROVE  RateKeptUnlessRaced'
<1>1. CASE UNCHANGED <<rate, raced>>
  BY <1>1 DEF LimitsInv, RateKeptUnlessRaced
<1>2. CASE GuardRow(r)
  <2> DEFINE route == RouteOf(r)
  <2>1. /\ route \in Routes /\ rate \in [Routes -> Nat] /\ req[r].n < RateCap /\ req[r].n \in Nat
    BY <1>2 DEF RouteOf, Routes, Shapes, LimitsInv, Track, GuardRow, At, ReqOK, Call
  <2>2. /\ rate' = [rate EXCEPT ![route] = @ + 1]
        /\ raced' = IF rate[route] # req[r].n THEN raced \cup {route} ELSE raced
    BY <1>2 DEF GuardRow
  <2> HIDE DEF route
  <2> SUFFICES ASSUME NEW x \in Routes, rate'[x] > RateCap PROVE x \in raced'
    BY DEF RateKeptUnlessRaced
  <2>3. CASE x # route
    BY <2>1, <2>2, <2>3 DEF LimitsInv, RateKeptUnlessRaced
  <2>4. CASE x = route
    <3>1. rate[route] + 1 > RateCap /\ rate[route] \in Nat
      BY <2>1, <2>2, <2>4
    <3>2. rate[route] # req[r].n
      BY <2>1, <3>1, BoundsAssumption
    <3> QED BY <2>2, <2>4, <3>2
  <2> QED BY <2>3, <2>4
<1> QED BY <1>1, <1>2 DEF Tracked

LEMMA LedgerStep ==
  ASSUME ReqOK, ReqOK', Shapes, LimitsInv, NEW r \in Reqs, Tracked(r)
  PROVE  IsFiniteSet(UnrecordedCalls)' /\ (ledger + Cardinality(UnrecordedCalls) = spent)'
<1>1. /\ req[r].calls \in 0 .. 2 /\ ledger \in Nat /\ spent \in Nat
      /\ \A q \in Reqs : q # r => req'[q] = req[q]
  BY DEF ReqOK, Call, Shapes, Tracked, Moved
<1>2. IsFiniteSet(UnrecordedCalls) /\ Cardinality(UnrecordedCalls) \in Nat
      /\ ledger + Cardinality(UnrecordedCalls) = spent
  BY FS_CardinalityType DEF LimitsInv
<1>3. CASE UNCHANGED <<ledger, spent>> /\ req'[r].calls = req[r].calls
  <2>1. \A q \in Reqs : req'[q].calls = req[q].calls
    BY <1>1, <1>3
  <2>2. \A c \in Reqs \X (1 .. 2) : req'[c[1]].calls = req[c[1]].calls
    BY <2>1
  <2>3. UnrecordedCalls' = UnrecordedCalls
    BY <2>2 DEF UnrecordedCalls
  <2> QED BY <1>2, <1>3, <2>3
<1>4. CASE spent' = spent + 1 /\ ledger' = ledger /\ req'[r].calls = req[r].calls + 1
  <2> DEFINE new == <<r, req[r].calls + 1>>
  <2>1. req[r].calls + 1 \in 1 .. 2
    <3>1. req'[r].calls \in 0 .. 2
      BY DEF ReqOK, Call
    <3> QED BY <1>1, <1>4, <3>1
  <2>2. UnrecordedCalls' = UnrecordedCalls \cup {new} /\ new \notin UnrecordedCalls
    BY <1>1, <1>4, <2>1 DEF UnrecordedCalls
  <2> HIDE DEF new
  <2>3. IsFiniteSet(UnrecordedCalls') /\ Cardinality(UnrecordedCalls') = Cardinality(UnrecordedCalls) + 1
    BY <1>2, <2>2, FS_AddElement
  <2> QED BY <1>1, <1>2, <1>4, <2>3
<1>5. CASE /\ ledger' = ledger + 1 /\ spent' = spent
           /\ req[r].calls > 0 /\ req'[r].calls = req[r].calls - 1
  <2> DEFINE old == <<r, req[r].calls>>
  <2>1. UnrecordedCalls' = UnrecordedCalls \ {old} /\ old \in UnrecordedCalls
    BY <1>1, <1>5 DEF UnrecordedCalls
  <2> HIDE DEF old
  <2>2. IsFiniteSet(UnrecordedCalls') /\ Cardinality(UnrecordedCalls') = Cardinality(UnrecordedCalls) - 1
    BY <1>2, <2>1, FS_RemoveElement
  <2> QED BY <1>1, <1>2, <1>5, <2>2
<1> QED BY <1>3, <1>4, <1>5 DEF Tracked, Metered

LEMMA ArchiveStep ==
  ASSUME ReqOK, LimitsInv, NEW r \in Reqs, Tracked(r)
  PROVE  (\A q \in Reqs : project = "archived" /\ Writing(q) => q \in stale)'
<1> SUFFICES ASSUME NEW q \in Reqs, project' = "archived", Writing(q)'
             PROVE  q \in stale'
  OBVIOUS
<1>1. CASE SetStateRow(r)
  <2>1. req'[r].pc = "ok" /\ stale' = stale \cup {x \in Reqs \ {r} : Running(x)}
    BY <1>1, AnswerIs DEF SetStateRow
  <2>2. q # r
    BY <2>1 DEF Writing, Running, Ended
  <2>3. Running(q)
    BY <2>2 DEF Tracked, Moved, Writing, Running
  <2> QED BY <2>1, <2>2, <2>3
<1>2. CASE Stays
  <2>1. project = "archived" /\ stale' = stale
    BY <1>2 DEF Stays
  <2>2. Writing(q)
    BY <2>1 DEF Tracked, Moved, Writing, Running
  <2> QED BY <2>1, <2>2 DEF LimitsInv
<1> QED BY <1>1, <1>2 DEF Tracked

LEMMA LimitsInit ==
  ASSUME Start
  PROVE  LimitsInv
<1>1. /\ \A r \in Reqs : req[r] = Idle
      /\ rate = [route \in Routes |-> RateCap - 1] /\ spent = ledger /\ ledger = Budget - 1
  BY DEF Start, Init
<1>2. \A r \in Reqs : Track(req[r]) /\ ~Running(r)
  BY <1>1 DEF Idle, Track, Doing, TurnLabels, Running
<1>3. UnrecordedCalls = {}
  BY <1>1 DEF UnrecordedCalls, Idle
<1>4. RateKeptUnlessRaced
  BY <1>1, BoundsAssumption DEF RateKeptUnlessRaced
<1>5. IsFiniteSet(UnrecordedCalls) /\ ledger + Cardinality(UnrecordedCalls) = spent
  BY <1>1, <1>3, FS_EmptySet, BoundsAssumption
<1> QED BY <1>2, <1>4, <1>5 DEF LimitsInv, Writing

LEMMA LimitsStill ==
  ASSUME LimitsInv, UNCHANGED <<vars, late>>
  PROVE  LimitsInv'
<1>1. UNCHANGED <<req, rate, raced, ledger, spent, project, stale>>
  BY DEF vars, rows, meters, history
<1>2. UnrecordedCalls' = UnrecordedCalls
  BY <1>1 DEF UnrecordedCalls
<1>3. (\A r \in Reqs : Track(req[r]))' /\ RateKeptUnlessRaced'
  BY <1>1 DEF LimitsInv, RateKeptUnlessRaced
<1>4. (\A r \in Reqs : project = "archived" /\ Writing(r) => r \in stale)'
  BY <1>1 DEF LimitsInv, Writing, Running
<1> QED BY <1>1, <1>2, <1>3, <1>4 DEF LimitsInv

LEMMA LimitsStep ==
  ASSUME ReqOK, Shapes, LimitsInv, [Next]_<<vars, late>>
  PROVE  LimitsInv'
<1>1. ASSUME NEW r \in Reqs, WorkspaceStep(r) \/ TurnStep(r) \/ ChatStep(r) \/ Die(r)
      PROVE  LimitsInv'
  <2>1. Tracked(r)
    BY <1>1, StepTracked DEF LimitsInv
  <2>2. \A q \in Reqs : Track(req'[q])
    BY <2>1 DEF Tracked, Moved, LimitsInv
  <2>3. ReqOK'
    BY <1>1, WorkspaceReqs, TurnReqs, ChatReqs, DieReqs
  <2>4. RateKeptUnlessRaced'
    BY <2>1, RateStep
  <2>5. IsFiniteSet(UnrecordedCalls)' /\ (ledger + Cardinality(UnrecordedCalls) = spent)'
    BY <2>1, <2>3, LedgerStep
  <2>6. (\A q \in Reqs : project = "archived" /\ Writing(q) => q \in stale)'
    BY <2>1, ArchiveStep
  <2> QED BY <2>2, <2>4, <2>5, <2>6 DEF LimitsInv
<1> QED BY <1>1, LimitsStill DEF Next

(* What each request carries, and the three limits, in every state.        *)
THEOREM LimitsHold == Spec => []LimitsInv
<1>1. Start => LimitsInv
  BY LimitsInit
<1>2. LimitsInv /\ ReqOK /\ Shapes /\ [Next]_<<vars, late>> => LimitsInv'
  BY LimitsStep
<1> QED BY <1>1, <1>2, ShapesHold, PTL DEF Spec

(* No route passes its hourly limit unless two of its requests were        *)
(* counted at once: guardModelCall lets in at most RateCap of them.        *)
THEOREM RateHolds == Spec => []RateKeptUnlessRaced
<1>1. LimitsInv => RateKeptUnlessRaced
  BY DEF LimitsInv
<1> QED BY <1>1, LimitsHold, PTL

(* The ledger lacks the unrecorded calls of the dead and of requests at    *)
(* work, and nothing else; a request that was answered has none.           *)
THEOREM LedgerHolds == Spec => []LedgerLacksOnlyTheDead
<1>1. LimitsInv => LedgerLacksOnlyTheDead
  BY DEF LimitsInv, LedgerLacksOnlyTheDead, Track, Calling, At
<1> QED BY <1>1, LimitsHold, PTL

------------------------------------------------------------------------------
(* What a step may write, and who takes it.                                *)

BoundIds == {c \in ConvIds : [id |-> c, bound |-> TRUE] \in convs}

Unwritten ==
    /\ files' \subseteq files /\ SessionIds' \subseteq SessionIds
    /\ TurnIds' \subseteq TurnIds /\ artifacts' \subseteq artifacts
    /\ BoundIds' \subseteq BoundIds

LEMMA UnwrittenIs == Written = ~Unwritten
  BY DEF Written, Unwritten, BoundIds

LEMMA SameUnwritten == ASSUME UNCHANGED <<rows, convs>> PROVE Unwritten
  BY DEF rows, Unwritten, SessionIds, TurnIds, BoundIds, ConvIds

LEMMA WorkspaceWrites ==
  ASSUME NEW r \in Reqs, WorkspaceStep(r), ~Unwritten
  PROVE  UploadRow(r) \/ CreateSessionRow(r)
<1> SUFFICES ASSUME ~UploadRow(r), ~CreateSessionRow(r) PROVE Unwritten
  OBVIOUS
<1>1. /\ files' \subseteq files /\ sessions' \subseteq sessions /\ turns' \subseteq turns
      /\ artifacts' \subseteq artifacts /\ convs' \subseteq convs
  BY DEF WorkspaceStep, CreateProject, SetState, Upload, DeleteFile, CreateSession,
     DeleteSession, DeleteProject, Reset, DeleteArtifact, DeleteKeys,
     UploadPut, DeleteFileProject, DeleteFileCount,
     DeleteFileRow, DeleteFileObject, CreateSessionFile,
     DeleteSessionRows, DeleteProjectRows, DeleteObjects, LogOrphans, SetStateRow,
     DeleteArtifactRow, DeleteArtifactObject, Rest, rows, chats
<1> QED BY <1>1 DEF Unwritten, SessionIds, TurnIds, BoundIds, ConvIds

LEMMA TurnWrites ==
  ASSUME Shapes, NEW r \in Reqs, TurnStep(r), ~Unwritten
  PROVE  TurnInsert(r) \/ ArtifactRow(r)
<1> SUFFICES ASSUME ~TurnInsert(r), ~ArtifactRow(r) PROVE Unwritten
  OBVIOUS
<1>1. CASE TurnRefused(r) \/ TurnFailed(r) \/ TurnComplete(r)
  <2>1. PICK status : SetTurn(r, status)
    BY <1>1 DEF TurnRefused, TurnFailed, TurnComplete
  <2>2. UNCHANGED <<files, sessions, artifacts, convs>>
    BY <1>1 DEF TurnRefused, TurnFailed, TurnComplete, Unstored, chats
  <2>3. TurnIds' \subseteq TurnIds
    <3> DEFINE T(t) == IF t.id = r THEN [t EXCEPT !.status = status] ELSE t
    <3>1. \A t \in turns : T(t).id = t.id
      BY DEF Shapes
    <3> QED BY <2>1, <3>1 DEF SetTurn, TurnIds
  <2> QED BY <2>2, <2>3 DEF Unwritten, SessionIds, BoundIds, ConvIds
<1>2. CASE ~(TurnRefused(r) \/ TurnFailed(r) \/ TurnComplete(r))
  <2>1. UNCHANGED <<rows, convs>>
    BY <1>2 DEF TurnStep, GuardSpend, GuardCount, GuardRow, Turn, TurnFile, TurnInput,
       TurnPreview, CallModel, RecordCall, TurnDataset, CallKernel, TurnPut, ArtifactPut,
       Narrate, NarrateTurn, NarrateObject, NarrateStream, NarrateClose, Unmetered,
       Unstored, chats
  <2> QED BY <2>1, SameUnwritten
<1> QED BY <1>1, <1>2

LEMMA ChatWrites ==
  ASSUME Shapes, NEW r \in Reqs, ChatStep(r), ~Unwritten
  PROVE  CreateBoundChatRow(r) \/ (PatchChatRow(r) /\ req[r].n # 0)
<1> SUFFICES ASSUME ~CreateBoundChatRow(r), ~(PatchChatRow(r) /\ req[r].n # 0) PROVE Unwritten
  OBVIOUS
<1>1. UNCHANGED rows
  BY DEF ChatStep, CreateChat, CreateBoundChat, CreateBoundChatRow, PatchChat,
     PatchChatProject, PatchChatRow, DeleteChat, DeleteChatRows, Stream, StoreQuestion,
     DropAnswer, CallChatModel, EndStream, AbortStream, RecordUsage, StoreAnswer, Apart
<1>2. ASSUME BoundIds' \subseteq BoundIds PROVE Unwritten
  BY <1>1, <1>2 DEF rows, Unwritten, SessionIds, TurnIds
<1>3. CASE CreateChat(r)
  <2>1. convs' = convs \cup {[id |-> r, bound |-> FALSE]}
    BY <1>3 DEF CreateChat
  <2> QED BY <1>2, <2>1 DEF BoundIds, ConvIds
<1>4. CASE PatchChatRow(r) /\ req[r].n = 0
  <2> DEFINE P(c) == IF c.id = req[r].on THEN [c EXCEPT !.bound = (req[r].n = 1)] ELSE c
  <2>1. convs' = {P(c) : c \in convs}
    BY <1>4 DEF PatchChatRow
  <2>2. \A c \in convs : c.id # req[r].on => P(c) = c
    OBVIOUS
  <2>3. \A c \in convs : c.id = req[r].on => P(c).bound = FALSE
    <3>1. (req[r].n = 1) = FALSE
      BY <1>4
    <3>2. \A c \in convs : [c EXCEPT !.bound = FALSE].bound = FALSE
      BY DEF Shapes
    <3> QED BY <3>1, <3>2
  <2> HIDE DEF P
  <2>4. ASSUME NEW b, [id |-> b, bound |-> TRUE] \in convs' PROVE [id |-> b, bound |-> TRUE] \in convs
    <3> DEFINE d == [id |-> b, bound |-> TRUE]
    <3>1. d.bound = TRUE
      OBVIOUS
    <3> HIDE DEF d
    <3>2. PICK c \in convs : d = P(c)
      BY <2>1, <2>4 DEF d
    <3>3. d \in convs
      BY <2>2, <2>3, <3>1, <3>2
    <3> QED BY <3>3 DEF d
  <2>5. \A b : [id |-> b, bound |-> TRUE] \in convs => b \in ConvIds
    BY DEF ConvIds
  <2> QED BY <1>2, <2>4, <2>5 DEF BoundIds
<1>5. CASE ~CreateChat(r) /\ ~PatchChatRow(r)
  <2>1. convs' \subseteq convs
    BY <1>5 DEF ChatStep, CreateBoundChat, PatchChat,
     PatchChatProject, DeleteChat, DeleteChatRows, Stream, StoreQuestion,
     DropAnswer, CallChatModel, EndStream, AbortStream, RecordUsage, StoreAnswer, Apart, chats
  <2> QED BY <1>2, <2>1 DEF BoundIds, ConvIds
<1> QED BY <1>3, <1>4, <1>5

LEMMA WritersWrite ==
  ASSUME Shapes, NEW r \in Reqs, Track(req[r]), req[r].op # "renameChat", ~Unwritten,
         WorkspaceStep(r) \/ TurnStep(r) \/ ChatStep(r) \/ Die(r)
  PROVE  Writing(r)
<1>1. ~Die(r)
  BY SameUnwritten DEF Die, chats
<1>2. \/ req[r].pc \in {"up_row", "cs_row", "t_insert", "a_row", "cc_row"}
      \/ req[r].pc = "pc_row" /\ req[r].n # 0
  BY <1>1, WorkspaceWrites, TurnWrites, ChatWrites
     DEF UploadRow, CreateSessionRow, TurnInsert, ArtifactRow, CreateBoundChatRow,
         PatchChatRow, At
<1> QED BY <1>2 DEF Writing, Running, Ended, Track, Doing, TurnLabels, Writers

(* Once a project is archived, only requests that were at work at that     *)
(* moment (and a rename) write into it: every other write has checked the  *)
(* project and would have been turned away.                                *)
THEOREM ArchiveKept == Spec => ArchiveHolds
<1>1. ReqOK /\ Shapes /\ LimitsInv /\ [Next]_<<vars, late>>
      => [\A r \in Reqs :
            /\ project = "archived" /\ Written
            /\ req'[r] # req[r] /\ req[r].op # "renameChat"
            => r \in stale]_<<vars, late>>
  <2> SUFFICES ASSUME ReqOK, Shapes, LimitsInv, Next,
                      NEW r \in Reqs, project = "archived", Written,
                      req'[r] # req[r], req[r].op # "renameChat"
               PROVE  r \in stale
    OBVIOUS
  <2>1. PICK q \in Reqs : WorkspaceStep(q) \/ TurnStep(q) \/ ChatStep(q) \/ Die(q)
    BY DEF Next
  <2>2. Tracked(q)
    BY <2>1, StepTracked DEF LimitsInv
  <2>3. q = r
    BY <2>2 DEF Tracked, Moved
  <2>4. Writing(r)
    BY <2>1, <2>3, UnwrittenIs, WritersWrite DEF LimitsInv
  <2> QED BY <2>4 DEF LimitsInv
<1> QED BY <1>1, ShapesHold, LimitsHold, PTL DEF Spec, ArchiveHolds

------------------------------------------------------------------------------
(* How a request goes from call to call, whatever its call does.           *)

\* The operation a request is admitted for, and the call it makes first.
Opens(op, pc) ==
    \/ op \in {"createProject", "createChat"} /\ pc = "ok"
    \/ op \in {"archive", "unarchive"} /\ pc = "st_row"
    \/ op = "upload" /\ pc = "up_put"
    \/ op = "deleteFile" /\ pc = "df_project"
    \/ op = "createSession" /\ pc = "cs_file"
    \/ op \in {"deleteSession", "deleteProject", "reset"} /\ pc = "keys"
    \/ op = "deleteArtifact" /\ pc = "da_row"
    \/ op = "turn" /\ pc = "t_file"
    \/ op \in {"narrate", "send", "regenerate"} /\ pc = "g_spend"
    \/ op = "createChat" /\ pc = "cc_row"
    \/ op = "bindChat" /\ pc = "pc_project"
    \/ op \in {"freeChat", "renameChat"} /\ pc = "pc_row"
    \/ op = "deleteChat" /\ pc = "dc_rows"

\* From one call to the next.
Path(from, to) ==
    \/ from = "up_put" /\ to = "up_row"
    \/ from = "df_project" /\ to = "df_count"
    \/ from = "df_count" /\ to = "df_row"
    \/ from = "df_row" /\ to = "df_object"
    \/ from = "cs_file" /\ to = "cs_row"
    \/ from = "keys" /\ to = "batch"
    \/ from = "batch" /\ to = "objects"
    \/ from = "da_row" /\ to = "da_object"
    \/ from = "t_file" /\ to = "g_spend"
    \/ from = "g_spend" /\ to = "g_count"
    \/ from = "g_count" /\ to = "g_row"
    \/ from = "t_input" /\ to = "t_insert"
    \/ from = "t_insert" /\ to \in {"t_preview", "t_fail"}
    \/ from = "t_preview" /\ to \in {"t_call", "t_fail"}
    \/ from = "t_call" /\ to \in {"t_call", "t_ledger"}
    \/ from = "t_ledger" /\ to = "t_ledger"
    \/ from = "t_dataset" /\ to \in {"t_kernel", "t_fail"}
    \/ from = "t_kernel" /\ to \in {"t_kernel", "t_put", "t_fail"}
    \/ from = "t_put" /\ to = "t_complete"
    \/ from = "t_complete" /\ to = "a_put"
    \/ from = "a_put" /\ to = "a_row"
    \/ from = "a_row" /\ to = "a_put"
    \/ from = "n_turn" /\ to = "n_object"
    \/ from = "n_object" /\ to = "n_stream"
    \/ from = "n_stream" /\ to = "t_ledger"
    \/ from = "pc_project" /\ to = "pc_row"
    \/ from \in {"c_user", "c_drop"} /\ to = "c_stream"
    \/ from = "c_stream" /\ to = "c_end"
    \/ from = "c_end" /\ to \in {"c_usage", "c_answer"}
    \/ from = "c_usage" /\ to = "c_answer"

\* A request that goes on keeps its operation and what it is about; where
\* the guard and the ledger lead depends on these.
Leads(r, q) ==
    /\ Running(r)
    /\ q.op = req[r].op /\ q.on = req[r].on /\ q.file = req[r].file /\ q.art = req[r].art
    /\ \/ q.pc \in Ended
       \/ Path(req[r].pc, q.pc)
       \/ At(r, "g_row") /\ q.pc = AfterGuard(r)
       \/ At(r, "t_ledger") /\ q.pc = req[r].then

Arrives(r, q) ==
    /\ At(r, "idle") /\ Opens(q.op, q.pc)
    /\ q.op = "send" => q.file = r

Walks(r) ==
    /\ \A q \in Reqs : q # r => req'[q] = req[q]
    /\ Arrives(r, req'[r]) \/ Leads(r, req'[r])

LEMMA AdmitWalks ==
  ASSUME ReqOK, NEW r \in Reqs, NEW q, Admit(r, q), Opens(q.op, q.pc),
         q.op = "send" => q.file = r
  PROVE  Walks(r)
  BY BecomesIs DEF Admit, Walks, Arrives

LEMMA GoWalks ==
  ASSUME ReqOK, NEW r \in Reqs, NEW l, Go(r, l), Path(req[r].pc, l)
  PROVE  Walks(r)
<1>1. Running(r)
  BY DEF Path, Running, Ended
<1> QED BY <1>1, GoIs DEF Walks, Leads

LEMMA AnswerWalks ==
  ASSUME ReqOK, NEW r \in Reqs, NEW how \in Ended, Answer(r, how), Running(r)
  PROVE  Walks(r)
  BY AnswerIs DEF Walks, Leads

LEMMA BecomesWalks ==
  ASSUME ReqOK, NEW r \in Reqs, NEW q, Becomes(r, q), Leads(r, q)
  PROVE  Walks(r)
  BY BecomesIs DEF Walks

LEMMA WorkspaceWalks ==
  ASSUME ReqOK, NEW r \in Reqs, WorkspaceStep(r)
  PROVE  Walks(r) /\ (At(r, "idle") => req'[r].op \notin ModelOps)
<1>1. CASE \/ CreateProject(r) \/ SetState(r) \/ Upload(r) \/ DeleteFile(r) \/ CreateSession(r)
           \/ DeleteSession(r) \/ DeleteProject(r) \/ Reset(r) \/ DeleteArtifact(r)
  <2>1. ASSUME NEW q, Admit(r, q), Opens(q.op, q.pc), q.op \notin ModelOps
        PROVE  Walks(r) /\ req'[r].op \notin ModelOps
    BY <2>1, AdmitWalks, BecomesIs DEF Admit, ModelOps
  <2>2. CASE CreateProject(r) \/ Upload(r) \/ DeleteProject(r) \/ Reset(r)
    <3> DEFINE q(op, l) == [Idle EXCEPT !.op = op, !.pc = l]
    <3>1. PICK op \in {"createProject", "upload", "deleteProject", "reset"},
               l \in {"ok", "up_put", "keys"} : Admit(r, q(op, l)) /\ Opens(op, l)
      BY <2>2 DEF CreateProject, Upload, DeleteProject, Reset, Opens
    <3>2. q(op, l).op = op /\ q(op, l).pc = l
      BY DEF Idle
    <3> HIDE DEF q
    <3> QED BY <2>1, <3>1, <3>2 DEF ModelOps
  <2>3. CASE SetState(r)
    <3> DEFINE q(op) == [Idle EXCEPT !.op = op, !.pc = "st_row"]
    <3>1. PICK op \in {"archive", "unarchive"} : Admit(r, q(op))
      BY <2>3 DEF SetState
    <3>2. q(op).op = op /\ q(op).pc = "st_row"
      BY DEF Idle
    <3> HIDE DEF q
    <3> QED BY <2>1, <3>1, <3>2 DEF Opens, ModelOps
  <2>4. CASE DeleteFile(r) \/ CreateSession(r)
    <3> DEFINE q(op, f, l) == [Idle EXCEPT !.op = op, !.file = f, !.pc = l]
    <3>1. /\ DeleteFile(r) => \E f \in files : Admit(r, q("deleteFile", f, "df_project"))
          /\ CreateSession(r) => \E f \in Ids : Admit(r, q("createSession", f, "cs_file"))
      BY DEF DeleteFile, CreateSession
    <3>2. \A op, f, l : q(op, f, l).op = op /\ q(op, f, l).pc = l
      BY DEF Idle
    <3> HIDE DEF q
    <3> QED BY <2>1, <2>4, <3>1, <3>2 DEF Opens, ModelOps
  <2>5. CASE DeleteSession(r)
    <3> DEFINE q(s) == [Idle EXCEPT !.op = "deleteSession", !.on = s, !.pc = "keys"]
    <3>1. PICK s \in SessionIds : Admit(r, q(s))
      BY <2>5 DEF DeleteSession
    <3>2. q(s).op = "deleteSession" /\ q(s).pc = "keys"
      BY DEF Idle
    <3> HIDE DEF q
    <3> QED BY <2>1, <3>1, <3>2 DEF Opens, ModelOps
  <2>6. CASE DeleteArtifact(r)
    <3> DEFINE q(a) == [Idle EXCEPT !.op = "deleteArtifact", !.art = a, !.pc = "da_row"]
    <3>1. PICK a \in artifacts : Admit(r, q(a))
      BY <2>6 DEF DeleteArtifact
    <3>2. q(a).op = "deleteArtifact" /\ q(a).pc = "da_row"
      BY DEF Idle
    <3> HIDE DEF q
    <3> QED BY <2>1, <3>1, <3>2 DEF Opens, ModelOps
  <2> QED BY <1>1, <2>2, <2>3, <2>4, <2>5, <2>6
<1>2. CASE DeleteKeys(r)
  <2> DEFINE q == [req[r] EXCEPT !.pc = "batch", !.keys = Losing(r)]
  <2>1. Becomes(r, q) /\ req[r].pc = "keys"
    BY <1>2 DEF DeleteKeys, Losing, At
  <2>2. /\ q.pc = "batch" /\ q.op = req[r].op /\ q.on = req[r].on
        /\ q.file = req[r].file /\ q.art = req[r].art
    BY DEF ReqOK, Call
  <2> HIDE DEF q
  <2> QED BY <2>1, <2>2, BecomesWalks DEF Leads, Path, Running, Ended, At
<1>3. CASE ~\/ CreateProject(r) \/ SetState(r) \/ Upload(r) \/ DeleteFile(r) \/ CreateSession(r)
            \/ DeleteSession(r) \/ DeleteProject(r) \/ Reset(r) \/ DeleteArtifact(r)
            \/ DeleteKeys(r)
  <2>1. PICK l \in {"up_row", "df_count", "df_row", "df_object", "cs_row", "objects", "da_object",
                    "ok", "refused"} :
          /\ \/ Go(r, l) /\ Path(req[r].pc, l)
             \/ l \in {"ok", "refused"} /\ Answer(r, l)
          /\ req[r].pc \in {"st_row", "up_put", "up_row", "df_project", "df_count", "df_row",
                            "df_object", "cs_file", "cs_row", "batch", "objects", "da_row",
                            "da_object"}
    BY <1>3 DEF WorkspaceStep, UploadPut, UploadRow, DeleteFileProject, DeleteFileCount,
       DeleteFileRow, DeleteFileObject, CreateSessionFile, CreateSessionRow,
       DeleteSessionRows, DeleteProjectRows, AfterBatch, DeleteObjects, LogOrphans,
       SetStateRow, DeleteArtifactRow, DeleteArtifactObject, At, Path
  <2>2. Running(r) /\ {"ok", "refused"} \subseteq Ended
    BY <2>1 DEF Running, Ended
  <2> QED BY <2>1, <2>2, GoWalks, AnswerWalks DEF At
<1> QED BY <1>1, <1>2, <1>3

LEMMA TurnWalks ==
  ASSUME ReqOK, NEW r \in Reqs, TurnStep(r)
  PROVE  Walks(r) /\ (At(r, "idle") => req'[r].op \in {"turn", "narrate"})
<1>1. req[r] \in Call /\ Stage(req[r])
  BY DEF ReqOK
<1>2. CASE Turn(r)
  <2> DEFINE q(u, a) == [Idle EXCEPT !.op = "turn", !.on = u.id, !.file = u.file,
                                     !.art = a, !.pc = "t_file"]
  <2>1. PICK u \in sessions, a \in (Ids \X (2 .. Outputs)) \cup {<<>>} : Admit(r, q(u, a))
    BY <1>2 DEF Turn
  <2>2. q(u, a).op = "turn" /\ q(u, a).pc = "t_file"
    BY DEF Idle
  <2> HIDE DEF q
  <2> QED BY <2>1, <2>2, AdmitWalks, BecomesIs DEF Opens, Admit
<1>3. CASE Narrate(r)
  <2> DEFINE q(t) == [Idle EXCEPT !.op = "narrate", !.on = t, !.pc = "g_spend"]
  <2>1. PICK t \in TurnIds : Admit(r, q(t))
    BY <1>3 DEF Narrate
  <2>2. q(t).op = "narrate" /\ q(t).pc = "g_spend"
    BY DEF Idle
  <2> HIDE DEF q
  <2> QED BY <2>1, <2>2, AdmitWalks, BecomesIs DEF Opens, Admit
<1>4. CASE \/ GuardSpend(r) \/ TurnFile(r) \/ TurnInput(r) \/ TurnInsert(r) \/ TurnPreview(r)
           \/ TurnRefused(r) \/ TurnFailed(r) \/ TurnDataset(r) \/ TurnPut(r) \/ ArtifactPut(r)
           \/ NarrateTurn(r) \/ NarrateObject(r) \/ NarrateClose(r)
  <2>1. PICK l \in {"g_spend", "g_count", "t_insert", "t_preview", "t_call", "t_fail", "t_kernel",
                    "t_complete", "a_row", "n_object", "n_stream", "ok", "refused"} :
          /\ \/ Go(r, l) /\ Path(req[r].pc, l)
             \/ l \in {"ok", "refused"} /\ Answer(r, l)
          /\ req[r].pc \in {"g_spend", "t_file", "t_input", "t_insert", "t_preview", "t_refuse",
                            "t_fail", "t_dataset", "t_put", "a_put", "n_turn", "n_object", "n_close"}
    BY <1>4 DEF GuardSpend, TurnFile, TurnInput, TurnInsert, TurnPreview, TurnRefused,
       TurnFailed, TurnDataset, TurnPut, ArtifactPut, NarrateTurn, NarrateObject,
       NarrateClose, At, Path
  <2>2. Running(r) /\ {"ok", "refused"} \subseteq Ended
    BY <2>1 DEF Running, Ended
  <2> QED BY <2>1, <2>2, GoWalks, AnswerWalks DEF At
<1>5. CASE GuardCount(r) \/ GuardRow(r)
  <2> DEFINE q(l, n) == [req[r] EXCEPT !.pc = l, !.n = n]
  <2>1. PICK l, n :
          /\ Becomes(r, q(l, n)) \/ Answer(r, "refused")
          /\ \/ At(r, "g_count") /\ l = "g_row"
             \/ At(r, "g_row") /\ l = AfterGuard(r)
    BY <1>5 DEF GuardCount, GuardRow
  <2>2. /\ q(l, n).pc = l /\ q(l, n).op = req[r].op /\ q(l, n).on = req[r].on
        /\ q(l, n).file = req[r].file /\ q(l, n).art = req[r].art
    BY <1>1 DEF Call
  <2> HIDE DEF q
  <2>3. Running(r) /\ "refused" \in Ended /\ Leads(r, q(l, n))
    BY <2>1, <2>2 DEF Running, Ended, Leads, Path, At
  <2> QED BY <2>1, <2>3, AnswerWalks, BecomesWalks DEF At
<1>6. CASE CallModel(r) \/ RecordCall(r) \/ NarrateStream(r)
  <2> DEFINE q(l, t, c) == [req[r] EXCEPT !.pc = l, !.then = t, !.calls = c]
             p(l, c)    == [req[r] EXCEPT !.pc = l, !.calls = c]
             o(c)       == [req[r] EXCEPT !.calls = c]
  <2>1. /\ \A l, t, c : /\ q(l, t, c).pc = l /\ q(l, t, c).op = req[r].op
                        /\ q(l, t, c).on = req[r].on /\ q(l, t, c).file = req[r].file
                        /\ q(l, t, c).art = req[r].art
        /\ \A l, c : /\ p(l, c).pc = l /\ p(l, c).op = req[r].op /\ p(l, c).on = req[r].on
                     /\ p(l, c).file = req[r].file /\ p(l, c).art = req[r].art
        /\ \A c : /\ o(c).pc = req[r].pc /\ o(c).op = req[r].op /\ o(c).on = req[r].on
                  /\ o(c).file = req[r].file /\ o(c).art = req[r].art
    BY <1>1 DEF Call
  <2>2. CASE CallModel(r)
    <3>1. /\ req[r].pc = "t_call"
          /\ Becomes(r, o(1)) \/ \E t : Becomes(r, q("t_ledger", t, req[r].calls + 1))
      BY <2>2 DEF CallModel, At
    <3> HIDE DEF q, p, o
    <3> QED BY <2>1, <3>1, BecomesWalks DEF Leads, Path, Running, Ended, At
  <2>3. CASE RecordCall(r)
    <3>1. /\ At(r, "t_ledger")
          /\ Becomes(r, o(req[r].calls - 1)) \/ Becomes(r, p(req[r].then, 0))
      BY <2>3 DEF RecordCall
    <3> HIDE DEF q, p, o
    <3> QED BY <2>1, <3>1, BecomesWalks DEF Leads, Path, Running, Ended, At
  <2>4. CASE NarrateStream(r)
    <3>1. req[r].pc = "n_stream" /\ Becomes(r, q("t_ledger", "n_close", 1))
      BY <2>4 DEF NarrateStream, At
    <3> HIDE DEF q, p, o
    <3> QED BY <2>1, <3>1, BecomesWalks DEF Leads, Path, Running, Ended, At
  <2> QED BY <1>6, <2>2, <2>3, <2>4
<1>7. CASE CallKernel(r)
  <2> DEFINE q(l, n) == [req[r] EXCEPT !.pc = l, !.n = n]
             o(n)    == [req[r] EXCEPT !.n = n]
  <2>1. /\ req[r].pc = "t_kernel"
        /\ Go(r, "t_fail") \/ Becomes(r, o(1)) \/ \E m : Becomes(r, q("t_put", m))
    BY <1>7 DEF CallKernel, At
  <2>2. /\ \A l, n : /\ q(l, n).pc = l /\ q(l, n).op = req[r].op /\ q(l, n).on = req[r].on
                     /\ q(l, n).file = req[r].file /\ q(l, n).art = req[r].art
        /\ \A n : /\ o(n).pc = req[r].pc /\ o(n).op = req[r].op /\ o(n).on = req[r].on
                  /\ o(n).file = req[r].file /\ o(n).art = req[r].art
    BY <1>1 DEF Call
  <2> HIDE DEF q, o
  <2>3. Go(r, "t_fail") => Walks(r)
    BY <2>1, GoWalks DEF Path
  <2> QED BY <2>1, <2>2, <2>3, BecomesWalks DEF Leads, Path, Running, Ended, At
<1>8. CASE TurnComplete(r) \/ ArtifactRow(r)
  <2> DEFINE q(k) == [req[r] EXCEPT !.pc = "a_put", !.k = k]
  <2>1. PICK k : /\ req[r].pc \in {"t_complete", "a_row"}
                 /\ Answer(r, "ok") \/ Becomes(r, q(k))
    <3>1. \/ Answer(r, "ok") \/ Becomes(r, q(1)) \/ Becomes(r, q(req[r].k + 1))
      BY <1>8 DEF TurnComplete, ArtifactRow
    <3>2. req[r].pc \in {"t_complete", "a_row"}
      BY <1>8 DEF TurnComplete, ArtifactRow, At
    <3> HIDE DEF q
    <3> QED BY <3>1, <3>2
  <2>2. /\ q(k).pc = "a_put" /\ q(k).op = req[r].op /\ q(k).on = req[r].on
        /\ q(k).file = req[r].file /\ q(k).art = req[r].art
    BY <1>1 DEF Call
  <2> HIDE DEF q
  <2>3. Running(r) /\ "ok" \in Ended /\ Leads(r, q(k))
    BY <2>1, <2>2 DEF Running, Ended, Leads, Path
  <2> QED BY <2>1, <2>3, AnswerWalks, BecomesWalks DEF At
<1> QED BY <1>2, <1>3, <1>4, <1>5, <1>6, <1>7, <1>8 DEF TurnStep

LEMMA ChatWalks ==
  ASSUME ReqOK, NEW r \in Reqs, ChatStep(r)
  PROVE  Walks(r)
<1>1. req[r] \in Call /\ Stage(req[r])
  BY DEF ReqOK
<1>2. CASE CreateChat(r) \/ CreateBoundChat(r)
  <2> DEFINE q(l) == [Idle EXCEPT !.op = "createChat", !.pc = l]
  <2>1. PICK l \in {"ok", "cc_row"} : Admit(r, q(l))
    BY <1>2 DEF CreateChat, CreateBoundChat
  <2>2. q(l).op = "createChat" /\ q(l).pc = l
    BY DEF Idle
  <2> HIDE DEF q
  <2> QED BY <2>1, <2>2, AdmitWalks DEF Opens
<1>3. CASE PatchChat(r)
  <2> DEFINE bind(c) == [Idle EXCEPT !.op = "bindChat", !.on = c.id, !.pc = "pc_project"]
             free(c) == [Idle EXCEPT !.op = "freeChat", !.on = c.id, !.pc = "pc_row"]
             name(c) == [Idle EXCEPT !.op = "renameChat", !.on = c.id, !.pc = "pc_row",
                                     !.n = IF c.bound THEN 1 ELSE 0]
  <2>1. PICK c \in convs : Admit(r, bind(c)) \/ Admit(r, free(c)) \/ Admit(r, name(c))
    BY <1>3 DEF PatchChat
  <2>2. /\ bind(c).op = "bindChat" /\ bind(c).pc = "pc_project"
        /\ free(c).op = "freeChat" /\ free(c).pc = "pc_row"
        /\ name(c).op = "renameChat" /\ name(c).pc = "pc_row"
    BY DEF Idle
  <2> HIDE DEF bind, free, name
  <2> QED BY <2>1, <2>2, AdmitWalks DEF Opens
<1>4. CASE DeleteChat(r)
  <2> DEFINE q(c) == [Idle EXCEPT !.op = "deleteChat", !.on = c, !.pc = "dc_rows"]
  <2>1. PICK c \in ConvIds : Admit(r, q(c))
    BY <1>4 DEF DeleteChat
  <2>2. q(c).op = "deleteChat" /\ q(c).pc = "dc_rows"
    BY DEF Idle
  <2> HIDE DEF q
  <2> QED BY <2>1, <2>2, AdmitWalks DEF Opens
<1>5. CASE Stream(r)
  <2> DEFINE q(op, c, f) == [Idle EXCEPT !.op = op, !.on = c, !.file = f, !.pc = "g_spend"]
  <2>1. \E c, f : Admit(r, q("send", c, r)) \/ Admit(r, q("regenerate", c, f))
    BY <1>5 DEF Stream
  <2>2. \A op, c, f : q(op, c, f).op = op /\ q(op, c, f).pc = "g_spend" /\ q(op, c, f).file = f
    BY DEF Idle
  <2> HIDE DEF q
  <2> QED BY <2>1, <2>2, AdmitWalks DEF Opens
<1>6. CASE PatchChatProject(r) \/ CallChatModel(r) \/ RecordUsage(r)
  <2> DEFINE q(l, n) == [req[r] EXCEPT !.pc = l, !.n = n]
             p(l, c) == [req[r] EXCEPT !.pc = l, !.calls = c]
  <2>1. /\ \A l, n : /\ q(l, n).pc = l /\ q(l, n).op = req[r].op /\ q(l, n).on = req[r].on
                     /\ q(l, n).file = req[r].file /\ q(l, n).art = req[r].art
        /\ \A l, c : /\ p(l, c).pc = l /\ p(l, c).op = req[r].op /\ p(l, c).on = req[r].on
                     /\ p(l, c).file = req[r].file /\ p(l, c).art = req[r].art
    BY <1>1 DEF Call
  <2>2. \/ req[r].pc = "pc_project" /\ (Answer(r, "refused") \/ Becomes(r, q("pc_row", 1)))
        \/ req[r].pc = "c_stream" /\ Becomes(r, p("c_end", 1))
        \/ req[r].pc = "c_usage" /\ Becomes(r, p("c_answer", 0))
    BY <1>6 DEF PatchChatProject, CallChatModel, RecordUsage, At
  <2> HIDE DEF q, p
  <2>3. Answer(r, "refused") => Walks(r)
    BY <2>2, AnswerWalks DEF Running, Ended
  <2> QED BY <2>1, <2>2, <2>3, BecomesWalks DEF Leads, Path, Running, Ended
<1>7. CASE \/ CreateBoundChatRow(r) \/ PatchChatRow(r) \/ DeleteChatRows(r)
           \/ StoreQuestion(r) \/ DropAnswer(r) \/ EndStream(r) \/ AbortStream(r) \/ StoreAnswer(r)
  <2>1. PICK l \in {"c_stream", "c_usage", "c_answer", "ok", "dead"} :
          /\ \/ Go(r, l) /\ Path(req[r].pc, l)
             \/ l \in {"ok", "dead"} /\ Answer(r, l)
          /\ req[r].pc \in {"cc_row", "pc_row", "dc_rows", "c_user", "c_drop", "c_end", "c_answer"}
    BY <1>7 DEF CreateBoundChatRow, PatchChatRow, DeleteChatRows, StoreQuestion, DropAnswer,
       EndStream, AbortStream, StoreAnswer, At, Path
  <2>2. Running(r) /\ {"ok", "dead"} \subseteq Ended
    BY <2>1 DEF Running, Ended
  <2> QED BY <2>1, <2>2, GoWalks, AnswerWalks
<1> QED BY <1>2, <1>3, <1>4, <1>5, <1>6, <1>7 DEF ChatStep

LEMMA StepWalks ==
  ASSUME ReqOK, NEW r \in Reqs, WorkspaceStep(r) \/ TurnStep(r) \/ ChatStep(r) \/ Die(r)
  PROVE  Walks(r)
<1>1. CASE Die(r)
  BY <1>1, AnswerWalks DEF Die, Ended
<1> QED BY <1>1, WorkspaceWalks, TurnWalks, ChatWalks

------------------------------------------------------------------------------
(***************************************************************************)
(* A clean conversation is a sequence of questions and their answers.  A   *)
(* stream changes it twice, when it begins and when it is answered; what   *)
(* is proved is that between the two, and while nobody else streams, the   *)
(* conversation lacks exactly the answer that the request carries.         *)
(***************************************************************************)
Question(of) == [role |-> "user", of |-> of]
Reply(of)    == [role |-> "assistant", of |-> of]

Paired(s) ==
    /\ Len(s) % 2 = 0
    /\ \A i \in DOMAIN s : IF i % 2 = 1
                           THEN s[i].role = "user"
                           ELSE s[i] = [role |-> "assistant", of |-> s[i - 1].of]

LEMMA PairedEmpty == Paired(<<>>)
  BY DEF Paired

\* A question and its answer make a paired conversation a longer one.
LEMMA PairedLonger ==
  ASSUME NEW s \in Seq(Message), Paired(s), NEW f \in Ids
  PROVE  Paired(Append(Append(s, Question(f)), Reply(f)))
<1> DEFINE t == Append(Append(s, Question(f)), Reply(f))
<1>1. Question(f) \in Message /\ Reply(f) \in Message
  BY DEF Question, Reply, Message
<1>2. /\ Len(s) \in Nat /\ Len(t) = Len(s) + 2 /\ DOMAIN t = 1 .. Len(s) + 2
      /\ \A i \in 1 .. Len(s) : t[i] = s[i]
      /\ t[Len(s) + 1] = Question(f) /\ t[Len(s) + 2] = Reply(f)
  BY <1>1
<1> HIDE DEF t
<1>0. (Len(s) + 1) % 2 = 1 /\ (Len(s) + 2) % 2 = 0
  <2>1. Len(s) % 2 = 0
    BY DEF Paired
  <2> QED BY <1>2, <2>1
<1>3. Len(t) % 2 = 0
  BY <1>0, <1>2
<1>4. ASSUME NEW i \in DOMAIN t
      PROVE  IF i % 2 = 1 THEN t[i].role = "user"
             ELSE t[i] = [role |-> "assistant", of |-> t[i - 1].of]
  <2>1. CASE i \in 1 .. Len(s)
    <3>1. IF i % 2 = 1 THEN s[i].role = "user"
          ELSE s[i] = [role |-> "assistant", of |-> s[i - 1].of]
      BY <2>1 DEF Paired
    <3>2. i % 2 # 1 => i - 1 \in 1 .. Len(s)
      BY <1>2, <2>1
    <3>3. CASE i % 2 = 1
      BY <1>2, <2>1, <3>1, <3>3
    <3>4. CASE i % 2 # 1
      <4>1. t[i] = s[i] /\ t[i - 1] = s[i - 1]
        BY <1>2, <2>1, <3>2, <3>4
      <4> QED BY <3>1, <3>4, <4>1
    <3> QED BY <3>3, <3>4
  <2>2. CASE i = Len(s) + 1
    <3>1. i % 2 = 1
      BY <1>0, <2>2
    <3> QED BY <1>2, <2>2, <3>1 DEF Question
  <2>3. CASE i = Len(s) + 2
    <3>1. i % 2 = 0 /\ i - 1 = Len(s) + 1
      BY <1>0, <1>2, <2>3
    <3> QED BY <1>2, <2>3, <3>1 DEF Question, Reply
  <2> QED BY <1>2, <2>1, <2>2, <2>3
<1> QED BY <1>3, <1>4 DEF Paired, t

\* Its last answer is its last message, and answers its last question.
LEMMA PairedEnd ==
  ASSUME NEW s \in Seq(Message), Paired(s), Of(s, "user") # {} \/ Of(s, "assistant") # {}
  PROVE  /\ Len(s) \in Nat /\ Len(s) >= 2
         /\ Of(s, "user") # {} /\ Of(s, "assistant") # {}
         /\ LastOf(s, "user") = Len(s) - 1 /\ LastOf(s, "assistant") = Len(s)
<1>1. Len(s) \in Nat /\ DOMAIN s = 1 .. Len(s) /\ Len(s) >= 2
  BY DEF Of, Paired
<1>2. Len(s) \in DOMAIN s /\ Len(s) - 1 \in DOMAIN s /\ Len(s) % 2 = 0 /\ (Len(s) - 1) % 2 = 1
  BY <1>1 DEF Paired
<1>3. s[Len(s)].role = "assistant" /\ s[Len(s) - 1].role = "user"
  BY <1>2 DEF Paired
<1>4. Len(s) \in Of(s, "assistant") /\ Len(s) - 1 \in Of(s, "user") /\ Len(s) \notin Of(s, "user")
  BY <1>2, <1>3 DEF Of
<1>5. /\ \A j \in Of(s, "assistant") : j \in 1 .. Len(s)
      /\ \A j \in Of(s, "user") : j \in 1 .. Len(s) - 1
  <2>1. \A role : \A j \in Of(s, role) : j \in 1 .. Len(s)
    BY <1>1 DEF Of
  <2> QED BY <1>1, <1>4, <2>1
<1>6. LastOf(s, "assistant") = Len(s)
  BY <1>1, <1>4, <1>5 DEF LastOf
<1>7. LastOf(s, "user") = Len(s) - 1
  BY <1>1, <1>4, <1>5 DEF LastOf
<1> QED BY <1>1, <1>4, <1>6, <1>7

\* Without its last answer it wants the answer to its last question.
LEMMA PairedAgain ==
  ASSUME NEW s \in Seq(Message), Paired(s), Of(s, "user") # {},
         NEW i, i = LastOf(s, "assistant"),
         NEW t, t = SubSeq(s, 1, i - 1) \o SubSeq(s, i + 1, Len(s)),
         NEW f, f = s[LastOf(s, "user")].of
  PROVE  Paired(Append(t, Reply(f)))
<1>1. Len(s) \in Nat /\ Len(s) >= 2 /\ i = Len(s) /\ f = s[Len(s) - 1].of
  BY PairedEnd
<1>2. /\ t \in Seq(Message) /\ Len(t) = Len(s) - 1
      /\ \A j \in 1 .. Len(s) - 1 : t[j] = s[j]
  <2> DEFINE a == SubSeq(s, 1, i - 1)
             b == SubSeq(s, i + 1, Len(s))
  <2>1. /\ a \in Seq(Message) /\ Len(a) = Len(s) - 1
        /\ \A j \in 1 .. Len(s) - 1 : a[j] = s[j]
    BY <1>1
  <2>2. b \in Seq(Message) /\ Len(b) = 0
    BY <1>1
  <2> HIDE DEF a, b
  <2>3. t = a \o b
    BY DEF a, b
  <2> QED BY <1>1, <2>1, <2>2, <2>3
<1>3. Reply(f) = s[Len(s)] /\ s[Len(s)] \in Message
  BY <1>1 DEF Paired, Reply
<1>4. Append(t, Reply(f)) = s
  <2> DEFINE u == Append(t, Reply(f))
  <2>1. /\ u \in Seq(Message) /\ Len(u) = Len(s)
        /\ \A j \in 1 .. Len(s) : u[j] = s[j]
    BY <1>1, <1>2, <1>3
  <2> HIDE DEF u
  <2>2. u = s
    <3>1. DOMAIN u = 1 .. Len(s) /\ DOMAIN s = 1 .. Len(s)
      BY <2>1
    <3>2. u = [j \in 1 .. Len(s) |-> u[j]] /\ s = [j \in 1 .. Len(s) |-> s[j]]
      BY <2>1, <3>1
    <3> QED BY <2>1, <3>2, Zenon
  <2> QED BY <2>2 DEF u
<1> QED BY <1>4

------------------------------------------------------------------------------
(* What the requests of a conversation carry.                              *)

ChatOps == {"send", "regenerate"}
Streams(r, c) == Running(r) /\ req[r].op \in ChatOps /\ req[r].on = c

\* The conversation of request c has been made or never will be.
Minted(c) == c \in Reqs => req[c].pc \notin {"idle", "cc_row"}

Saying(r) ==
    /\ At(r, "c_user") => req[r].op = "send"
    /\ At(r, "c_drop") => req[r].op = "regenerate"
    /\ Streaming(r) => req[r].op \in ChatOps
    /\ req[r].op = "send" => req[r].file = r

\* The answer it will store completes the conversation; before it has begun,
\* a regeneration is about the last question.
Carries(r) ==
    LET s == msgs[req[r].on] IN
    req[r].on \in ConvIds =>
      IF Streaming(r) THEN Paired(Append(s, Reply(req[r].file)))
      ELSE req[r].op = "regenerate" =>
             Of(s, "user") # {} /\ req[r].file = s[LastOf(s, "user")].of

Clean(c) ==
    /\ \A r, q \in Reqs : Streams(r, c) /\ Streams(q, c) => r = q
    /\ \A r \in Reqs : Streams(r, c) => Carries(r)
    /\ (\A r \in Reqs : ~(Streams(r, c) /\ Streaming(r))) => Paired(msgs[c])

ChatsInv ==
    /\ \A c \in ConvIds : Minted(c)
    /\ \A r \in Reqs : Saying(r) /\ (req[r].op \in ChatOps => Minted(req[r].on))
    /\ \A c \in Ids \ messy : Clean(c)

\* A step that is no part of a stream's work on its conversation.
Aside(r) ==
    /\ messy \subseteq messy'
    /\ \A c \in ConvIds' : /\ msgs'[c] = msgs[c]
                           /\ c \in ConvIds \/ (c = r /\ ~Minted(r) /\ Minted(r)')
    /\ Streaming(r)' => Streaming(r)
    /\ Streaming(r) => Streaming(r)' \/ req[r].on \in messy'
    /\ At(r, "idle") => req'[r].op \notin ChatOps

\* A step that is, on conversation c.
Upon(r, c) ==
    /\ c \in Ids /\ req'[r].on = c /\ Minted(c)
    /\ ConvIds' = ConvIds /\ messy \subseteq messy' /\ messy' \subseteq messy \cup {c}
    /\ \A d \in Ids \ {c} : msgs'[d] = msgs[d]
    /\ c \notin messy' => Clean(c)'

\* What the path of a request tells.
LEMMA WalksKeep ==
  ASSUME ReqOK, NEW r \in Reqs, Walks(r), Saying(r)
  PROVE  Saying(r)' /\ \A c : Minted(c) => Minted(c)'
<1>1. req[r] \in Call /\ Stage(req[r])
  BY DEF ReqOK
<1>2. CASE Arrives(r, req'[r])
  <2>1. req[r].pc = "idle" /\ Opens(req'[r].op, req'[r].pc) /\ (req'[r].op = "send" => req'[r].file = r)
    BY <1>2 DEF Arrives, At
  <2> QED BY <2>1 DEF Saying, Minted, Opens, At, Streaming, Walks
<1>3. CASE Leads(r, req'[r])
  <2>1. /\ Running(r) /\ req'[r].op = req[r].op /\ req'[r].file = req[r].file
        /\ \/ req'[r].pc \in Ended
           \/ Path(req[r].pc, req'[r].pc)
           \/ req[r].pc = "g_row" /\ req'[r].pc = AfterGuard(r)
           \/ req[r].pc = "t_ledger" /\ req'[r].pc = req[r].then
    BY <1>3 DEF Leads, At
  <2>2. CASE req'[r].pc \in Ended
    BY <2>1, <2>2 DEF Saying, Minted, At, Streaming, Walks, Ended
  <2>3. CASE Path(req[r].pc, req'[r].pc)
    BY <2>1, <2>3 DEF Saying, Minted, At, Streaming, Walks, Path, ChatOps
  <2>4. CASE req[r].pc = "g_row" /\ req'[r].pc = AfterGuard(r)
    <3>1. \/ req'[r].pc \in {"t_input", "n_turn"}
          \/ req'[r].pc = "c_user" /\ req[r].op = "send"
          \/ req'[r].pc = "c_drop" /\ req[r].op = "regenerate"
      BY <1>1, <2>4 DEF AfterGuard, Stage, Guarded, ModelOps
    <3> QED BY <2>1, <2>4, <3>1 DEF Saying, Minted, At, Streaming, Walks
  <2>5. CASE req[r].pc = "t_ledger" /\ req'[r].pc = req[r].then
    <3>1. req'[r].pc \in {"t_refuse", "t_fail", "t_dataset", "n_close"}
      BY <1>1, <2>5 DEF Stage, Call, Thens
    <3> QED BY <2>1, <2>5, <3>1 DEF Saying, Minted, At, Streaming, Walks
  <2> QED BY <2>1, <2>2, <2>3, <2>4, <2>5
<1> QED BY <1>2, <1>3 DEF Walks

\* A request that steps upon no conversation, or on another.
LEMMA OthersStream ==
  ASSUME NEW q, req'[q] = req[q], NEW c
  PROVE  /\ Streams(q, c)' = Streams(q, c) /\ Streaming(q)' = Streaming(q)
         /\ Saying(q)' = Saying(q)
  BY DEF Streams, Running, Streaming, Saying, At

LEMMA SayingStep ==
  ASSUME ReqOK, ChatsInv, NEW r \in Reqs, Walks(r),
         At(r, "idle") => req'[r].op \notin ChatOps \/ Minted(req'[r].on)
  PROVE  \A q \in Reqs : Saying(q)' /\ (req[q].op \in ChatOps => Minted(req[q].on))'
<1>1. Saying(r)' /\ \A c : Minted(c) => Minted(c)'
  BY WalksKeep DEF ChatsInv
<1>2. ASSUME NEW q \in Reqs, q # r PROVE Saying(q)' /\ req'[q] = req[q]
  BY <1>2, OthersStream DEF ChatsInv, Walks
<1>3. ASSUME NEW q \in Reqs, req'[q].op \in ChatOps
      PROVE  \E c : c = req'[q].on /\ Minted(c)
  <2>1. CASE q # r
    BY <1>2, <1>3, <2>1 DEF ChatsInv
  <2>2. CASE q = r /\ Arrives(r, req'[r])
    BY <1>3, <2>2 DEF Arrives
  <2>3. CASE q = r /\ Leads(r, req'[r])
    BY <1>3, <2>3 DEF Leads, ChatsInv
  <2> QED BY <2>1, <2>2, <2>3 DEF Walks
<1>4. ASSUME NEW q \in Reqs, req'[q].op \in ChatOps
      PROVE  Minted(req[q].on)'
  <2>1. PICK c : c = req'[q].on /\ Minted(c)
    BY <1>3, <1>4
  <2>2. Minted(c)'
    BY <1>1, <2>1
  <2> QED BY <2>1, <2>2 DEF Minted
<1> QED BY <1>1, <1>2, <1>4

LEMMA AsideStep ==
  ASSUME ReqOK, Shapes, Shapes', ChatsInv, NEW r \in Reqs, Walks(r), Aside(r)
  PROVE  ChatsInv'
<1>1. \A q \in Reqs : q # r =>
         /\ req'[q] = req[q]
         /\ \A c : Streams(q, c)' = Streams(q, c)
         /\ Streaming(q)' = Streaming(q)
  BY OthersStream DEF Walks
<1>2. \A c : Minted(c) => Minted(c)'
  BY WalksKeep DEF ChatsInv
<1>3. \A c \in ConvIds' : Minted(c)'
  <2>1. ASSUME NEW c \in ConvIds', c \in ConvIds PROVE Minted(c)'
    BY <1>2, <2>1 DEF ChatsInv
  <2>2. Minted(r)' => \A c : c = r => Minted(c)'
    OBVIOUS
  <2> QED BY <2>1, <2>2 DEF Aside
<1>4. \A q \in Reqs : Saying(q)' /\ (req[q].op \in ChatOps => Minted(req[q].on))'
  BY SayingStep DEF Aside
\* What a stream of request r is after the step it was before.
<1>5. ASSUME NEW c, Streams(r, c)'
      PROVE  /\ Streams(r, c) /\ Streaming(r)' = Streaming(r)
             /\ req'[r].op = req[r].op /\ req'[r].on = req[r].on /\ req'[r].file = req[r].file
  <2>1. Leads(r, req'[r])
    BY <1>5 DEF Walks, Arrives, Aside, Streams
  <2>2. Streaming(r) => Streaming(r)'
    <3>1. req[r].pc \notin {"g_row", "t_ledger"} \/ ~Streaming(r)
      BY DEF Streaming
    <3> QED BY <1>5, <2>1, <3>1 DEF Leads, Streaming, Path, Streams, Running, At
  <2> QED BY <1>5, <2>1, <2>2 DEF Leads, Streams, Aside, Streaming
<1>6. ASSUME NEW c \in Ids, c \notin messy'
      PROVE  Clean(c)'
  <2>1. Clean(c)
    BY <1>6 DEF ChatsInv, Aside
  <2>2. \/ msgs'[c] = msgs[c]
        \/ msgs'[c] = <<>> /\ c \notin ConvIds'
    BY DEF Aside, Shapes
  <2>3. ASSUME NEW q \in Reqs, NEW x \in Reqs, Streams(q, c)', Streams(x, c)' PROVE q = x
    <3>1. Streams(q, c) /\ Streams(x, c)
      BY <1>1, <1>5, <2>3
    <3> QED BY <2>1, <3>1 DEF Clean
  <2>4. ASSUME NEW q \in Reqs, Streams(q, c)' PROVE Carries(q)'
    <3>1. /\ Streams(q, c) /\ Streaming(q)' = Streaming(q)
          /\ req'[q].op = req[q].op /\ req'[q].on = req[q].on /\ req'[q].file = req[q].file
      BY <1>1, <1>5, <2>4
    <3>2. Carries(q) /\ req[q].on = c
      BY <2>1, <2>4, <3>1 DEF Clean, Streams
    <3>3. ASSUME c \in ConvIds' PROVE c \in ConvIds /\ msgs'[c] = msgs[c]
      <4>1. Minted(c)
        BY <3>1, <3>2 DEF ChatsInv, Streams
      <4> QED BY <3>3, <4>1 DEF Aside
    <3>4. CASE c \in ConvIds'
      <4>1. IF Streaming(q) THEN Paired(Append(msgs[c], Reply(req[q].file)))
            ELSE req[q].op = "regenerate" =>
                   /\ Of(msgs[c], "user") # {}
                   /\ req[q].file = msgs[c][LastOf(msgs[c], "user")].of
        BY <3>2, <3>3, <3>4 DEF Carries
      <4>2. IF Streaming(q)' THEN Paired(Append(msgs'[c], Reply(req'[q].file)))
            ELSE req'[q].op = "regenerate" =>
                   /\ Of(msgs'[c], "user") # {}
                   /\ req'[q].file = msgs'[c][LastOf(msgs'[c], "user")].of
        BY <3>1, <3>3, <3>4, <4>1
      <4> QED BY <3>1, <3>2, <4>2 DEF Carries
    <3>5. CASE c \notin ConvIds'
      BY <3>1, <3>2, <3>5 DEF Carries
    <3> QED BY <3>4, <3>5
  <2>5. ASSUME \A q \in Reqs : ~(Streams(q, c)' /\ Streaming(q)') PROVE Paired(msgs'[c])
    <3>1. ASSUME NEW q \in Reqs, Streams(q, c), Streaming(q) PROVE FALSE
      <4>1. CASE q # r
        BY <1>1, <2>5, <3>1, <4>1
      <4>2. CASE q = r
        <5>1. Streaming(r)' /\ req[r].on = c
          BY <1>6, <3>1, <4>2 DEF Aside, Streams
        <5>2. Streams(r, c)'
          <6>1. Leads(r, req'[r])
            BY <3>1, <4>2 DEF Walks, Arrives, Streaming, At
          <6> QED BY <3>1, <4>2, <5>1, <6>1 DEF Leads, Streams, Running, Streaming, Ended
        <5> QED BY <2>5, <5>1, <5>2
      <4> QED BY <4>1, <4>2
    <3>2. Paired(msgs[c])
      BY <2>1, <3>1 DEF Clean
    <3> QED BY <2>2, <3>2, PairedEmpty
  <2> QED BY <2>3, <2>4, <2>5 DEF Clean, Paired
<1> QED BY <1>3, <1>4, <1>6 DEF ChatsInv

LEMMA UponStep ==
  ASSUME ReqOK, Shapes, Shapes', ChatsInv, NEW r \in Reqs, Walks(r), NEW c, Upon(r, c)
  PROVE  ChatsInv'
<1>1. \A q \in Reqs : q # r =>
         /\ req'[q] = req[q]
         /\ \A d : Streams(q, d)' = Streams(q, d)
         /\ Streaming(q)' = Streaming(q)
  BY OthersStream DEF Walks
<1>2. \A d : Minted(d) => Minted(d)'
  BY WalksKeep DEF ChatsInv
<1>3. \A d \in ConvIds' : Minted(d)'
  BY <1>2 DEF ChatsInv, Upon
<1>4. \A q \in Reqs : Saying(q)' /\ (req[q].op \in ChatOps => Minted(req[q].on))'
  BY SayingStep DEF Upon
<1>5. ASSUME NEW d \in Ids, d \notin messy', d # c
      PROVE  Clean(d)'
  <2>1. Clean(d) /\ msgs'[d] = msgs[d]
    BY <1>5 DEF ChatsInv, Upon
  <2>2. ~Streams(r, d)' /\ ~Streams(r, d)
    BY <1>5 DEF Upon, Streams, Walks, Arrives, Leads, At, Running
  <2>3. ASSUME NEW q \in Reqs, NEW x \in Reqs, Streams(q, d)', Streams(x, d)' PROVE q = x
    BY <1>1, <2>1, <2>2, <2>3 DEF Clean
  <2>4. ASSUME NEW q \in Reqs, Streams(q, d)' PROVE Carries(q)'
    <3>1. Streams(q, d) /\ Streaming(q)' = Streaming(q) /\ req'[q] = req[q] /\ req[q].on = d
      BY <1>1, <2>2, <2>4 DEF Streams
    <3>2. Carries(q) /\ ConvIds' = ConvIds
      BY <2>1, <3>1 DEF Clean, Upon
    <3> QED BY <2>1, <3>1, <3>2 DEF Carries, Paired, Reply
  <2>5. ASSUME \A q \in Reqs : ~(Streams(q, d)' /\ Streaming(q)') PROVE Paired(msgs'[d])
    <3>1. \A q \in Reqs : ~(Streams(q, d) /\ Streaming(q))
      BY <1>1, <2>2, <2>5
    <3> QED BY <2>1, <3>1 DEF Clean
  <2> QED BY <2>3, <2>4, <2>5 DEF Clean, Paired
<1>6. ASSUME NEW d \in Ids, d \notin messy' PROVE Clean(d)'
  <2>1. CASE d = c
    <3>1. Clean(c)'
      BY <1>6, <2>1 DEF Upon
    <3> QED BY <2>1, <3>1
  <2> QED BY <1>5, <1>6, <2>1
<1> QED BY <1>3, <1>4, <1>6 DEF ChatsInv

LEMMA WorkspaceAside ==
  ASSUME ReqOK, Shapes, ChatsInv, NEW r \in Reqs, WorkspaceStep(r)
  PROVE  Aside(r)
<1>1. Walks(r)
  BY WorkspaceWalks
<1>2. ~Streaming(r) /\ ~Streaming(r)' /\ (At(r, "idle") => req'[r].op \notin ChatOps)
  <2>1. \/ At(r, "idle") /\ req'[r].op \notin ChatOps
        \/ req[r].pc \in {"st_row", "up_put", "up_row", "df_project", "df_count", "df_row",
                          "df_object", "cs_file", "cs_row", "keys", "batch", "objects",
                          "da_row", "da_object"}
    <3>1. CASE \/ CreateProject(r) \/ SetState(r) \/ Upload(r) \/ DeleteFile(r) \/ CreateSession(r)
               \/ DeleteSession(r) \/ DeleteProject(r) \/ Reset(r) \/ DeleteArtifact(r)
      <4>1. At(r, "idle")
        BY <3>1 DEF CreateProject, SetState, Upload, DeleteFile, CreateSession,
           DeleteSession, DeleteProject, Reset, DeleteArtifact, Admit
      <4> QED BY <4>1, WorkspaceWalks DEF ModelOps, ChatOps
    <3>2. CASE ~\/ CreateProject(r) \/ SetState(r) \/ Upload(r) \/ DeleteFile(r) \/ CreateSession(r)
                \/ DeleteSession(r) \/ DeleteProject(r) \/ Reset(r) \/ DeleteArtifact(r)
      BY <3>2 DEF WorkspaceStep, DeleteKeys, UploadPut, UploadRow, DeleteFileProject,
         DeleteFileCount, DeleteFileRow, DeleteFileObject, CreateSessionFile, CreateSessionRow,
         DeleteSessionRows, DeleteProjectRows, DeleteObjects, LogOrphans,
         SetStateRow, DeleteArtifactRow, DeleteArtifactObject, At
    <3> QED BY <3>1, <3>2
  <2> QED BY <1>1, <2>1 DEF Walks, Arrives, Leads, Opens, Path, Ended, Streaming, At
<1>3. messy' = messy
  BY DEF WorkspaceStep, CreateProject, SetState, Upload, DeleteFile, CreateSession,
     DeleteSession, DeleteProject, Reset, DeleteArtifact, DeleteKeys,
     UploadPut, UploadRow, DeleteFileProject, DeleteFileCount,
     DeleteFileRow, DeleteFileObject, CreateSessionFile, CreateSessionRow,
     DeleteSessionRows, DeleteProjectRows, DeleteObjects, LogOrphans,
     SetStateRow, DeleteArtifactRow, DeleteArtifactObject, Rest, history
<1>4. DeleteProjectRows(r) \/ UNCHANGED chats
  BY DEF WorkspaceStep, CreateProject, SetState, Upload, DeleteFile, CreateSession,
     DeleteSession, DeleteProject, Reset, DeleteArtifact, DeleteKeys,
     UploadPut, UploadRow, DeleteFileProject, DeleteFileCount,
     DeleteFileRow, DeleteFileObject, CreateSessionFile, CreateSessionRow,
     DeleteSessionRows, DeleteObjects, LogOrphans,
     SetStateRow, DeleteArtifactRow, DeleteArtifactObject, Rest
<1>5. \A c \in ConvIds' : msgs'[c] = msgs[c] /\ c \in ConvIds
  <2>1. CASE UNCHANGED chats
    BY <2>1 DEF chats, ConvIds
  <2>2. CASE DeleteProjectRows(r)
    <3>1. /\ convs' \subseteq convs
          /\ msgs' = [c \in Ids |-> IF \E d \in convs' : d.id = c THEN msgs[c] ELSE <<>>]
      BY <2>2 DEF DeleteProjectRows
    <3>2. \A d \in convs : d.id \in Ids
      BY DEF Shapes
    <3> QED BY <3>1, <3>2 DEF ConvIds
  <2> QED BY <1>4, <2>1, <2>2
<1> QED BY <1>2, <1>3, <1>5 DEF Aside

LEMMA TurnAside ==
  ASSUME ReqOK, Shapes, ChatsInv, NEW r \in Reqs, TurnStep(r)
  PROVE  Aside(r)
<1>1. Walks(r) /\ req[r] \in Call /\ Stage(req[r])
  BY TurnWalks DEF ReqOK
<1>2. UNCHANGED chats /\ messy' = messy
  BY DEF TurnStep, GuardSpend, GuardCount, GuardRow, Turn, TurnFile, TurnInput, TurnInsert,
     TurnPreview, CallModel, RecordCall, TurnRefused, TurnFailed, TurnDataset, CallKernel,
     TurnPut, TurnComplete, ArtifactPut, ArtifactRow, Narrate, NarrateTurn, NarrateObject,
     NarrateStream, NarrateClose, Unmetered, Unstored, history
<1>3. \/ At(r, "idle") /\ req'[r].op \notin ChatOps
      \/ req[r].pc \in {"g_spend", "g_count", "g_row", "t_file", "t_input", "t_insert",
                        "t_preview", "t_call", "t_ledger", "t_refuse", "t_fail", "t_dataset",
                        "t_kernel", "t_put", "t_complete", "a_put", "a_row",
                        "n_turn", "n_object", "n_stream", "n_close"}
  <2>2. CASE Turn(r) \/ Narrate(r)
    <3>1. At(r, "idle")
      BY <2>2 DEF Turn, Narrate, Admit
    <3> QED BY <3>1, TurnWalks DEF ChatOps
  <2>4. CASE ~(Turn(r) \/ Narrate(r))
    BY <2>4 DEF TurnStep, GuardSpend, GuardCount, GuardRow, TurnFile, TurnInput, TurnInsert,
       TurnPreview, CallModel, RecordCall, TurnRefused, TurnFailed, TurnDataset, CallKernel,
       TurnPut, TurnComplete, ArtifactPut, ArtifactRow, NarrateTurn, NarrateObject,
       NarrateStream, NarrateClose, At
  <2> QED BY <2>2, <2>4
<1>4. ~Streaming(r) /\ ~Streaming(r)'
  <2>1. CASE Arrives(r, req'[r])
    BY <2>1 DEF Arrives, Opens, Streaming, At
  <2>2. CASE Leads(r, req'[r])
    <3>1. req[r].pc = "g_row" => AfterGuard(r) \in {"t_input", "n_turn", "c_user", "c_drop"}
      BY <1>1 DEF AfterGuard, Stage, Guarded, ModelOps
    <3>2. req[r].then \in Thens
      BY <1>1 DEF Call
    <3>3. Running(r) /\ ~At(r, "idle")
      BY <2>2 DEF Leads, Running, At
    <3> QED BY <1>3, <2>2, <3>1, <3>2, <3>3 DEF Leads, Path, Ended, Streaming, At, Thens
  <2> QED BY <1>1, <2>1, <2>2 DEF Walks
<1> QED BY <1>2, <1>3, <1>4 DEF Aside, chats, ConvIds, At

LEMMA DieAside ==
  ASSUME ReqOK, NEW r \in Reqs, Die(r)
  PROVE  Aside(r)
<1>1. UNCHANGED chats /\ Running(r) /\ req'[r].pc = "dead"
      /\ messy' = IF Streaming(r) THEN messy \cup {req[r].on} ELSE messy
  BY AnswerIs DEF Die
<1> QED BY <1>1 DEF Aside, chats, ConvIds, Running, Streaming, At

LEMMA ChatAside ==
  ASSUME ReqOK, Shapes, ChatsInv, NEW r \in Reqs, ChatStep(r),
         ~(Stream(r) \/ StoreQuestion(r) \/ DropAnswer(r) \/ StoreAnswer(r))
  PROVE  Aside(r)
<1>1. CASE CreateChat(r) \/ CreateBoundChat(r) \/ CreateBoundChatRow(r)
  <2>1. /\ msgs' = msgs /\ messy' = messy
        /\ convs' = convs \/ \E b \in BOOLEAN : convs' = convs \cup {[id |-> r, bound |-> b]}
    BY <1>1 DEF CreateChat, CreateBoundChat, CreateBoundChatRow, chats
  <2>2. /\ req[r].pc \in {"idle", "cc_row"} /\ req'[r].pc \in {"ok", "cc_row"}
        /\ At(r, "idle") => req'[r].op \notin ChatOps
        /\ convs' # convs => req'[r].pc = "ok"
    <3> DEFINE q(l) == [Idle EXCEPT !.op = "createChat", !.pc = l]
    <3>1. q("ok").pc = "ok" /\ q("ok").op = "createChat" /\ q("cc_row").pc = "cc_row" /\ q("cc_row").op = "createChat"
      BY DEF Idle
    <3>2. /\ CreateChat(r) => Admit(r, q("ok"))
          /\ CreateBoundChat(r) => Admit(r, q("cc_row")) /\ convs' = convs
          /\ CreateBoundChatRow(r) => req[r].pc = "cc_row" /\ Answer(r, "ok")
      BY DEF CreateChat, CreateBoundChat, CreateBoundChatRow, At, chats
    <3> HIDE DEF q
    <3> QED BY <1>1, <3>1, <3>2, BecomesIs, AnswerIs DEF Admit, At, ChatOps
  <2>3. ConvIds' = ConvIds \/ (ConvIds' = ConvIds \cup {r} /\ req'[r].pc = "ok")
    <3>1. ASSUME NEW b \in BOOLEAN, convs' = convs \cup {[id |-> r, bound |-> b]}
          PROVE  ConvIds' = ConvIds \cup {r}
      <4> DEFINE new == [id |-> r, bound |-> b]
      <4>1. new.id = r /\ convs' = convs \cup {new}
        BY <3>1
      <4> HIDE DEF new
      <4> QED BY <4>1 DEF ConvIds
    <3> QED BY <2>1, <2>2, <3>1 DEF ConvIds
  <2> QED BY <2>1, <2>2, <2>3 DEF Aside, Streaming, At, Minted
<1>2. CASE PatchChat(r) \/ DeleteChat(r)
  <2>1. UNCHANGED <<convs, msgs, messy>>
    BY <1>2 DEF PatchChat, DeleteChat, chats
  <2>2. ASSUME NEW q, Admit(r, q), q.op \notin ChatOps, q.pc \in {"pc_project", "pc_row", "dc_rows"}
        PROVE  Aside(r)
    BY <2>1, <2>2, BecomesIs DEF Admit, Aside, Streaming, At, ConvIds
  <2>3. CASE DeleteChat(r)
    <3> DEFINE q(c) == [Idle EXCEPT !.op = "deleteChat", !.on = c, !.pc = "dc_rows"]
    <3>1. PICK c \in ConvIds : Admit(r, q(c))
      BY <2>3 DEF DeleteChat
    <3>2. q(c).op = "deleteChat" /\ q(c).pc = "dc_rows"
      BY DEF Idle
    <3> HIDE DEF q
    <3> QED BY <2>2, <3>1, <3>2 DEF ChatOps
  <2>4. CASE PatchChat(r)
    <3> DEFINE bind(c) == [Idle EXCEPT !.op = "bindChat", !.on = c.id, !.pc = "pc_project"]
               free(c) == [Idle EXCEPT !.op = "freeChat", !.on = c.id, !.pc = "pc_row"]
               name(c) == [Idle EXCEPT !.op = "renameChat", !.on = c.id, !.pc = "pc_row",
                                       !.n = IF c.bound THEN 1 ELSE 0]
    <3>1. PICK c \in convs : Admit(r, bind(c)) \/ Admit(r, free(c)) \/ Admit(r, name(c))
      BY <2>4 DEF PatchChat
    <3>2. /\ bind(c).op = "bindChat" /\ bind(c).pc = "pc_project"
          /\ free(c).op = "freeChat" /\ free(c).pc = "pc_row"
          /\ name(c).op = "renameChat" /\ name(c).pc = "pc_row"
      BY DEF Idle
    <3> HIDE DEF bind, free, name
    <3> QED BY <2>2, <3>1, <3>2 DEF ChatOps
  <2> QED BY <1>2, <2>3, <2>4
<1>3. CASE PatchChatProject(r) \/ PatchChatRow(r) \/ DeleteChatRows(r)
  <2>1. /\ req[r].pc \in {"pc_project", "pc_row", "dc_rows"}
        /\ messy' = messy
    BY <1>3 DEF PatchChatProject, PatchChatRow, DeleteChatRows, At
  <2>2. ~Streaming(r) /\ ~Streaming(r)' /\ ~At(r, "idle")
    BY <2>1, ChatWalks DEF Walks, Arrives, Leads, Path, Ended, Streaming, At
  <2>3. \A c \in ConvIds' : c \in ConvIds /\ msgs'[c] = msgs[c]
    <3>1. CASE PatchChatProject(r)
      BY <3>1 DEF PatchChatProject, chats, ConvIds
    <3>2. CASE PatchChatRow(r)
      <4>1. msgs' = msgs
        BY <3>2 DEF PatchChatRow
      <4>2. \A d \in convs' : \E e \in convs : e.id = d.id
        <5>1. \A b : \A e \in convs : [e EXCEPT !.bound = b].id = e.id
          BY DEF Shapes
        <5> DEFINE to(e) == [e EXCEPT !.bound = (req[r].n = 1)]
        <5>2. convs' = {IF e.id = req[r].on THEN to(e) ELSE e : e \in convs}
          BY <3>2 DEF PatchChatRow
        <5>3. \A e \in convs : to(e).id = e.id
          BY <5>1
        <5> HIDE DEF to
        <5> QED BY <5>2, <5>3
      <4> QED BY <4>1, <4>2 DEF ConvIds
    <3>3. CASE DeleteChatRows(r)
      <4>1. /\ convs' = {c \in convs : c.id # req[r].on}
            /\ msgs' = [msgs EXCEPT ![req[r].on] = <<>>]
        BY <3>3 DEF DeleteChatRows
      <4>2. \A c \in convs : c.id \in Ids
        BY DEF Shapes
      <4> QED BY <4>1, <4>2 DEF ConvIds, Shapes
    <3> QED BY <1>3, <3>1, <3>2, <3>3
  <2> QED BY <2>1, <2>2, <2>3 DEF Aside
<1>4. CASE CallChatModel(r) \/ EndStream(r) \/ RecordUsage(r)
  <2>1. UNCHANGED <<convs, msgs, messy>> /\ req[r].pc \in {"c_stream", "c_end", "c_usage"}
    BY <1>4 DEF CallChatModel, EndStream, RecordUsage, chats, At
  <2>2. req'[r].pc \in {"c_end", "c_usage", "c_answer"}
    <3>1. CASE EndStream(r)
      BY <3>1, GoIs DEF EndStream
    <3>2. CASE CallChatModel(r) \/ RecordUsage(r)
      <4> DEFINE q(l, n) == [req[r] EXCEPT !.pc = l, !.calls = n]
      <4>1. Becomes(r, q("c_end", 1)) \/ Becomes(r, q("c_answer", 0))
        BY <3>2 DEF CallChatModel, RecordUsage
      <4>2. \A l, n : q(l, n).pc = l
        BY DEF ReqOK, Call
      <4> HIDE DEF q
      <4> QED BY <4>1, <4>2, BecomesIs
    <3> QED BY <1>4, <3>1, <3>2
  <2> QED BY <2>1, <2>2 DEF Aside, Streaming, At, ConvIds
<1>5. CASE AbortStream(r)
  <2>1. UNCHANGED <<convs, msgs>> /\ req[r].pc = "c_end" /\ req'[r].pc = "dead"
        /\ messy' = messy \cup {req[r].on}
    BY <1>5, AnswerIs DEF AbortStream, chats, At
  <2> QED BY <2>1 DEF Aside, Streaming, At, ConvIds
<1> QED BY <1>1, <1>2, <1>3, <1>4, <1>5 DEF ChatStep

------------------------------------------------------------------------------
(* The four steps of a stream upon its conversation.                       *)

LEMMA StreamUpon ==
  ASSUME ReqOK, Shapes, ChatsInv, NEW r \in Reqs, Stream(r)
  PROVE  \E c : Upon(r, c)
<1> DEFINE q(op, c, f) == [Idle EXCEPT !.op = op, !.on = c, !.file = f, !.pc = "g_spend"]
           last(c) == msgs[c][LastOf(msgs[c], "user")].of
<1>1. PICK c \in ConvIds :
        /\ \/ Admit(r, q("send", c, r))
           \/ Of(msgs[c], "user") # {} /\ Admit(r, q("regenerate", c, last(c)))
        /\ messy' = IF AtWork(c) THEN messy \cup {c} ELSE messy
  BY DEF Stream
<1>2. \A op, d, f : /\ q(op, d, f).op = op /\ q(op, d, f).on = d /\ q(op, d, f).file = f
                    /\ q(op, d, f).pc = "g_spend"
  BY DEF Idle
<1>3. UNCHANGED <<convs, msgs>> /\ c \in Ids /\ ConvIds' = ConvIds
  BY DEF Stream, chats, ConvIds, Shapes
<1> HIDE DEF q
<1>4. /\ req[r].pc = "idle" /\ req'[r].on = c /\ req'[r].pc = "g_spend"
      /\ \A x \in Reqs : x # r => req'[x] = req[x]
      /\ \/ req'[r].op = "send"
         \/ /\ req'[r].op = "regenerate" /\ req'[r].file = last(c)
            /\ Of(msgs[c], "user") # {}
  BY <1>1, <1>2, BecomesIs DEF Admit, At
<1>5. ASSUME c \notin messy' PROVE Clean(c)'
  <2>1. Clean(c) /\ ~AtWork(c)
    BY <1>1, <1>3, <1>5 DEF ChatsInv
  <2>2. \A x \in Reqs : ~Streams(x, c)
    BY <2>1 DEF AtWork, Streams, ChatOps
  <2>3. \A x \in Reqs : x # r => ~Streams(x, c)'
    BY <1>4, <2>2, OthersStream
  <2>4. Paired(msgs'[c])
    BY <1>3, <2>1, <2>2 DEF Clean
  <2>5. Carries(r)'
    BY <1>3, <1>4 DEF Carries, Streaming
  <2>6. \A x, y \in Reqs : Streams(x, c)' /\ Streams(y, c)' => x = y
    BY <2>3
  <2>7. \A x \in Reqs : Streams(x, c)' => Carries(x)'
    BY <2>3, <2>5
  <2> QED BY <2>4, <2>6, <2>7 DEF Clean, Paired
<1> QED BY <1>1, <1>3, <1>4, <1>5 DEF Upon, ChatsInv

\* What the other three have in common.
LEMMA WorkUpon ==
  ASSUME ReqOK, Shapes, ChatsInv, NEW r \in Reqs, NEW c, c = req[r].on, Walks(r),
         req[r].pc \in {"c_user", "c_drop", "c_answer"}, UNCHANGED <<convs, messy>>,
         \A d \in Ids \ {c} : msgs'[d] = msgs[d],
         ASSUME Clean(c)
         PROVE  IF Streaming(r)' THEN Carries(r)' ELSE Paired(msgs'[c])
  PROVE  Upon(r, c)
<1>1. /\ c \in Ids /\ req'[r].on = c /\ req'[r].op = req[r].op /\ req[r].op \in ChatOps
      /\ ConvIds' = ConvIds
  BY DEF ReqOK, Call, Walks, Arrives, Leads, At, ConvIds, ChatsInv, Saying, Streaming, ChatOps
<1>2. Minted(c)
  BY <1>1 DEF ChatsInv
<1>3. Streams(r, c)
  BY <1>1 DEF Streams, Running, Ended
<1>4. ASSUME c \notin messy PROVE Clean(c)'
  <2>1. Clean(c)
    BY <1>1, <1>4 DEF ChatsInv
  <2>2. \A x \in Reqs : x # r => ~Streams(x, c)
    BY <1>3, <2>1 DEF Clean
  <2>3. \A x \in Reqs : x # r => ~Streams(x, c)'
    BY <2>2, OthersStream DEF Walks
  <2>4. Streams(r, c)' => Streaming(r)'
    BY DEF Walks, Arrives, Leads, Path, At, Streams, Running, Streaming, Ended
  <2>5. Streaming(r)' => Streams(r, c)'
    BY <1>1 DEF Streams, Running, Ended, Streaming
  <2>6. \A x, y \in Reqs : Streams(x, c)' /\ Streams(y, c)' => x = y
    BY <2>3
  <2>7. \A x \in Reqs : Streams(x, c)' => Carries(x)'
    BY <2>1, <2>3, <2>4
  <2>8. (\A x \in Reqs : ~(Streams(x, c)' /\ Streaming(x)')) => Paired(msgs'[c])
    BY <2>1, <2>5
  <2> QED BY <2>6, <2>7, <2>8 DEF Clean, Paired
<1> QED BY <1>1, <1>2, <1>4 DEF Upon

LEMMA QuestionUpon ==
  ASSUME ReqOK, Shapes, ChatsInv, NEW r \in Reqs, StoreQuestion(r)
  PROVE  \E c : Upon(r, c)
<1> DEFINE c == req[r].on
<1>1. /\ req[r].pc = "c_user" /\ c \in ConvIds /\ UNCHANGED <<convs, messy>> /\ c \in Ids
      /\ msgs' = [msgs EXCEPT ![c] = Append(@, Question(r))]
      /\ req'[r].pc = "c_stream" /\ req'[r].on = c /\ req'[r].file = req[r].file
  BY GoIs DEF StoreQuestion, At, Question, ReqOK, Call
<1>2. Walks(r)
  BY ChatWalks DEF ChatStep
<1>3. req[r].file = r /\ r \in Ids
  BY <1>1 DEF ChatsInv, Saying, At, Ids
<1>4. msgs'[c] = Append(msgs[c], Question(r)) /\ \A d \in Ids \ {c} : msgs'[d] = msgs[d]
  BY <1>1 DEF Shapes
<1>5. ASSUME Clean(c) PROVE Carries(r)'
  <2>1. Streams(r, c) /\ ~Streaming(r)
    BY <1>1 DEF Streams, Running, Ended, Streaming, ChatsInv, Saying, At, ChatOps
  <2>2. Paired(msgs[c]) /\ msgs[c] \in Seq(Message)
    BY <1>1, <1>5, <2>1 DEF Clean, Shapes
  <2>3. Paired(Append(Append(msgs[c], Question(r)), Reply(r)))
    BY <1>3, <2>2, PairedLonger
  <2>4. Streaming(r)'
    BY <1>1 DEF Streaming
  <2> QED BY <1>1, <1>3, <1>4, <2>3, <2>4 DEF Carries
<1>6. Streaming(r)'
  BY <1>1 DEF Streaming
<1> HIDE DEF c
<1> QED BY <1>1, <1>2, <1>4, <1>5, <1>6, WorkUpon DEF c

LEMMA DropUpon ==
  ASSUME ReqOK, Shapes, ChatsInv, NEW r \in Reqs, DropAnswer(r)
  PROVE  \E c : Upon(r, c)
<1> DEFINE c == req[r].on
           s == msgs[c]
           i == LastOf(s, "assistant")
           t == SubSeq(s, 1, i - 1) \o SubSeq(s, i + 1, Len(s))
<1>1. /\ req[r].pc = "c_drop" /\ UNCHANGED <<convs, messy>> /\ c \in Ids
      /\ msgs' = IF Of(s, "assistant") # {} THEN [msgs EXCEPT ![c] = t] ELSE msgs
      /\ req'[r].pc = "c_stream" /\ req'[r].on = c /\ req'[r].file = req[r].file
  BY GoIs DEF DropAnswer, At, ReqOK, Call
<1>2. Walks(r)
  BY ChatWalks DEF ChatStep
<1>3. /\ \A d \in Ids \ {c} : msgs'[d] = msgs[d]
      /\ Of(s, "assistant") # {} => msgs'[c] = t
  BY <1>1 DEF Shapes
<1>4. ConvIds' = ConvIds /\ s \in Seq(Message) /\ Streaming(r)'
  BY <1>1 DEF ConvIds, Shapes, Streaming
<1>5. ASSUME Clean(c), c \in ConvIds PROVE Paired(Append(msgs'[c], Reply(req[r].file)))
  <2>1. Streams(r, c) /\ ~Streaming(r) /\ req[r].op = "regenerate"
    BY <1>1 DEF Streams, Running, Ended, Streaming, ChatsInv, Saying, At, ChatOps
  <2>2. Paired(s) /\ Of(s, "user") # {} /\ req[r].file = s[LastOf(s, "user")].of
    BY <1>5, <2>1 DEF Clean, Carries
  <2>3. Of(s, "assistant") # {}
    BY <1>4, <2>2, PairedEnd
  <2> HIDE DEF s
  <2>4. Paired(Append(t, Reply(req[r].file)))
    BY <1>4, <2>2, PairedAgain
  <2> QED BY <1>3, <2>3, <2>4
<1>6. ASSUME Clean(c) PROVE Carries(r)'
  <2> HIDE DEF t, s
  <2> QED BY <1>1, <1>4, <1>5, <1>6 DEF Carries
<1> HIDE DEF c, s, t
<1> QED BY <1>1, <1>2, <1>3, <1>4, <1>6, WorkUpon DEF c

LEMMA AnswerUpon ==
  ASSUME ReqOK, Shapes, ChatsInv, NEW r \in Reqs, StoreAnswer(r)
  PROVE  \E c : Upon(r, c)
<1> DEFINE c == req[r].on
<1>1. /\ req[r].pc = "c_answer" /\ UNCHANGED <<convs, messy>> /\ c \in Ids
      /\ msgs' = IF c \in ConvIds
                 THEN [msgs EXCEPT ![c] = Append(@, Reply(req[r].file))] ELSE msgs
      /\ req'[r].pc \in {"ok", "dead"}
  BY AnswerIs DEF StoreAnswer, At, ReqOK, Call, Reply
<1>2. Walks(r)
  BY ChatWalks DEF ChatStep
<1>3. /\ \A d \in Ids \ {c} : msgs'[d] = msgs[d]
      /\ c \in ConvIds => msgs'[c] = Append(msgs[c], Reply(req[r].file))
      /\ c \notin ConvIds => msgs'[c] = <<>>
  BY <1>1 DEF Shapes
<1>4. ~Streaming(r)'
  BY <1>1 DEF Streaming
<1>5. ASSUME Clean(c) PROVE Paired(msgs'[c])
  <2>1. Streams(r, c) /\ Streaming(r)
    BY <1>1 DEF Streams, Running, Ended, Streaming, ChatsInv, Saying, At, ChatOps
  <2>2. Carries(r)
    BY <1>5, <2>1 DEF Clean
  <2>3. c \in ConvIds => Paired(msgs'[c])
    BY <1>3, <2>1, <2>2 DEF Carries
  <2> QED BY <1>3, <2>3, PairedEmpty
<1> HIDE DEF c
<1> QED BY <1>1, <1>2, <1>3, <1>4, <1>5, WorkUpon DEF c

LEMMA ChatsInit == Start => ChatsInv
<1> SUFFICES ASSUME Start PROVE ChatsInv
  OBVIOUS
<1>1. /\ \A r \in Reqs : req[r].pc = "idle" /\ req[r].op = "none"
      /\ files \subseteq {Old} /\ convs = {[id |-> f, bound |-> TRUE] : f \in files}
      /\ msgs = [c \in Ids |-> IF c \in files THEN <<Question(c), Reply(c)>> ELSE <<>>]
  BY DEF Start, Init, Idle, Question, Reply
<1>2. \A c \in ConvIds : Minted(c)
  BY <1>1, OldAssumption DEF ConvIds, Minted
<1>3. \A r \in Reqs : Saying(r) /\ ~Running(r) /\ req[r].op \notin ChatOps
  BY <1>1 DEF Saying, At, Streaming, Running, ChatOps
<1>4. ASSUME NEW c \in Ids PROVE Paired(msgs[c])
  <2>1. <<>> \in Seq(Message) /\ <<Question(c), Reply(c)>> = Append(Append(<<>>, Question(c)), Reply(c))
    OBVIOUS
  <2> QED BY <1>1, <2>1, PairedEmpty, PairedLonger
<1> QED BY <1>2, <1>3, <1>4 DEF ChatsInv, Clean, Streams

LEMMA ChatsStill ==
  ASSUME ChatsInv, UNCHANGED <<vars, late>>
  PROVE  ChatsInv'
<1>1. convs' = convs /\ msgs' = msgs /\ messy' = messy /\ req' = req
  BY DEF vars, chats, history
<1>2. ConvIds' = ConvIds
  BY <1>1 DEF ConvIds
<1>3. \A c : Minted(c) => Minted(c)'
  BY <1>1 DEF Minted
<1>4. \A q : Saying(q)' = Saying(q) /\ Streaming(q)' = Streaming(q)
  BY <1>1 DEF Saying, Streaming, At
<1>5. \A q, c : Streams(q, c)' = Streams(q, c)
  BY <1>1 DEF Streams, Running
<1>6. ASSUME NEW q \in Reqs, Carries(q) PROVE Carries(q)'
  BY <1>1, <1>2, <1>4, <1>6 DEF Carries
<1>7. ASSUME NEW c \in Ids, Clean(c) PROVE Clean(c)'
  <2>1. Paired(msgs[c]) => Paired(msgs'[c])
    BY <1>1
  <2> QED BY <1>4, <1>5, <1>6, <1>7, <2>1 DEF Clean, Paired
<1>8. \A c \in ConvIds : Minted(c)'
  BY <1>3 DEF ChatsInv
<1>9. \A q \in Reqs : Saying(q)' /\ (req[q].op \in ChatOps => Minted(req[q].on))'
  BY <1>1, <1>3, <1>4 DEF ChatsInv, Minted
<1>10. \A c \in Ids \ messy : Clean(c)'
  BY <1>7 DEF ChatsInv
<1> QED BY <1>1, <1>2, <1>8, <1>9, <1>10 DEF ChatsInv

(* What the requests of a conversation carry, in every state.              *)
THEOREM ChatsHold == Spec => []ChatsInv
<1>1. ChatsInv /\ ReqOK /\ Shapes /\ Shapes' /\ [Next]_<<vars, late>> => ChatsInv'
  <2> SUFFICES ASSUME ChatsInv, ReqOK, Shapes, Shapes', [Next]_<<vars, late>> PROVE ChatsInv'
    OBVIOUS
  <2>1. CASE Next
    <3>1. PICK r \in Reqs : WorkspaceStep(r) \/ TurnStep(r) \/ ChatStep(r) \/ Die(r)
      BY <2>1 DEF Next
    <3>2. Walks(r)
      BY <3>1, StepWalks
    <3>3. Aside(r) \/ \E c : Upon(r, c)
      BY <3>1, WorkspaceAside, TurnAside, ChatAside, DieAside, StreamUpon, QuestionUpon,
         DropUpon, AnswerUpon
    <3> QED BY <3>2, <3>3, AsideStep, UponStep
  <2>2. CASE UNCHANGED <<vars, late>>
    BY <2>2, ChatsStill
  <2> QED BY <2>1, <2>2
<1> QED BY <1>1, ChatsInit, ShapesHold, PTL DEF Spec

(* A conversation whose streams never overlapped and all ended well is a   *)
(* sequence of questions, each followed by its answer.                     *)
THEOREM CleanChatsHold == Spec => []CleanChatsArePaired
<1>1. ChatsInv => CleanChatsArePaired
  <2> SUFFICES ASSUME ChatsInv, NEW c \in Ids \ messy, ~AtWork(c) PROVE Paired(msgs[c])
    BY DEF CleanChatsArePaired, Paired
  <2>1. \A r \in Reqs : ~Streams(r, c)
    BY DEF AtWork, Streams, ChatOps
  <2> QED BY <2>1 DEF ChatsInv, Clean
<1> QED BY <1>1, ChatsHold, PTL

------------------------------------------------------------------------------
(***************************************************************************)
(* What the row of a turn tells.  A turn leaves nothing in the bucket      *)
(* before it puts its result, and its row is behind its outputs by the one *)
(* at hand; an output it stored is there unless it was deleted by itself,  *)
(* or with the whole project and the turn's row.                           *)
(***************************************************************************)
KeptAs(r, o) == \/ <<r, o>> \in artifacts
                \/ \E q \in Reqs : req[q].op = "deleteArtifact" /\ req[q].art = <<r, o>>

Bare(r) == \A key \in objects : key[2] = r => key[1] = "file"

Told(r, status) ==
    CASE status = "pending"   -> Undone(r) \/ At(r, "dead")
      [] status = "completed" ->
           /\ req[r].pc \in {"a_put", "a_row", "ok", "dead"}
           /\ req[r].pc \in {"a_put", "a_row"} => \A i \in 1 .. req[r].k - 1 : KeptAs(r, i)
           /\ At(r, "ok") => \A i \in 1 .. req[r].n : KeptAs(r, i)
      [] OTHER                -> At(r, "ok") /\ Bare(r)

\* Where a request has put nothing that its turn is to answer for.
Unmade == {"idle", "t_file", "g_spend", "g_count", "g_row", "t_input", "t_insert",
           "t_preview", "t_call", "t_ledger", "t_refuse", "t_fail", "t_dataset",
           "t_kernel", "t_put", "n_turn", "n_object", "n_stream"}

\* Which operation is at a step that several could be thought to share.
Acting(r) ==
    /\ At(r, "idle") => req[r].op = "none"
    /\ req[r].pc \in {"da_row", "da_object"} => req[r].op = "deleteArtifact"
    /\ req[r].pc \in {"t_input", "t_insert"} => req[r].op = "turn"
    /\ req[r].pc \in {"n_turn", "n_object", "n_stream", "n_close"} => req[r].op = "narrate"
    /\ At(r, "t_ledger") /\ req[r].then = "n_close" => req[r].op = "narrate"

RowsInv ==
    /\ \A t \in turns : \A r \in Reqs : t.id = r => Told(r, t.status) /\ req[r].op = "turn"
    /\ \A r \in Reqs : req[r].pc \in Unmade => Bare(r)
    /\ \A r \in Reqs : Acting(r)

\* What a step of request r leaves of the outputs, the objects and the rows.
Leaves(r) ==
    /\ \/ turns' = {}
       \/ artifacts \subseteq artifacts'
       \/ At(r, "da_row") /\ artifacts \ {req[r].art} \subseteq artifacts'
    /\ \A key \in objects' : \/ key \in objects
                             \/ key[1] = "file"
                             \/ key[2] = r /\ req'[r].pc \notin Unmade
    /\ \A t \in turns' : t \in turns \/ t.id = r
    /\ \A t \in turns' : t.id = r => Told(r, t.status)' /\ req'[r].op = "turn"

LEMMA ActingKeeps ==
  ASSUME ReqOK, NEW r \in Reqs, Walks(r), Acting(r),
         At(r, "t_ledger")' /\ req'[r].then = "n_close" =>
           \/ At(r, "n_stream")
           \/ At(r, "t_ledger") /\ req[r].then = "n_close"
  PROVE  Acting(r)'
<1>1. req[r] \in Call /\ Stage(req[r])
  BY DEF ReqOK
<1>2. CASE Arrives(r, req'[r])
  BY <1>2 DEF Arrives, Opens, Acting, At
<1>3. CASE Leads(r, req'[r])
  <2>1. /\ Running(r) /\ req'[r].op = req[r].op
        /\ \/ req'[r].pc \in Ended
           \/ Path(req[r].pc, req'[r].pc)
           \/ req[r].pc = "g_row" /\ req'[r].pc = AfterGuard(r)
           \/ req[r].pc = "t_ledger" /\ req'[r].pc = req[r].then
    BY <1>3 DEF Leads, At
  <2>2. CASE req'[r].pc \in Ended
    BY <2>2 DEF Acting, At, Ended
  <2>3. CASE Path(req[r].pc, req'[r].pc)
    <3>1. /\ req'[r].pc # "idle"
          /\ req'[r].pc = "da_object" => req[r].pc = "da_row"
          /\ req'[r].pc # "da_row" /\ req'[r].pc # "t_input"
          /\ req'[r].pc = "t_insert" => req[r].pc = "t_input"
          /\ req'[r].pc = "n_object" => req[r].pc = "n_turn"
          /\ req'[r].pc = "n_stream" => req[r].pc = "n_object"
          /\ req'[r].pc # "n_turn" /\ req'[r].pc # "n_close"
      BY <2>3 DEF Path
    <3> QED BY <2>1, <3>1 DEF Acting, At
  <2>4. CASE req[r].pc = "g_row" /\ req'[r].pc = AfterGuard(r)
    <3>1. \/ req'[r].pc = "t_input" /\ req[r].op = "turn"
          \/ req'[r].pc = "n_turn" /\ req[r].op = "narrate"
          \/ req'[r].pc \in {"c_user", "c_drop"}
      BY <1>1, <2>4 DEF AfterGuard, Stage, Guarded, ModelOps
    <3> QED BY <2>1, <3>1 DEF Acting, At
  <2>5. CASE req[r].pc = "t_ledger" /\ req'[r].pc = req[r].then
    <3>1. req[r].then \in {"t_refuse", "t_fail", "t_dataset", "n_close"}
      BY <1>1, <2>5 DEF Stage, Call, Thens
    <3> QED BY <2>1, <2>5, <3>1 DEF Acting, At
  <2> QED BY <2>1, <2>2, <2>3, <2>4, <2>5
<1> QED BY <1>2, <1>3 DEF Walks

\* A request leaves the steps at which nothing is made once and for all.
LEMMA UnmadeBefore ==
  ASSUME ReqOK, NEW r \in Reqs, Walks(r), req'[r].pc \in Unmade
  PROVE  req[r].pc \in Unmade
<1>1. req[r] \in Call /\ Stage(req[r])
  BY DEF ReqOK
<1>2. CASE Arrives(r, req'[r])
  BY <1>2 DEF Arrives, At, Unmade
<1>3. CASE Leads(r, req'[r])
  <2>1. \/ req'[r].pc \in Ended
        \/ Path(req[r].pc, req'[r].pc)
        \/ req[r].pc \in {"g_row", "t_ledger"}
    BY <1>3 DEF Leads, At
  <2>2. req'[r].pc \notin Ended
    BY DEF Ended, Unmade
  <2>3. CASE Path(req[r].pc, req'[r].pc)
    BY <2>3 DEF Path, Unmade
  <2> QED BY <2>1, <2>2, <2>3 DEF Unmade
<1> QED BY <1>2, <1>3 DEF Walks

LEMMA KeptStays ==
  ASSUME RowsInv, NEW r \in Reqs, Walks(r),
         \/ artifacts \subseteq artifacts'
         \/ At(r, "da_row") /\ artifacts \ {req[r].art} \subseteq artifacts'
  PROVE  \A x, i : KeptAs(x, i) => KeptAs(x, i)'
<1>1. ASSUME NEW q \in Reqs, req[q].op = "deleteArtifact"
      PROVE  req'[q].op = "deleteArtifact" /\ req'[q].art = req[q].art
  <2>1. ~At(q, "idle")
    BY <1>1 DEF RowsInv, Acting
  <2> QED BY <1>1, <2>1 DEF Walks, Arrives, Leads
<1>2. ASSUME NEW x, NEW i, <<x, i>> \in artifacts PROVE KeptAs(x, i)'
  <2>1. CASE <<x, i>> \in artifacts'
    BY <2>1 DEF KeptAs
  <2>2. CASE <<x, i>> \notin artifacts'
    <3>1. req[r].art = <<x, i>> /\ req[r].op = "deleteArtifact"
      BY <1>2, <2>2 DEF RowsInv, Acting, At
    <3> QED BY <1>1, <3>1 DEF KeptAs
  <2> QED BY <2>1, <2>2
<1> QED BY <1>1, <1>2 DEF KeptAs

LEMMA RowsStep ==
  ASSUME ReqOK, RowsInv, NEW r \in Reqs, Walks(r), Leaves(r), Acting(r)'
  PROVE  RowsInv'
<1>1. \A x \in Reqs : x # r => req'[x] = req[x]
  BY DEF Walks
<1>2. ASSUME NEW x \in Reqs, x # r, Bare(x) PROVE Bare(x)'
  BY <1>2 DEF Bare, Leaves
<1>3. ASSUME NEW x \in Reqs, req'[x].pc \in Unmade PROVE Bare(x)'
  <2>1. CASE x # r
    BY <1>1, <1>2, <1>3, <2>1 DEF RowsInv
  <2>2. CASE x = r
    <3>1. Bare(r)
      BY <1>3, <2>2, UnmadeBefore DEF RowsInv
    <3> QED BY <1>3, <2>2, <3>1 DEF Bare, Leaves
  <2> QED BY <2>1, <2>2
<1>4. ASSUME NEW x \in Reqs PROVE Acting(x)'
  <2>1. CASE x # r
    BY <1>1, <2>1 DEF Acting, At, RowsInv
  <2> QED BY <2>1
<1>5. ASSUME NEW t \in turns', NEW x \in Reqs, t.id = x
      PROVE  Told(x, t.status)' /\ req'[x].op = "turn"
  <2>1. CASE x = r
    BY <1>5, <2>1 DEF Leaves
  <2>2. CASE x # r
    <3>1. t \in turns /\ req'[x] = req[x] /\ Told(x, t.status) /\ req[x].op = "turn"
      BY <1>1, <1>5, <2>2 DEF Leaves, RowsInv
    <3>2. \A i : KeptAs(x, i) => KeptAs(x, i)'
      BY <1>5, KeptStays DEF Leaves
    <3>3. Bare(x) => Bare(x)'
      BY <1>2, <2>2
    <3> HIDE DEF Leaves
    <3> QED BY <3>1, <3>2, <3>3 DEF Told, Undone, At
  <2> QED BY <2>1, <2>2
<1> QED BY <1>3, <1>4, <1>5 DEF RowsInv

\* A request whose turn is not under way has no row of a turn.
LEMMA Rowless ==
  ASSUME RowsInv, NEW r \in Reqs, NEW t \in turns, t.id = r
  PROVE  /\ req[r].op = "turn"
         /\ \/ Undone(r) /\ t.status = "pending"
            \/ req[r].pc \in {"a_put", "a_row"} /\ t.status = "completed"
            \/ req[r].pc \in Ended
  BY DEF RowsInv, Told, At, Ended

LEMMA PlainLeaves ==
  ASSUME RowsInv, NEW r \in Reqs, Walks(r), turns' \subseteq turns,
         artifacts \subseteq artifacts' \/ turns' = {},
         \A key \in objects' : \/ key \in objects
                               \/ key[1] = "file"
                               \/ key[2] = r /\ req'[r].pc \notin Unmade,
         Undone(r) /\ req[r].op = "turn" => Undone(r)' \/ At(r, "dead")',
         req[r].pc \in {"a_put", "a_row"} =>
            \/ At(r, "dead")'
            \/ At(r, "a_row")' /\ req'[r].k = req[r].k
  PROVE  Leaves(r)
<1>1. ASSUME NEW t \in turns', t.id = r PROVE Told(r, t.status)' /\ req'[r].op = "turn"
  <2>1. /\ t \in turns /\ req[r].op = "turn" /\ Told(r, t.status)
        /\ \/ Undone(r) /\ t.status = "pending"
           \/ req[r].pc \in {"a_put", "a_row"} /\ t.status = "completed"
           \/ req[r].pc \in Ended
    BY <1>1, Rowless DEF RowsInv
  <2>2. req[r].pc \notin Ended /\ (req[r].pc # "idle" => req'[r].op = req[r].op)
    BY DEF Walks, Arrives, Leads, At, Running, Ended
  <2>3. CASE Undone(r) /\ t.status = "pending"
    BY <2>1, <2>2, <2>3 DEF Told, Undone
  <2>4. CASE req[r].pc \in {"a_put", "a_row"} /\ t.status = "completed"
    <3>1. \A i : KeptAs(r, i) => KeptAs(r, i)'
      BY <1>1, KeptStays
    <3>2. \A i \in 1 .. req[r].k - 1 : KeptAs(r, i)
      BY <2>1, <2>4 DEF Told
    <3>3. \/ At(r, "dead")'
          \/ At(r, "a_row")' /\ \A i \in 1 .. req'[r].k - 1 : KeptAs(r, i)'
      BY <2>4, <3>1, <3>2
    <3> QED BY <2>1, <2>2, <2>4, <3>3 DEF Told, At
  <2> QED BY <2>1, <2>2, <2>3, <2>4
<1> QED BY <1>1 DEF Leaves

LEMMA DieLeaves ==
  ASSUME ReqOK, RowsInv, NEW r \in Reqs, Die(r)
  PROVE  Leaves(r) /\ Acting(r)'
<1>1. /\ UNCHANGED <<rows, objects>> /\ Walks(r) /\ At(r, "dead")'
  BY AnswerIs, AnswerWalks DEF Die, Ended, At
<1>2. Acting(r)'
  BY <1>1 DEF Acting, At
<1> QED BY <1>1, <1>2, PlainLeaves DEF rows, At

LEMMA WorkspaceLeaves ==
  ASSUME ReqOK, RowsInv, NEW r \in Reqs, WorkspaceStep(r)
  PROVE  Leaves(r) /\ Acting(r)'
<1>1. Walks(r)
  BY WorkspaceWalks
<1>2. req[r].pc \in {"idle", "st_row", "up_put", "up_row", "df_project", "df_count", "df_row",
                     "df_object", "cs_file", "cs_row", "keys", "batch", "objects",
                     "da_row", "da_object"}
  BY DEF WorkspaceStep, CreateProject, SetState, Upload, DeleteFile, CreateSession,
     DeleteSession, DeleteProject, Reset, DeleteArtifact, Admit, DeleteKeys,
     UploadPut, UploadRow, DeleteFileProject, DeleteFileCount,
     DeleteFileRow, DeleteFileObject, CreateSessionFile, CreateSessionRow,
     DeleteSessionRows, DeleteProjectRows, DeleteObjects, LogOrphans,
     SetStateRow, DeleteArtifactRow, DeleteArtifactObject, At
<1>3. /\ ~Undone(r) /\ req[r].pc \notin {"a_put", "a_row"} /\ req[r].pc \notin Ended
      /\ ~At(r, "t_ledger")'
  <2>1. ~At(r, "t_ledger")'
    BY <1>1, <1>2 DEF Walks, Arrives, Opens, Leads, Path, At, Ended
  <2> QED BY <1>2, <2>1 DEF Undone, Ended
<1>4. Acting(r)'
  BY <1>1, <1>3, ActingKeeps DEF RowsInv
<1>5. \A t \in turns : t.id # r
  BY <1>3, Rowless
<1>6. turns' \subseteq turns
  BY DEF WorkspaceStep, CreateProject, SetState, Upload, DeleteFile, CreateSession,
     DeleteSession, DeleteProject, Reset, DeleteArtifact, DeleteKeys,
     UploadPut, UploadRow, DeleteFileProject, DeleteFileCount,
     DeleteFileRow, DeleteFileObject, CreateSessionFile, CreateSessionRow,
     DeleteSessionRows, DeleteProjectRows, DeleteObjects, LogOrphans,
     SetStateRow, DeleteArtifactRow, DeleteArtifactObject, rows
<1>7. \/ turns' = {}
      \/ artifacts \subseteq artifacts'
      \/ At(r, "da_row") /\ artifacts \ {req[r].art} \subseteq artifacts'
  BY DEF WorkspaceStep, CreateProject, SetState, Upload, DeleteFile, CreateSession,
     DeleteSession, DeleteProject, Reset, DeleteArtifact, DeleteKeys,
     UploadPut, UploadRow, DeleteFileProject, DeleteFileCount,
     DeleteFileRow, DeleteFileObject, CreateSessionFile, CreateSessionRow,
     DeleteSessionRows, DeleteProjectRows, DeleteObjects, LogOrphans,
     SetStateRow, DeleteArtifactRow, DeleteArtifactObject, rows
<1>8. UploadPut(r) \/ objects' \subseteq objects
  BY DEF WorkspaceStep, CreateProject, SetState, Upload, DeleteFile, CreateSession,
     DeleteSession, DeleteProject, Reset, DeleteArtifact, DeleteKeys,
     UploadRow, DeleteFileProject, DeleteFileCount,
     DeleteFileRow, DeleteFileObject, CreateSessionFile, CreateSessionRow,
     DeleteSessionRows, DeleteProjectRows, DeleteObjects, LogOrphans,
     SetStateRow, DeleteArtifactRow, DeleteArtifactObject
<1>9. \A key \in objects' : key \in objects \/ key[1] = "file"
  BY <1>8 DEF UploadPut, FileKey
<1> QED BY <1>4, <1>5, <1>6, <1>7, <1>9 DEF Leaves

LEMMA ChatLeaves ==
  ASSUME ReqOK, RowsInv, NEW r \in Reqs, ChatStep(r)
  PROVE  Leaves(r) /\ Acting(r)'
<1>1. Walks(r)
  BY ChatWalks
<1>2. req[r].pc \in {"idle", "cc_row", "pc_project", "pc_row", "dc_rows", "c_user", "c_drop",
                     "c_stream", "c_end", "c_usage", "c_answer"}
  BY DEF ChatStep, CreateChat, CreateBoundChat, PatchChat, DeleteChat, Stream, Admit,
     CreateBoundChatRow, PatchChatProject, PatchChatRow, DeleteChatRows, StoreQuestion,
     DropAnswer, CallChatModel, EndStream, AbortStream, RecordUsage, StoreAnswer, At
<1>3. UNCHANGED <<turns, artifacts, objects>>
  BY DEF ChatStep, CreateChat, CreateBoundChat, PatchChat, DeleteChat, Stream,
     CreateBoundChatRow, PatchChatProject, PatchChatRow, DeleteChatRows, StoreQuestion,
     DropAnswer, CallChatModel, EndStream, AbortStream, RecordUsage, StoreAnswer,
     Unmetered, Apart, rows
<1>4. Acting(r)'
  <2>1. ~At(r, "t_ledger")'
    BY <1>1, <1>2 DEF Walks, Arrives, Opens, Leads, Path, At, Ended
  <2> QED BY <1>1, <2>1, ActingKeeps DEF RowsInv
<1>5. ~Undone(r) /\ req[r].pc \notin {"a_put", "a_row"}
  BY <1>2 DEF Undone
<1> QED BY <1>1, <1>3, <1>4, <1>5, PlainLeaves

LEMMA TurnActs ==
  ASSUME ReqOK, RowsInv, NEW r \in Reqs, TurnStep(r)
  PROVE  Walks(r) /\ Acting(r)'
<1>1. req[r] \in Call /\ Stage(req[r]) /\ Walks(r)
  BY TurnWalks DEF ReqOK
<1>2. ASSUME At(r, "t_ledger")', req'[r].then = "n_close", ~At(r, "n_stream")
      PROVE  At(r, "t_ledger") /\ req[r].then = "n_close"
  <2>1. req[r].pc \in {"t_call", "t_ledger"}
    <3>1. AfterGuard(r) # "t_ledger" \/ ~At(r, "g_row")
      BY <1>1 DEF AfterGuard, Stage, Guarded, ModelOps, At
    <3> QED BY <1>1, <1>2, <3>1 DEF Walks, Arrives, Opens, Leads, Path, At, Ended
  <2>2. CallModel(r) \/ RecordCall(r)
    BY <2>1 DEF TurnStep, GuardSpend, GuardCount, GuardRow, Turn, TurnFile, TurnInput,
       TurnInsert, TurnPreview, TurnRefused, TurnFailed, TurnDataset, CallKernel, TurnPut,
       TurnComplete, ArtifactPut, ArtifactRow, Narrate, NarrateTurn, NarrateObject,
       NarrateStream, NarrateClose, Admit, At
  <2> DEFINE q(t) == [req[r] EXCEPT !.pc = "t_ledger", !.then = t, !.calls = @ + 1]
             o    == [req[r] EXCEPT !.calls = 1]
             p    == [req[r] EXCEPT !.pc = req[r].then, !.calls = 0]
             u    == [req[r] EXCEPT !.calls = @ - 1]
  <2>3. /\ \A t : q(t).then = t
        /\ o.pc = req[r].pc /\ p.pc = req[r].then
        /\ u.then = req[r].then
    BY <1>1 DEF Call
  <2>4. /\ CallModel(r) => /\ req[r].pc = "t_call"
                           /\ \/ Becomes(r, o)
                              \/ \E t \in {"t_refuse", "t_fail", "t_dataset"} : Becomes(r, q(t))
        /\ RecordCall(r) => /\ req[r].pc = "t_ledger"
                            /\ Becomes(r, p) \/ Becomes(r, u)
    BY DEF CallModel, RecordCall, At
  <2>5. req[r].then # "t_ledger"
    BY <1>1 DEF Call, Thens
  <2> HIDE DEF q, o, p, u
  <2> QED BY <1>2, <2>2, <2>3, <2>4, <2>5, BecomesIs DEF At
<1> QED BY <1>1, <1>2, ActingKeeps DEF RowsInv

LEMMA TurnQuietly ==
  ASSUME ReqOK, RowsInv, NEW r \in Reqs, TurnStep(r),
         ~\/ TurnInsert(r) \/ TurnRefused(r) \/ TurnFailed(r) \/ TurnPut(r)
          \/ TurnComplete(r) \/ ArtifactPut(r) \/ ArtifactRow(r)
  PROVE  Leaves(r)
<1>1. req[r] \in Call /\ Stage(req[r]) /\ Walks(r)
  BY TurnWalks DEF ReqOK
<1>2. UNCHANGED <<rows, objects>>
  BY DEF TurnStep, GuardSpend, GuardCount, GuardRow, Turn, TurnFile, TurnInput,
     TurnPreview, CallModel, RecordCall, TurnDataset, CallKernel, Narrate, NarrateTurn,
     NarrateObject, NarrateStream, NarrateClose, Unmetered
<1>3. \/ req[r].pc \in {"idle", "g_spend", "g_count", "g_row", "t_file", "t_input",
                        "n_turn", "n_object", "n_stream", "n_close"}
      \/ TurnPreview(r) \/ CallModel(r) \/ RecordCall(r) \/ TurnDataset(r) \/ CallKernel(r)
  BY DEF TurnStep, GuardSpend, GuardCount, GuardRow, Turn, TurnFile, TurnInput,
     Narrate, NarrateTurn, NarrateObject, NarrateStream, NarrateClose, Admit, At
<1>4. req[r].pc \notin {"a_put", "a_row"}
  BY <1>3 DEF TurnPreview, CallModel, RecordCall, TurnDataset, CallKernel, At
<1>5. ASSUME Undone(r), req[r].op = "turn" PROVE Undone(r)'
  <2>1. CASE TurnPreview(r) \/ TurnDataset(r)
    <3>1. \E l \in {"t_call", "t_fail", "t_kernel"} : Go(r, l)
      BY <2>1 DEF TurnPreview, TurnDataset
    <3> QED BY <3>1, GoIs DEF Undone
  <2>2. CASE CallModel(r) \/ RecordCall(r) \/ CallKernel(r)
    <3> DEFINE q(t, c) == [req[r] EXCEPT !.pc = "t_ledger", !.then = t, !.calls = c]
               p       == [req[r] EXCEPT !.pc = req[r].then, !.calls = 0]
               o(c)    == [req[r] EXCEPT !.calls = c]
               m(n)    == [req[r] EXCEPT !.pc = "t_put", !.n = n]
               w       == [req[r] EXCEPT !.n = 1]
    <3>1. /\ \A t, c : q(t, c).pc = "t_ledger"
          /\ p.pc = req[r].then /\ w.pc = req[r].pc
          /\ \A c : o(c).pc = req[r].pc /\ m(c).pc = "t_put"
      BY <1>1 DEF Call
    <3>2. /\ req[r].pc \in {"t_call", "t_ledger", "t_kernel"}
          /\ \/ Becomes(r, o(1)) \/ \E t : Becomes(r, q(t, req[r].calls + 1))
             \/ Becomes(r, o(req[r].calls - 1))
             \/ At(r, "t_ledger") /\ Becomes(r, p)
             \/ Go(r, "t_fail") \/ Becomes(r, w) \/ \E n : Becomes(r, m(n))
      BY <2>2 DEF CallModel, RecordCall, CallKernel, At
    <3>3. At(r, "t_ledger") => req[r].then \in {"t_refuse", "t_fail", "t_dataset"}
      BY <1>1, <1>5 DEF Call, Thens, Stage, RowsInv, Acting, At
    <3> HIDE DEF q, p, o, m, w
    <3> QED BY <3>1, <3>2, <3>3, GoIs, BecomesIs DEF Undone
  <2> QED BY <1>3, <1>5, <2>1, <2>2 DEF Undone
<1> QED BY <1>1, <1>2, <1>4, <1>5, PlainLeaves DEF rows

LEMMA SetRows ==
  ASSUME Shapes, NEW r \in Reqs, NEW status, SetTurn(r, status)
  PROVE  /\ \A t \in turns' : t \in turns \/ t.id = r
         /\ \A t \in turns' : t.id = r => t.status = status /\ \E u \in turns : u.id = r
<1>1. ASSUME NEW t \in turns'
      PROVE  \/ t \in turns /\ t.id # r
             \/ \E u \in turns : u.id = r /\ t = [u EXCEPT !.status = status]
  BY DEF SetTurn
<1>2. ASSUME NEW u \in turns, u.id = r
      PROVE  [u EXCEPT !.status = status].id = r /\ [u EXCEPT !.status = status].status = status
  BY <1>2 DEF Shapes
<1> QED BY <1>1, <1>2

LEMMA TurnLeaves ==
  ASSUME ReqOK, Shapes, RowsInv, NEW r \in Reqs, TurnStep(r)
  PROVE  Leaves(r)
<1>1. req[r] \in Call /\ Stage(req[r]) /\ Walks(r)
  BY TurnWalks DEF ReqOK
<1>2. CASE TurnInsert(r)
  <2>1. /\ turns' = turns \cup {[id |-> r, session |-> req[r].on, status |-> "pending"]}
        /\ artifacts' = artifacts /\ objects' = objects
        /\ Undone(r)' /\ req'[r].op = "turn"
    <3>1. \E l \in {"t_fail", "t_preview"} : Go(r, l)
      BY <1>2 DEF TurnInsert
    <3> QED BY <1>2, <3>1, GoIs DEF TurnInsert, RowsInv, Acting, Undone, At
  <2>2. \A t \in turns : t.id # r
    BY <1>2, Rowless DEF TurnInsert, At, Undone, Ended
  <2> QED BY <2>1, <2>2 DEF Leaves, Told
<1>3. CASE TurnRefused(r) \/ TurnFailed(r)
  <2>1. PICK status \in {"refused", "failed"} : SetTurn(r, status)
    BY <1>3 DEF TurnRefused, TurnFailed
  <2>2. /\ artifacts' = artifacts /\ objects' = objects /\ Answer(r, "ok")
        /\ req[r].pc \in Unmade
    BY <1>3 DEF TurnRefused, TurnFailed, At, Unmade
  <2>3. Bare(r)' /\ At(r, "ok")' /\ req'[r].op = req[r].op
    BY <2>2, AnswerIs DEF RowsInv, Bare, At
  <2>4. \A t \in turns' : t.id = r => Told(r, t.status)' /\ req'[r].op = "turn"
    BY <2>1, <2>3, SetRows DEF Told, RowsInv
  <2>5. \A t \in turns' : t \in turns \/ t.id = r
    BY <2>1, SetRows
  <2> QED BY <2>2, <2>4, <2>5 DEF Leaves
<1>4. CASE TurnComplete(r)
  <2> DEFINE q == [req[r] EXCEPT !.pc = "a_put", !.k = 1]
  <2>1. SetTurn(r, "completed") /\ artifacts' = artifacts /\ objects' = objects /\ Becomes(r, q)
    BY <1>4 DEF TurnComplete
  <2>2. q.pc = "a_put" /\ q.k = 1 /\ q.op = req[r].op
    BY <1>1 DEF Call
  <2> HIDE DEF q
  <2>3. req'[r].pc = "a_put" /\ req'[r].k = 1 /\ req'[r].op = req[r].op
    BY <2>1, <2>2, BecomesIs
  <2>4. \A t \in turns' : t.id = r => t.status = "completed" /\ req'[r].op = "turn"
    BY <2>1, <2>3, SetRows DEF RowsInv
  <2>5. Told(r, "completed")'
    BY <2>3 DEF Told, At
  <2>6. \A t \in turns' : t \in turns \/ t.id = r
    BY <2>1, SetRows
  <2> QED BY <2>1, <2>4, <2>5, <2>6 DEF Leaves
<1>5. CASE TurnPut(r)
  <2>1. /\ UNCHANGED rows /\ objects' = objects \cup {ResultKey(r)}
        /\ req[r].pc = "t_put" /\ req'[r].pc = "t_complete"
    BY <1>5, GoIs DEF TurnPut, At
  <2>2. ResultKey(r)[2] = r /\ req'[r].pc \notin Unmade
    BY <2>1 DEF ResultKey, Unmade
  <2> QED BY <1>1, <2>1, <2>2, PlainLeaves DEF rows, Undone
<1>6. CASE ArtifactPut(r)
  <2>1. /\ UNCHANGED rows /\ objects' = objects \cup {ArtifactKey(<<r, req[r].k>>)}
        /\ req[r].pc = "a_put" /\ req'[r].pc = "a_row" /\ req'[r].k = req[r].k
    BY <1>6, GoIs DEF ArtifactPut, At
  <2>2. ArtifactKey(<<r, req[r].k>>)[2] = r /\ req'[r].pc \notin Unmade
    BY <2>1 DEF ArtifactKey, Unmade
  <2> QED BY <1>1, <2>1, <2>2, PlainLeaves DEF rows, Undone, At
<1>7. CASE ArtifactRow(r)
  <2> DEFINE q == [req[r] EXCEPT !.pc = "a_put", !.k = @ + 1]
  <2>1. /\ turns' = turns /\ objects' = objects
        /\ artifacts' = artifacts \cup {<<r, req[r].k>>} /\ req[r].pc = "a_row"
        /\ IF req[r].k = req[r].n THEN Answer(r, "ok") ELSE Becomes(r, q)
    BY <1>7 DEF ArtifactRow, At
  <2>2. q.pc = "a_put" /\ q.k = req[r].k + 1 /\ q.op = req[r].op
    BY <1>1 DEF Call
  <2> HIDE DEF q
  <2>3. /\ req'[r].op = req[r].op
        /\ \/ req'[r].pc = "ok" /\ req'[r].n = req[r].k
           \/ req'[r].pc = "a_put" /\ req'[r].k = req[r].k + 1
    BY <2>1, <2>2, AnswerIs, BecomesIs
  <2>4. req[r].k \in Nat
    BY <1>1, <2>1 DEF Call, Stage
  <2>5. ASSUME NEW t \in turns, t.id = r
        PROVE  t.status = "completed" /\ req[r].op = "turn" /\ \A i \in 1 .. req[r].k : KeptAs(r, i)'
    <3>1. t.status = "completed" /\ req[r].op = "turn" /\ Told(r, t.status)
      BY <2>1, <2>5, Rowless DEF RowsInv, Undone, Ended
    <3>2. \A i : KeptAs(r, i) => KeptAs(r, i)'
      BY <1>1, <2>1, KeptStays
    <3>3. \A i : i = req[r].k => KeptAs(r, i)'
      BY <2>1 DEF KeptAs
    <3>4. \A i \in 1 .. req[r].k - 1 : KeptAs(r, i)
      BY <2>1, <3>1 DEF Told
    <3>5. \A i \in 1 .. req[r].k : i = req[r].k \/ i \in 1 .. req[r].k - 1
      BY <2>4
    <3> QED BY <3>1, <3>2, <3>3, <3>4, <3>5
  <2>6. ASSUME NEW t \in turns, t.id = r PROVE Told(r, t.status)'
    <3>1. t.status = "completed" /\ \A i \in 1 .. req[r].k : KeptAs(r, i)'
      BY <2>5, <2>6
    <3>2. CASE req'[r].pc = "ok"
      <4>1. \A i \in 1 .. req'[r].n : KeptAs(r, i)'
        BY <2>3, <3>1, <3>2
      <4> QED BY <3>1, <3>2, <4>1 DEF Told, At
    <3>3. CASE req'[r].pc = "a_put"
      <4>1. \A i \in 1 .. req'[r].k - 1 : KeptAs(r, i)'
        BY <2>3, <2>4, <3>1, <3>3
      <4> QED BY <3>1, <3>3, <4>1 DEF Told, At
    <3> QED BY <2>3, <3>2, <3>3
  <2> QED BY <2>1, <2>3, <2>5, <2>6 DEF Leaves
<1> QED BY <1>2, <1>3, <1>4, <1>5, <1>6, <1>7, TurnQuietly

LEMMA RowsInit == Start => RowsInv
<1> SUFFICES ASSUME Start PROVE RowsInv
  OBVIOUS
<1>1. /\ req = [r \in Reqs |-> Idle] /\ files \subseteq {Old}
      /\ turns = {[id |-> f, session |-> f, status |-> "completed"] : f \in files}
      /\ artifacts = files \X (1 .. Outputs) /\ objects = RowKeys
  BY DEF Start, Init
<1>2. \A t \in turns : t.id = Old
  BY <1>1
<1>3. \A key \in objects : key[2] = Old
  <2>1. \A key \in FileKeys : key[2] = Old
    BY <1>1 DEF FileKeys, FileKey
  <2>2. \A key \in ResultKeys : key[2] = Old
    BY <1>2 DEF ResultKeys, ResultKey
  <2>3. \A key \in ArtifactKeys : key[2] = Old
    BY <1>1 DEF ArtifactKeys, ArtifactKey
  <2> QED BY <1>1, <2>1, <2>2, <2>3 DEF RowKeys
<1>4. \A r \in Reqs : req[r].pc = "idle" /\ req[r].op = "none"
  BY <1>1 DEF Idle
<1> QED BY <1>2, <1>3, <1>4, OldAssumption DEF RowsInv, Bare, Acting, At

LEMMA RowsStill ==
  ASSUME RowsInv, UNCHANGED <<vars, late>>
  PROVE  RowsInv'
<1>1. turns' = turns /\ artifacts' = artifacts /\ objects' = objects /\ req' = req
  BY DEF vars, rows
<1>2. /\ \A x, i : KeptAs(x, i)' = KeptAs(x, i)
      /\ \A x : Bare(x)' = Bare(x) /\ Acting(x)' = Acting(x) /\ Undone(x)' = Undone(x)
  BY <1>1 DEF KeptAs, Bare, Acting, Undone, At
<1>3. ASSUME NEW x \in Reqs, NEW status, Told(x, status) PROVE Told(x, status)'
  BY <1>1, <1>2, <1>3 DEF Told, At
<1> QED BY <1>1, <1>2, <1>3 DEF RowsInv

(* What the rows of turns rest on, in every state.                         *)
THEOREM RowsHold == Spec => []RowsInv
<1>1. RowsInv /\ ReqOK /\ Shapes /\ [Next]_<<vars, late>> => RowsInv'
  <2> SUFFICES ASSUME RowsInv, ReqOK, Shapes, [Next]_<<vars, late>> PROVE RowsInv'
    OBVIOUS
  <2>1. CASE Next
    <3>1. PICK r \in Reqs : WorkspaceStep(r) \/ TurnStep(r) \/ ChatStep(r) \/ Die(r)
      BY <2>1 DEF Next
    <3>2. Walks(r) /\ Leaves(r) /\ Acting(r)'
      BY <3>1, StepWalks, WorkspaceLeaves, TurnActs, TurnLeaves, ChatLeaves, DieLeaves
    <3> QED BY <3>2, RowsStep
  <2>2. CASE UNCHANGED <<vars, late>>
    BY <2>2, RowsStill
  <2> QED BY <2>1, <2>2
<1> QED BY <1>1, RowsInit, ShapesHold, PTL DEF Spec

(* A turn's row tells what became of it: pending while its request is at   *)
(* work or dead, completed with every output that was not deleted itself,  *)
(* failed or refused with nothing left in the bucket.                      *)
THEOREM TurnRowsHold == Spec => []TurnRowsTellTheTruth
<1>1. RowsInv => TurnRowsTellTheTruth
  BY DEF RowsInv, TurnRowsTellTheTruth, Told, KeptAs, Bare, Undone, At
<1> QED BY <1>1, RowsHold, PTL
===============================================================================

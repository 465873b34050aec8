------------------------------ MODULE RelayStore ------------------------------
(***************************************************************************)
(* What the Relay worker keeps and what its requests carry between two     *)
(* awaited calls.  The rows are in D1, a database with foreign keys whose  *)
(* batches are transactions; the bytes are in R2, an object store that     *)
(* shares no transaction with it.  Every handler writes to both in         *)
(* separate calls, and handlers of several requests interleave between     *)
(* any two of them.                                                        *)
(*                                                                         *)
(* One visitor and one project of theirs are modelled.  An identifier that *)
(* a handler mints is named by the request that minted it, so the file of  *)
(* request r, its session, its turn and its conversation are all called r. *)
(* A request that its first read turns away (unknown id, foreign or seed   *)
(* owner, archived project) changes nothing: it is a request that never    *)
(* came.                                                                   *)
(***************************************************************************)
EXTENDS Naturals, Sequences, FiniteSets

CONSTANTS
    Reqs,       \* the requests that arrive, each for one operation
    Old,        \* names the rows that exist before any of them
    Outputs,    \* the most outputs of one kernel result
    RateCap,    \* MODEL_RATE_LIMIT_PER_HOUR
    Budget,     \* DAILY_SPEND_CAP_USD, counted in model calls
    Crowd(_, _) \* bound: the requests (with their operations) that may all
                \* arrive at a deployment with such a setup

ASSUME OldAssumption == Old \notin Reqs
ASSUME BoundsAssumption ==
    Outputs \in Nat /\ RateCap \in Nat \ {0} /\ Budget \in Nat \ {0}

VARIABLES
    project,    \* its row: "none", "active", "archived" or "gone"
    files,      \* ids of table file
    sessions,   \* table analysis_session
    turns,      \* table session_turn
    artifacts,  \* ids of artifact and artifact_provenance, <<turn, output>>
    convs,      \* table conversation
    msgs,       \* table conversation_message, oldest first
    objects,    \* the keys in R2
    rate,       \* rows of request_rate within the hour, per route
    ledger,     \* rows of model_call today
    spent,      \* calls the model provider has charged today
    setup,      \* which bindings and secrets the deployment has
    req         \* the requests

VARIABLES       \* history, read by properties only
    lost,       \* keys of objects dropped at a point the code knows of
    stale,      \* requests at work when the project was last archived
    raced,      \* routes on which a request was counted late
    messy       \* conversations with overlapping or broken streams

rows    == <<project, files, sessions, turns, artifacts>>
chats   == <<convs, msgs>>
meters  == <<rate, ledger, spent>>
history == <<lost, stale, raced, messy>>
vars    == <<rows, chats, objects, meters, setup, req, history>>

Ids      == Reqs \cup {Old}
Routes   == {"turns", "narration", "chat"}
Statuses == {"pending", "completed", "failed", "refused"}

FileKey(f)     == <<"file", f, 0>>
ResultKey(t)   == <<"result", t, 0>>
ArtifactKey(a) == <<"artifact", a[1], a[2]>>

ArtifactIds == Ids \X (1 .. Outputs)
Keys == {FileKey(f) : f \in Ids} \cup {ResultKey(t) : t \in Ids}
          \cup {ArtifactKey(a) : a \in ArtifactIds}

\* Output 1 is the operation record, the others are tables.
Tables == {a \in artifacts : a[2] > 1}

\* file.r2_key, session_turn.result_r2_key and artifact.r2_key of all rows.
FileKeys     == {FileKey(f) : f \in files}
ResultKeys   == {ResultKey(t.id) : t \in {u \in turns : u.status = "completed"}}
ArtifactKeys == {ArtifactKey(a) : a \in artifacts}
RowKeys      == FileKeys \cup ResultKeys \cup ArtifactKeys

SessionIds == {s.id : s \in sessions}
TurnIds    == {t.id : t \in turns}
ConvIds    == {c.id : c \in convs}
Exists     == project \in {"active", "archived"}

(***************************************************************************)
(* A request: where it is, its operation, and what its handler remembers:  *)
(* the session or conversation, the file and the artifact it is about,     *)
(* keys read for a later delete, a counter and the output at hand, where a *)
(* turn goes once its calls are on the ledger, and its calls that are not. *)
(***************************************************************************)
Idle == [pc |-> "idle", op |-> "none", on |-> Old, file |-> Old, art |-> <<>>,
         keys |-> {}, n |-> 0, k |-> 0, then |-> "none", calls |-> 0]

Ended == {"ok", "refused", "dead"}
At(r, label) == req[r].pc = label
Running(r)   == req[r].pc \notin Ended \cup {"idle"}

Becomes(r, call) == req' = [req EXCEPT ![r] = call]
Admit(r, call)   ==
    /\ At(r, "idle")
    /\ Becomes(r, call)
    /\ Crowd(setup, [q \in {p \in Reqs : p = r \/ ~At(p, "idle")} |->
                        IF q = r THEN call.op ELSE req[q].op])
Go(r, label)     == Becomes(r, [req[r] EXCEPT !.pc = label])
Answer(r, how)   == Becomes(r, [req[r] EXCEPT !.pc = how, !.keys = {}])

\* Objects without a row that the next call of request r will name or delete.
Held(r) ==
    CASE At(r, "up_row")     -> {FileKey(r)}
      [] At(r, "t_complete") -> {ResultKey(r)}
      [] At(r, "a_row")      -> {ArtifactKey(<<r, req[r].k>>)}
      [] At(r, "df_object")  -> {FileKey(req[r].file)}
      [] At(r, "da_object")  -> {ArtifactKey(req[r].art)}
      [] At(r, "objects")    -> req[r].keys
      [] OTHER               -> {}

\* A stream that has touched its conversation and not yet stored its answer.
Streaming(r) == req[r].pc \in {"c_stream", "c_end", "c_usage", "c_answer"}

(***************************************************************************)
(* An awaited call rejects (a foreign key that fails included), or the     *)
(* isolate is torn down: the handler stops where it stands, the client     *)
(* gets a 500 or nothing, and what earlier calls wrote stays.              *)
(***************************************************************************)
Die(r) ==
    /\ Running(r)
    /\ Answer(r, "dead")
    /\ lost' = lost \cup Held(r)
    /\ messy' = IF Streaming(r) THEN messy \cup {req[r].on} ELSE messy
    /\ UNCHANGED <<rows, chats, objects, meters, setup, stale, raced>>

(***************************************************************************)
(* At the start the project may not exist yet, or it has a file, a session *)
(* on it, a completed turn with all its outputs and a conversation.  The   *)
(* hour and the day are one call below their limits.                       *)
(***************************************************************************)
Init ==
    /\ project \in {"none", "active", "archived"}
    /\ files     = IF project = "none" THEN {} ELSE {Old}
    /\ sessions  = {[id |-> f, file |-> f] : f \in files}
    /\ turns     = {[id |-> f, session |-> f, status |-> "completed"] : f \in files}
    /\ artifacts = files \X (1 .. Outputs)
    /\ convs     = {[id |-> f, bound |-> TRUE] : f \in files}
    /\ msgs      = [c \in Ids |-> IF c \in files
                                  THEN <<[role |-> "user", of |-> c],
                                         [role |-> "assistant", of |-> c]>>
                                  ELSE <<>>]
    /\ objects   = RowKeys
    /\ rate      = [route \in Routes |-> RateCap - 1]
    /\ ledger    = Budget - 1
    /\ spent     = ledger
    /\ setup \in {"whole", "no_model", "no_kernel"}
    /\ req       = [r \in Reqs |-> Idle]
    /\ lost = {} /\ stale = {} /\ raced = {} /\ messy = {}
===============================================================================

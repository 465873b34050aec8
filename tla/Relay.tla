--------------------------------- MODULE Relay ---------------------------------
(***************************************************************************)
(* The Relay worker: requests of every route at once over one database and *)
(* one bucket, and what must hold between the two whatever interleaves,    *)
(* fails or dies.                                                          *)
(***************************************************************************)
EXTENDS RelayWorkspace, RelayTurns, RelayChat

VARIABLE late  \* keys whose row came while a delete stood between read and batch

Start == Init /\ late = {}

Next ==
    /\ \E r \in Reqs : WorkspaceStep(r) \/ TurnStep(r) \/ ChatStep(r) \/ Die(r)
    /\ late' = IF \E q \in Reqs : At(q, "batch")
               THEN late \cup (RowKeys' \ RowKeys) ELSE late

Spec == Start /\ [][Next]_<<vars, late>>

Labels == {"idle", "ok", "refused", "dead", "st_row", "up_put", "up_row",
           "df_project", "df_count", "df_row", "df_object", "cs_file", "cs_row",
           "keys", "batch", "objects", "da_row", "da_object",
           "g_spend", "g_count", "g_row", "t_file", "t_input", "t_insert",
           "t_preview", "t_call", "t_ledger", "t_refuse", "t_fail", "t_dataset",
           "t_kernel", "t_put", "t_complete", "a_put", "a_row",
           "n_turn", "n_object", "n_stream", "n_close", "cc_row", "pc_project",
           "pc_row", "dc_rows", "c_user", "c_drop", "c_stream", "c_end",
           "c_usage", "c_answer"}

(* The rows and the requests have their types, and the foreign keys of the *)
(* schema hold: a session's file, a turn's session, the project of every   *)
(* row and the conversation of every message exist.                        *)
TypeOK ==
    /\ project \in {"none", "active", "archived", "gone"}
    /\ files \subseteq Ids
    /\ sessions \subseteq [id : Ids, file : files]
    /\ turns \subseteq [id : Ids, session : SessionIds, status : Statuses]
    /\ artifacts \subseteq ArtifactIds
    /\ convs \subseteq [id : Ids, bound : BOOLEAN]
    /\ ~Exists => files = {} /\ artifacts = {} /\ \A c \in convs : ~c.bound
    /\ \A c \in Ids \ ConvIds : msgs[c] = <<>>
    /\ objects \subseteq Keys
    /\ \A r \in Reqs : /\ req[r].pc \in Labels
                       /\ req[r].on \in Ids /\ req[r].file \in Ids
                       /\ req[r].art \in ArtifactIds \cup {<<>>}
                       /\ req[r].keys \subseteq Keys
                       /\ req[r].n \in Nat /\ req[r].k \in 0 .. Outputs
                       /\ req[r].calls \in 0 .. 2

(* Every key a row names is in the bucket: an upload, a turn and each of   *)
(* its outputs store the bytes before the row, and every delete removes    *)
(* the row before the bytes, whoever else writes or deletes at the time.   *)
RowsHaveObjects == RowKeys \subseteq objects

(* An object no row names is in the hands of a request that is about to    *)
(* name or delete it, or was dropped where the code can drop one: the      *)
(* request died, its delete failed and was logged, its turn was deleted    *)
(* under it, or its row came too late for the delete that took the row.    *)
OrphansAccounted ==
    objects \subseteq RowKeys \cup lost \cup late \cup UNION {Held(r) : r \in Reqs}

(* A turn's row tells what became of it.  It is pending only while its     *)
(* request is at work or after that died; a completed turn whose request   *)
(* was answered has every output, less those deleted as artifacts; a       *)
(* failed or refused one left neither a result nor an output.              *)
Undone(r) == req[r].pc \in {"t_preview", "t_call", "t_ledger", "t_refuse",
                            "t_fail", "t_dataset", "t_kernel", "t_put", "t_complete"}

TurnRowsTellTheTruth ==
    \A t \in turns : \A r \in Reqs : t.id = r =>
        CASE t.status = "pending"   -> Undone(r) \/ At(r, "dead")
          [] t.status = "completed" ->
               /\ ~Undone(r)
               /\ At(r, "ok") => \A i \in 1 .. req[r].n :
                     \/ <<r, i>> \in artifacts
                     \/ \E q \in Reqs : req[q].op = "deleteArtifact"
                                        /\ req[q].art = <<r, i>>
          [] OTHER                  ->
               /\ At(r, "ok")
               /\ \A key \in objects : key[2] = r => key[1] = "file"

(* Nothing is written into an archived project but by a request that was   *)
(* at work when it was archived.  (A rename is left out: it writes the     *)
(* project of the conversation back as it read it, and so undoes a change  *)
(* that came in between, whatever the state of the project.)               *)
Written == \/ ~(files' \subseteq files)
           \/ ~(SessionIds' \subseteq SessionIds)
           \/ ~(TurnIds' \subseteq TurnIds)
           \/ ~(artifacts' \subseteq artifacts)
           \/ ~({c \in ConvIds' : [id |-> c, bound |-> TRUE] \in convs'} \subseteq
                {c \in ConvIds : [id |-> c, bound |-> TRUE] \in convs})

ArchiveHolds ==
    [][\A r \in Reqs :
         /\ project = "archived" /\ Written
         /\ req'[r] # req[r] /\ req[r].op # "renameChat"
         => r \in stale]_<<vars, late>>

(* A route passes its hourly limit only when requests were counted at      *)
(* once: one was let in on a count that another had outdated.              *)
RateKeptUnlessRaced ==
    \A route \in Routes : rate[route] > RateCap => route \in raced

(* The ledger lacks exactly the calls that requests have made and not yet  *)
(* recorded, and a request that was answered has recorded all of its own:  *)
(* only the dead and the aborted cost what the budget never learns of.     *)
UnrecordedCalls ==
    {c \in Reqs \X (1 .. 2) : c[2] <= req[c[1]].calls}

LedgerLacksOnlyTheDead ==
    /\ ledger + Cardinality(UnrecordedCalls) = spent
    /\ \A r \in Reqs : At(r, "ok") => req[r].calls = 0

(* A conversation whose streams never overlapped and all ended well is a   *)
(* sequence of questions, each followed by its answer and nothing else:    *)
(* then a regeneration drops the answer to the very question it asks.      *)
CleanChatsArePaired ==
    \A c \in Ids \ messy : ~AtWork(c) =>
        LET s == msgs[c] IN
        /\ Len(s) % 2 = 0
        /\ \A i \in DOMAIN s : IF i % 2 = 1
                               THEN s[i].role = "user"
                               ELSE s[i] = [role |-> "assistant", of |-> s[i - 1].of]
===============================================================================

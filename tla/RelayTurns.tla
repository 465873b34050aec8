------------------------------ MODULE RelayTurns ------------------------------
(***************************************************************************)
(* The model paths of Relay: the guard every one of them passes first, a   *)
(* turn of an analysis session, and the narration of a result.  A turn     *)
(* asks the model for an operation (one retry), runs it on the kernel (one *)
(* retry), and stores the result, then its outputs one after the other.    *)
(***************************************************************************)
EXTENDS RelayStore

RouteOf(r) == CASE req[r].op = "turn"     -> "turns"
                [] req[r].op = "narrate"  -> "narration"
                [] OTHER                  -> "chat"

Unmetered == <<rows, chats, objects, setup, history>>
Unstored  == <<chats, meters, setup, stale, raced, messy>>

(***************************************************************************)
(* guardModelCall: the day's spend, the route's count, the row that counts *)
(* this request.  (The prune that follows drops rows of earlier days.)     *)
(***************************************************************************)
GuardSpend(r) ==
    /\ At(r, "g_spend")
    /\ IF ledger >= Budget THEN Answer(r, "refused") ELSE Go(r, "g_count")
    /\ UNCHANGED <<Unmetered, meters>>

\* Slip: the limit itself is let through.
GuardCountLate(r) ==
    /\ At(r, "g_count")
    /\ IF rate[RouteOf(r)] > RateCap
       THEN Answer(r, "refused")
       ELSE Becomes(r, [req[r] EXCEPT !.pc = "g_row", !.n = rate[RouteOf(r)]])
    /\ UNCHANGED <<Unmetered, meters>>

GuardCount(r) ==
    /\ At(r, "g_count")
    /\ IF rate[RouteOf(r)] >= RateCap
       THEN Answer(r, "refused")
       ELSE Becomes(r, [req[r] EXCEPT !.pc = "g_row", !.n = rate[RouteOf(r)]])
    /\ UNCHANGED <<Unmetered, meters>>

AfterGuard(r) == CASE req[r].op = "turn"       -> "t_input"
                   [] req[r].op = "narrate"    -> "n_turn"
                   [] req[r].op = "send"       -> "c_user"
                   [] req[r].op = "regenerate" -> "c_drop"

GuardRow(r) ==
    /\ At(r, "g_row")
    /\ rate' = [rate EXCEPT ![RouteOf(r)] = @ + 1]
    /\ raced' = IF rate[RouteOf(r)] # req[r].n THEN raced \cup {RouteOf(r)} ELSE raced
    /\ Becomes(r, [req[r] EXCEPT !.pc = AfterGuard(r), !.n = 0])
    /\ UNCHANGED <<rows, chats, objects, ledger, spent, setup, lost, stale, messy>>

(* POST /sessions/:id/turns: the session with its project, the file, the   *)
(* guard, the table it is to run on (if not the file), the row.            *)
Turn(r) ==
    /\ project = "active"
    /\ \E s \in sessions, a \in (Ids \X (2 .. Outputs)) \cup {<<>>} :
         Admit(r, [Idle EXCEPT !.op = "turn", !.on = s.id, !.file = s.file,
                               !.art = a, !.pc = "t_file"])
    /\ UNCHANGED <<Unmetered, meters>>

TurnFile(r) ==
    /\ At(r, "t_file")
    /\ IF req[r].file \in files THEN Go(r, "g_spend") ELSE Answer(r, "refused")
    /\ UNCHANGED <<Unmetered, meters>>

TurnInput(r) ==
    /\ At(r, "t_input")
    /\ IF req[r].art \in Tables \cup {<<>>} THEN Go(r, "t_insert") ELSE Answer(r, "refused")
    /\ UNCHANGED <<Unmetered, meters>>

TurnInsert(r) ==
    /\ At(r, "t_insert")
    /\ req[r].on \in SessionIds
    /\ turns' = turns \cup {[id |-> r, session |-> req[r].on, status |-> "pending"]}
    /\ Go(r, IF setup = "no_model" THEN "t_fail" ELSE "t_preview")
    /\ UNCHANGED <<project, files, sessions, artifacts, objects, lost, Unstored>>

\* The object the turn reads: the file's, or that of the table it was given.
Dataset(r) == IF req[r].art = <<>> THEN FileKey(req[r].file) ELSE ArtifactKey(req[r].art)

TurnPreview(r) ==
    /\ At(r, "t_preview")
    /\ Go(r, IF Dataset(r) \in objects THEN "t_call" ELSE "t_fail")
    /\ UNCHANGED <<Unmetered, meters>>

\* UPDATE session_turn; a turn deleted meanwhile has no row to update.
SetTurn(r, status) ==
    turns' = {IF t.id = r THEN [t EXCEPT !.status = status] ELSE t : t \in turns}

(***************************************************************************)
(* translatePrompt: an operation ends it, and so does a refusal; output    *)
(* that is not valid is tried once more.  What comes of the answer (t_fail *)
(* for parameters the operation's schema rejects, or without a kernel)     *)
(* waits until every call is on the ledger.  A call that throws throws     *)
(* away the record of the one before.                                      *)
(***************************************************************************)
CallModel(r) ==
    /\ At(r, "t_call")
    /\ spent' = spent + 1
    /\ \/ /\ req[r].calls = 0
          /\ Becomes(r, [req[r] EXCEPT !.calls = 1])
       \/ \E then \in {"t_refuse", "t_fail"} \cup
                      (IF setup = "no_kernel" THEN {} ELSE {"t_dataset"}) :
            Becomes(r, [req[r] EXCEPT !.pc = "t_ledger", !.then = then,
                                        !.calls = @ + 1])
    /\ UNCHANGED <<Unmetered, rate, ledger>>

\* Slip: one row for all calls of a turn.
RecordCallOnce(r) ==
    /\ At(r, "t_ledger")
    /\ ledger' = ledger + 1
    /\ Becomes(r, [req[r] EXCEPT !.pc = req[r].then, !.calls = 0])
    /\ UNCHANGED <<Unmetered, rate, spent>>

\* recordModelCalls: one INSERT per call.
RecordCall(r) ==
    /\ At(r, "t_ledger")
    /\ ledger' = ledger + 1
    /\ IF req[r].calls = 1
       THEN Becomes(r, [req[r] EXCEPT !.pc = req[r].then, !.calls = 0])
       ELSE Becomes(r, [req[r] EXCEPT !.calls = @ - 1])
    /\ UNCHANGED <<Unmetered, rate, spent>>

TurnRefused(r) ==
    /\ At(r, "t_refuse")
    /\ SetTurn(r, "refused")
    /\ Answer(r, "ok")
    /\ UNCHANGED <<project, files, sessions, artifacts, objects, lost, Unstored>>

\* Slip: the failure is answered and not stored.
TurnFailedQuietly(r) ==
    /\ At(r, "t_fail")
    /\ Answer(r, "ok")
    /\ UNCHANGED <<rows, objects, lost, Unstored>>

TurnFailed(r) ==
    /\ At(r, "t_fail")
    /\ SetTurn(r, "failed")
    /\ Answer(r, "ok")
    /\ UNCHANGED <<project, files, sessions, artifacts, objects, lost, Unstored>>

\* The bytes of an input table are read once more, to be hashed.
TurnDataset(r) ==
    /\ At(r, "t_dataset")
    /\ Go(r, IF req[r].art # <<>> /\ Dataset(r) \notin objects
             THEN "t_fail" ELSE "t_kernel")
    /\ UNCHANGED <<Unmetered, meters>>

(***************************************************************************)
(* The kernel fetches the dataset by a signed URL while it runs the        *)
(* operation.  A transport failure is tried once more; a rejection, or a   *)
(* result that is not of the contract, fails the turn.                     *)
(***************************************************************************)
CallKernel(r) ==
    /\ At(r, "t_kernel")
    /\ \/ /\ Dataset(r) \in objects
          /\ \E m \in 1 .. Outputs :
               Becomes(r, [req[r] EXCEPT !.pc = "t_put", !.n = m])
       \/ req[r].n = 0 /\ Becomes(r, [req[r] EXCEPT !.n = 1])
       \/ Go(r, "t_fail")
    /\ UNCHANGED <<Unmetered, meters>>

TurnPut(r) ==
    /\ At(r, "t_put")
    /\ objects' = objects \cup {ResultKey(r)}
    /\ Go(r, "t_complete")
    /\ UNCHANGED <<rows, lost, Unstored>>

TurnComplete(r) ==
    /\ At(r, "t_complete")
    /\ SetTurn(r, "completed")
    /\ lost' = IF r \in TurnIds THEN lost ELSE lost \cup {ResultKey(r)}
    /\ Becomes(r, [req[r] EXCEPT !.pc = "a_put", !.k = 1])
    /\ UNCHANGED <<project, files, sessions, artifacts, objects, Unstored>>

(* persistTurnArtifacts: per output, the object and then the two rows.     *)
ArtifactPut(r) ==
    /\ At(r, "a_put")
    /\ objects' = objects \cup {ArtifactKey(<<r, req[r].k>>)}
    /\ Go(r, "a_row")
    /\ UNCHANGED <<rows, lost, Unstored>>

ArtifactRow(r) ==
    /\ At(r, "a_row")
    /\ Exists
    /\ artifacts' = artifacts \cup {<<r, req[r].k>>}
    /\ IF req[r].k = req[r].n
       THEN Answer(r, "ok")
       ELSE Becomes(r, [req[r] EXCEPT !.pc = "a_put", !.k = @ + 1])
    /\ UNCHANGED <<project, files, sessions, turns, objects, lost, Unstored>>

(***************************************************************************)
(* POST /turns/:id/narration: the guard comes first, then the key, the     *)
(* turn and its stored result.  A stream that fails ends quietly and       *)
(* leaves what a request that dies leaves.                                 *)
(***************************************************************************)
Narrate(r) ==
    /\ \E t \in TurnIds :
         Admit(r, [Idle EXCEPT !.op = "narrate", !.on = t, !.pc = "g_spend"])
    /\ UNCHANGED <<Unmetered, meters>>

NarrateTurn(r) ==
    /\ At(r, "n_turn")
    /\ IF setup # "no_model" /\ ResultKey(req[r].on) \in ResultKeys
       THEN Go(r, "n_object") ELSE Answer(r, "refused")
    /\ UNCHANGED <<Unmetered, meters>>

NarrateObject(r) ==
    /\ At(r, "n_object")
    /\ IF ResultKey(req[r].on) \in objects THEN Go(r, "n_stream") ELSE Answer(r, "refused")
    /\ UNCHANGED <<Unmetered, meters>>

NarrateStream(r) ==
    /\ At(r, "n_stream")
    /\ spent' = spent + 1
    /\ Becomes(r, [req[r] EXCEPT !.pc = "t_ledger", !.then = "n_close", !.calls = 1])
    /\ UNCHANGED <<Unmetered, rate, ledger>>

NarrateClose(r) ==
    /\ At(r, "n_close")
    /\ Answer(r, "ok")
    /\ UNCHANGED <<Unmetered, meters>>

TurnStep(r) ==
    \/ GuardSpend(r) \/ GuardCount(r) \/ GuardRow(r)
    \/ Turn(r) \/ TurnFile(r) \/ TurnInput(r) \/ TurnInsert(r) \/ TurnPreview(r)
    \/ CallModel(r) \/ RecordCall(r) \/ TurnRefused(r) \/ TurnFailed(r)
    \/ TurnDataset(r) \/ CallKernel(r) \/ TurnPut(r) \/ TurnComplete(r)
    \/ ArtifactPut(r) \/ ArtifactRow(r)
    \/ Narrate(r) \/ NarrateTurn(r) \/ NarrateObject(r)
    \/ NarrateStream(r) \/ NarrateClose(r)
===============================================================================

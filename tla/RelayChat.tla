------------------------------- MODULE RelayChat -------------------------------
(***************************************************************************)
(* The conversations of Relay.  A stream stores the question (or, when it  *)
(* regenerates, deletes the latest answer) before the model is called, and *)
(* the answer in a callback after the response has been streamed.          *)
(***************************************************************************)
EXTENDS RelayStore

Apart == <<rows, objects, setup, lost, stale, raced>>

(* POST /conversations: free of a project, one INSERT.                     *)
CreateChat(r) ==
    /\ Admit(r, [Idle EXCEPT !.op = "createChat", !.pc = "ok"])
    /\ convs' = convs \cup {[id |-> r, bound |-> FALSE]}
    /\ UNCHANGED <<msgs, meters, messy, Apart>>

(* POST /conversations with a project: its check, then the INSERT.         *)
CreateBoundChat(r) ==
    /\ project = "active"
    /\ Admit(r, [Idle EXCEPT !.op = "createChat", !.pc = "cc_row"])
    /\ UNCHANGED <<chats, meters, messy, Apart>>

CreateBoundChatRow(r) ==
    /\ At(r, "cc_row")
    /\ Exists
    /\ convs' = convs \cup {[id |-> r, bound |-> TRUE]}
    /\ Answer(r, "ok")
    /\ UNCHANGED <<msgs, meters, messy, Apart>>

(***************************************************************************)
(* PATCH /conversations/:id: the row; for a new project its check; the     *)
(* UPDATE of title and project, each as patched or as it was read.         *)
(***************************************************************************)
PatchChat(r) ==
    /\ \E c \in convs :
         \/ Admit(r, [Idle EXCEPT !.op = "bindChat", !.on = c.id, !.pc = "pc_project"])
         \/ Admit(r, [Idle EXCEPT !.op = "freeChat", !.on = c.id, !.pc = "pc_row"])
         \/ Admit(r, [Idle EXCEPT !.op = "renameChat", !.on = c.id, !.pc = "pc_row",
                                  !.n = IF c.bound THEN 1 ELSE 0])
    /\ UNCHANGED <<chats, meters, messy, Apart>>

PatchChatProject(r) ==
    /\ At(r, "pc_project")
    /\ IF project = "active" THEN Becomes(r, [req[r] EXCEPT !.pc = "pc_row", !.n = 1])
                             ELSE Answer(r, "refused")
    /\ UNCHANGED <<chats, meters, messy, Apart>>

PatchChatRow(r) ==
    /\ At(r, "pc_row")
    /\ req[r].n = 0 \/ req[r].on \notin ConvIds \/ Exists
    /\ convs' = {IF c.id = req[r].on THEN [c EXCEPT !.bound = (req[r].n = 1)] ELSE c
                   : c \in convs}
    /\ Answer(r, "ok")
    /\ UNCHANGED <<msgs, meters, messy, Apart>>

(* DELETE /conversations/:id: the row, then one batch with its messages.   *)
DeleteChat(r) ==
    /\ \E c \in ConvIds :
         Admit(r, [Idle EXCEPT !.op = "deleteChat", !.on = c, !.pc = "dc_rows"])
    /\ UNCHANGED <<chats, meters, messy, Apart>>

DeleteChatRows(r) ==
    /\ At(r, "dc_rows")
    /\ convs' = {c \in convs : c.id # req[r].on}
    /\ msgs' = [msgs EXCEPT ![req[r].on] = <<>>]
    /\ Answer(r, "ok")
    /\ UNCHANGED <<meters, messy, Apart>>

(***************************************************************************)
(* POST /conversations/:id/stream: the row, the guard, then the messages.  *)
(* The client sends the thread it shows: the question is its own new       *)
(* message, or, when it regenerates, the last one of the thread.           *)
(***************************************************************************)
Of(s, role)     == {i \in DOMAIN s : s[i].role = role}
LastOf(s, role) == CHOOSE i \in Of(s, role) : \A j \in Of(s, role) : j <= i

AtWork(c) == \E q \in Reqs : Running(q) /\ req[q].op \in {"send", "regenerate"}
                             /\ req[q].on = c

Stream(r) ==
    /\ setup # "no_model"
    /\ \E c \in ConvIds :
         /\ \/ Admit(r, [Idle EXCEPT !.op = "send", !.on = c, !.file = r,
                                     !.pc = "g_spend"])
            \/ /\ Of(msgs[c], "user") # {}
               /\ Admit(r, [Idle EXCEPT !.op = "regenerate", !.on = c,
                                        !.file = msgs[c][LastOf(msgs[c], "user")].of,
                                        !.pc = "g_spend"])
         /\ messy' = IF AtWork(c) THEN messy \cup {c} ELSE messy
    /\ UNCHANGED <<chats, meters, Apart>>

StoreQuestion(r) ==
    /\ At(r, "c_user")
    /\ req[r].on \in ConvIds
    /\ msgs' = [msgs EXCEPT ![req[r].on] = Append(@, [role |-> "user", of |-> r])]
    /\ Go(r, "c_stream")
    /\ UNCHANGED <<convs, meters, messy, Apart>>

\* Slip: regeneration leaves the answer it replaces.
DropNothing(r) ==
    /\ At(r, "c_drop")
    /\ Go(r, "c_stream")
    /\ UNCHANGED <<chats, meters, messy, Apart>>

\* DELETE of the latest assistant message of the conversation, if it has one.
DropAnswer(r) ==
    /\ At(r, "c_drop")
    /\ LET s == msgs[req[r].on] IN
         msgs' = IF Of(s, "assistant") # {}
                 THEN LET i == LastOf(s, "assistant") IN
                      [msgs EXCEPT ![req[r].on] =
                         SubSeq(s, 1, i - 1) \o SubSeq(s, i + 1, Len(s))]
                 ELSE msgs
    /\ Go(r, "c_stream")
    /\ UNCHANGED <<convs, meters, messy, Apart>>

CallChatModel(r) ==
    /\ At(r, "c_stream")
    /\ spent' = spent + 1
    /\ Becomes(r, [req[r] EXCEPT !.pc = "c_end", !.calls = 1])
    /\ UNCHANGED <<chats, rate, ledger, messy, Apart>>

(***************************************************************************)
(* How the stream ends decides which callbacks of the AI SDK run: both     *)
(* when it finishes, the second alone (with the parts so far) when the     *)
(* model fails midway, none that stores anything when it is aborted.  An   *)
(* isolate torn down while it streams runs none either.                    *)
(***************************************************************************)
EndStream(r) ==
    /\ At(r, "c_end")
    /\ \E next \in {"c_usage", "c_answer"} : Go(r, next)
    /\ UNCHANGED <<chats, meters, messy, Apart>>

AbortStream(r) ==
    /\ At(r, "c_end")
    /\ Answer(r, "dead")
    /\ messy' = messy \cup {req[r].on}
    /\ UNCHANGED <<chats, meters, Apart>>

RecordUsage(r) ==
    /\ At(r, "c_usage")
    /\ ledger' = ledger + 1
    /\ Becomes(r, [req[r] EXCEPT !.pc = "c_answer", !.calls = 0])
    /\ UNCHANGED <<chats, rate, spent, messy, Apart>>

\* The INSERT fails, and is logged, when the conversation has been deleted.
StoreAnswer(r) ==
    /\ At(r, "c_answer")
    /\ msgs' = IF req[r].on \in ConvIds
               THEN [msgs EXCEPT ![req[r].on] =
                       Append(@, [role |-> "assistant", of |-> req[r].file])]
               ELSE msgs
    /\ Answer(r, IF req[r].calls = 0 THEN "ok" ELSE "dead")
    /\ UNCHANGED <<convs, meters, messy, Apart>>

ChatStep(r) ==
    \/ CreateChat(r) \/ CreateBoundChat(r) \/ CreateBoundChatRow(r)
    \/ PatchChat(r) \/ PatchChatProject(r) \/ PatchChatRow(r)
    \/ DeleteChat(r) \/ DeleteChatRows(r)
    \/ Stream(r) \/ StoreQuestion(r) \/ DropAnswer(r) \/ CallChatModel(r)
    \/ EndStream(r) \/ AbortStream(r) \/ RecordUsage(r) \/ StoreAnswer(r)
===============================================================================

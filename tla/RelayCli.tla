-------------------------------- MODULE RelayCli --------------------------------
(***************************************************************************)
(* The command line: processes that make one request each.  What they      *)
(* share is the session file, which keeps the cookie of the identity that  *)
(* the worker minted for the first of them; what the user learns is the    *)
(* exit code.                                                              *)
(***************************************************************************)
EXTENDS RelayApi

CONSTANTS
    Procs,      \* the invocations of the command line
    Invoked     \* the commands they may be of

ASSUME InvokedAssumption == Invoked \subseteq Commands

VARIABLES
    saved,      \* the cookie in ~/.config/relay/session
    proc,       \* the processes
    split       \* history: could the identity of the command line be split?

cli == <<saved, proc, split>>

OK == 0
UNEXPECTED == 1
USAGE == 2
AUTH == 3
NOT_FOUND == 4
VALIDATION == 5
REMOTE_UNAVAILABLE == 6

exitCodeOfFailures(status) ==
    CASE status \in {401, 403} -> AUTH
      [] status = 404          -> NOT_FOUND
      [] status >= 400         -> VALIDATION
      [] OTHER                 -> UNEXPECTED

exitCodeForStatus(status) ==
    CASE status \in {401, 403}           -> AUTH
      [] status = 404                    -> NOT_FOUND
      [] status \in {400, 413, 415, 422} -> VALIDATION
      [] status >= 500                   -> REMOTE_UNAVAILABLE
      [] OTHER                           -> UNEXPECTED

\* Commands that check something of their own first: that --yes was given,
\* that there is something to update, that the file can be read.
Checked == Deletes \cup {"patchProject", "uploadFile"}

\* A process: where it is, its request and the cookie sent with it, the
\* answer, its exit code, and whether its request has changed any row.
Unborn == [pc |-> "unborn", q |-> Request, cookie |-> None, ans |-> <<>>,
           exit |-> OK, did |-> FALSE]

Waiting(p) == proc[p].pc \in {"sent", "served"}
Becomes(p, x) == proc' = [proc EXCEPT ![p] = x]
Exit(p, code) == Becomes(p, [Unborn EXCEPT !.pc = "done", !.exit = code,
                                           !.q.op = proc[p].q.op, !.did = proc[p].did])

(***************************************************************************)
(* A process that needs no answer: commander rejects the arguments, a      *)
(* check of the command fails, or the command is local (config show,       *)
(* introspect, help).                                                      *)
(***************************************************************************)
Local(p) ==
    /\ proc[p].pc = "unborn"
    /\ \E code \in {USAGE, OK} : Exit(p, code)
    /\ UNCHANGED <<api, saved, split>>

FailCheck(p) ==
    /\ proc[p].pc = "unborn"
    /\ \E op \in Checked \cap Invoked :
         Becomes(p, [proc[p] EXCEPT !.pc = "done", !.q.op = op, !.exit = VALIDATION])
    /\ UNCHANGED <<api, saved, split>>

(***************************************************************************)
(* The request goes out with the cookie of the session file, if there is   *)
(* one.  A second one without a cookie, while the first is unanswered,     *)
(* will be given an identity of its own.                                   *)
(***************************************************************************)
Send(p, q) ==
    /\ proc[p].pc = "unborn"
    /\ Becomes(p, [proc[p] EXCEPT !.pc = "sent", !.q = q, !.cookie = saved])
    /\ split' = (split \/ /\ saved = None
                          /\ \E r \in Procs : Waiting(r) /\ proc[r].cookie = None)
    /\ UNCHANGED <<api, saved>>

ServeCli(p) ==
    /\ proc[p].pc = "sent"
    /\ LET q == proc[p].q
           c == proc[p].cookie IN
       \E res \in Results(q, Visitor(c)) \cup Thrown(Results(q, Visitor(c))) :
         /\ Serve(q, c, res)
         /\ Becomes(p, [proc[p] EXCEPT !.pc = "served", !.ans = Answer(q, c, res),
                                       !.did = (res.rows # rows)])
    /\ UNCHANGED <<saved, split>>

\* fetch rejects: the worker was not reached, or its answer was lost.
Unreachable(p) ==
    /\ Waiting(p)
    /\ Exit(p, REMOTE_UNAVAILABLE)
    /\ split' = (split \/ proc[p].cookie = None)
    /\ UNCHANGED <<api, saved>>

(***************************************************************************)
(* The answer: its cookie is saved if that works, its status decides.  The *)
(* body of a good answer may still be cut short, and the local file of a   *)
(* download cannot always be written.                                      *)
(***************************************************************************)
persistNothing(p) == UNCHANGED <<saved, split>>

persistSessionCookie(p) ==
    LET c == proc[p].ans.cookie IN
    IF c = None THEN UNCHANGED <<saved, split>>
    ELSE \/ saved' = c /\ UNCHANGED split
         \/ split' = TRUE /\ UNCHANGED saved

Receive(p) ==
    /\ proc[p].pc = "served"
    /\ persistSessionCookie(p)
    /\ IF proc[p].ans.status < 400
       THEN \E code \in {OK, UNEXPECTED} : Exit(p, code)
       ELSE Exit(p, exitCodeForStatus(proc[p].ans.status))
    /\ UNCHANGED api

Invoke(p) == \E op \in Invoked : \E q \in Arguments(op) :
                 Send(p, [q EXCEPT !.by = "cli"])

CliStep(p) == Local(p) \/ FailCheck(p) \/ Invoke(p) \/ ServeCli(p)
              \/ Unreachable(p) \/ Receive(p)

CliInit == /\ saved \in {None, 1}
           /\ proc = [p \in Procs |-> Unborn]
           /\ split = FALSE
=================================================================================

------------------------------ MODULE LiveRuns -------------------------------
(***************************************************************************)
(* Runs of the Concord API from the request that asks for one to the ack   *)
(* of its queue message: POST /api/admin/changelab and enqueueRun          *)
(* (packages/concord-api/src/index.ts), the queue consumer, and the        *)
(* skeleton of executeRun (run.ts) -- its writes to `run`, `audit_log` and *)
(* the run's own rows.  Each awaited D1 or queue call is a step of its own,*)
(* so handlers and executors interleave between any two of them.           *)
(*                                                                         *)
(* The queue is external: it delivers a message at least once, redelivers  *)
(* it when the consumer dies or rejects or when the ack is lost, and drops *)
(* it after MaxRetries redeliveries.  A consumer and its redelivery do not *)
(* run at once; consumers of different messages do.                        *)
(*                                                                         *)
(* A run is named by the request that asks for it.  All requests carry the *)
(* same identity and fall within one hour, in which the identity may have  *)
(* started live runs before, all of them at their end.                     *)
(***************************************************************************)
EXTENDS Integers, FiniteSets

CONSTANTS Runs,         \* requests for a run, and the runs
          MaxPerHour,   \* live runs an identity may start per hour
          MaxRetries,   \* max_retries of the consumer
          None

ASSUME LiveRunsAssumption ==
  /\ None \notin Runs
  /\ MaxPerHour \in Nat /\ MaxRetries \in Nat

VARIABLES live,        \* the Change-Lab requests; the others come from enqueueRun
          earlier,     \* live runs the identity started before, in the hour
          pc,          \* pc[r]: where the handler of request r stands
          found,       \* found[r]: the in-flight run its SELECT returned
          status,      \* status[r]: the run row; "none" before the INSERT
          audit,       \* the rows of audit_log
          msg,         \* msg[r]: the queue message of run r
          deliveries,  \* deliveries[r]: how often it was delivered
          exec,        \* exec[r]: where executeRun stands, "none" outside it
          rows,        \* rows[r]: how many of the run's own rows are stored
          prs,         \* history: pull requests opened for run r
          raced,       \* history: two live requests were handled at once
          revived      \* history: runs re-executed after they had ended

handler == <<live, earlier, pc, found, raced>>
store == <<status, audit, rows>>
queue == <<msg, deliveries>>
vars == <<handler, store, queue, exec, prs, revived>>

Terminal == {"completed", "partial", "failed"}
Refusals == {"rejected:LIVE_RUN_IN_FLIGHT", "rejected:RATE_LIMITED",
             "rejected:MUTATION_NOT_ALLOWED"}

AuditRow == [by : live, run : Runs \cup {None},
             outcome : Refusals \cup Terminal \cup {"queued"}]

TypeOK ==
  /\ live \subseteq Runs
  /\ earlier \in 0..MaxPerHour
  /\ pc \in [Runs -> {"idle", "busy", "clear", "limited", "admitted",
                      "inserted", "audited", "done"}]
  /\ found \in [Runs -> live \cup {None}]
  /\ status \in [Runs -> {"none", "queued", "running"} \cup Terminal]
  /\ audit \subseteq AuditRow
  /\ \A a, b \in audit : a.by = b.by => a = b
  /\ msg \in [Runs -> {"none", "waiting", "leased", "acked", "dead"}]
  /\ deliveries \in [Runs -> 0..(MaxRetries + 1)]
  /\ exec \in [Runs -> {"none", "claim", "work", "storing", "publish", "final",
                        "audit", "catch", "auditFailed", "returned"}]
  /\ rows \in [Runs -> {"none", "some", "all"}]
  /\ prs \in [Runs -> Nat]
  /\ raced \in BOOLEAN
  /\ revived \subseteq Runs

Init ==
  /\ live \in SUBSET Runs
  /\ earlier \in 0..MaxPerHour
  /\ pc = [r \in Runs |-> "idle"]
  /\ found = [r \in Runs |-> None]
  /\ status = [r \in Runs |-> "none"]
  /\ audit = {}
  /\ msg = [r \in Runs |-> "none"]
  /\ deliveries = [r \in Runs |-> 0]
  /\ exec = [r \in Runs |-> "none"]
  /\ rows = [r \in Runs |-> "none"]
  /\ prs = [r \in Runs |-> 0]
  /\ raced = FALSE
  /\ revived = {}

Step(f, r, from, to) == f[r] = from /\ f' = [f EXCEPT ![r] = to]

------------------------------------------------------------------------------
(* The request handlers.                                                   *)

Handling == {r \in live : pc[r] \notin {"idle", "done"}}

\* Slip: a run that waits in the queue is not seen.
InFlightRunning == {r \in live : status[r] = "running"}

\* mode = 'live' AND status IN ('queued','running')
InFlight == {r \in live : status[r] \in {"queued", "running"}}

\* The SELECT of the in-flight run; any one of them may come first.
Post(r) ==
  /\ r \in live
  /\ pc[r] = "idle"
  /\ \/ \E q \in InFlight : /\ pc' = [pc EXCEPT ![r] = "busy"]
                            /\ found' = [found EXCEPT ![r] = q]
     \/ /\ InFlight = {}
        /\ pc' = [pc EXCEPT ![r] = "clear"]
        /\ UNCHANGED found
  /\ raced' = (raced \/ Handling # {})
  /\ UNCHANGED <<live, earlier, store, queue, exec, prs, revived>>

Record(r, run, outcome) ==
  audit' = audit \cup {[by |-> r, run |-> run, outcome |-> outcome]}

\* validateMutation comes before the SELECT; the audit row is the only effect.
RejectInvalid(r) ==
  /\ r \in live
  /\ Step(pc, r, "idle", "done")
  /\ Record(r, None, "rejected:MUTATION_NOT_ALLOWED")
  /\ UNCHANGED <<live, earlier, found, raced, status, rows, queue, exec, prs, revived>>

\* The refusal is recorded under the id of the run in flight.
RejectInFlight(r) ==
  /\ Step(pc, r, "busy", "done")
  /\ Record(r, found[r], "rejected:LIVE_RUN_IN_FLIGHT")
  /\ UNCHANGED <<live, earlier, found, raced, status, rows, queue, exec, prs, revived>>

Counted == {a \in audit : a.outcome \notin Refusals}

\* Slip: one run too many before the limit bites.
LimitPassed == earlier + Cardinality(Counted) > MaxPerHour

LimitReached == earlier + Cardinality(Counted) >= MaxPerHour

CountRecent(r) ==
  /\ Step(pc, r, "clear", IF LimitReached THEN "limited" ELSE "admitted")
  /\ UNCHANGED <<live, earlier, found, raced, store, queue, exec, prs, revived>>

RejectLimited(r) ==
  /\ Step(pc, r, "limited", "done")
  /\ Record(r, None, "rejected:RATE_LIMITED")
  /\ UNCHANGED <<live, earlier, found, raced, status, rows, queue, exec, prs, revived>>

InsertRun(r) ==
  /\ Step(pc, r, "admitted", "inserted")
  /\ status' = [status EXCEPT ![r] = "queued"]
  /\ UNCHANGED <<live, earlier, found, raced, audit, rows, queue, exec, prs, revived>>

AuditQueued(r) ==
  /\ Step(pc, r, "inserted", "audited")
  /\ Record(r, r, "queued")
  /\ UNCHANGED <<live, earlier, found, raced, status, rows, queue, exec, prs, revived>>

\* enqueueRun: no check, no audit row, no mode; the message is sent next.
EnqueueRun(r) ==
  /\ r \notin live
  /\ Step(pc, r, "idle", "audited")
  /\ status' = [status EXCEPT ![r] = "queued"]
  /\ UNCHANGED <<live, earlier, found, raced, audit, rows, queue, exec, prs, revived>>

\* Slip: the message leaves before the audit row is written.
SendEarly(r) ==
  /\ pc[r] \in {"inserted", "audited"}
  /\ Step(msg, r, "none", "waiting")
  /\ pc' = [pc EXCEPT ![r] = IF @ = "audited" THEN "done" ELSE @]
  /\ UNCHANGED <<live, earlier, found, raced, store, deliveries, exec, prs, revived>>

Send(r) ==
  /\ Step(pc, r, "audited", "done")
  /\ Step(msg, r, "none", "waiting")
  /\ UNCHANGED <<live, earlier, found, raced, store, deliveries, exec, prs, revived>>

\* The awaited call rejects and the request ends with an error; what earlier
\* calls wrote stays.
HandlerFails(r) ==
  /\ pc[r] \notin {"idle", "done"}
  /\ pc' = [pc EXCEPT ![r] = "done"]
  /\ UNCHANGED <<live, earlier, found, raced, store, queue, exec, prs, revived>>

Handle(r) ==
  \/ Post(r)
  \/ RejectInvalid(r)
  \/ RejectInFlight(r)
  \/ CountRecent(r)
  \/ RejectLimited(r)
  \/ InsertRun(r)
  \/ AuditQueued(r)
  \/ EnqueueRun(r)
  \/ Send(r)

------------------------------------------------------------------------------
(* The consumer and executeRun.                                            *)

Deliver(r) ==
  /\ Step(msg, r, "waiting", "leased")
  /\ Step(exec, r, "none", "claim")
  /\ deliveries' = [deliveries EXCEPT ![r] = @ + 1]
  /\ UNCHANGED <<handler, store, prs, revived>>

\* UPDATE run SET status = 'running' WHERE id = ?, whatever the status was.
Claim(r) ==
  /\ Step(exec, r, "claim", "work")
  /\ status' = [status EXCEPT ![r] = "running"]
  /\ revived' = IF status[r] \in Terminal THEN revived \cup {r} ELSE revived
  /\ UNCHANGED <<handler, audit, rows, queue, prs>>

\* Slip: rows keyed by fresh ids, which a second execution cannot collide with.
NoClash(r) == FALSE

\* doc_unit's key is (run_id, id): the first chunk of a second execution fails.
Clash(r) == rows[r] # "none"

\* batchAll writes in chunks: the first one ...
StoreFirst(r) ==
  /\ ~Clash(r)
  /\ Step(exec, r, "work", "storing")
  /\ rows' = [rows EXCEPT ![r] = "some"]
  /\ UNCHANGED <<handler, status, audit, queue, prs, revived>>

\* Slip: a chunk that fails is passed over.
StoreAnyhow(r) ==
  /\ Step(exec, r, "storing", "publish")
  /\ \E s \in {"some", "all"} : rows' = [rows EXCEPT ![r] = s]
  /\ UNCHANGED <<handler, status, audit, queue, prs, revived>>

\* ... and the others.
StoreRest(r) ==
  /\ Step(exec, r, "storing", "publish")
  /\ rows' = [rows EXCEPT ![r] = "all"]
  /\ UNCHANGED <<handler, status, audit, queue, prs, revived>>

\* Only live runs publish, and a failure of GitHub's does not fail the run.
Publish(r) ==
  /\ Step(exec, r, "publish", "final")
  /\ prs' \in IF r \in live THEN {prs, [prs EXCEPT ![r] = @ + 1]} ELSE {prs}
  /\ UNCHANGED <<handler, store, queue, revived>>

Finalize(r) ==
  /\ Step(exec, r, "final", "audit")
  /\ \E s \in {"completed", "partial"} : status' = [status EXCEPT ![r] = s]
  /\ UNCHANGED <<handler, audit, rows, queue, prs, revived>>

\* UPDATE audit_log SET outcome = ? WHERE run_id = ?: every row of that run id,
\* the refusals that name it as the run in flight included.
Rewrite(r, outcome) ==
  audit' = {IF a.run = r THEN [a EXCEPT !.outcome = outcome] ELSE a : a \in audit}

AuditFinal(r) ==
  /\ Step(exec, r, "audit", "returned")
  /\ Rewrite(r, status[r])
  /\ UNCHANGED <<handler, status, rows, queue, prs, revived>>

\* An awaited call inside the try rejects.
Throws(r) ==
  /\ exec[r] \in {"work", "storing", "publish", "final", "audit"}
  /\ exec' = [exec EXCEPT ![r] = "catch"]
  /\ UNCHANGED <<handler, store, queue, prs, revived>>

\* The same after the pull request was opened: its own step row fails to insert.
PublishThenThrows(r) ==
  /\ r \in live
  /\ Step(exec, r, "publish", "catch")
  /\ prs' = [prs EXCEPT ![r] = @ + 1]
  /\ UNCHANGED <<handler, store, queue, revived>>

MarkFailed(r) ==
  /\ Step(exec, r, "catch", "auditFailed")
  /\ status' = [status EXCEPT ![r] = "failed"]
  /\ UNCHANGED <<handler, audit, rows, queue, prs, revived>>

\* Slip: the catch updates the run only.
SkipAuditFailed(r) ==
  /\ Step(exec, r, "auditFailed", "returned")
  /\ UNCHANGED <<handler, store, queue, prs, revived>>

AuditFailed(r) ==
  /\ Step(exec, r, "auditFailed", "returned")
  /\ Rewrite(r, "failed")
  /\ UNCHANGED <<handler, status, rows, queue, prs, revived>>

Ack(r) ==
  /\ Step(exec, r, "returned", "none")
  /\ Step(msg, r, "leased", "acked")
  /\ UNCHANGED <<handler, store, deliveries, prs, revived>>

\* Slip: a message is acked whatever happened.
NeverRetry(r) == "acked"

\* max_retries
AfterLoss(r) == IF deliveries[r] <= MaxRetries THEN "waiting" ELSE "dead"

\* The consumer dies, executeRun rejects (its first UPDATE is outside the try,
\* the catch's own are unguarded), or the ack is lost.
DeliveryLost(r) ==
  /\ exec[r] # "none"
  /\ exec' = [exec EXCEPT ![r] = "none"]
  /\ Step(msg, r, "leased", AfterLoss(r))
  /\ UNCHANGED <<handler, store, deliveries, prs, revived>>

Execute(r) ==
  \/ Deliver(r)
  \/ Claim(r)
  \/ StoreFirst(r)
  \/ StoreRest(r)
  \/ Publish(r)
  \/ Finalize(r)
  \/ AuditFinal(r)
  \/ Throws(r)
  \/ PublishThenThrows(r)
  \/ MarkFailed(r)
  \/ AuditFailed(r)
  \/ Ack(r)

Next ==
  \E r \in Runs : Handle(r) \/ HandlerFails(r) \/ Execute(r) \/ DeliveryLost(r)

\* The queue delivers what it holds and a consumer that does not die goes on.
\* Nobody has to send a request, and no fault has to happen.
Spec == Init /\ [][Next]_vars /\ \A r \in Runs : WF_vars(Execute(r))

------------------------------------------------------------------------------
\* The SELECT of the in-flight run is the lock: as long as no two Change-Lab
\* requests are handled at once and no ended run is executed again, at most one
\* live run is queued or running -- failed requests and dead consumers included.
OneLiveRunUnlessRaced ==
  ~raced /\ revived \cap live = {} => Cardinality(InFlight) <= 1

Sent == {r \in live : msg[r] # "none"}

\* index.ts, "<= 5 live runs per identity per hour": the count over audit_log
\* holds the limit as long as requests do not race, although a request can fail
\* between the run's INSERT and its audit row.
HourlyLimitUnlessRaced == ~raced => earlier + Cardinality(Sent) <= MaxPerHour

\* A live run that can be executed has its own audit row, written before the
\* message was sent, and no later write turns that row into a refusal.
SentRunsAreAudited ==
  \A r \in Sent : \E a \in audit :
    a.by = r /\ a.run = r /\ a.outcome \notin Refusals

\* Publishing comes after the run's rows are stored, and their key makes every
\* later execution fail before it: a redelivered run opens no second pull request.
PublishedAtMostOnce == \A r \in Runs : prs[r] <= 1

\* A run that reads completed or partial has all its rows, whatever was
\* redelivered before.
CompletedIsWhole ==
  \A r \in Runs : status[r] \in {"completed", "partial"} => rows[r] = "all"

\* Once the consumer has acked, the run is at its end and its audit row says the
\* same as the run row.
AckedRunsAgree ==
  \A r \in Runs : msg[r] = "acked" =>
    /\ status[r] \in Terminal
    /\ \A a \in audit : a.by = r => a.outcome = status[r]

\* Every run that was sent comes to rest at an end, unless all its deliveries were
\* lost: one dead consumer does not leave a run, and the live lane, occupied.
SentRunsEnd ==
  \A r \in Runs : <>[](msg[r] \in {"none", "dead"} \/ status[r] \in Terminal)

\* SECURITY.md: "One concurrent live run (D1 lock ...)".
OneLiveRun == Cardinality(InFlight) <= 1

\* migrations/0007: "Append-only: one row per admin action".  The row of a refused
\* action keeps saying that it was refused.
RefusalsKept == [][\A a \in audit : a.outcome \in Refusals => a \in audit']_vars
==============================================================================

--------------------------- MODULE LiveRunsProofs ----------------------------
(***************************************************************************)
(* A run is published at most once and reads completed only when all its   *)
(* rows are stored, for any set of runs and any number of redeliveries.    *)
(* The key of the run's rows is what carries the proof: once the first     *)
(* chunk is stored, no later execution gets past the store, so an executor *)
(* that stands between the store and the end is the one that stored.  The  *)
(* audit rows, the lock, the limit and the ack each add to that where the  *)
(* handler and the executor of a run stand.                                *)
(***************************************************************************)
EXTENDS LiveRuns, FiniteSetTheorems, TLAPS

Shapes ==
  /\ status \in [Runs -> {"none", "queued", "running"} \cup Terminal]
  /\ exec \in [Runs -> {"none", "claim", "work", "storing", "publish", "final",
                        "audit", "catch", "auditFailed", "returned"}]
  /\ rows \in [Runs -> {"none", "some", "all"}]
  /\ prs \in [Runs -> Nat]

\* Where executeRun stands tells what is stored and whether it has published.
StoredBefore(r) ==
  /\ exec[r] = "storing" => rows[r] = "some"
  /\ exec[r] \in {"publish", "final", "audit"} => rows[r] = "all"
  /\ exec[r] \in {"storing", "publish"} => prs[r] = 0
  /\ rows[r] = "none" => prs[r] = 0
  /\ prs[r] <= 1
  /\ status[r] \in {"completed", "partial"} => rows[r] = "all"

IInv == Shapes /\ \A r \in Runs : StoredBefore(r)

LEMMA InitInv == Init => IInv
  BY DEF Init, IInv, Shapes, StoredBefore, Terminal

\* A step of the handler writes the run row of a run that is not at its end.
LEMMA HandlerInv ==
  ASSUME IInv, NEW r \in Runs, Handle(r) \/ HandlerFails(r)
  PROVE  IInv'
<1> USE DEF IInv, Shapes, StoredBefore, Terminal
<1>1. CASE InsertRun(r) \/ EnqueueRun(r)
  <2>1. /\ status' = [status EXCEPT ![r] = "queued"]
        /\ UNCHANGED <<exec, rows, prs>>
    BY <1>1 DEF InsertRun, EnqueueRun
  <2> QED BY <2>1
<1>2. CASE ~(InsertRun(r) \/ EnqueueRun(r))
  <2>1. UNCHANGED <<status, exec, rows, prs>>
    BY <1>2 DEF Handle, Post, RejectInvalid, RejectInFlight, CountRecent, RejectLimited,
       AuditQueued, Send, HandlerFails, store
  <2> QED BY <2>1
<1> QED BY <1>1, <1>2

LEMMA ExecuteInv ==
  ASSUME IInv, NEW r \in Runs, Execute(r) \/ DeliveryLost(r)
  PROVE  IInv'
<1> USE DEF IInv, Shapes, StoredBefore, Terminal, Step
<1>1. CASE Deliver(r) \/ Throws(r) \/ AuditFinal(r) \/ AuditFailed(r)
  BY <1>1 DEF Deliver, Throws, AuditFinal, AuditFailed, store
<1>2. CASE Claim(r) \/ MarkFailed(r)
  BY <1>2 DEF Claim, MarkFailed
<1>3. CASE StoreFirst(r)
  BY <1>3 DEF StoreFirst, Clash
<1>4. CASE StoreRest(r)
  BY <1>4 DEF StoreRest
<1>5. CASE Publish(r) \/ PublishThenThrows(r)
  <2>1. /\ exec[r] = "publish"
        /\ exec' = [exec EXCEPT ![r] = "final"] \/ exec' = [exec EXCEPT ![r] = "catch"]
        /\ prs' = prs \/ prs' = [prs EXCEPT ![r] = @ + 1]
        /\ UNCHANGED <<status, rows>>
    BY <1>5 DEF Publish, PublishThenThrows, store
  <2> QED BY <2>1
<1>6. CASE Finalize(r)
  BY <1>6 DEF Finalize
<1>7. CASE Ack(r) \/ DeliveryLost(r)
  BY <1>7 DEF Ack, DeliveryLost, store
<1> QED BY <1>1, <1>2, <1>3, <1>4, <1>5, <1>6, <1>7 DEF Execute

LEMMA StepInv == IInv /\ [Next]_vars => IInv'
<1> SUFFICES ASSUME IInv, [Next]_vars PROVE IInv'
  OBVIOUS
<1>1. CASE UNCHANGED vars
  BY <1>1 DEF vars, store, IInv, Shapes, StoredBefore
<1>2. CASE Next
  BY <1>2, HandlerInv, ExecuteInv DEF Next
<1> QED BY <1>1, <1>2

THEOREM StoreInvariant == Spec => []IInv
  BY InitInv, StepInv, PTL DEF Spec

\* However often a run's message is redelivered and wherever its consumers die,
\* at most one pull request is opened for it.
THEOREM PublishedAtMostOnceHolds == Spec => []PublishedAtMostOnce
<1>1. IInv => PublishedAtMostOnce
  BY DEF IInv, StoredBefore, PublishedAtMostOnce
<1> QED BY <1>1, StoreInvariant, PTL

\* A run that reads completed or partial has all its rows.
THEOREM CompletedIsWholeHolds == Spec => []CompletedIsWhole
<1>1. IInv => CompletedIsWhole
  BY DEF IInv, StoredBefore, CompletedIsWhole
<1> QED BY <1>1, StoreInvariant, PTL

------------------------------------------------------------------------------
(* The types of all variables, and the audit row of every run that was     *)
(* sent.  The handler of a request writes at most one audit row and the    *)
(* executor writes none, it only rewrites outcomes; so what has to be kept *)
(* is which rows are there at which step of the handler, and that a run is *)
(* executed only while its message is leased, which is after its handler   *)
(* is done.                                                                *)

Audited(r) == \E a \in audit : a.by = r /\ a.run = r /\ a.outcome \notin Refusals

Unaudited == {"idle", "busy", "clear", "limited", "admitted", "inserted"}

Stage(r) ==
  /\ pc[r] \in Unaudited => \A a \in audit : a.by # r
  /\ r \notin live => pc[r] \in {"idle", "audited", "done"}
  /\ r \in live /\ (pc[r] = "audited" \/ msg[r] # "none") => Audited(r)
  /\ msg[r] # "none" => pc[r] = "done"
  /\ exec[r] # "none" => msg[r] = "leased"
  /\ exec[r] = "audit" => status[r] \in {"completed", "partial"}
  /\ msg[r] = "none" => deliveries[r] = 0
  /\ msg[r] = "waiting" => deliveries[r] <= MaxRetries

AuditInv == TypeOK /\ \A r \in Runs : Stage(r)

LEMMA AuditInit == Init => AuditInv
<1> SUFFICES ASSUME Init PROVE AuditInv
  OBVIOUS
<1>1. TypeOK
  <2>1. audit \subseteq AuditRow /\ \A a, b \in audit : a.by = b.by => a = b
    BY DEF Init
  <2>2. /\ live \subseteq Runs /\ revived \subseteq Runs
        /\ found \in [Runs -> live \cup {None}]
    BY DEF Init
  <2>3. /\ deliveries \in [Runs -> 0..(MaxRetries + 1)]
        /\ prs \in [Runs -> Nat]
    BY LiveRunsAssumption DEF Init
  <2>4. /\ earlier \in 0..MaxPerHour /\ raced \in BOOLEAN
    BY DEF Init
  <2> QED BY <2>1, <2>2, <2>3, <2>4 DEF Init, TypeOK
<1>2. ASSUME NEW r \in Runs PROVE Stage(r)
  BY LiveRunsAssumption DEF Init, Stage, Unaudited
<1> QED BY <1>1, <1>2 DEF AuditInv

\* An audit row is added for a request that has none.
LEMMA RecordInv ==
  ASSUME AuditInv, NEW r \in live, NEW run \in Runs \cup {None},
         NEW outcome \in Refusals \cup {"queued"},
         pc[r] \in Unaudited, Record(r, run, outcome)
  PROVE  /\ audit' \subseteq [by : live, run : Runs \cup {None},
                              outcome : Refusals \cup Terminal \cup {"queued"}]
         /\ \A a, b \in audit' : a.by = b.by => a = b
         /\ \A a \in audit' : a.by = r \/ a \in audit
         /\ audit \subseteq audit'
         /\ run = r /\ outcome = "queued" => Audited(r)'
<1>1. r \in Runs
  BY DEF AuditInv, TypeOK
<1> DEFINE row == [by |-> r, run |-> run, outcome |-> outcome]
<1>2. audit' = audit \cup {row}
  BY DEF Record
<1>3. row \in AuditRow /\ row.by = r /\ row.run = run /\ row.outcome = outcome
  BY DEF AuditRow
<1>4. audit \subseteq AuditRow /\ \A a \in audit : a.by # r
  BY <1>1 DEF AuditInv, TypeOK, Stage
<1>5. \A a, b \in audit : a.by = b.by => a = b
  BY DEF AuditInv, TypeOK
<1> HIDE DEF row
<1>6. audit' \subseteq AuditRow
  BY <1>2, <1>3, <1>4
<1>7. \A a, b \in audit' : a.by = b.by => a = b
  BY <1>2, <1>3, <1>4, <1>5
<1>8. run = r /\ outcome = "queued" => Audited(r)'
  BY <1>2, <1>3 DEF Audited, Refusals
<1> QED BY <1>2, <1>3, <1>6, <1>7, <1>8 DEF AuditRow

\* Rewriting the outcome of a run's rows keeps whose rows they are.
LEMMA RewriteInv ==
  ASSUME AuditInv, NEW r \in Runs, NEW outcome \in Terminal, Rewrite(r, outcome),
         UNCHANGED live
  PROVE  /\ audit' \subseteq AuditRow'
         /\ \A a, b \in audit' : a.by = b.by => a = b
         /\ \A q : (\A a \in audit : a.by # q) => (\A a \in audit' : a.by # q)
         /\ \A q : Audited(q) => Audited(q)'
<1> DEFINE new(a) == IF a.run = r THEN [a EXCEPT !.outcome = outcome] ELSE a
<1>1. audit' = {new(a) : a \in audit}
  BY DEF Rewrite
<1>2. audit \subseteq AuditRow /\ \A a, b \in audit : a.by = b.by => a = b
  BY DEF AuditInv, TypeOK
<1>3. ASSUME NEW a \in audit
      PROVE  /\ new(a) \in AuditRow /\ new(a).by = a.by /\ new(a).run = a.run
             /\ new(a).outcome = a.outcome \/ new(a).outcome = outcome
  BY <1>2 DEF AuditRow
<1> HIDE DEF new
<1>4. audit' \subseteq AuditRow'
  <2>1. AuditRow' = AuditRow
    BY DEF AuditRow
  <2> QED BY <1>1, <1>3, <2>1
<1>5. \A a, b \in audit' : a.by = b.by => a = b
  BY <1>1, <1>2, <1>3
<1>6. \A q : (\A a \in audit : a.by # q) => (\A a \in audit' : a.by # q)
  BY <1>1, <1>3
<1>7. outcome \notin Refusals
  BY DEF Terminal, Refusals
<1>8. \A q : Audited(q) => Audited(q)'
  BY <1>1, <1>3, <1>7 DEF Audited
<1> QED BY <1>4, <1>5, <1>6, <1>8

\* The steps of the handler that write no audit row ...
LEMMA QuietHandler ==
  ASSUME AuditInv, NEW r \in Runs,
         \/ Post(r) \/ CountRecent(r) \/ InsertRun(r) \/ EnqueueRun(r)
         \/ Send(r) \/ HandlerFails(r)
  PROVE  AuditInv'
<1>1. audit' = audit /\ live' = live /\ AuditRow' = AuditRow
  BY DEF Post, CountRecent, InsertRun, EnqueueRun, Send, HandlerFails, store, AuditRow
<1>2. \A q : Audited(q)' <=> Audited(q)
  BY <1>1 DEF Audited
<1>3. /\ audit \subseteq AuditRow /\ \A a, b \in audit : a.by = b.by => a = b
      /\ \A q \in Runs : Stage(q)
  BY DEF AuditInv, TypeOK
<1>4. CASE Post(r)
  <2>1. InFlight \subseteq live
    BY DEF InFlight
  <2>2. /\ pc[r] = "idle"
        /\ pc' = [pc EXCEPT ![r] = "busy"] \/ pc' = [pc EXCEPT ![r] = "clear"]
        /\ found' = found \/ \E q \in live : found' = [found EXCEPT ![r] = q]
        /\ raced' \in BOOLEAN
        /\ UNCHANGED <<live, earlier, status, rows, msg, deliveries, exec, prs, revived>>
    BY <1>4, <2>1 DEF Post, store, queue, AuditInv, TypeOK
  <2>3. TypeOK'
    BY <1>1, <1>3, <2>2 DEF AuditInv, TypeOK, Terminal
  <2>4. \A q \in Runs : Stage(q)'
    BY <1>1, <1>2, <1>3, <1>4, <2>2 DEF Post, Stage, Unaudited, AuditInv, TypeOK
  <2> QED BY <2>3, <2>4 DEF AuditInv
<1>5. CASE CountRecent(r) \/ HandlerFails(r)
  <2>1. /\ UNCHANGED <<live, earlier, found, raced, status, rows, msg, deliveries, exec, prs, revived>>
        /\ \/ pc[r] = "clear" /\ \E s \in {"limited", "admitted"} : pc' = [pc EXCEPT ![r] = s]
           \/ pc[r] \notin {"idle", "done"} /\ pc' = [pc EXCEPT ![r] = "done"]
    BY <1>5 DEF CountRecent, HandlerFails, Step, store, queue, handler
  <2>2. TypeOK'
    BY <1>1, <1>3, <2>1 DEF AuditInv, TypeOK, Terminal
  <2>3. \A q \in Runs : Stage(q)'
    BY <1>1, <1>2, <1>3, <2>1 DEF Stage, Unaudited, AuditInv, TypeOK
  <2> QED BY <2>2, <2>3 DEF AuditInv
<1>6. CASE InsertRun(r) \/ EnqueueRun(r)
  <2>1. /\ UNCHANGED <<live, earlier, found, raced, rows, msg, deliveries, exec, prs, revived>>
        /\ status' = [status EXCEPT ![r] = "queued"]
        /\ \/ pc[r] = "admitted" /\ pc' = [pc EXCEPT ![r] = "inserted"]
           \/ r \notin live /\ pc[r] = "idle" /\ pc' = [pc EXCEPT ![r] = "audited"]
    BY <1>6 DEF InsertRun, EnqueueRun, Step, store, queue, handler
  <2>2. TypeOK'
    BY <1>1, <1>3, <2>1 DEF AuditInv, TypeOK, Terminal
  <2>3. \A q \in Runs : Stage(q)'
    BY <1>1, <1>2, <1>3, <2>1 DEF Stage, Unaudited, AuditInv, TypeOK
  <2> QED BY <2>2, <2>3 DEF AuditInv
<1>7. CASE Send(r)
  <2>1. /\ UNCHANGED <<live, earlier, found, raced, status, rows, deliveries, exec, prs, revived>>
        /\ msg[r] = "none" /\ msg' = [msg EXCEPT ![r] = "waiting"]
        /\ pc[r] = "audited" /\ pc' = [pc EXCEPT ![r] = "done"]
    BY <1>7 DEF Send, Step, store
  <2>2. TypeOK'
    BY <1>1, <1>3, <2>1 DEF AuditInv, TypeOK, Terminal
  <2>3. \A q \in Runs : Stage(q)'
    BY <1>1, <1>2, <1>3, <2>1, LiveRunsAssumption DEF Stage, Unaudited, AuditInv, TypeOK
  <2> QED BY <2>2, <2>3 DEF AuditInv
<1> QED BY <1>4, <1>5, <1>6, <1>7

\* ... and those that write one.
LEMMA RecordingHandler ==
  ASSUME AuditInv, NEW r \in Runs,
         RejectInvalid(r) \/ RejectInFlight(r) \/ RejectLimited(r) \/ AuditQueued(r)
  PROVE  AuditInv'
<1>1. /\ UNCHANGED <<live, earlier, found, raced, status, rows, msg, deliveries, exec, prs, revived>>
      /\ pc[r] \in Unaudited
      /\ pc' = [pc EXCEPT ![r] = "done"] \/ pc' = [pc EXCEPT ![r] = "audited"]
  BY DEF RejectInvalid, RejectInFlight, RejectLimited, AuditQueued, Step, queue, Unaudited
<1>2. r \in live
  BY DEF RejectInvalid, RejectInFlight, RejectLimited, AuditQueued, Step, AuditInv, Stage
<1>3. PICK run \in Runs \cup {None}, outcome \in Refusals \cup {"queued"} :
        /\ Record(r, run, outcome)
        /\ pc' = [pc EXCEPT ![r] = "audited"] => run = r /\ outcome = "queued"
  <2>1. found[r] \in Runs \cup {None} /\ r \in DOMAIN pc
    BY DEF AuditInv, TypeOK
  <2>2. CASE RejectInvalid(r)
    BY <2>1, <2>2, Zenon DEF RejectInvalid, Step, Refusals
  <2>3. CASE RejectInFlight(r)
    BY <2>1, <2>3, Zenon DEF RejectInFlight, Step, Refusals
  <2>4. CASE RejectLimited(r)
    BY <2>1, <2>4, Zenon DEF RejectLimited, Step, Refusals
  <2>5. CASE AuditQueued(r)
    BY <2>5 DEF AuditQueued
  <2> QED BY <2>2, <2>3, <2>4, <2>5
<1>4. /\ audit' \subseteq AuditRow'
      /\ \A a, b \in audit' : a.by = b.by => a = b
      /\ \A a \in audit' : a.by = r \/ a \in audit
      /\ audit \subseteq audit'
      /\ pc' = [pc EXCEPT ![r] = "audited"] => Audited(r)'
  BY <1>1, <1>2, <1>3, RecordInv DEF AuditRow
<1>5. \A q : Audited(q) => Audited(q)'
  BY <1>4 DEF Audited
<1>6. TypeOK'
  BY <1>1, <1>4 DEF AuditInv, TypeOK, Terminal
<1>7. \A q \in Runs : Stage(q)'
  BY <1>1, <1>2, <1>4, <1>5 DEF Stage, Unaudited, AuditInv, TypeOK
<1> QED BY <1>6, <1>7 DEF AuditInv

\* The executor: its steps leave the handlers alone ...
LEMMA QuietExecutor ==
  ASSUME AuditInv, NEW r \in Runs,
         \/ Deliver(r) \/ Claim(r) \/ StoreFirst(r) \/ StoreRest(r) \/ Publish(r)
         \/ Finalize(r) \/ Throws(r) \/ PublishThenThrows(r) \/ MarkFailed(r)
         \/ Ack(r) \/ DeliveryLost(r)
  PROVE  AuditInv'
<1>1. /\ UNCHANGED <<audit, live, earlier, found, raced, pc>>
      /\ AuditRow' = AuditRow
  BY DEF Deliver, Claim, StoreFirst, StoreRest, Publish, Finalize, Throws, Ack,
     PublishThenThrows, MarkFailed, DeliveryLost, handler, store, AuditRow
<1>2. \A q : Audited(q)' <=> Audited(q)
  BY <1>1 DEF Audited
<1>3. /\ audit \subseteq AuditRow /\ \A a, b \in audit : a.by = b.by => a = b
      /\ \A q \in Runs : Stage(q)
  BY DEF AuditInv, TypeOK
<1>4. CASE Deliver(r)
  <2>1. /\ UNCHANGED <<status, rows, prs, revived>>
        /\ msg[r] = "waiting" /\ msg' = [msg EXCEPT ![r] = "leased"]
        /\ exec' = [exec EXCEPT ![r] = "claim"]
        /\ deliveries' = [deliveries EXCEPT ![r] = @ + 1]
    BY <1>4 DEF Deliver, Step, store
  <2>2. deliveries[r] \in 0..MaxRetries /\ deliveries[r] + 1 \in 0..(MaxRetries + 1)
    BY <1>3, <2>1, LiveRunsAssumption DEF Stage, AuditInv, TypeOK
  <2>3. TypeOK'
    BY <1>1, <1>3, <2>1, <2>2 DEF AuditInv, TypeOK, Terminal
  <2>4. \A q \in Runs : Stage(q)'
    BY <1>1, <1>2, <1>3, <2>1 DEF Stage, Unaudited, AuditInv, TypeOK
  <2> QED BY <2>3, <2>4 DEF AuditInv
<1>5. CASE Claim(r) \/ Finalize(r) \/ MarkFailed(r)
  <2>1. /\ UNCHANGED <<rows, msg, deliveries, prs>>
        /\ exec[r] # "none" /\ revived' \subseteq Runs
        /\ \E s \in {"running", "completed", "partial", "failed"} :
             /\ status' = [status EXCEPT ![r] = s]
             /\ \/ s \in {"completed", "partial"} /\ exec' = [exec EXCEPT ![r] = "audit"]
                \/ exec' = [exec EXCEPT ![r] = "work"]
                \/ exec' = [exec EXCEPT ![r] = "auditFailed"]
    BY <1>5 DEF Claim, Finalize, MarkFailed, Step, queue, AuditInv, TypeOK
  <2>2. TypeOK'
    BY <1>1, <1>3, <2>1 DEF AuditInv, TypeOK, Terminal
  <2>3. \A q \in Runs : Stage(q)'
    BY <1>1, <1>2, <1>3, <2>1 DEF Stage, Unaudited, AuditInv, TypeOK
  <2> QED BY <2>2, <2>3 DEF AuditInv
<1>6. CASE \/ StoreFirst(r) \/ StoreRest(r) \/ Publish(r) \/ Throws(r)
           \/ PublishThenThrows(r)
  <2>1. /\ UNCHANGED <<status, msg, deliveries, revived>>
        /\ exec[r] # "none"
        /\ \E s \in {"storing", "publish", "final", "catch"} :
             exec' = [exec EXCEPT ![r] = s]
        /\ rows' \in [Runs -> {"none", "some", "all"}]
        /\ prs' \in [Runs -> Nat]
    <3>1. rows \in [Runs -> {"none", "some", "all"}] /\ prs \in [Runs -> Nat]
      BY DEF AuditInv, TypeOK
    <3>2. CASE StoreFirst(r) \/ StoreRest(r)
      BY <3>1, <3>2 DEF StoreFirst, StoreRest, Step, queue
    <3>3. CASE Publish(r)
      <4>1. prs' = prs \/ prs' = [prs EXCEPT ![r] = @ + 1]
        BY <3>3 DEF Publish
      <4> QED BY <3>1, <3>3, <4>1 DEF Publish, Step, queue, store
    <3>4. CASE Throws(r) \/ PublishThenThrows(r)
      BY <3>1, <3>4 DEF Throws, PublishThenThrows, Step, queue, store
    <3> QED BY <1>6, <3>2, <3>3, <3>4
  <2>2. TypeOK'
    <3>1. exec' \in [Runs -> {"none", "claim", "work", "storing", "publish", "final",
                             "audit", "catch", "auditFailed", "returned"}]
      BY <2>1 DEF AuditInv, TypeOK
    <3> QED BY <1>1, <1>3, <2>1, <3>1 DEF AuditInv, TypeOK, Terminal
  <2>3. \A q \in Runs : Stage(q)'
    BY <1>1, <1>2, <1>3, <2>1 DEF Stage, Unaudited, AuditInv, TypeOK
  <2> QED BY <2>2, <2>3 DEF AuditInv
<1>7. CASE Ack(r) \/ DeliveryLost(r)
  <2>1. /\ UNCHANGED <<status, rows, deliveries, prs, revived>>
        /\ msg[r] = "leased" /\ exec' = [exec EXCEPT ![r] = "none"]
        /\ \E s \in {"acked", "waiting", "dead"} :
             /\ msg' = [msg EXCEPT ![r] = s]
             /\ s = "waiting" => deliveries[r] <= MaxRetries
    BY <1>7 DEF Ack, DeliveryLost, AfterLoss, Step, store
  <2>2. TypeOK'
    BY <1>1, <1>3, <2>1 DEF AuditInv, TypeOK, Terminal
  <2>3. \A q \in Runs : Stage(q)'
    BY <1>1, <1>2, <1>3, <2>1 DEF Stage, Unaudited, AuditInv, TypeOK
  <2> QED BY <2>2, <2>3 DEF AuditInv
<1> QED BY <1>4, <1>5, <1>6, <1>7

\* ... and rewrite outcomes, to those of a run at its end.
LEMMA RewritingExecutor ==
  ASSUME AuditInv, NEW r \in Runs, AuditFinal(r) \/ AuditFailed(r)
  PROVE  AuditInv'
<1>1. /\ UNCHANGED <<live, earlier, found, raced, pc, status, rows, msg,
                     deliveries, prs, revived>>
      /\ exec[r] # "none" /\ exec' = [exec EXCEPT ![r] = "returned"]
  BY DEF AuditFinal, AuditFailed, Step, handler, queue
<1>2. PICK outcome \in Terminal : Rewrite(r, outcome)
  BY Zenon DEF AuditFinal, AuditFailed, Step, AuditInv, Stage, Terminal
<1>3. /\ audit' \subseteq AuditRow'
      /\ \A a, b \in audit' : a.by = b.by => a = b
      /\ \A q : (\A a \in audit : a.by # q) => (\A a \in audit' : a.by # q)
      /\ \A q : Audited(q) => Audited(q)'
  BY <1>1, <1>2, RewriteInv
<1>4. TypeOK'
  BY <1>1, <1>3 DEF AuditInv, TypeOK, Terminal
<1>5. \A q \in Runs : Stage(q)'
  BY <1>1, <1>3 DEF Stage, Unaudited, AuditInv, TypeOK
<1> QED BY <1>4, <1>5 DEF AuditInv

LEMMA AuditStep == AuditInv /\ [Next]_vars => AuditInv'
<1> SUFFICES ASSUME AuditInv, [Next]_vars PROVE AuditInv'
  OBVIOUS
<1>1. CASE UNCHANGED vars
  BY <1>1 DEF vars, handler, store, queue, AuditInv, TypeOK, Stage, Audited, AuditRow
<1>2. CASE Next
  BY <1>2, QuietHandler, RecordingHandler, QuietExecutor, RewritingExecutor
     DEF Next, Handle, Execute
<1> QED BY <1>1, <1>2

THEOREM AuditInvariant == Spec => []AuditInv
  BY AuditInit, AuditStep, PTL DEF Spec

\* No message is delivered more often than max_retries allows, and no request
\* has two rows in the audit log.
THEOREM TypeOKHolds == Spec => []TypeOK
<1>1. AuditInv => TypeOK
  BY DEF AuditInv
<1> QED BY <1>1, AuditInvariant, PTL

\* Every live run that can be executed is on the audit log under its own name.
THEOREM SentRunsAreAuditedHolds == Spec => []SentRunsAreAudited
<1>1. AuditInv => SentRunsAreAudited
  BY DEF AuditInv, Stage, Audited, SentRunsAreAudited, Sent, TypeOK
<1> QED BY <1>1, AuditInvariant, PTL

(***************************************************************************)
(* The lock and the limit, for requests that are not handled at once.  The *)
(* request between its SELECT and its INSERT takes the place of the run it *)
(* is about to start: it is the only one there, and the count it passed    *)
(* leaves room for it.                                                     *)
(***************************************************************************)
Engaged(r) == pc[r] \in {"clear", "limited", "admitted"} \/ status[r] \in {"queued", "running"}

LaneInv ==
  /\ \A r \in Runs : pc[r] \in {"inserted", "audited"} \/ msg[r] # "none" => status[r] # "none"
  /\ ~raced => \A p, q \in Handling : p = q
  /\ ~raced /\ revived \cap live = {} => \A p, q \in live : Engaged(p) /\ Engaged(q) => p = q

LEMMA LaneInit == Init => LaneInv
  BY DEF Init, LaneInv, Handling, Engaged

LEMMA HandlerLane ==
  ASSUME AuditInv, LaneInv, NEW r \in Runs, Handle(r) \/ HandlerFails(r)
  PROVE  LaneInv'
<1>0. /\ pc \in [Runs -> {"idle", "busy", "clear", "limited", "admitted",
                         "inserted", "audited", "done"}]
      /\ status \in [Runs -> {"none", "queued", "running"} \cup Terminal]
      /\ msg \in [Runs -> {"none", "waiting", "leased", "acked", "dead"}]
      /\ live \subseteq Runs /\ raced \in BOOLEAN
      /\ r \notin live => pc[r] \in {"idle", "audited", "done"}
  BY DEF AuditInv, TypeOK, Stage
<1>1. CASE Post(r)
  <2>1. /\ UNCHANGED <<live, status, msg, revived>> /\ r \in live /\ pc[r] = "idle"
        /\ \/ pc' = [pc EXCEPT ![r] = "busy"]
           \/ InFlight = {} /\ pc' = [pc EXCEPT ![r] = "clear"]
        /\ raced' = (raced \/ Handling # {})
    BY <1>1 DEF Post, store, queue
  <2>2. ~raced' => Handling' \subseteq {r}
    BY <1>0, <2>1 DEF Handling
  <2>3. ASSUME ~raced', revived \cap live = {}, NEW p \in live, NEW q \in live,
               Engaged(p)', Engaged(q)'
        PROVE  p = q
    <3>1. CASE pc' = [pc EXCEPT ![r] = "busy"]
      <4>1. Engaged(p) /\ Engaged(q)
        BY <1>0, <2>1, <2>3, <3>1 DEF Engaged
      <4> QED BY <2>1, <2>3, <4>1 DEF LaneInv
    <3>2. CASE InFlight = {} /\ pc' = [pc EXCEPT ![r] = "clear"]
      BY <1>0, <2>1, <2>3, <3>2 DEF Engaged, InFlight, Handling
    <3> QED BY <2>1, <3>1, <3>2
  <2> QED BY <1>0, <2>1, <2>2, <2>3 DEF LaneInv
<1>2. CASE ~Post(r)
  <2>0. \/ RejectInvalid(r) \/ RejectInFlight(r) \/ CountRecent(r) \/ RejectLimited(r)
        \/ InsertRun(r) \/ AuditQueued(r) \/ EnqueueRun(r) \/ Send(r) \/ HandlerFails(r)
    BY <1>2 DEF Handle
  <2>1. /\ UNCHANGED <<live, raced, revived>>
        /\ msg' = msg \/ (pc[r] = "audited" /\ msg' = [msg EXCEPT ![r] = "waiting"])
        /\ \/ status' = status
           \/ status' = [status EXCEPT ![r] = "queued"]
        /\ \E to \in {"limited", "admitted", "inserted", "audited", "done"} :
             pc' = [pc EXCEPT ![r] = to]
    <3>1. UNCHANGED <<live, raced, revived>>
      BY <2>0 DEF RejectInvalid, RejectInFlight, CountRecent, RejectLimited, InsertRun,
         AuditQueued, EnqueueRun, Send, HandlerFails
    <3>2. msg' = msg \/ (pc[r] = "audited" /\ msg' = [msg EXCEPT ![r] = "waiting"])
      <4>1. CASE Send(r)
        BY <4>1 DEF Send, Step
      <4>2. CASE InsertRun(r) \/ HandlerFails(r)
        BY <4>2 DEF InsertRun, HandlerFails, queue
      <4>3. CASE RejectInvalid(r) \/ RejectInFlight(r) \/ CountRecent(r) \/ RejectLimited(r)
        BY <4>3 DEF RejectInvalid, RejectInFlight, CountRecent, RejectLimited, queue
      <4>4. CASE AuditQueued(r) \/ EnqueueRun(r)
        BY <4>4 DEF AuditQueued, EnqueueRun, queue
      <4> QED BY <2>0, <4>1, <4>2, <4>3, <4>4
    <3>3. status' = status \/ status' = [status EXCEPT ![r] = "queued"]
      BY <2>0 DEF RejectInvalid, RejectInFlight, CountRecent, RejectLimited, InsertRun,
         AuditQueued, EnqueueRun, Send, HandlerFails, store
    <3>4. \E to \in {"limited", "admitted", "inserted", "audited", "done"} :
            pc' = [pc EXCEPT ![r] = to]
      BY <2>0 DEF RejectInvalid, RejectInFlight, CountRecent, RejectLimited, InsertRun,
         AuditQueued, EnqueueRun, Send, HandlerFails, Step
    <3> QED BY <3>1, <3>2, <3>3, <3>4
  <2>2. /\ pc'[r] \in {"inserted", "audited"} => status'[r] # "none"
        /\ pc[r] = "audited" => status[r] # "none"
        /\ r \in live /\ pc'[r] \notin {"idle", "done"} => pc[r] \notin {"idle", "done"}
        /\ r \in live /\ Engaged(r)' => Engaged(r)
    BY <1>0, <1>2 DEF Handle, RejectInvalid, RejectInFlight, CountRecent, RejectLimited, InsertRun,
       AuditQueued, EnqueueRun, Send, HandlerFails, Step, store, queue, LaneInv, Engaged
  <2>3. Handling' \subseteq Handling
    BY <1>0, <2>1, <2>2 DEF Handling
  <2>4. \A q \in live : Engaged(q)' => Engaged(q)
    BY <1>0, <2>1, <2>2 DEF Engaged
  <2>5. \A q \in Runs : pc'[q] \in {"inserted", "audited"} \/ msg'[q] # "none" => status'[q] # "none"
    BY <1>0, <2>1, <2>2 DEF LaneInv
  <2> QED BY <2>1, <2>3, <2>4, <2>5 DEF LaneInv
<1> QED BY <1>1, <1>2

LEMMA ExecuteLane ==
  ASSUME AuditInv, LaneInv, NEW r \in Runs, Execute(r) \/ DeliveryLost(r)
  PROVE  LaneInv'
<1>0. /\ status \in [Runs -> {"none", "queued", "running"} \cup Terminal]
      /\ msg \in [Runs -> {"none", "waiting", "leased", "acked", "dead"}]
      /\ live \subseteq Runs
      /\ exec[r] # "none" => msg[r] = "leased"
  BY DEF AuditInv, TypeOK, Stage
<1>1. UNCHANGED <<live, raced, pc>> /\ revived \subseteq revived'
  BY DEF Execute, Deliver, Claim, StoreFirst, StoreRest, Publish, Finalize, AuditFinal, Throws,
     PublishThenThrows, MarkFailed, AuditFailed, Ack, DeliveryLost, handler
<1>2. \A q \in Runs : msg'[q] # "none" => msg[q] # "none"
  <2>1. msg' = msg \/ (msg[r] # "none" /\ \E to : msg' = [msg EXCEPT ![r] = to])
    BY DEF Execute, Deliver, Claim, StoreFirst, StoreRest, Publish, Finalize, AuditFinal, Throws,
       PublishThenThrows, MarkFailed, AuditFailed, Ack, DeliveryLost, queue, Step
  <2> QED BY <1>0, <2>1
<1>3. CASE Claim(r)
  <2>1. /\ status' = [status EXCEPT ![r] = "running"] /\ status[r] # "none"
        /\ revived' = IF status[r] \in Terminal THEN revived \cup {r} ELSE revived
    BY <1>0, <1>3 DEF Claim, Step, LaneInv
  <2>2. ASSUME revived' \cap live = {}, NEW q \in live, Engaged(q)' PROVE Engaged(q)
    BY <1>0, <1>1, <2>1, <2>2 DEF Engaged
  <2> QED BY <1>0, <1>1, <1>2, <2>1, <2>2 DEF LaneInv, Handling
<1>4. CASE ~Claim(r)
  <2>1. status' = status \/ \E to \in Terminal : status' = [status EXCEPT ![r] = to]
    BY <1>4 DEF Execute, Deliver, StoreFirst, StoreRest, Publish, Finalize, AuditFinal, Throws,
       PublishThenThrows, MarkFailed, AuditFailed, Ack, DeliveryLost, store, Terminal
  <2>2. \A q \in Runs : status'[q] = status[q] \/ status'[q] \in Terminal
    BY <1>0, <2>1
  <2>3. \A q \in live : Engaged(q)' => Engaged(q)
    BY <1>0, <1>1, <2>2 DEF Engaged, Terminal
  <2> QED BY <1>0, <1>1, <1>2, <2>2, <2>3 DEF LaneInv, Handling, Terminal
<1> QED BY <1>3, <1>4

LEMMA LaneStep == AuditInv /\ LaneInv /\ [Next]_vars => LaneInv'
<1> SUFFICES ASSUME AuditInv, LaneInv, [Next]_vars PROVE LaneInv'
  OBVIOUS
<1>1. CASE UNCHANGED vars
  BY <1>1 DEF vars, handler, store, queue, LaneInv, Handling, Engaged
<1> QED BY <1>1, HandlerLane, ExecuteLane DEF Next

LEMMA LaneHolds == Spec => [](AuditInv /\ LaneInv)
<1>1. Init => AuditInv /\ LaneInv
  BY AuditInit, LaneInit
<1>2. AuditInv /\ LaneInv /\ [Next]_vars => (AuditInv /\ LaneInv)'
  BY AuditStep, LaneStep
<1> QED BY <1>1, <1>2, PTL DEF Spec

\* Without two requests at once, and without an ended run executed again, at most
\* one live run is queued or running.
THEOREM OneLiveRunHolds == Spec => []OneLiveRunUnlessRaced
<1>1. ASSUME AuditInv, LaneInv PROVE OneLiveRunUnlessRaced
  <2>1. ASSUME ~raced, revived \cap live = {} PROVE Cardinality(InFlight) <= 1
    <3>1. \A p, q \in InFlight : p = q
      BY <1>1, <2>1 DEF LaneInv, InFlight, Engaged
    <3>2. InFlight = {} \/ \E p : InFlight = {p}
      BY <3>1
    <3>3. InFlight = {} => Cardinality(InFlight) = 0
      BY FS_EmptySet
    <3>4. ASSUME NEW p, InFlight = {p} PROVE Cardinality(InFlight) = 1
      BY <3>4, FS_Singleton
    <3> QED BY <3>2, <3>3, <3>4
  <2> QED BY <2>1 DEF OneLiveRunUnlessRaced
<1> QED BY <1>1, LaneHolds, PTL

\* The requests that have passed the count, and hold a place of the hour.
Places == {r \in live : pc[r] \in {"admitted", "inserted", "audited"} \/ msg[r] # "none"}

HourInv ==
  /\ IsFiniteSet(audit)
  /\ ~raced => IsFiniteSet(Places) /\ earlier + Cardinality(Places) <= MaxPerHour

LEMMA HourInit == Init => HourInv
<1> SUFFICES ASSUME Init PROVE HourInv
  OBVIOUS
<1>1. audit = {} /\ Places = {} /\ earlier \in 0..MaxPerHour
  BY DEF Init, Places
<1> QED BY <1>1, FS_EmptySet, LiveRunsAssumption DEF HourInv

LEMMA AuditFinite ==
  ASSUME AuditInv, IsFiniteSet(audit), NEW r \in Runs,
         Handle(r) \/ HandlerFails(r) \/ Execute(r) \/ DeliveryLost(r)
  PROVE  IsFiniteSet(audit')
<1>1. \/ audit' = audit
      \/ \E row : audit' = audit \cup {row}
      \/ \E outcome : Rewrite(r, outcome)
  BY DEF Handle, HandlerFails, Execute, DeliveryLost, Post, RejectInvalid, RejectInFlight,
     CountRecent, RejectLimited, InsertRun, AuditQueued, EnqueueRun, Send, Deliver, Claim,
     StoreFirst, StoreRest, Publish, Finalize, AuditFinal, Throws, PublishThenThrows, MarkFailed,
     AuditFailed, Ack, store, Record
<1>2. ASSUME NEW outcome, Rewrite(r, outcome) PROVE IsFiniteSet(audit')
  <2> DEFINE f == [a \in audit |-> IF a.run = r THEN [a EXCEPT !.outcome = outcome] ELSE a]
  <2>1. f \in Surjection(audit, audit')
    BY <1>2 DEF Rewrite, Surjection
  <2> QED BY <2>1, FS_Surjection
<1> QED BY <1>1, <1>2, FS_AddElement

\* A count that leaves room leaves room for the one request that made it: every
\* run that was sent has a row of its own that counts.
LEMMA Admitted ==
  ASSUME AuditInv, LaneInv, HourInv, ~raced, NEW r \in live, pc[r] = "clear",
         ~LimitReached, pc' = [pc EXCEPT ![r] = "admitted"], UNCHANGED <<live, msg>>
  PROVE  IsFiniteSet(Places') /\ earlier + Cardinality(Places') <= MaxPerHour
<1>0. /\ r \in Runs /\ live \subseteq Runs
      /\ pc \in [Runs -> {"idle", "busy", "clear", "limited", "admitted",
                         "inserted", "audited", "done"}]
      /\ audit \subseteq AuditRow /\ earlier \in 0..MaxPerHour
      /\ \A q \in Runs : Stage(q)
  BY DEF AuditInv, TypeOK
<1>1. Places \subseteq Sent
  <2>1. \A q \in Places : pc[q] \in {"admitted", "inserted", "audited"} => q = r
    BY <1>0 DEF Places, Handling, LaneInv
  <2> QED BY <1>0, <2>1 DEF Places, Sent
<1>2. \A q \in Sent : \E a \in Counted : a.by = q
  BY <1>0 DEF Sent, Stage, Audited, Counted
<1> DEFINE f == [q \in Sent |-> CHOOSE a \in Counted : a.by = q]
<1>3. \A q \in Sent : f[q] \in Counted /\ f[q].by = q
  BY <1>2
<1>4. f \in Injection(Sent, Counted)
  BY <1>3 DEF Injection, IsInjective
<1>5. IsFiniteSet(Counted)
  BY FS_Subset DEF Counted, HourInv
<1>6. IsFiniteSet(Sent) /\ Cardinality(Sent) <= Cardinality(Counted)
  BY <1>4, <1>5, FS_Injection
<1>7. IsFiniteSet(Places) /\ Cardinality(Places) <= Cardinality(Sent)
  BY <1>1, <1>6, FS_Subset
<1>8. Places' = Places \cup {r}
  BY <1>0 DEF Places
<1>9. IsFiniteSet(Places') /\ Cardinality(Places') <= Cardinality(Places) + 1
  BY <1>7, <1>8, FS_AddElement, FS_CardinalityType
<1>10. /\ Cardinality(Counted) \in Nat /\ Cardinality(Sent) \in Nat
       /\ Cardinality(Places) \in Nat /\ Cardinality(Places') \in Nat
  BY <1>5, <1>6, <1>7, <1>9, FS_CardinalityType
<1>11. earlier + Cardinality(Counted) < MaxPerHour
  BY <1>0, <1>10, LiveRunsAssumption DEF LimitReached
<1> QED BY <1>0, <1>6, <1>7, <1>9, <1>10, <1>11, LiveRunsAssumption

LEMMA HourStep == AuditInv /\ LaneInv /\ HourInv /\ [Next]_vars => HourInv'
<1> SUFFICES ASSUME AuditInv, LaneInv, HourInv, [Next]_vars PROVE HourInv'
  OBVIOUS
<1>0. /\ pc \in [Runs -> {"idle", "busy", "clear", "limited", "admitted",
                         "inserted", "audited", "done"}]
      /\ msg \in [Runs -> {"none", "waiting", "leased", "acked", "dead"}]
      /\ live \subseteq Runs /\ raced \in BOOLEAN /\ earlier \in 0..MaxPerHour
      /\ \A q \in Runs : Stage(q)
  BY DEF AuditInv, TypeOK
<1>1. ASSUME ~raced' => ~raced, UNCHANGED earlier, Places' \subseteq Places, IsFiniteSet(audit')
      PROVE  HourInv'
  <2>1. ~raced => IsFiniteSet(Places') /\ Cardinality(Places') <= Cardinality(Places)
    BY <1>1, FS_Subset DEF HourInv
  <2>2. ~raced => Cardinality(Places') \in Nat /\ Cardinality(Places) \in Nat
    BY <2>1, FS_CardinalityType DEF HourInv
  <2> QED BY <1>0, <1>1, <2>1, <2>2, LiveRunsAssumption DEF HourInv
<1>2. CASE UNCHANGED vars
  <2>1. Places' = Places
    BY <1>2 DEF vars, handler, queue, Places
  <2> QED BY <1>1, <1>2, <2>1 DEF vars, handler, store, HourInv
<1>3. ASSUME NEW r \in Runs, Handle(r) \/ HandlerFails(r) PROVE HourInv'
  <2>1. IsFiniteSet(audit')
    BY <1>3, AuditFinite DEF HourInv
  <2>2. CASE CountRecent(r) /\ ~LimitReached
    <3>1. /\ r \in live /\ pc[r] = "clear" /\ pc' = [pc EXCEPT ![r] = "admitted"]
          /\ UNCHANGED <<live, msg, raced, earlier>>
      BY <1>0, <2>2 DEF CountRecent, Step, Stage, queue
    <3> QED BY <2>1, <2>2, <3>1, Admitted DEF HourInv
  <2>3. CASE ~(CountRecent(r) /\ ~LimitReached)
    <3>1. /\ UNCHANGED <<live, earlier>> /\ (~raced' => ~raced)
          /\ \E to : pc' = [pc EXCEPT ![r] = to]
          /\ msg' = msg \/ msg' = [msg EXCEPT ![r] = "waiting"]
      BY <1>0, <1>3 DEF Handle, HandlerFails, Post, RejectInvalid, RejectInFlight, CountRecent,
         RejectLimited, InsertRun, AuditQueued, EnqueueRun, Send, Step, store, queue
    <3>2. r \in live /\ (pc'[r] \in {"admitted", "inserted", "audited"} \/ msg'[r] # "none")
            => pc[r] \in {"admitted", "inserted", "audited"} \/ msg[r] # "none"
      BY <1>0, <1>3, <2>3 DEF Handle, HandlerFails, Post, RejectInvalid, RejectInFlight, CountRecent,
         RejectLimited, InsertRun, AuditQueued, EnqueueRun, Send, Step, store, queue
    <3>3. Places' \subseteq Places
      BY <1>0, <3>1, <3>2 DEF Places
    <3> QED BY <1>1, <2>1, <3>1, <3>3
  <2> QED BY <2>2, <2>3
<1>4. ASSUME NEW r \in Runs, Execute(r) \/ DeliveryLost(r) PROVE HourInv'
  <2>1. IsFiniteSet(audit')
    BY <1>4, AuditFinite DEF HourInv
  <2>2. UNCHANGED <<live, earlier, raced, pc>>
    BY <1>4 DEF Execute, Deliver, Claim, StoreFirst, StoreRest, Publish, Finalize, AuditFinal,
       Throws, PublishThenThrows, MarkFailed, AuditFailed, Ack, DeliveryLost, handler
  <2>3. msg' = msg \/ (msg[r] # "none" /\ \E to : msg' = [msg EXCEPT ![r] = to])
    BY <1>4 DEF Execute, Deliver, Claim, StoreFirst, StoreRest, Publish, Finalize, AuditFinal,
       Throws, PublishThenThrows, MarkFailed, AuditFailed, Ack, DeliveryLost, queue, Step
  <2>4. Places' \subseteq Places
    BY <1>0, <2>2, <2>3 DEF Places
  <2> QED BY <1>1, <2>1, <2>2, <2>4
<1> QED BY <1>2, <1>3, <1>4 DEF Next

\* The count over the audit log holds the limit as long as requests do not race.
THEOREM HourlyLimitHolds == Spec => []HourlyLimitUnlessRaced
<1>1. Init => AuditInv /\ LaneInv /\ HourInv
  BY AuditInit, LaneInit, HourInit
<1>2. AuditInv /\ LaneInv /\ HourInv /\ [Next]_vars => (AuditInv /\ LaneInv /\ HourInv)'
  BY AuditStep, LaneStep, HourStep
<1>3. ASSUME AuditInv, HourInv PROVE HourlyLimitUnlessRaced
  <2>1. Sent \subseteq Places
    BY DEF Sent, Places
  <2>2. ASSUME ~raced PROVE earlier + Cardinality(Sent) <= MaxPerHour
    <3>1. IsFiniteSet(Sent) /\ Cardinality(Sent) <= Cardinality(Places)
      BY <1>3, <2>1, <2>2, FS_Subset DEF HourInv
    <3>2. Cardinality(Sent) \in Nat /\ Cardinality(Places) \in Nat
      BY <1>3, <2>2, <3>1, FS_CardinalityType DEF HourInv
    <3>3. earlier \in Nat /\ earlier + Cardinality(Places) <= MaxPerHour
      BY <1>3, <2>2 DEF HourInv, AuditInv, TypeOK
    <3> QED BY <3>1, <3>2, <3>3, LiveRunsAssumption
  <2> QED BY <2>2 DEF HourlyLimitUnlessRaced
<1> QED BY <1>1, <1>2, <1>3, PTL DEF Spec

(***************************************************************************)
(* The run row and the audit row at the ack.                               *)
(***************************************************************************)
Agree(r) == status[r] \in Terminal /\ \A a \in audit : a.by = r => a.outcome = status[r]

AckInv ==
  \A r \in Runs : /\ exec[r] = "auditFailed" => status[r] = "failed"
                  /\ exec[r] = "returned" \/ msg[r] = "acked" => Agree(r)

LEMMA AckInit == Init => AckInv
  BY DEF Init, AckInv

\* The rows of a request whose message was sent are of its own run.
LEMMA OwnRow ==
  ASSUME AuditInv, NEW a \in audit, msg[a.by] # "none"
  PROVE  a.by \in live /\ a.by \in Runs /\ a.run = a.by
<1>1. a.by \in live /\ live \subseteq Runs
  BY DEF AuditInv, TypeOK, AuditRow
<1>2. PICK b \in audit : b.by = a.by /\ b.run = a.by
  BY <1>1 DEF AuditInv, Stage, Audited
<1>3. a = b
  BY <1>2 DEF AuditInv, TypeOK
<1> QED BY <1>1, <1>2, <1>3

LEMMA HandlerAck ==
  ASSUME AuditInv, AckInv, NEW r \in Runs, Handle(r) \/ HandlerFails(r)
  PROVE  AckInv'
<1>0. /\ status \in [Runs -> {"none", "queued", "running"} \cup Terminal]
      /\ msg \in [Runs -> {"none", "waiting", "leased", "acked", "dead"}]
      /\ \A q \in Runs : Stage(q)
  BY DEF AuditInv, TypeOK
<1>1. UNCHANGED exec
  BY DEF Handle, HandlerFails, Post, RejectInvalid, RejectInFlight, CountRecent,
     RejectLimited, InsertRun, AuditQueued, EnqueueRun, Send
<1>2. msg' = msg \/ msg' = [msg EXCEPT ![r] = "waiting"]
  BY DEF Handle, HandlerFails, Post, RejectInvalid, RejectInFlight, CountRecent,
     RejectLimited, InsertRun, AuditQueued, EnqueueRun, Send, Step, queue
<1>3. /\ status' = status \/ status' = [status EXCEPT ![r] = "queued"]
      /\ \A a \in audit' : a \in audit \/ a.by = r
  BY DEF Handle, HandlerFails, Post, RejectInvalid, RejectInFlight, CountRecent,
     RejectLimited, InsertRun, AuditQueued, EnqueueRun, Send, Record, store
<1>4. msg[r] # "none" => status' = status /\ audit' = audit
  BY <1>0 DEF Handle, HandlerFails, Post, RejectInvalid, RejectInFlight, CountRecent,
     RejectLimited, InsertRun, AuditQueued, EnqueueRun, Send, Step, store, Stage
<1>5. ASSUME NEW q \in Runs
      PROVE  /\ exec'[q] = "auditFailed" => status'[q] = "failed"
             /\ exec'[q] = "returned" \/ msg'[q] = "acked" => Agree(q)'
  <2>1. exec'[q] \in {"auditFailed", "returned"} \/ msg'[q] = "acked" => msg[q] # "none"
    BY <1>0, <1>1, <1>2 DEF Stage
  <2>2. msg'[q] = "acked" => msg[q] = "acked"
    BY <1>0, <1>2
  <2>3. msg[q] # "none" => /\ status'[q] = status[q]
                           /\ \A a \in audit' : a.by = q => a \in audit
    BY <1>0, <1>3, <1>4
  <2> QED BY <1>1, <2>1, <2>2, <2>3 DEF AckInv, Agree
<1> QED BY <1>5 DEF AckInv

LEMMA ExecuteAck ==
  ASSUME AuditInv, AckInv, NEW r \in Runs, Execute(r) \/ DeliveryLost(r)
  PROVE  AckInv'
<1>0. /\ status \in [Runs -> {"none", "queued", "running"} \cup Terminal]
      /\ msg \in [Runs -> {"none", "waiting", "leased", "acked", "dead"}]
      /\ exec \in [Runs -> {"none", "claim", "work", "storing", "publish", "final",
                           "audit", "catch", "auditFailed", "returned"}]
      /\ audit \subseteq AuditRow
      /\ \A q \in Runs : Stage(q)
  BY DEF AuditInv, TypeOK
<1>1. ASSUME NEW q \in Runs, q # r
      PROVE  /\ exec'[q] = "auditFailed" => status'[q] = "failed"
             /\ exec'[q] = "returned" \/ msg'[q] = "acked" => Agree(q)'
  <2>1. exec'[q] = exec[q] /\ status'[q] = status[q] /\ msg'[q] = msg[q]
    BY <1>0, <1>1 DEF Execute, Deliver, Claim, StoreFirst, StoreRest, Publish, Finalize, AuditFinal,
       Throws, PublishThenThrows, MarkFailed, AuditFailed, Ack, DeliveryLost, Step, store, queue
  <2>2. audit' = audit \/ \E outcome : Rewrite(r, outcome)
    BY DEF Execute, Deliver, Claim, StoreFirst, StoreRest, Publish, Finalize, AuditFinal,
       Throws, PublishThenThrows, MarkFailed, AuditFailed, Ack, DeliveryLost, store
  <2>3. ASSUME msg[q] # "none", NEW b \in audit', b.by = q PROVE b \in audit
    <3>1. ASSUME NEW outcome, Rewrite(r, outcome) PROVE b \in audit
      <4>1. PICK a \in audit : b = IF a.run = r THEN [a EXCEPT !.outcome = outcome] ELSE a
        BY <3>1 DEF Rewrite
      <4>2. a.by = b.by
        BY <1>0, <4>1 DEF AuditRow
      <4>3. a.run = q
        BY <2>3, <4>2, OwnRow
      <4> QED BY <1>1, <4>1, <4>3
    <3> QED BY <2>2, <2>3, <3>1
  <2>4. exec[q] # "none" => msg[q] # "none"
    BY <1>0 DEF Stage
  <2> QED BY <2>1, <2>3, <2>4 DEF AckInv, Agree
<1>2. /\ exec'[r] = "auditFailed" => status'[r] = "failed"
      /\ exec'[r] = "returned" \/ msg'[r] = "acked" => Agree(r)'
  <2>1. CASE AuditFinal(r) \/ AuditFailed(r)
    <3>1. /\ status' = status /\ msg' = msg /\ msg[r] # "none" /\ status[r] \in Terminal
          /\ exec'[r] = "returned" /\ Rewrite(r, status[r])
      BY <1>0, <2>1 DEF AuditFinal, AuditFailed, Step, queue, Stage, AckInv, Terminal
    <3>2. ASSUME NEW b \in audit', b.by = r PROVE b.outcome = status[r]
      <4>1. PICK a \in audit : b = IF a.run = r THEN [a EXCEPT !.outcome = status[r]] ELSE a
        BY <3>1 DEF Rewrite
      <4>2. a.by = b.by /\ a \in AuditRow
        BY <1>0, <4>1 DEF AuditRow
      <4>3. a.run = r
        BY <3>1, <3>2, <4>2, OwnRow
      <4> QED BY <4>1, <4>2, <4>3 DEF AuditRow
    <3> QED BY <3>1, <3>2 DEF Agree
  <2>2. CASE Ack(r) \/ DeliveryLost(r)
    BY <1>0, <2>2 DEF Ack, DeliveryLost, Step, store, AfterLoss, AckInv, Agree
  <2>3. CASE MarkFailed(r)
    BY <1>0, <2>3 DEF MarkFailed, Step, queue, Stage, AckInv
  <2>4. CASE Deliver(r)
    BY <1>0, <2>4 DEF Deliver, Step
  <2>5. CASE \/ Claim(r) \/ StoreFirst(r) \/ StoreRest(r) \/ Publish(r) \/ Finalize(r)
             \/ Throws(r) \/ PublishThenThrows(r)
    <3>1. exec[r] # "none" /\ msg' = msg /\ exec'[r] \notin {"auditFailed", "returned"}
      BY <1>0, <2>5 DEF Claim, StoreFirst, StoreRest, Publish, Finalize, Throws,
         PublishThenThrows, Step, queue
    <3> QED BY <1>0, <3>1 DEF Stage
  <2> QED BY <2>1, <2>2, <2>3, <2>4, <2>5 DEF Execute
<1> QED BY <1>1, <1>2 DEF AckInv

\* Once the consumer has acked, the run is at its end and its audit row says the
\* same as the run row.
THEOREM AckedRunsAgreeHolds == Spec => []AckedRunsAgree
<1>1. Init => AuditInv /\ AckInv
  BY AuditInit, AckInit
<1>2. AuditInv /\ AckInv /\ [Next]_vars => (AuditInv /\ AckInv)'
  <2>1. ASSUME AckInv, UNCHANGED vars PROVE AckInv'
    BY <2>1 DEF vars, store, queue, AckInv, Agree
  <2> QED BY <2>1, AuditStep, HandlerAck, ExecuteAck DEF Next
<1>3. AckInv => AckedRunsAgree
  BY DEF AckInv, Agree, AckedRunsAgree
<1> QED BY <1>1, <1>2, <1>3, PTL DEF Spec
==============================================================================

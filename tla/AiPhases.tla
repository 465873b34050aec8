------------------------------ MODULE AiPhases -------------------------------
(***************************************************************************)
(* The AI half of executeRun (packages/concord-api/src/run.ts) for one     *)
(* run: the spend state is loaded, model_extraction sends its batches, the *)
(* traced impacts go through a bounded fan-out of patch calls, the raw     *)
(* findings through a second fan-out of falsifier calls, and the run ends. *)
(*                                                                         *)
(* A fan-out worker (FanOut) runs a handler whose first awaited call is    *)
(* the model call, so the spend gate, the reservation of the slot and the  *)
(* issue of the call happen in the very step in which the worker draws its *)
(* item.  The reply accrues in memory when it arrives and its model_call   *)
(* row is inserted by a later step; the handler then writes the impact or  *)
(* the finding and the worker draws again.                                 *)
(*                                                                         *)
(* Money is counted in whole units.  A model reply is reduced to the class *)
(* the code tells apart (Reply); prompts and texts are left out.           *)
(***************************************************************************)
EXTENDS FanOut, Sequences

CONSTANTS NImpacts,    \* traced impacts are 1..NImpacts, in pipeline order
          NFindings,   \* raw findings for which needsFalsification holds
          Traced,      \* pipeline outputs: a set of functions on the impacts
          MaxUnits,    \* most units selected for model_extraction
          MaxCalls,    \* maxCallsPerRun
          DailyCap,    \* dailyCapUsd, in units of money
          MaxCost,     \* the dearest call
          MaxPrior     \* most the day's model_call rows sum to at load

ImpactIds == 1..NImpacts
FindingIds == 1..NFindings

Actions == {"DETERMINISTIC_REGEN", "GROUNDED_PATCH", "EDITORIAL_REVIEW",
            "UNRESOLVED_CONFLICT", "NO_ACTION"}

TracedImpact == [action : Actions, conflict : BOOLEAN]

ASSUME BudgetAssumption ==
  /\ NImpacts \in 0..MaxItems /\ NFindings \in 0..MaxItems
  /\ Traced \subseteq [ImpactIds -> TracedImpact] /\ Traced # {}
  /\ MaxUnits \in Nat /\ MaxCalls \in Nat /\ DailyCap \in Nat
  /\ MaxCost \in Nat /\ MaxPrior \in Nat

Costs == 1..MaxCost

VARIABLES client,      \* deps.createMessage is not null
          phase,       \* where executeRun stands
          status,      \* the run row's status
          impact,      \* impact[i]: the ImpactRecord
          work,        \* aiWork: impact ids, grounded ones first
          finding,     \* finding[f]: the VerifiedFinding
          spend,       \* the SpendState: calls reserved, money spent today
          exhausted,   \* some call was refused by the gate
          units,       \* units model_extraction has still to send
          call,        \* call[w]: the model call of slot w
          cost,        \* cost[w]: what that call cost once it returned
          recorded,    \* SUM(cost_usd) of today's model_call rows
          tally,       \* history: the sum loaded; calls made, those made by
                       \* extraction, replies that were read; rows
          heard        \* history: findings a falsifier gave its verdict on

runVars == <<client, phase, status, impact, work, finding, spend, exhausted,
             units, call, cost, recorded, tally, heard>>
vars == <<fanVars, runVars>>

\* dispositionFor, and the pipeline's rule that a conflict leaves it open.
DispositionFor(t) ==
  CASE t.conflict -> "unresolved"
    [] t.action = "DETERMINISTIC_REGEN" -> "proposed"
    [] t.action = "NO_ACTION" -> "no_action"
    [] OTHER -> "unresolved"

ImpactRecord(t) ==
  [action |-> t.action, conflict |-> t.conflict, disposition |-> DispositionFor(t),
   note |-> "none", patch |-> FALSE]

Init ==
  /\ PoolInit
  /\ client \in BOOLEAN
  /\ phase = "load"
  /\ status = "running"
  /\ \E t \in Traced : impact = [i \in ImpactIds |-> ImpactRecord(t[i])]
  /\ work = <<>>
  /\ finding = [f \in FindingIds |-> [disposition |-> "active", why |-> "none"]]
  /\ spend = [calls |-> 0, spent |-> 0]
  /\ exhausted = FALSE
  /\ units \in 0..MaxUnits
  /\ call = [w \in Workers |-> "none"]
  /\ cost = [w \in Workers |-> 0]
  /\ recorded \in 0..MaxPrior
  /\ tally = [loaded |-> 0, made |-> 0, attempted |-> 0, returned |-> 0,
              rows |-> 0]
  /\ heard = {}

------------------------------------------------------------------------------
(* The spend state: loaded once, then kept in the memory of this run.      *)

Lesser(a, b) == IF a < b THEN a ELSE b

\* loadSpendState, then the selection of units: model_extraction needs a client
\* and takes no more units than the calls the run may still make.
LoadSpendState ==
  /\ phase = "load" /\ status = "running"
  /\ phase' = "extract"
  /\ spend' = [calls |-> 0, spent |-> recorded]
  /\ tally' = [tally EXCEPT !.loaded = recorded]
  /\ units' = IF client THEN Lesser(units, MaxCalls) ELSE 0
  /\ UNCHANGED <<fanVars, client, status, impact, work, finding, exhausted,
                 call, cost, recorded, heard>>

\* Likely slips: the daily cap forgotten, and a slot that counts only once its
\* call has returned.
GateWithoutDailyCap == spend.calls >= MaxCalls

GateOnReturnedCalls ==
  \/ spend.calls - Cardinality({w \in Workers : call[w] = "calling"}) >= MaxCalls
  \/ spend.spent >= DailyCap

\* spendGate
GateClosed ==
  \/ spend.calls >= MaxCalls
  \/ spend.spent >= DailyCap

\* Slip: the sum in memory is left as it was loaded.
AccrueNothing(c) == spend

\* recordModelCall adds to the in-memory sum before it awaits the INSERT.
Accrue(c) == [spend EXCEPT !.spent = @ + c]

SlotIs(w, s) == call' = [call EXCEPT ![w] = s]

------------------------------------------------------------------------------
(* model_extraction: batches of at most Limit calls under allSettled.  It  *)
(* asks no gate and reserves no slot.                                      *)

IdleSlots == \A w \in Workers : call[w] = "none"

BatchSize == Lesser(Limit, units)

ExtractBatch ==
  /\ phase = "extract" /\ status = "running" /\ units > 0 /\ IdleSlots
  /\ LET k == BatchSize IN
       /\ call' = [w \in Workers |-> IF w <= k THEN "calling" ELSE "none"]
       /\ units' = units - k
       /\ tally' = [tally EXCEPT !.made = @ + k, !.attempted = @ + k]
  /\ UNCHANGED <<fanVars, client, phase, status, impact, work, finding, spend,
                 exhausted, cost, recorded, heard>>

ExtractReturn(w, c) ==
  /\ phase = "extract" /\ call[w] = "calling"
  /\ SlotIs(w, "settled")
  /\ cost' = [cost EXCEPT ![w] = c]
  /\ tally' = [tally EXCEPT !.returned = @ + 1]
  /\ UNCHANGED <<fanVars, client, phase, status, impact, work, finding, spend,
                 exhausted, units, recorded, heard>>

\* A rejected call is counted and passed over; it leaves no row.  So is an answer
\* that extractOne throws on: a reply cut off at max_tokens does not parse, and its
\* cost is lost with it.
ExtractReject(w) ==
  /\ phase = "extract" /\ call[w] = "calling"
  /\ SlotIs(w, "none")
  /\ UNCHANGED <<fanVars, client, phase, status, impact, work, finding, spend,
                 exhausted, units, cost, recorded, tally, heard>>

\* Once all have settled the outcomes are recorded one by one, in order.
ExtractAccrue(w) ==
  /\ phase = "extract" /\ status = "running"
  /\ call[w] = "settled"
  /\ \A v \in Workers : call[v] \notin {"calling", "recording"}
  /\ \A v \in 1..(w - 1) : call[v] # "settled"
  /\ SlotIs(w, "recording")
  /\ spend' = Accrue(cost[w])
  /\ UNCHANGED <<fanVars, client, phase, status, impact, work, finding,
                 exhausted, units, cost, recorded, tally, heard>>

ExtractRecorded(w) ==
  /\ phase = "extract" /\ call[w] = "recording"
  /\ SlotIs(w, "none")
  /\ recorded' = recorded + cost[w]
  /\ tally' = [tally EXCEPT !.rows = @ + 1]
  /\ UNCHANGED <<fanVars, client, phase, status, impact, work, finding, spend,
                 exhausted, units, cost, heard>>

\* The INSERT rejects: executeRun's catch marks the run failed.
ExtractRecordFails(w) ==
  /\ phase = "extract" /\ call[w] = "recording" /\ status = "running"
  /\ SlotIs(w, "none")
  /\ status' = "failed"
  /\ UNCHANGED <<fanVars, client, phase, impact, work, finding, spend,
                 exhausted, units, cost, recorded, tally, heard>>

------------------------------------------------------------------------------
(* The two fan-outs.                                                       *)

WorkOf(a) == {i \in ImpactIds : impact[i].action = a /\ ~impact[i].conflict}

\* A filter keeps the order of the list.
Listing(S) == {s \in [1..Cardinality(S) -> S] :
                 \A j, k \in DOMAIN s : j < k => s[j] < s[k]}

EnterPatch ==
  /\ phase = "extract" /\ status = "running" /\ units = 0 /\ IdleSlots
  /\ \E g \in Listing(WorkOf("GROUNDED_PATCH")),
        e \in Listing(WorkOf("EDITORIAL_REVIEW")) :
       /\ work' = g \o e
       /\ IF client /\ work' # <<>>
          THEN Call(Len(work')) /\ phase' = "patch"
          ELSE UNCHANGED fanVars /\ phase' = "patched"
  /\ UNCHANGED <<client, status, impact, finding, spend, exhausted, units,
                 call, cost, recorded, tally, heard>>

EnterFalsify ==
  /\ phase = "patched"
  /\ IF client /\ NFindings > 0
     THEN Call(NFindings) /\ phase' = "falsify"
     ELSE UNCHANGED fanVars /\ phase' = "persist"
  /\ UNCHANGED <<client, status, impact, work, finding, spend, exhausted,
                 units, call, cost, recorded, tally, heard>>

\* guardedCall up to its first await, for the worker that just drew `next`.
Begin(w) ==
  IF next >= len
  THEN SlotIs(w, "none") /\ UNCHANGED <<spend, tally>>
  ELSE IF GateClosed
       THEN SlotIs(w, "skipped") /\ UNCHANGED <<spend, tally>>
       ELSE /\ SlotIs(w, "calling")
            /\ spend' = [spend EXCEPT !.calls = @ + 1]
            /\ tally' = [tally EXCEPT !.made = @ + 1]

LaunchWorker(w) ==
  /\ Launch(w)
  /\ Begin(w)
  /\ UNCHANGED <<client, phase, status, impact, work, finding, exhausted,
                 units, cost, recorded, heard>>

CallReturns(w, c) ==
  /\ st[w] = "busy" /\ call[w] = "calling"
  /\ SlotIs(w, "recording")
  /\ cost' = [cost EXCEPT ![w] = c]
  /\ spend' = Accrue(c)
  /\ tally' = [tally EXCEPT !.returned = @ + 1]
  /\ UNCHANGED <<fanVars, client, phase, status, impact, work, finding,
                 exhausted, units, recorded, heard>>

\* createMessage rejects, or the INSERT of the row does: the handler throws.
CallThrows(w) ==
  /\ call[w] \in {"calling", "recording"}
  /\ Throw(w)
  /\ SlotIs(w, "none")
  /\ UNCHANGED <<client, phase, status, impact, work, finding, spend,
                 exhausted, units, cost, recorded, tally, heard>>

RowInserted(w) ==
  /\ st[w] = "busy" /\ call[w] = "recording"
  /\ SlotIs(w, "answered")
  /\ recorded' = recorded + cost[w]
  /\ tally' = [tally EXCEPT !.rows = @ + 1]
  /\ UNCHANGED <<fanVars, client, phase, status, impact, work, finding, spend,
                 exhausted, units, cost, heard>>

------------------------------------------------------------------------------
(* What a handler does with the outcome of its call.                       *)

\* The classes of replies to a patch call: a refusal; a reply that is empty, does
\* not parse or fails gate (b) or (d), which only leaves a note; and the other
\* verdicts of validatePatch -- gate (a), editorial_risk, accepted.
Reply == {"refusal", "unusable", "gate_a", "risk", "ok"}

Accepted(r) == [r EXCEPT !.patch = TRUE, !.disposition = "proposed"]

\* Slip: a reply that cannot be used leaves no note.
ResolvedQuietly(r, reply) == IF reply = "ok" THEN Accepted(r) ELSE r

\* A risky draft is rejected on the grounded path and accepted on the editorial
\* one (draftAcceptable).
Resolved(r, reply) ==
  CASE reply = "ok" -> Accepted(r)
    [] reply = "risk" /\ r.action = "EDITORIAL_REVIEW" -> Accepted(r)
    [] reply = "risk" /\ r.action # "EDITORIAL_REVIEW" ->
         [r EXCEPT !.action = "EDITORIAL_REVIEW", !.note = "risk"]
    [] reply = "refusal" ->
         [r EXCEPT !.action = "EDITORIAL_REVIEW", !.disposition = "escalated",
                   !.note = "refusal"]
    [] reply = "gate_a" ->
         [r EXCEPT !.action = "UNRESOLVED_CONFLICT", !.conflict = TRUE,
                   !.note = "gate_a"]
    [] OTHER -> [r EXCEPT !.note = reply]

\* The worker draws its next item in the step in which the handler returns.
HandlerReturns(w) ==
  /\ Finish(w)
  /\ Begin(w)
  /\ UNCHANGED <<client, phase, status, work, units, cost, recorded>>

ImpactAnswered(w, reply) ==
  /\ phase = "patch" /\ call[w] = "answered"
  /\ LET i == work[ix[w] + 1] IN
       impact' = [impact EXCEPT ![i] = Resolved(@, reply)]
  /\ HandlerReturns(w)
  /\ UNCHANGED <<finding, exhausted, heard>>

\* Slip: the refusal of the gate is not remembered.
StarveQuietly == UNCHANGED exhausted

\* budgetExhausted = true
Starve == exhausted' = TRUE

ImpactStarved(w) ==
  /\ phase = "patch" /\ call[w] = "skipped"
  /\ LET i == work[ix[w] + 1] IN
       impact' = [impact EXCEPT ![i].note = "budget"]
  /\ Starve
  /\ HandlerReturns(w)
  /\ UNCHANGED <<finding, heard>>

\* Slip: the finding gets its note and stays on the surface.
Unsuppressed(why) == [disposition |-> "active", why |-> why]

Suppressed(why) == [disposition |-> "suppressed", why |-> why]

FindingAnswered(w, verdict) ==
  /\ phase = "falsify" /\ call[w] = "answered"
  /\ finding' = [finding EXCEPT ![ix[w] + 1] =
                   IF verdict = "stands" THEN @ ELSE Suppressed(verdict)]
  /\ heard' = heard \cup {ix[w] + 1}
  /\ HandlerReturns(w)
  /\ UNCHANGED <<impact, exhausted>>

FindingStarved(w) ==
  /\ phase = "falsify" /\ call[w] = "skipped"
  /\ finding' = [finding EXCEPT ![ix[w] + 1] = Suppressed("budget")]
  /\ Starve
  /\ HandlerReturns(w)
  /\ UNCHANGED <<impact, heard>>

------------------------------------------------------------------------------
(* How the run goes on and ends.                                           *)

\* `await mapConcurrent(...)` returns ...
FanOutResolves ==
  /\ Resolve
  /\ phase' = IF phase = "patch" THEN "patched" ELSE "persist"
  /\ UNCHANGED <<client, status, impact, work, finding, spend, exhausted,
                 units, call, cost, recorded, tally, heard>>

\* ... or throws into executeRun's catch.  The other workers are not stopped.
FanOutRejects ==
  /\ Reject
  /\ status' = "failed"
  /\ UNCHANGED <<client, phase, impact, work, finding, spend, exhausted,
                 units, call, cost, recorded, tally, heard>>

\* batchAll and the final UPDATE; publishing is left to another module.
Persist ==
  /\ phase = "persist" /\ status = "running"
  /\ phase' = "end"
  /\ status' = IF exhausted THEN "partial" ELSE "completed"
  /\ UNCHANGED <<fanVars, client, impact, work, finding, spend, exhausted,
                 units, call, cost, recorded, tally, heard>>

\* A D1 call outside the fan-outs rejects.
StoreFails ==
  /\ phase \in {"load", "persist"} /\ status = "running"
  /\ status' = "failed"
  /\ UNCHANGED <<fanVars, client, phase, impact, work, finding, spend,
                 exhausted, units, call, cost, recorded, tally, heard>>

\* One step of the fan-out worker w, or of the extraction call in slot w.
WorkerStep(w) ==
  \/ LaunchWorker(w)
  \/ \E c \in Costs : CallReturns(w, c)
  \/ CallThrows(w)
  \/ RowInserted(w)
  \/ \E reply \in Reply : ImpactAnswered(w, reply)
  \/ ImpactStarved(w)
  \/ \E v \in {"stands", "refuted", "refusal"} : FindingAnswered(w, v)
  \/ FindingStarved(w)

ExtractStep(w) ==
  \/ \E c \in Costs : ExtractReturn(w, c)
  \/ ExtractReject(w)
  \/ ExtractAccrue(w)
  \/ ExtractRecorded(w)
  \/ ExtractRecordFails(w)

RunStep ==
  \/ LoadSpendState
  \/ ExtractBatch
  \/ EnterPatch
  \/ EnterFalsify
  \/ FanOutResolves
  \/ FanOutRejects
  \/ Persist
  \/ StoreFails

Next == RunStep \/ \E w \in Workers : WorkerStep(w) \/ ExtractStep(w)

\* Every awaited call settles in the end (the API client has a timeout, D1
\* answers or errors), so each worker and the run itself keep moving.
Fairness ==
  /\ WF_vars(RunStep)
  /\ \A w \in Workers : WF_vars(WorkerStep(w)) /\ WF_vars(ExtractStep(w))

Spec == Init /\ [][Next]_vars /\ Fairness

------------------------------------------------------------------------------
Finished == status \in {"completed", "partial"}

\* spend.ts, run.ts: "Reserve the call slot BEFORE the call so a concurrent
\* batch cannot overshoot the per-run cap."  The calls a run has issued through
\* guardedCall never exceed the cap, however many workers pass the gate at once
\* and even when a worker has thrown and the others go on after the run failed.
GuardedCallsWithinCap == tally.made - tally.attempted <= MaxCalls

\* The daily cap is checked before a call and its cost is known after it, so
\* the workers can overshoot it -- by what the calls in flight cost and no more.
\* Extraction asks no gate: what it spends comes on top of the sum loaded.
SpendOvershootBounded ==
  \/ spend.spent <= tally.loaded + MaxCost * tally.attempted
  \/ spend.spent <= DailyCap - 1 + MaxCost * Limit

\* The ledger of model_call rows: of a run that ends without failing, every reply
\* that could be read has its row, the rows and the in-memory sum agree, and every
\* reservation belongs to a call the gate let through.
LedgerAgrees ==
  Finished => /\ tally.rows = tally.returned
              /\ recorded = spend.spent
              /\ spend.calls = tally.made - tally.attempted

\* Invariant I10 of the run: nothing is silently dropped.  When a run that had a
\* model client ends, an impact is a proposal, was found to need no action, was
\* escalated, or is unresolved and carries its reason -- a note or a conflict.
NothingDropped ==
  Finished /\ client =>
    \A i \in ImpactIds :
      LET r == impact[i] IN
        \/ r.disposition \in {"no_action", "escalated"}
        \/ r.disposition = "proposed" /\ (r.patch \/ r.action = "DETERMINISTIC_REGEN")
        \/ r.disposition = "unresolved" /\ (r.note # "none" \/ r.conflict
                                            \/ r.action = "UNRESOLVED_CONFLICT")

\* A run ends partial exactly when the budget starved an impact or a finding.
PartialIffStarved ==
  Finished =>
    (status = "partial" <=> \/ \E i \in ImpactIds : impact[i].note = "budget"
                            \/ \E f \in FindingIds : finding[f].why = "budget")

\* "Every non-deterministic finding faces a FALSIFIER": when a run with a model
\* client ends, an active finding is one a falsifier heard and did not refute.
SurfacedFindingsHeard ==
  Finished /\ client =>
    \A f \in FindingIds : finding[f].disposition = "active" => f \in heard

\* Every run comes to an end.
Terminates == <>(status # "running")
==============================================================================

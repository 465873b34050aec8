--------------------------- MODULE SnapshotLedger ----------------------------
(***************************************************************************)
(* How a run finds out what changed: executeRun                            *)
(* (packages/concord-api/src/run.ts) fetches the product truth from Relay, *)
(* reads the latest stored snapshot, stores the one it fetched, applies    *)
(* the Change-Lab mutation to a working copy, and diffs the working copy   *)
(* against the snapshot it read (detectDeltas, concord-core pipeline.ts).  *)
(* The deltas reach the database only when the run's rows do.              *)
(*                                                                         *)
(* Every awaited call is a step; the truth changes under the runs, runs    *)
(* overlap, fail, and are executed again when their queue message is       *)
(* redelivered.  The mutation of a document body does not touch facts and  *)
(* is left out, and so are facts that appear or vanish: every snapshot has *)
(* the same keys.                                                          *)
(***************************************************************************)
EXTENDS Integers, Sequences

CONSTANTS Runs,
          Keys,        \* facts of a current-value tier
          Values,
          MaxShips,    \* bound: changes of the product
          MaxRetries   \* redeliveries of a run's message

ASSUME LedgerAssumption == MaxShips \in Nat /\ MaxRetries \in Nat

Truths == [Keys -> Values]

VARIABLES shipped,    \* the product's truths, oldest first; Relay answers the last
          snapshot,   \* the snapshot table, by taken_at
          pc,         \* pc[r]: where executeRun stands
          current,    \* current[r]: the snapshot run r fetched
          previous,   \* previous[r]: the rows its SELECT returned, one or none
          mutation,   \* mutation[r]: the fact mutations of the run, one or none
          deltas,     \* deltas[r]: what the run detected
          recorded,   \* recorded[r]: what the database holds of that
          retries,    \* retries[r]: redeliveries so far
          overlapped, \* history: a run started while another was at work
          orphaned    \* history: positions of snapshots whose run was lost after it
              \* stored them (as long as runs do not overlap)

run == <<pc, current, previous, mutation, deltas, retries>>
vars == <<shipped, snapshot, run, recorded, overlapped, orphaned>>

AtWork == {"fetched", "read", "stored", "detected"}

\* What GET /api/product-truth answers now.
Truth == [version |-> Len(shipped), value |-> shipped[Len(shipped)]]

Init ==
  /\ \E t \in Truths : shipped = <<t>>
  /\ snapshot = <<>>
  /\ pc = [r \in Runs |-> "queued"]
  /\ current = [r \in Runs |-> Truth]
  /\ previous = [r \in Runs |-> <<>>]
  /\ mutation \in [Runs -> {{}} \cup {{m} : m \in Keys \X Values}]
  /\ deltas = [r \in Runs |-> {}] /\ recorded = [r \in Runs |-> {}]
  /\ retries = [r \in Runs |-> 0]
  /\ overlapped = FALSE /\ orphaned = {}

------------------------------------------------------------------------------
\* Relay is deployed with another value of a fact.
Ship(k, v) ==
  /\ Len(shipped) <= MaxShips /\ Truth.value[k] # v
  /\ shipped' = Append(shipped, [Truth.value EXCEPT ![k] = v])
  /\ UNCHANGED <<snapshot, run, recorded, overlapped, orphaned>>

Goto(r, from, to) == pc[r] = from /\ pc' = [pc EXCEPT ![r] = to]

\* Slip: a redelivered run keeps the truth it fetched the first time.
FetchOnce(r) ==
  /\ Goto(r, "queued", "fetched")
  /\ current' = IF retries[r] > 0 THEN current
                ELSE [current EXCEPT ![r] = Truth]
  /\ overlapped' = (overlapped \/ \E q \in Runs : pc[q] \in AtWork)
  /\ UNCHANGED <<shipped, snapshot, previous, mutation, deltas, retries,
                 recorded, orphaned>>

Fetch(r) ==
  /\ Goto(r, "queued", "fetched")
  /\ current' = [current EXCEPT ![r] = Truth]
  /\ overlapped' = (overlapped \/ \E q \in Runs : pc[q] \in AtWork)
  /\ UNCHANGED <<shipped, snapshot, previous, mutation, deltas, retries,
                 recorded, orphaned>>

\* Slip: ORDER BY taken_at without DESC.
Oldest == IF snapshot = <<>> THEN <<>> ELSE <<Head(snapshot)>>

\* ORDER BY taken_at DESC LIMIT 1
Latest == IF snapshot = <<>> THEN <<>> ELSE <<snapshot[Len(snapshot)]>>

ReadPrevious(r) ==
  /\ Goto(r, "fetched", "read")
  /\ previous' = [previous EXCEPT ![r] = Latest]
  /\ UNCHANGED <<shipped, snapshot, current, mutation, deltas, retries,
                 recorded, overlapped, orphaned>>

\* The working copy: the mutated fact in place of the fetched one.
WorkingCopy(r) ==
  [k \in Keys |-> IF \E v \in Values : <<k, v>> \in mutation[r]
                  THEN CHOOSE v \in Values : <<k, v>> \in mutation[r]
                  ELSE current[r].value[k]]

\* Slip: the working copy is what gets stored.
StoreWorkingCopy(r) ==
  /\ Goto(r, "read", "stored")
  /\ snapshot' = Append(snapshot, [current[r] EXCEPT !.value = WorkingCopy(r)])
  /\ UNCHANGED <<shipped, current, previous, mutation, deltas, retries,
                 recorded, overlapped, orphaned>>

\* The base snapshot is stored before any mutation is applied.
StoreSnapshot(r) ==
  /\ Goto(r, "read", "stored")
  /\ snapshot' = Append(snapshot, current[r])
  /\ UNCHANGED <<shipped, current, previous, mutation, deltas, retries,
                 recorded, overlapped, orphaned>>

\* A first run has no previous snapshot and takes its own for it.
Base(r) == IF previous[r] = <<>> THEN current[r].value ELSE previous[r][1].value

\* detectDeltas(previous, effectiveCurrent)
Diff(old, new) ==
  {[key |-> k, from |-> old[k], to |-> new[k]] : k \in {j \in Keys : old[j] # new[j]}}

Detect(r) ==
  /\ Goto(r, "stored", "detected")
  /\ deltas' = [deltas EXCEPT ![r] = Diff(Base(r), WorkingCopy(r))]
  /\ UNCHANGED <<shipped, snapshot, current, previous, mutation, retries,
                 recorded, overlapped, orphaned>>

\* batchAll: the impacts of the run, each with its delta.
Persist(r) ==
  /\ Goto(r, "detected", "completed")
  /\ recorded' = [recorded EXCEPT ![r] = deltas[r]]
  /\ UNCHANGED <<shipped, snapshot, current, previous, mutation, deltas,
                 retries, overlapped, orphaned>>

\* A run is lost: if it had stored its snapshot, the last one as long as runs do
\* not overlap, nobody will diff that one against the one before.
Orphan(r) ==
  orphaned' = IF pc[r] \in {"stored", "detected"} /\ ~overlapped
              THEN orphaned \cup {Len(snapshot)} ELSE orphaned

\* Any awaited call rejects, a model call's included: the run fails, is acked.
Fail(r) ==
  /\ pc[r] \in AtWork
  /\ pc' = [pc EXCEPT ![r] = "failed"]
  /\ Orphan(r)
  /\ UNCHANGED <<shipped, snapshot, current, previous, mutation, deltas,
                 retries, recorded, overlapped>>

RetryLeft(r) == retries[r] < MaxRetries

\* The consumer dies and the message is redelivered: executeRun starts over.
Redeliver(r) ==
  /\ pc[r] \in AtWork /\ RetryLeft(r)
  /\ pc' = [pc EXCEPT ![r] = "queued"]
  /\ retries' = [retries EXCEPT ![r] = @ + 1]
  /\ deltas' = [deltas EXCEPT ![r] = {}]
  /\ Orphan(r)
  /\ UNCHANGED <<shipped, snapshot, current, previous, mutation,
                 recorded, overlapped>>

Next ==
  \/ \E k \in Keys, v \in Values : Ship(k, v)
  \/ \E r \in Runs : \/ Fetch(r)
                     \/ ReadPrevious(r)
                     \/ StoreSnapshot(r)
                     \/ Detect(r)
                     \/ Persist(r)
                     \/ Fail(r)
                     \/ Redeliver(r)

Spec == Init /\ [][Next]_vars

------------------------------------------------------------------------------
Mutated(k) == \E r \in Runs, v \in Values : <<k, v>> \in mutation[r]
Known == UNION {recorded[r] : r \in Runs}

\* run.ts: "the mutation never poisons the next run's `previous`".  The old value
\* of a fact that a run puts on record is one the product has had, never another
\* run's hypothetical, however the runs overlap and fail.
MutationsStayPrivate ==
  \A r \in Runs : \A d \in recorded[r] :
    \E n \in 1..Len(shipped) : shipped[n][d.key] = d.from

\* Drift is not lost as long as runs do not overlap: when every run is at rest,
\* each change of an unmutated fact from one stored snapshot to the next is on
\* record, unless the run that stored the second was lost afterwards.  Runs lost
\* earlier, or before and after that one, do no harm.
DriftOnRecord ==
  ~overlapped /\ (\A r \in Runs : pc[r] \notin AtWork) =>
    \A i \in 2..Len(snapshot) :
      \A d \in Diff(snapshot[i - 1].value, snapshot[i].value) :
        i \in orphaned \/ Mutated(d.key) \/ d \in Known

\* A run never reports the product's change backwards, as long as no two runs are
\* at work at once: the snapshot it compares with is not younger than its own.
DeltasRunForward ==
  ~overlapped => \A r \in Runs :
    pc[r] \in {"detected", "completed"} /\ previous[r] # <<>> =>
      previous[r][1].version <= current[r].version

\* prompt-packets/relay-concord/architecture.md: "no failure path silently drops
\* an impact".  What a failed run detected of an unmutated fact is on record, or
\* the next run can still detect it against the snapshot it will read.
FailedRunsLoseNoDrift ==
  \A r \in Runs : pc[r] = "failed" =>
    \A d \in deltas[r] :
      \/ Mutated(d.key)
      \/ d \in Known
      \/ Latest[1].value[d.key] = d.from
==============================================================================

------------------------------- MODULE FanOut --------------------------------
(***************************************************************************)
(* mapConcurrent of packages/concord-api/src/run.ts: Limit workers share   *)
(* one counter `next`.  A worker reads the counter, increments it, returns *)
(* if it has run off the end of the list, and otherwise awaits the handler *)
(* of the item it drew.  There is no await between the read and the        *)
(* increment, so drawing an item is one step; what a worker does when its  *)
(* handler returns -- store the result and draw the next item -- is one    *)
(* step too.  The whole thing is awaited by Promise.all, which rejects at  *)
(* the first worker that throws and leaves the other workers running.      *)
(* The executor calls it twice in a run, one call after the other.         *)
(***************************************************************************)
EXTENDS Integers, FiniteSets

CONSTANTS Limit,     \* workers of a call; run.ts passes 5
          MaxItems   \* bound on the length of a list of items

ASSUME PoolAssumption ==
  /\ Limit \in Nat \ {0}
  /\ MaxItems \in Nat

VARIABLES len,       \* items.length
          next,      \* the shared counter
          st,        \* st[w]: where worker w stands
          ix,        \* ix[w]: the `index` worker w drew last
          filled,    \* indexes of `results` that hold a value
          promise    \* the promise mapConcurrent returned

fanVars == <<len, next, st, ix, filled, promise>>

Workers == 1..Limit

WorkerState == {"absent", "new", "busy", "exited", "thrown"}

PoolTypeOK ==
  /\ len \in 0..MaxItems
  /\ next \in Nat
  /\ st \in [Workers -> WorkerState]
  /\ ix \in [Workers -> Nat]
  /\ filled \in SUBSET (0..(MaxItems - 1))
  /\ promise \in {"idle", "pending", "resolved", "rejected"}

PoolInit ==
  /\ len = 0 /\ next = 0
  /\ st = [w \in Workers |-> "absent"]
  /\ ix = [w \in Workers |-> 0]
  /\ filled = {}
  /\ promise = "idle"

------------------------------------------------------------------------------
\* Array.from({ length: Math.min(limit, items.length) }): a worker per item up
\* to the limit.  The workers run one after the other up to their first await.
Call(n) ==
  /\ promise \in {"idle", "resolved"}
  /\ len' = n
  /\ next' = 0
  /\ st' = [w \in Workers |-> IF w <= n THEN "new" ELSE "absent"]
  /\ ix' = [w \in Workers |-> 0]
  /\ filled' = {}
  /\ promise' = "pending"

\* const index = next; next += 1; if (index >= items.length) return;
TakeIndex(w) ==
  /\ ix' = [ix EXCEPT ![w] = next]
  /\ next' = next + 1
  /\ st' = [st EXCEPT ![w] = IF next < len THEN "busy" ELSE "exited"]

Launched == \A w \in Workers : st[w] # "new"

Launch(w) ==
  /\ st[w] = "new"
  /\ \A v \in 1..(w - 1) : st[v] # "new"
  /\ TakeIndex(w)
  /\ UNCHANGED <<len, filled, promise>>

\* The awaited handler returned: results[index] = ..., then the loop again.
Finish(w) ==
  /\ Launched
  /\ st[w] = "busy"
  /\ filled' = filled \cup {ix[w]}
  /\ TakeIndex(w)
  /\ UNCHANGED <<len, promise>>

\* The handler threw: this worker's promise rejects and the worker is gone.
Throw(w) ==
  /\ Launched
  /\ st[w] = "busy"
  /\ st' = [st EXCEPT ![w] = "thrown"]
  /\ UNCHANGED <<len, next, ix, filled, promise>>

\* Slips: Promise.race for Promise.all, and a wait for workers never started.
FirstReturned == \E w \in Workers : st[w] = "exited"
WholeCrewReturned == \A w \in Workers : st[w] = "exited"

AllReturned == \A w \in Workers : st[w] \in {"absent", "exited"}

Resolve ==
  /\ promise = "pending"
  /\ AllReturned
  /\ promise' = "resolved"
  /\ UNCHANGED <<len, next, st, ix, filled>>

Reject ==
  /\ promise = "pending"
  /\ \E w \in Workers : st[w] = "thrown"
  /\ promise' = "rejected"
  /\ UNCHANGED <<len, next, st, ix, filled>>

PoolNext ==
  \/ \E n \in 0..MaxItems : Call(n)
  \/ \E w \in Workers : Launch(w) \/ Finish(w) \/ Throw(w)
  \/ Resolve
  \/ Reject

PoolSpec == PoolInit /\ [][PoolNext]_fanVars

------------------------------------------------------------------------------
Busy == {w \in Workers : st[w] = "busy"}
Thrown == {w \in Workers : st[w] = "thrown"}
Hands == {w \in Workers : st[w] \in {"busy", "thrown"}}

\* Every item drawn from the list is stored, or is in the hands of one worker
\* that is busy with it or died of it; no two workers hold the same item, and
\* no worker holds an item whose result is already in.
EachItemOnce ==
  /\ \A i \in 0..(len - 1) :
       i < next => \/ i \in filled
                   \/ \E w \in Hands : ix[w] = i
  /\ \A w \in Hands : ix[w] \notin filled
  /\ \A v, w \in Hands : ix[v] = ix[w] => v = w

\* When mapConcurrent resolves, the results array has no hole.
ResolvedIsComplete ==
  promise = "resolved" => filled = 0..(len - 1)

\* What mapConcurrent does, seen as a bounded pool.
Abstract == INSTANCE BoundedPool WITH
  todo    <- {i \in 0..(len - 1) : i >= next},
  running <- {ix[w] : w \in Busy},
  settled <- filled,
  failed  <- {ix[w] : w \in Thrown},
  outcome <- promise

ImplementsBoundedPool == Abstract!Spec
==============================================================================

--------------------------- MODULE AiPhasesProofs ----------------------------
(***************************************************************************)
(* mapConcurrent hands every item to exactly one worker, leaves no hole in *)
(* the results it resolves with, and is a bounded pool -- for any number   *)
(* of workers and lists of any length.  The invariant that carries all     *)
(* three says where each drawn index is: behind the counter, and in the    *)
(* results or in one worker's hand; and what a worker's state tells about  *)
(* the counter.  A run uses mapConcurrent as any caller may, so all of it  *)
(* holds of a run; what a run's budget, ledger and outcome come to is said *)
(* after that, phase by phase.                                             *)
(***************************************************************************)
EXTENDS AiPhases, FiniteSetTheorems, WellFoundedInduction, TLAPS

\* What a worker's state says about the list and the counter.
StateInv ==
  /\ promise = "idle" => len = 0 /\ \A w \in Workers : st[w] = "absent"
  /\ promise # "idle" => \A w \in Workers : (st[w] = "absent" <=> w > len)
  /\ promise = "resolved" => \A w \in Workers : st[w] \in {"absent", "exited"}
  /\ \A w \in Workers : st[w] = "exited" => next >= len
  /\ \A w \in Hands : ix[w] < next /\ ix[w] < len

FilledInv == \A i \in filled : i < next /\ i < len

IInv == PoolTypeOK /\ StateInv /\ FilledInv /\ EachItemOnce

------------------------------------------------------------------------------
LEMMA InitInv == PoolInit => IInv
  BY PoolAssumption DEF PoolInit, IInv, PoolTypeOK, StateInv, FilledInv,
     EachItemOnce, Hands, Workers, WorkerState

LEMMA CallInv ==
  ASSUME IInv, NEW n \in 0..MaxItems, Call(n)
  PROVE  IInv'
<1> USE DEF IInv, Call
<1>1. PoolTypeOK'
  BY PoolAssumption DEF PoolTypeOK, WorkerState
<1>2. Hands' = {}
  BY DEF Hands
<1>3. StateInv'
  BY <1>2 DEF StateInv, Workers
<1>4. FilledInv' /\ EachItemOnce'
  BY <1>2 DEF FilledInv, EachItemOnce
<1> QED BY <1>1, <1>3, <1>4

\* A worker that holds nothing, or whose item is done, draws its next index: the
\* step is common to a worker that starts and to one whose handler returned.
LEMMA DrawTypes ==
  ASSUME PoolTypeOK, NEW w \in Workers, TakeIndex(w)
  PROVE  /\ next' \in Nat /\ next' = next + 1
         /\ st' \in [Workers -> WorkerState] /\ ix' \in [Workers -> Nat]
         /\ ix'[w] = next
         /\ st'[w] = IF next < len THEN "busy" ELSE "exited"
         /\ \A v \in Workers : v # w => st'[v] = st[v] /\ ix'[v] = ix[v]
  BY DEF PoolTypeOK, TakeIndex, WorkerState

LEMMA DrawHands ==
  ASSUME PoolTypeOK, NEW w \in Workers, TakeIndex(w)
  PROVE  /\ \A v \in Workers : v # w => (v \in Hands' <=> v \in Hands)
         /\ w \in Hands' <=> next < len
         /\ Hands \subseteq Workers /\ Hands' \subseteq Workers
  BY DrawTypes DEF Hands

\* All of IInv but the accounting of the items.
LEMMA DrawInv ==
  ASSUME IInv, NEW w \in Workers, TakeIndex(w), len' = len, promise' = promise,
         st[w] \in {"new", "busy"}
  PROVE  StateInv'
<1> USE DEF IInv
<1>1. next \in Nat /\ len \in Nat /\ promise \notin {"idle", "resolved"}
  BY DEF StateInv, PoolTypeOK
<1>2. \A v \in Workers : st'[v] = "absent" <=> v > len'
  BY <1>1, DrawTypes DEF StateInv
<1>3. \A v \in Workers : st'[v] = "exited" => next' >= len'
  BY <1>1, DrawTypes DEF StateInv
<1>4. \A v \in Hands' : ix'[v] < next' /\ ix'[v] < len'
  <2> SUFFICES ASSUME NEW v \in Hands' PROVE ix'[v] < next' /\ ix'[v] < len'
    OBVIOUS
  <2>1. CASE v = w
    BY <2>1, <1>1, DrawTypes, DrawHands
  <2>2. CASE v # w
    BY <2>2, <1>1, DrawTypes, DrawHands DEF StateInv, PoolTypeOK
  <2> QED BY <2>1, <2>2
<1> QED BY <1>1, <1>2, <1>3, <1>4 DEF StateInv

LEMMA LaunchInv ==
  ASSUME IInv, NEW w \in Workers, Launch(w)
  PROVE  IInv'
<1> USE DEF IInv
<1>1. PoolTypeOK'
  BY DrawTypes DEF Launch, PoolTypeOK
<1>2. w \notin Hands /\ TakeIndex(w) /\ filled' = filled /\ len' = len
  BY DEF Launch, Hands
<1>3. StateInv'
  BY DrawInv DEF Launch
<1>4. FilledInv'
  BY <1>2, DrawTypes DEF FilledInv, PoolTypeOK
<1>5. EachItemOnce'
  <2>1. \A v \in Hands' : v = w \/ v \in Hands
    BY <1>2, DrawHands
  <2>2. \A v \in Hands' : ix'[v] \notin filled'
    BY <2>1, <1>2, DrawTypes, DrawHands DEF EachItemOnce, FilledInv, PoolTypeOK
  <2>3. \A u, v \in Hands' : ix'[u] = ix'[v] => u = v
    BY <2>1, <1>2, DrawTypes, DrawHands DEF EachItemOnce, StateInv, PoolTypeOK
  <2>4. ASSUME NEW i \in 0..(len' - 1), i < next', i \notin filled'
        PROVE  \E v \in Hands' : ix'[v] = i
    <3>1. CASE i = next
      BY <3>1, <2>4, <1>2, DrawTypes, DrawHands DEF PoolTypeOK
    <3>2. CASE i < next
      <4>1. PICK v \in Hands : ix[v] = i
        BY <3>2, <2>4, <1>2 DEF EachItemOnce
      <4> QED BY <4>1, <1>2, DrawTypes, DrawHands
    <3> QED BY <3>1, <3>2, <2>4, DrawTypes, <1>2 DEF PoolTypeOK
  <2> QED BY <2>2, <2>3, <2>4 DEF EachItemOnce
<1> QED BY <1>1, <1>3, <1>4, <1>5

LEMMA FinishInv ==
  ASSUME IInv, NEW w \in Workers, Finish(w)
  PROVE  IInv'
<1> USE DEF IInv
<1>1. w \in Hands /\ ix[w] \in 0..(len - 1) /\ ix[w] < next
  BY DEF Finish, Hands, StateInv, PoolTypeOK
<1>2. TakeIndex(w) /\ filled' = filled \cup {ix[w]} /\ len' = len
  BY DEF Finish
<1>3. PoolTypeOK'
  <2>1. ix[w] \in 0..(MaxItems - 1)
    BY <1>1, PoolAssumption DEF PoolTypeOK
  <2> QED BY <2>1, <1>2, DrawTypes DEF Finish, PoolTypeOK
<1>4. StateInv'
  BY DrawInv DEF Finish
<1>5. FilledInv'
  BY <1>1, <1>2, DrawTypes DEF FilledInv, PoolTypeOK
<1>6. EachItemOnce'
  <2>1. \A v \in Hands' : v # w => v \in Hands /\ ix'[v] = ix[v] /\ ix[v] # ix[w]
    BY <1>1, <1>2, DrawTypes, DrawHands DEF EachItemOnce
  <2>2. \A v \in Hands' : ix'[v] \notin filled'
    BY <2>1, <1>1, <1>2, DrawTypes DEF EachItemOnce, FilledInv, PoolTypeOK
  <2>3. \A u, v \in Hands' : ix'[u] = ix'[v] => u = v
    BY <2>1, <1>2, DrawTypes DEF EachItemOnce, StateInv, PoolTypeOK
  <2>4. ASSUME NEW i \in 0..(len' - 1), i < next', i \notin filled'
        PROVE  \E v \in Hands' : ix'[v] = i
    <3>1. CASE i = next
      BY <3>1, <2>4, <1>2, DrawTypes, DrawHands DEF PoolTypeOK
    <3>2. CASE i < next
      <4>1. PICK v \in Hands : ix[v] = i
        BY <3>2, <2>4, <1>2 DEF EachItemOnce
      <4> QED BY <4>1, <2>4, <1>2, DrawTypes, DrawHands
    <3> QED BY <3>1, <3>2, <2>4, DrawTypes, <1>2 DEF PoolTypeOK
  <2> QED BY <2>2, <2>3, <2>4 DEF EachItemOnce
<1> QED BY <1>3, <1>4, <1>5, <1>6

LEMMA ThrowInv ==
  ASSUME IInv, NEW w \in Workers, Throw(w)
  PROVE  IInv'
<1> USE DEF IInv, Throw
<1>1. PoolTypeOK'
  BY DEF PoolTypeOK, WorkerState
<1>2. Hands' = Hands
  BY DEF Hands, PoolTypeOK
<1>3. StateInv'
  BY <1>2 DEF StateInv, PoolTypeOK
<1>4. FilledInv' /\ EachItemOnce'
  BY <1>2 DEF FilledInv, EachItemOnce
<1> QED BY <1>1, <1>3, <1>4

LEMMA SettleInv ==
  ASSUME IInv, Resolve \/ Reject
  PROVE  IInv'
<1> USE DEF IInv, Resolve, Reject, AllReturned
<1>1. PoolTypeOK' /\ Hands' = Hands
  BY DEF PoolTypeOK, Hands
<1>2. StateInv'
  BY <1>1 DEF StateInv
<1>3. FilledInv' /\ EachItemOnce'
  BY <1>1 DEF FilledInv, EachItemOnce
<1> QED BY <1>1, <1>2, <1>3

LEMMA StepInv == IInv /\ [PoolNext]_fanVars => IInv'
<1> SUFFICES ASSUME IInv, [PoolNext]_fanVars PROVE IInv'
  OBVIOUS
<1>1. CASE UNCHANGED fanVars
  BY <1>1 DEF fanVars, IInv, PoolTypeOK, StateInv, FilledInv, EachItemOnce, Hands
<1>2. CASE PoolNext
  BY <1>2, CallInv, LaunchInv, FinishInv, ThrowInv, SettleInv DEF PoolNext
<1> QED BY <1>1, <1>2

\* The types, and the inductive invariant, hold in every reachable state.
THEOREM PoolInvariant == PoolSpec => []IInv
  BY InitInv, StepInv, PTL DEF PoolSpec

\* The fan-out gives every item to one worker and loses none.
THEOREM EachItemOnceHolds == PoolSpec => []EachItemOnce
<1>1. IInv => EachItemOnce
  BY DEF IInv
<1> QED BY <1>1, PoolInvariant, PTL

\* When no worker is left at work, every item has its result.
LEMMA ReturnedIsComplete ==
  ASSUME IInv, promise # "idle", AllReturned
  PROVE  filled = 0..(len - 1)
<1> USE DEF IInv, AllReturned
<1>1. Hands = {}
  BY DEF Hands, StateInv
<1>2. len = 0 \/ next >= len
  BY PoolAssumption DEF StateInv, PoolTypeOK, Workers
<1>3. \A i \in 0..(len - 1) : i < next
  BY <1>2 DEF PoolTypeOK
<1>4. \A i \in 0..(len - 1) : i \in filled
  BY <1>1, <1>3 DEF EachItemOnce
<1>5. filled \subseteq 0..(len - 1)
  <2> SUFFICES ASSUME NEW i \in filled PROVE i \in 0..(len - 1)
    OBVIOUS
  <2>1. i \in Nat /\ i < len /\ len \in Nat
    BY PoolAssumption DEF FilledInv, PoolTypeOK
  <2> QED BY <2>1
<1>6. 0..(len - 1) \subseteq filled
  BY <1>4
<1> QED BY <1>5, <1>6

LEMMA CompleteByInv == IInv => ResolvedIsComplete
  BY ReturnedIsComplete DEF IInv, StateInv, AllReturned, ResolvedIsComplete

\* A fan-out that resolves has settled all its items.
THEOREM ResolvedIsCompleteHolds == PoolSpec => []ResolvedIsComplete
  BY CompleteByInv, PoolInvariant, PTL

------------------------------------------------------------------------------
(* The refinement.  The abstract item sets are images of workers; a worker *)
(* that finishes swaps its item for the next one, and EachItemOnce tells   *)
(* that the item leaves nobody else's hand.                                *)

\* Any set of workers holds no more than Limit items.
LEMMA HeldByFew ==
  ASSUME NEW W \in SUBSET Workers, NEW g \in [Workers -> Nat]
  PROVE  Cardinality({g[w] : w \in W}) <= Limit
<1> DEFINE S == {g[w] : w \in W}
           f == [w \in W |-> g[w]]
<1>1. IsFiniteSet(Workers) /\ Cardinality(Workers) = Limit
  BY PoolAssumption, FS_Interval DEF Workers
<1>2. IsFiniteSet(W) /\ Cardinality(W) <= Limit
  BY <1>1, FS_Subset
<1>3. f \in Surjection(W, S)
  BY DEF Surjection
<1>4. IsFiniteSet(S) /\ Cardinality(S) <= Cardinality(W)
  BY <1>2, <1>3, FS_Surjection
<1>5. Cardinality(S) \in Nat /\ Cardinality(W) \in Nat
  BY <1>2, <1>4, FS_CardinalityType
<1> QED BY <1>2, <1>4, <1>5, PoolAssumption

LEMMA RefineInit == PoolInit => Abstract!Init
<1> SUFFICES ASSUME PoolInit PROVE Abstract!Init
  OBVIOUS
<1>1. Busy = {} /\ Thrown = {}
  BY DEF PoolInit, Busy, Thrown
<1> QED BY <1>1 DEF PoolInit, Abstract!Init

\* A worker that draws an index takes it out of the items to do and, when it is
\* an item, adds it to those in flight.
LEMMA DrawRefines ==
  ASSUME IInv, NEW w \in Workers, TakeIndex(w), len' = len,
         st[w] \in {"new", "busy"}
  PROVE  LET new == IF next < len THEN {next} ELSE {} IN
         /\ new \subseteq {i \in 0..(len - 1) : i >= next}
         /\ {i \in 0..(len' - 1) : i >= next'}
              = {i \in 0..(len - 1) : i >= next} \ new
         /\ {ix'[v] : v \in Busy'} = {ix[v] : v \in Busy \ {w}} \cup new
         /\ {ix'[v] : v \in Thrown'} = {ix[v] : v \in Thrown}
<1> USE DEF IInv
<1> DEFINE new == IF next < len THEN {next} ELSE {}
<1>1. next \in Nat /\ len \in Nat /\ next' = next + 1
  BY DrawTypes, PoolAssumption DEF PoolTypeOK
<1>2. new \subseteq {i \in 0..(len - 1) : i >= next}
  BY <1>1
<1>3. {i \in 0..(len' - 1) : i >= next'} = {i \in 0..(len - 1) : i >= next} \ new
  BY <1>1
<1>4. Thrown' = Thrown /\ \A v \in Thrown : ix'[v] = ix[v]
  BY DrawTypes DEF Thrown
<1>5. Busy' = (Busy \ {w}) \cup (IF next < len THEN {w} ELSE {})
  BY DrawTypes DEF Busy
<1>6. \A v \in Busy \ {w} : ix'[v] = ix[v]
  BY DrawTypes DEF Busy
<1>7. {ix'[v] : v \in Busy'} = {ix[v] : v \in Busy \ {w}} \cup new
  BY <1>5, <1>6, DrawTypes
<1> QED BY <1>2, <1>3, <1>4, <1>7

LEMMA SameCardinality == \A S : Abstract!Cardinality(S) = Cardinality(S)
  BY DEF Cardinality, Abstract!Cardinality

LEMMA LaunchRefines ==
  ASSUME IInv, PoolTypeOK', NEW w \in Workers, Launch(w)
  PROVE  Abstract!Advance
<1> DEFINE new == IF next < len THEN {next} ELSE {}
<1>1. Busy \ {w} = Busy /\ TakeIndex(w) /\ len' = len
  BY DEF Launch, Busy
<1>2. /\ new \subseteq {i \in 0..(len - 1) : i >= next}
      /\ {i \in 0..(len' - 1) : i >= next'}
           = {i \in 0..(len - 1) : i >= next} \ new
      /\ {ix'[v] : v \in Busy'} = {ix[v] : v \in Busy} \cup new
      /\ {ix'[v] : v \in Thrown'} = {ix[v] : v \in Thrown}
  BY <1>1, DrawRefines DEF Launch
<1>3. Abstract!Cardinality({ix'[v] : v \in Busy'}) <= Limit
  <2>1. Busy' \subseteq Workers /\ ix' \in [Workers -> Nat]
    BY DEF Busy, PoolTypeOK
  <2> QED BY <2>1, HeldByFew, SameCardinality
<1>4. /\ {} \subseteq {ix[v] : v \in Busy}
      /\ {ix'[v] : v \in Busy'} = ({ix[v] : v \in Busy} \ {}) \cup new
      /\ filled' = filled \cup {}
  BY <1>2 DEF Launch
<1> HIDE DEF new
<1> QED BY <1>1, <1>2, <1>3, <1>4 DEF Abstract!Advance, Launch

LEMMA FinishRefines ==
  ASSUME IInv, PoolTypeOK', NEW w \in Workers, Finish(w)
  PROVE  Abstract!Advance
<1> DEFINE new == IF next < len THEN {next} ELSE {}
<1>1. w \in Busy /\ TakeIndex(w) /\ len' = len /\ filled' = filled \cup {ix[w]}
  BY DEF Finish, Busy
<1>2. {ix[v] : v \in Busy \ {w}} = {ix[v] : v \in Busy} \ {ix[w]}
  BY <1>1 DEF IInv, EachItemOnce, Busy, Hands
<1>3. /\ new \subseteq {i \in 0..(len - 1) : i >= next}
      /\ {i \in 0..(len' - 1) : i >= next'}
           = {i \in 0..(len - 1) : i >= next} \ new
      /\ {ix'[v] : v \in Busy'} = ({ix[v] : v \in Busy} \ {ix[w]}) \cup new
      /\ {ix'[v] : v \in Thrown'} = {ix[v] : v \in Thrown}
  BY <1>1, <1>2, DrawRefines DEF Finish
<1>4. Abstract!Cardinality({ix'[v] : v \in Busy'}) <= Limit
  <2>1. Busy' \subseteq Workers /\ ix' \in [Workers -> Nat]
    BY DEF Busy, PoolTypeOK
  <2> QED BY <2>1, HeldByFew, SameCardinality
<1>5. {ix[w]} \subseteq {ix[v] : v \in Busy}
  BY <1>1
<1> HIDE DEF new
<1> QED BY <1>1, <1>3, <1>4, <1>5 DEF Abstract!Advance, Finish

LEMMA ThrowRefines ==
  ASSUME IInv, NEW w \in Workers, Throw(w)
  PROVE  Abstract!Break
<1>1. w \in Busy /\ Busy' = Busy \ {w} /\ Thrown' = Thrown \cup {w}
  BY DEF Throw, Busy, Thrown, IInv, PoolTypeOK
<1>2. {ix[v] : v \in Busy \ {w}} = {ix[v] : v \in Busy} \ {ix[w]}
  BY <1>1 DEF IInv, EachItemOnce, Busy, Hands
<1>3. {ix'[v] : v \in Busy'} = {ix[v] : v \in Busy} \ {ix[w]}
  BY <1>1, <1>2 DEF Throw
<1>4. {ix'[v] : v \in Thrown'} = {ix[v] : v \in Thrown} \cup {ix[w]}
  BY <1>1 DEF Throw
<1> QED BY <1>1, <1>3, <1>4 DEF Abstract!Break, Throw

LEMMA CallRefines ==
  ASSUME NEW n \in 0..MaxItems, Call(n)
  PROVE  Abstract!Begin(n)
<1>1. Busy' = {} /\ Thrown' = {}
  BY DEF Call, Busy, Thrown
<1>2. {i \in 0..(len' - 1) : i >= next'} = 0..(n - 1)
  BY PoolAssumption DEF Call
<1> QED BY <1>1, <1>2 DEF Abstract!Begin, Call

LEMMA ResolveRefines ==
  ASSUME IInv, Resolve
  PROVE  Abstract!Resolve
<1>1. Busy = {} /\ Thrown = {}
  BY DEF Resolve, AllReturned, Busy, Thrown
<1>2. len = 0 \/ next >= len
  BY PoolAssumption DEF IInv, StateInv, PoolTypeOK, Workers, Resolve, AllReturned
<1>3. {i \in 0..(len - 1) : i >= next} = {}
  <2>1. next \in Nat /\ len \in Nat
    BY PoolAssumption DEF IInv, PoolTypeOK
  <2> QED BY <1>2, <2>1
<1>4. Busy' = Busy /\ Thrown' = Thrown
  BY DEF Resolve, Busy, Thrown
<1> QED BY <1>1, <1>3, <1>4 DEF Abstract!Resolve, Resolve

LEMMA RejectRefines ==
  ASSUME Reject
  PROVE  Abstract!Reject
<1>1. Busy' = Busy /\ Thrown' = Thrown /\ Thrown # {}
  BY DEF Reject, Busy, Thrown
<1> QED BY <1>1 DEF Abstract!Reject, Reject

LEMMA RefineStep ==
  IInv /\ IInv' /\ [PoolNext]_fanVars => [Abstract!Next]_(Abstract!poolVars)
<1> SUFFICES ASSUME IInv, IInv', [PoolNext]_fanVars
             PROVE  [Abstract!Next]_(Abstract!poolVars)
  OBVIOUS
<1>1. CASE UNCHANGED fanVars
  BY <1>1 DEF fanVars, Abstract!poolVars, Busy, Thrown
<1>2. CASE PoolNext
  <2>1. CASE \E n \in 0..MaxItems : Call(n)
    BY <2>1, CallRefines DEF Abstract!Next
  <2>2. CASE \E w \in Workers : Launch(w) \/ Finish(w) \/ Throw(w)
    BY <2>2, LaunchRefines, FinishRefines, ThrowRefines DEF Abstract!Next, IInv
  <2>3. CASE Resolve \/ Reject
    BY <2>3, ResolveRefines, RejectRefines DEF Abstract!Next
  <2> QED BY <1>2, <2>1, <2>2, <2>3 DEF PoolNext
<1> QED BY <1>1, <1>2

\* The fan-out is a bounded pool: an item is started at most once, no more than
\* Limit are in flight, and the promise settles as the pool's outcome may.
THEOREM FanOutImplementsBoundedPool == PoolSpec => ImplementsBoundedPool
<1>1. PoolSpec => []IInv
  BY PoolInvariant
<1> QED BY <1>1, RefineInit, RefineStep, PTL
        DEF PoolSpec, ImplementsBoundedPool, Abstract!Spec

(***************************************************************************)
(* The per-run cap of model calls, for any number of workers, impacts,     *)
(* findings and any cap: the slot is reserved in the step in which the     *)
(* gate is read, so the workers cannot overshoot the cap together.  What   *)
(* makes the argument go through is that the reservations in memory are    *)
(* all the calls that guardedCall ever issued, those of a failed run's     *)
(* surviving workers included.                                             *)
(***************************************************************************)
CounterTypes ==
  /\ spend \in [calls : Nat, spent : Nat]
  /\ tally \in [loaded : Nat, made : Nat, attempted : Nat, returned : Nat, rows : Nat]
  /\ units \in Nat
  /\ recorded \in Nat
  /\ cost \in [Workers -> Nat]

\* Nothing was called before the spend state was loaded, and from then on the
\* reserved slots are the calls that went through the gate.
Reserved ==
  /\ phase = "load" => /\ tally.made = 0 /\ tally.attempted = 0
                       /\ \A w \in Workers : st[w] = "absent"
  /\ phase \in {"load", "extract", "patch", "patched", "falsify", "persist", "end"}
  /\ spend.calls = tally.made - tally.attempted
  /\ spend.calls <= MaxCalls

CapInv == CounterTypes /\ Reserved

------------------------------------------------------------------------------
LEMMA LesserNat == ASSUME NEW a \in Nat, NEW b \in Nat PROVE Lesser(a, b) \in Nat
  BY DEF Lesser

LEMMA CapInit == Init => CapInv
  BY BudgetAssumption DEF Init, PoolInit, CapInv, CounterTypes, Reserved

LEMMA BeginCap ==
  ASSUME CapInv, NEW w \in Workers, Begin(w),
         UNCHANGED <<phase, units, cost, recorded>>, phase # "load"
  PROVE  CapInv'
<1> USE DEF CapInv, CounterTypes, Reserved
<1>1. CASE UNCHANGED <<spend, tally>>
  BY <1>1
<1>2. CASE /\ ~GateClosed
           /\ spend' = [spend EXCEPT !.calls = @ + 1]
           /\ tally' = [tally EXCEPT !.made = @ + 1]
  BY <1>2, BudgetAssumption DEF GateClosed
<1> QED BY <1>1, <1>2 DEF Begin

LEMMA WorkerCap ==
  ASSUME CapInv, NEW w \in Workers, WorkerStep(w)
  PROVE  CapInv'
<1> USE DEF CapInv
<1>0. st[w] \in {"new", "busy"} /\ phase # "load"
  BY DEF WorkerStep, LaunchWorker, Launch, CallReturns, CallThrows, Throw,
     RowInserted, ImpactAnswered, ImpactStarved, FindingAnswered,
     FindingStarved, HandlerReturns, Finish, Reserved
<1>1. CASE LaunchWorker(w)
  BY <1>0, <1>1, BeginCap DEF LaunchWorker
<1>2. CASE \E c \in Costs : CallReturns(w, c)
  BY <1>0, <1>2, BudgetAssumption
     DEF CallReturns, Accrue, Costs, CounterTypes, Reserved
<1>3. CASE CallThrows(w)
  BY <1>0, <1>3 DEF CallThrows, Throw, CounterTypes, Reserved
<1>4. CASE RowInserted(w)
  BY <1>0, <1>4 DEF RowInserted, CounterTypes, Reserved
<1>5. CASE \/ \E reply \in Reply : ImpactAnswered(w, reply)
           \/ ImpactStarved(w)
           \/ \E v \in {"stands", "refuted", "refusal"} : FindingAnswered(w, v)
           \/ FindingStarved(w)
  <2>1. HandlerReturns(w)
    BY <1>5 DEF ImpactAnswered, ImpactStarved, FindingAnswered, FindingStarved
  <2> QED BY <1>0, <2>1, BeginCap DEF HandlerReturns
<1> QED BY <1>1, <1>2, <1>3, <1>4, <1>5 DEF WorkerStep

LEMMA ExtractCap ==
  ASSUME CapInv, NEW w \in Workers, ExtractStep(w)
  PROVE  CapInv'
<1> USE DEF CapInv, CounterTypes, Reserved
<1>1. CASE \E c \in Costs : ExtractReturn(w, c)
  BY <1>1, BudgetAssumption DEF ExtractReturn, Costs
<1>2. CASE ExtractReject(w)
  BY <1>2 DEF ExtractReject
<1>3. CASE ExtractAccrue(w)
  BY <1>3 DEF ExtractAccrue, Accrue
<1>4. CASE ExtractRecorded(w)
  BY <1>4 DEF ExtractRecorded
<1>5. CASE ExtractRecordFails(w)
  BY <1>5 DEF ExtractRecordFails
<1> QED BY <1>1, <1>2, <1>3, <1>4, <1>5 DEF ExtractStep

LEMMA RunCap ==
  ASSUME CapInv, RunStep
  PROVE  CapInv'
<1> USE DEF CapInv, CounterTypes, Reserved
<1>1. CASE LoadSpendState
  BY <1>1, BudgetAssumption, LesserNat DEF LoadSpendState
<1>2. CASE ExtractBatch
  <2>1. BatchSize \in Nat /\ BatchSize <= units
    BY PoolAssumption DEF BatchSize, Lesser
  <2>2. /\ tally' = [tally EXCEPT !.made = @ + BatchSize,
                                 !.attempted = @ + BatchSize]
        /\ units' = units - BatchSize
        /\ UNCHANGED <<phase, spend, recorded, cost>> /\ phase = "extract"
    BY <1>2 DEF ExtractBatch
  <2> DEFINE m == tally.made + BatchSize
             a == tally.attempted + BatchSize
  <2>3. m \in Nat /\ a \in Nat /\ m - a = tally.made - tally.attempted
    BY <2>1
  <2>4. tally' = [tally EXCEPT !.made = m, !.attempted = a]
    BY <2>2
  <2>5. /\ tally' \in [loaded : Nat, made : Nat, attempted : Nat, returned : Nat, rows : Nat]
        /\ tally'.made = m /\ tally'.attempted = a
    <3> HIDE DEF m, a
    <3> QED BY <2>3, <2>4
  <2> QED BY <2>1, <2>2, <2>3, <2>5
<1>3. CASE EnterPatch
  BY <1>3 DEF EnterPatch
<1>4. CASE EnterFalsify
  BY <1>4 DEF EnterFalsify
<1>5. CASE FanOutResolves \/ FanOutRejects
  BY <1>5 DEF FanOutResolves, FanOutRejects, Resolve, Reject
<1>6. CASE Persist \/ StoreFails
  BY <1>6 DEF Persist, StoreFails, fanVars
<1> QED BY <1>1, <1>2, <1>3, <1>4, <1>5, <1>6 DEF RunStep

LEMMA CapStep == CapInv /\ [Next]_vars => CapInv'
<1> SUFFICES ASSUME CapInv, [Next]_vars PROVE CapInv'
  OBVIOUS
<1>1. CASE UNCHANGED vars
  BY <1>1 DEF vars, runVars, fanVars, CapInv, CounterTypes, Reserved
<1>2. CASE Next
  BY <1>2, RunCap, WorkerCap, ExtractCap DEF Next
<1> QED BY <1>1, <1>2

\* A run issues at most MaxCalls calls through guardedCall, however its workers
\* interleave and whichever of them throw.
THEOREM CapHolds == Spec => []GuardedCallsWithinCap
<1>1. CapInv => GuardedCallsWithinCap
  BY DEF CapInv, CounterTypes, Reserved, GuardedCallsWithinCap
<1> QED BY <1>1, CapInit, CapStep, PTL DEF Spec

(***************************************************************************)
(* A run is a fan-out and its caller: the theorems about PoolSpec hold of  *)
(* every run.                                                              *)
(***************************************************************************)
LEMMA WorkFinite ==
  ASSUME NEW a
  PROVE  /\ WorkOf(a) \subseteq ImpactIds
         /\ IsFiniteSet(WorkOf(a)) /\ Cardinality(WorkOf(a)) \in Nat
<1>1. IsFiniteSet(ImpactIds)
  BY BudgetAssumption, FS_Interval DEF ImpactIds
<1>2. WorkOf(a) \in SUBSET ImpactIds
  BY DEF WorkOf
<1> QED BY <1>1, <1>2, FS_Subset, FS_CardinalityType

\* The listing of a finite set of numbers names each of them once.
LEMMA ListingIsAll ==
  ASSUME NEW S, S \subseteq Nat, IsFiniteSet(S), NEW s \in Listing(S)
  PROVE  /\ s \in Seq(S) /\ Len(s) = Cardinality(S) /\ DOMAIN s = 1..Cardinality(S)
         /\ \A j, k \in 1..Cardinality(S) : s[j] = s[k] => j = k
         /\ \A i \in S : \E j \in 1..Cardinality(S) : s[j] = i
<1> DEFINE n == Cardinality(S)
<1>1. n \in Nat
  BY FS_CardinalityType
<1>2. s \in [1..n -> S] /\ \A j, k \in 1..n : j < k => s[j] < s[k]
  BY DEF Listing
<1>3. s \in Seq(S) /\ Len(s) = n
  BY <1>1, <1>2
<1>4. ASSUME NEW j \in 1..n, NEW k \in 1..n, s[j] = s[k] PROVE j = k
  <2>1. s[j] \in Nat /\ s[k] \in Nat
    BY <1>2, <1>4
  <2>2. j < k \/ k < j \/ j = k
    BY <1>1, <1>4
  <2> QED BY <1>2, <1>4, <2>1, <2>2
<1>5. s \in Injection(1..n, S)
  BY <1>2, <1>4 DEF Injection, IsInjective
<1>6. Cardinality(1..n) = n
  BY <1>1, FS_Interval
<1>7. s \in Surjection(1..n, S)
  BY <1>5, <1>6, FS_Injection
<1>8. \A i \in S : \E j \in 1..n : s[j] = i
  BY <1>7 DEF Surjection
<1> QED BY <1>2, <1>3, <1>4, <1>8

Workable == WorkOf("GROUNDED_PATCH") \cup WorkOf("EDITORIAL_REVIEW")

\* A list that names every element of S once.
Enumerates(s, S) ==
  /\ s \in Seq(S)
  /\ \A j, k \in 1..Len(s) : s[j] = s[k] => j = k
  /\ \A i \in S : \E j \in 1..Len(s) : s[j] = i

\* Two listings of disjoint sets, one after the other.
LEMMA JoinedListings ==
  ASSUME NEW G, NEW E, G \subseteq Nat, E \subseteq Nat, G \cap E = {},
         IsFiniteSet(G), IsFiniteSet(E), NEW g \in Listing(G), NEW e \in Listing(E)
  PROVE  /\ Enumerates(g \o e, G \cup E)
         /\ Len(g \o e) = Cardinality(G) + Cardinality(E)
<1> DEFINE n == Cardinality(G)
           m == Cardinality(E)
           s == g \o e
<1>1. n \in Nat /\ m \in Nat
  BY FS_CardinalityType
<1>2. /\ g \in Seq(G) /\ Len(g) = n /\ DOMAIN g = 1..n
      /\ \A j, k \in 1..n : g[j] = g[k] => j = k
      /\ \A i \in G : \E j \in 1..n : g[j] = i
  BY ListingIsAll
<1>3. /\ e \in Seq(E) /\ Len(e) = m /\ DOMAIN e = 1..m
      /\ \A j, k \in 1..m : e[j] = e[k] => j = k
      /\ \A i \in E : \E j \in 1..m : e[j] = i
  BY ListingIsAll
<1> HIDE DEF n, m
<1>4. g \in Seq(G \cup E) /\ e \in Seq(G \cup E)
  BY <1>2, <1>3
<1>5. s \in Seq(G \cup E) /\ Len(s) = n + m
  BY <1>2, <1>3, <1>4
<1>6. \A j \in 1..(n + m) : s[j] = IF j <= n THEN g[j] ELSE e[j - n]
  BY <1>1, <1>2, <1>3, <1>4
<1>7. (\A j \in 1..n : g[j] \in G) /\ (\A j \in 1..m : e[j] \in E)
  BY <1>1, <1>2, <1>3
<1>8. \A j \in 1..(n + m) : \/ j \in 1..n /\ s[j] = g[j]
                            \/ j \notin 1..n /\ j - n \in 1..m /\ s[j] = e[j - n]
  <2> HIDE DEF s
  <2>1. TAKE j \in 1..(n + m)
  <2>2. CASE j <= n
    BY <2>2, <1>1, <1>6
  <2>3. CASE j > n
    BY <2>3, <1>1, <1>6
  <2> QED BY <2>2, <2>3, <1>1
<1> HIDE DEF s
<1>9. ASSUME NEW j \in 1..(n + m), NEW k \in 1..(n + m), s[j] = s[k] PROVE j = k
  <2>1. CASE j \in 1..n /\ k \in 1..n
    BY <2>1, <1>2, <1>8, <1>9
  <2>2. CASE j \notin 1..n /\ k \notin 1..n
    <3>1. j - n \in 1..m /\ k - n \in 1..m /\ e[j - n] = e[k - n]
      BY <2>2, <1>8, <1>9
    <3>2. j - n = k - n
      BY <3>1, <1>3
    <3> QED BY <3>2, <1>1
  <2>3. CASE j \in 1..n /\ k \notin 1..n
    BY <2>3, <1>7, <1>8, <1>9
  <2>4. CASE j \notin 1..n /\ k \in 1..n
    BY <2>4, <1>7, <1>8, <1>9
  <2> QED BY <2>1, <2>2, <2>3, <2>4
<1>10. ASSUME NEW i \in G \cup E PROVE \E j \in 1..(n + m) : s[j] = i
  <2>1. CASE i \in G
    <3>1. PICK j \in 1..n : g[j] = i
      BY <2>1, <1>2
    <3>2. j \in 1..(n + m)
      BY <1>1
    <3> QED BY <3>1, <3>2, <1>8
  <2>2. CASE i \in E
    <3>1. PICK j \in 1..m : e[j] = i
      BY <2>2, <1>3
    <3>2. j + n \in 1..(n + m) /\ j + n \notin 1..n /\ (j + n) - n = j
      BY <1>1
    <3> QED BY <3>1, <3>2, <1>8
  <2> QED BY <2>1, <2>2, <1>10
<1>11. Enumerates(s, G \cup E)
  BY <1>5, <1>9, <1>10 DEF Enumerates
<1> QED BY <1>5, <1>11 DEF s, n, m

LEMMA WorkIsList ==
  ASSUME NEW g \in Listing(WorkOf("GROUNDED_PATCH")),
         NEW e \in Listing(WorkOf("EDITORIAL_REVIEW"))
  PROVE  Enumerates(g \o e, Workable) /\ Len(g \o e) \in 0..MaxItems
<1>1. PICK G, E : G = WorkOf("GROUNDED_PATCH") /\ E = WorkOf("EDITORIAL_REVIEW")
  OBVIOUS
<1>2. /\ G \subseteq ImpactIds /\ E \subseteq ImpactIds
      /\ IsFiniteSet(G) /\ IsFiniteSet(E)
      /\ Cardinality(G) \in Nat /\ Cardinality(E) \in Nat
  BY <1>1, WorkFinite
<1>3. G \cap E = {}
  BY <1>1 DEF WorkOf
<1>4. Workable = G \cup E
  BY <1>1 DEF Workable
<1>5. G \subseteq Nat /\ E \subseteq Nat
  BY <1>2 DEF ImpactIds
<1>6. g \in Listing(G) /\ e \in Listing(E)
  BY <1>1
<1>7. Cardinality(G) + Cardinality(E) <= MaxItems
  <2>1. IsFiniteSet(ImpactIds) /\ Cardinality(ImpactIds) = NImpacts
    BY BudgetAssumption, FS_Interval DEF ImpactIds
  <2>2. Cardinality(G \cup E) = Cardinality(G) + Cardinality(E) - Cardinality({})
    BY <1>2, <1>3, FS_Union
  <2>3. Cardinality(G \cup E) <= NImpacts
    BY <1>2, <2>1, FS_Subset
  <2> QED BY <1>2, <2>2, <2>3, FS_EmptySet, BudgetAssumption, PoolAssumption
<1>8. /\ Enumerates(g \o e, G \cup E)
      /\ Len(g \o e) = Cardinality(G) + Cardinality(E)
  BY <1>2, <1>3, <1>5, <1>6, JoinedListings
<1>9. Len(g \o e) \in 0..MaxItems
  BY <1>2, <1>7, <1>8
<1> QED BY <1>4, <1>8, <1>9

LEMMA RunStepIsFanOut == [Next]_vars => [PoolNext]_fanVars
<1> SUFFICES ASSUME [Next]_vars PROVE [PoolNext]_fanVars
  OBVIOUS
<1>1. CASE UNCHANGED vars
  BY <1>1 DEF vars
<1>2. CASE EnterPatch
  <2>1. CASE UNCHANGED fanVars
    BY <2>1
  <2>2. CASE ~UNCHANGED fanVars
    <3>1. PICK g \in Listing(WorkOf("GROUNDED_PATCH")),
               e \in Listing(WorkOf("EDITORIAL_REVIEW")) :
                 work' = g \o e /\ Call(Len(work'))
      BY <1>2, <2>2 DEF EnterPatch
    <3>2. Len(work') \in 0..MaxItems
      BY <3>1, WorkIsList
    <3> QED BY <3>1, <3>2 DEF PoolNext
  <2> QED BY <2>1, <2>2
<1>3. CASE EnterFalsify
  BY <1>3, BudgetAssumption DEF EnterFalsify, PoolNext
<1>4. CASE FanOutResolves \/ FanOutRejects
  BY <1>4 DEF FanOutResolves, FanOutRejects, PoolNext
<1>5. CASE LoadSpendState \/ ExtractBatch \/ Persist \/ StoreFails
  BY <1>5 DEF LoadSpendState, ExtractBatch, Persist, StoreFails
<1>6. ASSUME NEW w \in Workers, WorkerStep(w) PROVE [PoolNext]_fanVars
  <2>1. Launch(w) \/ Finish(w) \/ Throw(w) \/ UNCHANGED fanVars
    BY <1>6 DEF WorkerStep, LaunchWorker, CallReturns, CallThrows, RowInserted,
       ImpactAnswered, ImpactStarved, FindingAnswered, FindingStarved, HandlerReturns
  <2> QED BY <2>1 DEF PoolNext
<1>7. ASSUME NEW w \in Workers, ExtractStep(w) PROVE UNCHANGED fanVars
  BY <1>7 DEF ExtractStep, ExtractReturn, ExtractReject, ExtractAccrue, ExtractRecorded,
     ExtractRecordFails
<1> QED BY <1>1, <1>2, <1>3, <1>4, <1>5, <1>6, <1>7 DEF Next, RunStep

\* A run calls mapConcurrent as any caller may.
THEOREM RunIsAFanOut == Spec => PoolSpec
<1>1. Init => PoolInit
  BY DEF Init
<1> QED BY <1>1, RunStepIsFanOut, PTL DEF Spec, PoolSpec

(***************************************************************************)
(* Where a run stands.                                                     *)
(***************************************************************************)
Slot == {"none", "calling", "settled", "recording", "answered", "skipped"}
Phase == {"load", "extract", "patch", "patched", "falsify", "persist", "end"}
Fanning == {"patch", "falsify"}

\* What the phase says about the fan-out, the slots and the status.
PhaseInv ==
  /\ phase \in Phase /\ client \in BOOLEAN /\ exhausted \in BOOLEAN
  /\ status \in {"running", "failed", "completed", "partial"}
  /\ call \in [Workers -> Slot]
  /\ phase \in {"load", "extract"} => promise = "idle"
  /\ phase \in {"patched", "persist", "end"} => promise \in {"idle", "resolved"}
  /\ phase \in Fanning =>
       /\ promise \in {"pending", "rejected"}
       /\ \A w \in Workers : /\ call[w] # "settled"
                             /\ st[w] = "busy" <=> call[w] # "none"
  /\ phase \in {"load", "patched", "persist", "end"} =>
       \A w \in Workers : call[w] = "none"
  /\ phase = "extract" =>
       \A w \in Workers : call[w] \in {"none", "calling", "settled", "recording"}
  /\ phase = "patched" => status = "running"
  /\ promise = "pending" => status = "running"
  /\ promise = "rejected" => status = "failed"
  /\ Finished <=> phase = "end"

LEMMA PhaseStart == Init => PhaseInv
  BY DEF Init, PoolInit, PhaseInv, Phase, Slot, Fanning, Finished

\* A worker moves inside one of the two fan-outs, and only its own slot changes.
LEMMA WorkerMoves ==
  ASSUME IInv, PhaseInv, NEW w \in Workers, WorkerStep(w)
  PROVE  /\ phase \in Fanning /\ promise \in {"pending", "rejected"}
         /\ st[w] \in {"new", "busy"}
         /\ UNCHANGED <<phase, status, client, work, units, len, promise>>
         /\ \E s \in Slot : call' = [call EXCEPT ![w] = s]
         /\ exhausted' \in {exhausted, TRUE}
<1>1. st[w] \in {"new", "busy"}
  BY DEF WorkerStep, LaunchWorker, Launch, CallReturns, CallThrows, Throw,
     RowInserted, ImpactAnswered, ImpactStarved, FindingAnswered,
     FindingStarved, HandlerReturns, Finish
<1>2. promise \in {"pending", "rejected"}
  BY <1>1 DEF IInv, StateInv, PoolTypeOK
<1>3. phase \in Fanning
  BY <1>2 DEF PhaseInv, Phase, Fanning
<1>4. UNCHANGED <<phase, status, client, work, units, len, promise>>
  BY DEF WorkerStep, LaunchWorker, Launch, CallReturns, CallThrows, Throw, fanVars,
     RowInserted, ImpactAnswered, ImpactStarved, FindingAnswered,
     FindingStarved, HandlerReturns, Finish
<1>5. \E s \in Slot : call' = [call EXCEPT ![w] = s]
  BY DEF WorkerStep, LaunchWorker, CallReturns, CallThrows, RowInserted, Begin, SlotIs,
     ImpactAnswered, ImpactStarved, FindingAnswered, FindingStarved, HandlerReturns, Slot
<1>6. exhausted' \in {exhausted, TRUE}
  BY DEF WorkerStep, LaunchWorker, CallReturns, CallThrows, RowInserted, Starve,
     ImpactAnswered, ImpactStarved, FindingAnswered, FindingStarved, HandlerReturns
<1> QED BY <1>1, <1>2, <1>3, <1>4, <1>5, <1>6

\* What a worker that draws an index does to its slot.
LEMMA BeginSlot ==
  ASSUME IInv, PhaseInv, NEW w \in Workers, TakeIndex(w), Begin(w)
  PROVE  /\ call' \in [Workers -> Slot]
         /\ call'[w] \in {"none", "calling", "skipped"}
         /\ call'[w] = "none" <=> st'[w] # "busy"
         /\ \A v \in Workers : v # w => call'[v] = call[v] /\ st'[v] = st[v]
<1>1. st'[w] = (IF next < len THEN "busy" ELSE "exited")
  BY DrawTypes DEF IInv
<1>2. \A v \in Workers : v # w => st'[v] = st[v]
  BY DrawTypes DEF IInv
<1>3. next \in Nat /\ len \in Nat
  BY PoolAssumption DEF IInv, PoolTypeOK
<1>4. \E s \in {"none", "calling", "skipped"} :
        call' = [call EXCEPT ![w] = s] /\ (s = "none" <=> next >= len)
  BY DEF Begin, SlotIs
<1> QED BY <1>1, <1>2, <1>3, <1>4 DEF PhaseInv, Slot

LEMMA WorkerPhase ==
  ASSUME IInv, PhaseInv, NEW w \in Workers, WorkerStep(w)
  PROVE  PhaseInv'
<1>1. /\ phase \in Fanning /\ promise \in {"pending", "rejected"}
      /\ UNCHANGED <<phase, status, client, promise>>
      /\ exhausted' \in BOOLEAN
  BY WorkerMoves DEF PhaseInv
<1>2. /\ call' \in [Workers -> Slot]
      /\ \A v \in Workers : call'[v] # "settled" /\ (st'[v] = "busy" <=> call'[v] # "none")
  <2>1. \A v \in Workers : call[v] # "settled" /\ (st[v] = "busy" <=> call[v] # "none")
    BY <1>1 DEF PhaseInv
  <2>2. CASE TakeIndex(w) /\ Begin(w)
    BY <2>1, <2>2, BeginSlot
  <2>3. CASE CallThrows(w)
    BY <2>1, <2>3 DEF CallThrows, Throw, SlotIs, PhaseInv, Slot, IInv, PoolTypeOK
  <2>4. CASE (\E c \in Costs : CallReturns(w, c)) \/ RowInserted(w)
    BY <2>1, <2>4 DEF CallReturns, RowInserted, SlotIs, PhaseInv, Slot, fanVars
  <2> QED BY <2>2, <2>3, <2>4 DEF WorkerStep, LaunchWorker, Launch, ImpactAnswered,
         ImpactStarved, FindingAnswered, FindingStarved, HandlerReturns, Finish
<1> QED BY <1>1, <1>2 DEF PhaseInv, Fanning, Finished, Phase

LEMMA ExtractPhase ==
  ASSUME PhaseInv, NEW w \in Workers, ExtractStep(w)
  PROVE  PhaseInv'
<1>1. /\ phase = "extract" /\ UNCHANGED <<phase, client, exhausted, promise>>
      /\ \/ status' = status
         \/ status = "running" /\ status' = "failed"
  BY DEF ExtractStep, ExtractReturn, ExtractReject, ExtractAccrue, ExtractRecorded,
     ExtractRecordFails, fanVars
<1>2. \E s \in {"none", "settled", "recording"} : call' = [call EXCEPT ![w] = s]
  BY DEF ExtractStep, ExtractReturn, ExtractReject, ExtractAccrue, ExtractRecorded,
     ExtractRecordFails, SlotIs
<1>3. /\ call' \in [Workers -> Slot]
      /\ \A v \in Workers : call'[v] \in {"none", "calling", "settled", "recording"}
  BY <1>1, <1>2 DEF PhaseInv, Slot
<1> QED BY <1>1, <1>3 DEF PhaseInv, Fanning, Finished

LEMMA RunPhase ==
  ASSUME IInv, PhaseInv, RunStep
  PROVE  PhaseInv'
<1> USE DEF PhaseInv, Phase, Slot, Fanning, Finished
<1>1. CASE LoadSpendState
  BY <1>1 DEF LoadSpendState, fanVars
<1>2. CASE ExtractBatch
  BY <1>2 DEF ExtractBatch, fanVars
<1>3. CASE EnterPatch
  <2>1. /\ phase = "extract" /\ status = "running" /\ promise = "idle"
        /\ \A v \in Workers : call[v] = "none"
        /\ UNCHANGED <<client, exhausted, status, call>>
    BY <1>3 DEF EnterPatch, IdleSlots
  <2>2. \/ UNCHANGED fanVars /\ phase' = "patched"
        \/ phase' = "patch" /\ \E n : Call(n)
    BY <1>3 DEF EnterPatch
  <2> QED BY <2>1, <2>2 DEF fanVars, Call
<1>4. CASE EnterFalsify
  BY <1>4 DEF EnterFalsify, fanVars, Call
<1>5. CASE FanOutResolves
  BY <1>5 DEF FanOutResolves, Resolve, AllReturned
<1>6. CASE FanOutRejects
  BY <1>6 DEF FanOutRejects, Reject
<1>7. CASE Persist \/ StoreFails
  BY <1>7 DEF Persist, StoreFails, fanVars
<1> QED BY <1>1, <1>2, <1>3, <1>4, <1>5, <1>6, <1>7 DEF RunStep

LEMMA PhaseStep == IInv /\ PhaseInv /\ [Next]_vars => PhaseInv'
<1> SUFFICES ASSUME IInv, PhaseInv, [Next]_vars PROVE PhaseInv'
  OBVIOUS
<1>1. CASE UNCHANGED vars
  BY <1>1 DEF vars, runVars, fanVars, PhaseInv, Finished
<1>2. CASE Next
  BY <1>2, RunPhase, WorkerPhase, ExtractPhase DEF Next
<1> QED BY <1>1, <1>2

(***************************************************************************)
(* The daily cap.  A call that is out may still cost MaxCost, so what      *)
(* counts is the money spent and due together: the gate lets a call out    *)
(* only below the cap, and no more than Limit calls are out at once.       *)
(***************************************************************************)
CostInv == \A w \in Workers : cost[w] <= MaxCost

Due == {w \in Workers : call[w] \in {"calling", "settled"}}
Exposed == spend.spent + MaxCost * Cardinality(Due)
Extracting == tally.loaded + MaxCost * tally.attempted

SpendInv ==
  /\ phase = "load" => tally.attempted = 0 /\ tally.loaded = 0 /\ spend.spent = 0
  /\ phase = "extract" => Exposed <= Extracting
  /\ phase # "load" => \/ Exposed <= Extracting
                       \/ Exposed <= DailyCap - 1 + MaxCost * Limit

LEMMA CostStart == Init => CostInv
  BY BudgetAssumption DEF Init, CostInv

LEMMA CostStep == CapInv /\ CostInv /\ [Next]_vars => CostInv'
<1> SUFFICES ASSUME CapInv, CostInv, [Next]_vars PROVE CostInv'
  OBVIOUS
<1>1. cost \in [Workers -> Nat]
  BY DEF CapInv, CounterTypes
<1>2. \/ cost' = cost
      \/ \E w \in Workers, c \in Costs : cost' = [cost EXCEPT ![w] = c]
  <2>1. CASE RunStep
    BY <2>1 DEF RunStep, LoadSpendState, ExtractBatch, EnterPatch, EnterFalsify,
       FanOutResolves, FanOutRejects, Persist, StoreFails
  <2>2. ASSUME NEW w \in Workers, WorkerStep(w) \/ ExtractStep(w)
        PROVE  cost' = cost \/ \E c \in Costs : cost' = [cost EXCEPT ![w] = c]
    BY <2>2 DEF WorkerStep, LaunchWorker, CallReturns, CallThrows, RowInserted,
       ImpactAnswered, ImpactStarved, FindingAnswered, FindingStarved,
       HandlerReturns, ExtractStep, ExtractReturn, ExtractReject, ExtractAccrue,
       ExtractRecorded, ExtractRecordFails
  <2>3. CASE UNCHANGED vars
    BY <2>3 DEF vars, runVars
  <2> QED BY <2>1, <2>2, <2>3 DEF Next
<1> QED BY <1>1, <1>2, BudgetAssumption DEF CostInv, Costs

LEMMA DueCount ==
  ASSUME NEW D \in SUBSET Workers
  PROVE  IsFiniteSet(D) /\ Cardinality(D) \in Nat /\ Cardinality(D) <= Limit
<1>1. IsFiniteSet(Workers) /\ Cardinality(Workers) = Limit
  BY PoolAssumption, FS_Interval DEF Workers
<1> QED BY <1>1, FS_Subset, FS_CardinalityType

\* What the calls out may cost, as calls go out and come back.
LEMMA DueMoney ==
  ASSUME NEW D \in SUBSET Workers, NEW E \in SUBSET Workers
  PROVE  /\ MaxCost * Cardinality(D) \in Nat
         /\ MaxCost * Cardinality(D) <= MaxCost * Limit
         /\ D \subseteq E => MaxCost * Cardinality(D) <= MaxCost * Cardinality(E)
         /\ \A w \in E : D = E \ {w} =>
              MaxCost * Cardinality(D) = MaxCost * Cardinality(E) - MaxCost
<1>1. ASSUME NEW a \in Nat, NEW b \in Nat, a <= b
      PROVE  MaxCost * a \in Nat /\ MaxCost * a <= MaxCost * b
  BY <1>1, BudgetAssumption
<1>2. ASSUME NEW a \in Nat, NEW b \in Nat, a = b - 1
      PROVE  MaxCost * a = MaxCost * b - MaxCost
  BY <1>2, BudgetAssumption
<1>3. /\ Cardinality(D) \in Nat /\ Cardinality(D) <= Limit
      /\ Cardinality(E) \in Nat /\ IsFiniteSet(E)
  BY DueCount
<1>4. D \subseteq E => Cardinality(D) <= Cardinality(E)
  BY <1>3, FS_Subset
<1>5. \A w \in E : D = E \ {w} => Cardinality(D) = Cardinality(E) - 1
  BY <1>3, FS_RemoveElement
<1> QED BY <1>1, <1>2, <1>3, <1>4, <1>5, PoolAssumption

LEMMA DueTypes ==
  ASSUME CapInv
  PROVE  /\ Due \in SUBSET Workers /\ Due' \in SUBSET Workers
         /\ spend.spent \in Nat /\ Exposed \in Int /\ Extracting \in Int
         /\ tally.loaded \in Nat /\ tally.attempted \in Nat
         /\ DailyCap - 1 + MaxCost * Limit \in Int
<1>1. Due \in SUBSET Workers /\ Due' \in SUBSET Workers
  BY DEF Due
<1>2. MaxCost * Cardinality(Due) \in Nat
  BY <1>1, DueMoney
<1>3. spend.spent \in Nat /\ tally.loaded \in Nat /\ tally.attempted \in Nat
  BY DEF CapInv, CounterTypes
<1>4. MaxCost * tally.attempted \in Nat /\ MaxCost * Limit \in Nat
  BY <1>3, BudgetAssumption, PoolAssumption
<1> QED BY <1>1, <1>2, <1>3, <1>4, BudgetAssumption DEF Exposed, Extracting

\* A step that sends nothing out and spends no more than what comes back.
LEMMA NotDearer ==
  ASSUME CapInv, CapInv', SpendInv, phase # "load", phase' # "load",
         phase' = "extract" => phase = "extract",
         tally'.loaded = tally.loaded, tally'.attempted = tally.attempted,
         Exposed' <= Exposed
  PROVE  SpendInv'
<1>1. MaxCost * Cardinality(Due') \in Nat /\ spend'.spent \in Nat
  BY DueTypes, DueMoney DEF CapInv, CounterTypes
<1>2. Extracting' = Extracting /\ Exposed' \in Int
  BY <1>1 DEF Extracting, Exposed
<1> QED BY <1>2, DueTypes DEF SpendInv

LEMMA NoDearer ==
  ASSUME CapInv, CapInv', SpendInv, phase # "load", phase' # "load",
         phase' = "extract" => phase = "extract",
         tally'.loaded = tally.loaded, tally'.attempted = tally.attempted,
         spend'.spent = spend.spent, Due' \subseteq Due
  PROVE  SpendInv'
<1>1. MaxCost * Cardinality(Due') <= MaxCost * Cardinality(Due)
  BY DueTypes, DueMoney
<1>2. MaxCost * Cardinality(Due') \in Nat /\ MaxCost * Cardinality(Due) \in Nat
  BY DueTypes, DueMoney
<1>3. Exposed' <= Exposed
  BY <1>1, <1>2, DueTypes DEF Exposed
<1> QED BY <1>3, NotDearer

\* A reply is in: what it cost is spent and no longer due.
LEMMA ReplySpend ==
  ASSUME CapInv, CapInv', SpendInv, phase # "load", phase' = phase,
         tally'.loaded = tally.loaded, tally'.attempted = tally.attempted,
         NEW w \in Due, NEW c \in Nat, c <= MaxCost,
         spend'.spent = spend.spent + c, Due' = Due \ {w}
  PROVE  SpendInv'
<1>1. MaxCost * Cardinality(Due') = MaxCost * Cardinality(Due) - MaxCost
  BY DueTypes, DueMoney
<1>2. MaxCost * Cardinality(Due') \in Nat /\ MaxCost * Cardinality(Due) \in Nat
  BY DueTypes, DueMoney
<1>3. Exposed' <= Exposed
  BY <1>1, <1>2, DueTypes, BudgetAssumption DEF Exposed
<1> QED BY <1>3, NotDearer

LEMMA BeginSpend ==
  ASSUME IInv, CapInv, CapInv', PhaseInv, SpendInv, NEW w \in Workers, w \notin Due,
         phase \in Fanning, phase' = phase, Begin(w)
  PROVE  SpendInv'
<1>1. CASE UNCHANGED <<spend, tally>> /\ (SlotIs(w, "none") \/ SlotIs(w, "skipped"))
  <2>1. Due' \subseteq Due
    BY <1>1 DEF SlotIs, Due, PhaseInv
  <2> QED BY <1>1, <2>1, NoDearer DEF Fanning
<1>2. CASE /\ ~GateClosed
           /\ spend' = [spend EXCEPT !.calls = @ + 1]
           /\ tally' = [tally EXCEPT !.made = @ + 1]
  <2>1. spend'.spent = spend.spent /\ spend.spent < DailyCap
    BY <1>2, DueTypes, BudgetAssumption DEF GateClosed, CapInv, CounterTypes
  <2>2. MaxCost * Cardinality(Due') <= MaxCost * Limit /\ MaxCost * Cardinality(Due') \in Nat
    BY DueTypes, DueMoney
  <2>3. Exposed' <= DailyCap - 1 + MaxCost * Limit
    <3>1. \A s, p, q \in Nat : s < DailyCap /\ p <= q => s + p <= DailyCap - 1 + q
      BY BudgetAssumption
    <3>2. spend.spent \in Nat /\ MaxCost * Limit \in Nat
      BY DueTypes, BudgetAssumption, PoolAssumption
    <3>3. Exposed' = spend.spent + MaxCost * Cardinality(Due')
      BY <2>1 DEF Exposed
    <3> QED BY <2>1, <2>2, <3>1, <3>2, <3>3
  <2> QED BY <2>3 DEF SpendInv, Fanning
<1> QED BY <1>1, <1>2 DEF Begin

LEMMA WorkerSpend ==
  ASSUME IInv, CapInv, CapInv', PhaseInv, SpendInv, NEW w \in Workers, WorkerStep(w)
  PROVE  SpendInv'
<1>1. phase \in Fanning /\ phase' = phase
  BY WorkerMoves
<1>2. \A v \in Workers : call[v] # "settled" /\ (st[v] = "busy" <=> call[v] # "none")
  BY <1>1 DEF PhaseInv
<1>3. CASE LaunchWorker(w)
  <2>1. w \notin Due
    BY <1>2, <1>3 DEF LaunchWorker, Launch, Due
  <2> QED BY <1>1, <1>3, <2>1, BeginSpend DEF LaunchWorker
<1>4. CASE \E c \in Costs : CallReturns(w, c)
  <2>1. PICK c \in Costs : CallReturns(w, c)
    BY <1>4
  <2>2. w \in Due /\ Due' = Due \ {w}
    BY <2>1 DEF CallReturns, SlotIs, Due, PhaseInv
  <2>3. /\ c \in Nat /\ c <= MaxCost
        /\ spend'.spent = spend.spent + c
        /\ tally'.loaded = tally.loaded /\ tally'.attempted = tally.attempted
    BY <2>1, BudgetAssumption DEF CallReturns, Accrue, Costs, CapInv, CounterTypes
  <2> QED BY <1>1, <2>2, <2>3, ReplySpend DEF Fanning
<1>5. CASE CallThrows(w)
  <2>1. Due' \subseteq Due
    BY <1>5 DEF CallThrows, SlotIs, Due, PhaseInv
  <2> QED BY <1>1, <1>5, <2>1, NoDearer DEF CallThrows, Fanning
<1>6. CASE RowInserted(w)
  <2>1. Due' \subseteq Due
    BY <1>6 DEF RowInserted, SlotIs, Due, PhaseInv
  <2>2. tally'.loaded = tally.loaded /\ tally'.attempted = tally.attempted
    BY <1>6 DEF RowInserted, CapInv, CounterTypes
  <2> QED BY <1>1, <1>6, <2>1, <2>2, NoDearer DEF RowInserted, Fanning
<1>7. CASE \/ \E reply \in Reply : ImpactAnswered(w, reply)
           \/ ImpactStarved(w)
           \/ \E v \in {"stands", "refuted", "refusal"} : FindingAnswered(w, v)
           \/ FindingStarved(w)
  <2>1. HandlerReturns(w) /\ w \notin Due
    BY <1>7 DEF ImpactAnswered, ImpactStarved, FindingAnswered, FindingStarved, Due
  <2> QED BY <1>1, <2>1, BeginSpend DEF HandlerReturns
<1> QED BY <1>3, <1>4, <1>5, <1>6, <1>7 DEF WorkerStep

LEMMA ExtractSpend ==
  ASSUME CapInv, CapInv', CostInv, PhaseInv, SpendInv, NEW w \in Workers, ExtractStep(w)
  PROVE  SpendInv'
<1>1. /\ phase = "extract" /\ phase' = phase
      /\ tally'.loaded = tally.loaded /\ tally'.attempted = tally.attempted
  BY DEF ExtractStep, ExtractReturn, ExtractReject, ExtractAccrue, ExtractRecorded,
     ExtractRecordFails, CapInv, CounterTypes
<1>2. CASE ExtractAccrue(w)
  <2>1. w \in Due /\ Due' = Due \ {w}
    BY <1>2 DEF ExtractAccrue, SlotIs, Due, PhaseInv
  <2>2. cost[w] \in Nat /\ cost[w] <= MaxCost /\ spend'.spent = spend.spent + cost[w]
    BY <1>2 DEF ExtractAccrue, Accrue, CostInv, CapInv, CounterTypes
  <2> QED BY <1>1, <2>1, <2>2, ReplySpend
<1>3. CASE ~ExtractAccrue(w)
  <2>1. spend' = spend
    BY <1>3 DEF ExtractStep, ExtractReturn, ExtractReject, ExtractRecorded,
       ExtractRecordFails
  <2>2. Due' \subseteq Due
    BY <1>3 DEF ExtractStep, ExtractReturn, ExtractReject, ExtractRecorded,
       ExtractRecordFails, SlotIs, Due, PhaseInv
  <2> QED BY <1>1, <2>1, <2>2, NoDearer
<1> QED BY <1>2, <1>3

LEMMA RunSpend ==
  ASSUME CapInv, CapInv', PhaseInv, SpendInv, RunStep
  PROVE  SpendInv'
<1>1. CASE LoadSpendState
  <2>1. Due' = {}
    BY <1>1 DEF LoadSpendState, PhaseInv, Due
  <2>2. MaxCost * Cardinality(Due') = 0
    BY <2>1, FS_EmptySet, BudgetAssumption
  <2>3. /\ spend'.spent = recorded /\ tally'.loaded = recorded
        /\ tally'.attempted = 0 /\ phase' = "extract" /\ recorded \in Nat
    BY <1>1 DEF LoadSpendState, CapInv, CounterTypes, SpendInv
  <2>4. Exposed' = recorded /\ Extracting' = recorded
    BY <2>2, <2>3, BudgetAssumption DEF Exposed, Extracting
  <2> QED BY <2>3, <2>4 DEF SpendInv
<1>2. CASE ExtractBatch
  <2> DEFINE k == BatchSize
  <2>1. k \in Nat /\ k <= Limit
    BY PoolAssumption DEF BatchSize, Lesser, CapInv, CounterTypes
  <2>2. /\ phase = "extract" /\ phase' = phase /\ spend' = spend
        /\ tally'.loaded = tally.loaded /\ tally'.attempted = tally.attempted + k
        /\ \A w \in Workers : call[w] = "none"
        /\ call' = [w \in Workers |-> IF w <= k THEN "calling" ELSE "none"]
    BY <1>2 DEF ExtractBatch, IdleSlots, CapInv, CounterTypes
  <2>3. Due = {} /\ Due' = 1..k
    <3>1. Due = {}
      BY <2>2 DEF Due
    <3>2. Due' = {w \in Workers : w <= k}
      BY <2>2 DEF Due
    <3> QED BY <2>1, <3>1, <3>2, PoolAssumption DEF Workers
  <2>4. Cardinality(Due) = 0 /\ Cardinality(Due') = k
    BY <2>1, <2>3, FS_EmptySet, FS_Interval
  <2>5. Exposed = spend.spent /\ Exposed' = spend.spent + MaxCost * k
    <3> HIDE DEF k
    <3> QED BY <2>2, <2>4, DueTypes, BudgetAssumption DEF Exposed
  <2>6. Extracting' = Extracting + MaxCost * k
    <3>1. \A a, b \in Nat : MaxCost * (a + b) = MaxCost * a + MaxCost * b
      BY BudgetAssumption
    <3> HIDE DEF k
    <3>2. MaxCost * (tally.attempted + k) = MaxCost * tally.attempted + MaxCost * k
      BY <2>1, <3>1, DueTypes
    <3>3. MaxCost * tally.attempted \in Nat /\ MaxCost * k \in Nat
      BY <2>1, DueTypes, BudgetAssumption
    <3> QED BY <2>2, <3>2, <3>3, DueTypes DEF Extracting
  <2>7. MaxCost * k \in Nat
    <3> HIDE DEF k
    <3> QED BY <2>1, BudgetAssumption
  <2> QED BY <2>2, <2>5, <2>6, <2>7, DueTypes DEF SpendInv
<1>3. CASE EnterPatch \/ EnterFalsify \/ FanOutResolves \/ FanOutRejects \/ Persist
  <2>1. phase # "load" /\ phase' \notin {"load", "extract"} /\ UNCHANGED <<spend, tally, call>>
    BY <1>3 DEF EnterPatch, EnterFalsify, FanOutResolves, FanOutRejects, Persist,
       PhaseInv, Resolve, Reject, Fanning, Phase
  <2>2. Due' \subseteq Due
    BY <2>1 DEF Due
  <2> QED BY <2>1, <2>2, NoDearer
<1>4. CASE StoreFails
  <2>1. UNCHANGED <<phase, spend, tally, call>>
    BY <1>4 DEF StoreFails
  <2>2. Exposed' = Exposed /\ Extracting' = Extracting
    BY <2>1 DEF Exposed, Extracting, Due
  <2> QED BY <2>1, <2>2 DEF SpendInv
<1> QED BY <1>1, <1>2, <1>3, <1>4 DEF RunStep

LEMMA SpendStart == Init => SpendInv
  BY DEF Init, SpendInv

LEMMA SpendStep ==
  IInv /\ CapInv /\ CapInv' /\ CostInv /\ PhaseInv /\ SpendInv /\ [Next]_vars => SpendInv'
<1> SUFFICES ASSUME IInv, CapInv, CapInv', CostInv, PhaseInv, SpendInv, [Next]_vars
             PROVE  SpendInv'
  OBVIOUS
<1>1. CASE UNCHANGED vars
  <2>1. UNCHANGED <<phase, spend, tally, call>>
    BY <1>1 DEF vars, runVars
  <2>2. Exposed' = Exposed /\ Extracting' = Extracting
    BY <2>1 DEF Exposed, Extracting, Due
  <2> QED BY <2>1, <2>2 DEF SpendInv
<1>2. CASE Next
  BY <1>2, RunSpend, WorkerSpend, ExtractSpend DEF Next
<1> QED BY <1>1, <1>2

(***************************************************************************)
(* The ledger.  A cost is in memory from the moment the reply arrived and  *)
(* in the table from the moment its row is in; in between its slot owes    *)
(* it.  What the slots owe is a sum over them, held as the sequence of its *)
(* partial sums s[0], ..., s[Limit], so that a slot that starts or ceases  *)
(* to owe shifts the sums after it.  The books balance as long as nothing  *)
(* has failed.                                                             *)
(***************************************************************************)
Owed == [w \in Workers |-> IF call[w] = "recording" THEN cost[w] ELSE 0]

Sums(s, f) ==
  /\ s \in [0..Limit -> Int] /\ s[0] = 0
  /\ \A n \in Workers : s[n] = s[n - 1] + f[n]

Read == {w \in Workers : call[w] \in {"settled", "recording"}}

Intact == status # "failed" /\ \A w \in Workers : st[w] # "thrown"

Balanced ==
  /\ phase # "load" => \E s : Sums(s, Owed) /\ recorded + s[Limit] = spend.spent
  /\ tally.returned = tally.rows + Cardinality(Read)

LedgerInv == Intact => Balanced

\* A slot that owes d more shifts the sums from that slot on.
LEMMA SumsShift ==
  ASSUME NEW f \in [Workers -> Int], NEW s, Sums(s, f), NEW w \in Workers, NEW d \in Int,
         NEW g, g[w] = f[w] + d, \A v \in Workers : v # w => g[v] = f[v]
  PROVE  \E t : Sums(t, g) /\ t[Limit] = s[Limit] + d
<1> DEFINE t == [n \in 0..Limit |-> IF n >= w THEN s[n] + d ELSE s[n]]
<1>1. Limit \in Nat /\ w \in 1..Limit
  BY PoolAssumption DEF Workers
<1>2. s \in [0..Limit -> Int] /\ s[0] = 0 /\ \A n \in 1..Limit : s[n] = s[n - 1] + f[n]
  BY DEF Sums, Workers
<1>3. t \in [0..Limit -> Int] /\ t[0] = 0 /\ t[Limit] = s[Limit] + d
  BY <1>1, <1>2
<1>4. ASSUME NEW n \in 1..Limit PROVE t[n] = t[n - 1] + g[n]
  <2>1. n \in 0..Limit /\ n - 1 \in 0..Limit /\ f[n] \in Int
    BY <1>1 DEF Workers
  <2>2. CASE n = w
    <3>1. g[n] = f[n] + d
      BY <2>2, <1>4 DEF Workers
    <3>2. t[n] = s[n] + d /\ t[n - 1] = s[n - 1]
      BY <2>1, <2>2, <1>1
    <3>3. s[n] = s[n - 1] + f[n] /\ s[n - 1] \in Int
      BY <2>1, <1>2, <1>4
    <3> HIDE DEF t
    <3> QED BY <2>1, <3>1, <3>2, <3>3
  <2>3. CASE n # w
    <3>1. g[n] = f[n]
      BY <2>3, <1>4 DEF Workers
    <3>2. s[n] = s[n - 1] + f[n] /\ s[n - 1] \in Int
      BY <2>1, <1>2, <1>4
    <3>3. \/ t[n] = s[n] + d /\ t[n - 1] = s[n - 1] + d
          \/ t[n] = s[n] /\ t[n - 1] = s[n - 1]
      BY <2>1, <2>3, <1>1
    <3> HIDE DEF t
    <3> QED BY <2>1, <3>1, <3>2, <3>3
  <2> QED BY <2>2, <2>3
<1> HIDE DEF t
<1> QED BY <1>3, <1>4 DEF Sums, Workers

\* The sums of nothing are nothing: else there would be a first one that is not.
LEMMA SumsOfNothing ==
  ASSUME NEW f, NEW s, Sums(s, f), \A n \in Workers : f[n] = 0
  PROVE  s[Limit] = 0
<1>1. /\ Limit \in Nat
      /\ s \in [0..Limit -> Int] /\ s[0] = 0
      /\ \A n \in 1..Limit : s[n] = s[n - 1]
  <2>1. Limit \in Nat /\ s \in [0..Limit -> Int] /\ s[0] = 0
    BY PoolAssumption DEF Sums
  <2>2. ASSUME NEW n \in 1..Limit PROVE s[n] = s[n - 1]
    <3>1. s[n] = s[n - 1] + f[n] /\ f[n] = 0
      BY DEF Sums, Workers
    <3>2. s[n - 1] \in Int
      BY <2>1
    <3> QED BY <3>1, <3>2
  <2> QED BY <2>1, <2>2
<1> DEFINE B == {n \in Nat : n <= Limit /\ s[n] # 0}
<1>2. SUFFICES ASSUME s[Limit] # 0 PROVE FALSE
  OBVIOUS
<1>3. Limit \in B
  BY <1>1, <1>2
<1>4. PICK m \in B : \A n \in B : ~(n < m)
  <2>1. B \subseteq Nat /\ B # {}
    BY <1>3
  <2> HIDE DEF B
  <2>2. PICK m \in B : \A n \in B : ~(<<n, m>> \in OpToRel(<, Nat))
    BY <2>1, WFMin, NatLessThanWellFounded, Zenon
  <2>3. \A n \in B : ~(n < m)
    BY <2>1, <2>2, Zenon DEF OpToRel
  <2> QED BY <2>3
<1>5. m # 0
  BY <1>1
<1>6. m - 1 \in Nat /\ m - 1 < m /\ m \in 1..Limit
  BY <1>1, <1>5
<1>7. s[m - 1] # 0
  BY <1>1, <1>6
<1> QED BY <1>1, <1>4, <1>6, <1>7

LEMMA OwedTypes ==
  ASSUME CapInv, PhaseInv
  PROVE  /\ Owed \in [Workers -> Int]
         /\ Read \in SUBSET Workers /\ Cardinality(Read) \in Nat
         /\ tally.returned \in Nat /\ tally.rows \in Nat
         /\ spend.spent \in Nat /\ recorded \in Nat
         /\ cost \in [Workers -> Nat]
<1>1. Owed \in [Workers -> Int]
  BY DEF Owed, CapInv, CounterTypes
<1>2. Read \in SUBSET Workers
  BY DEF Read
<1>3. Cardinality(Read) \in Nat
  BY <1>2, DueCount
<1> QED BY <1>1, <1>2, <1>3 DEF CapInv, CounterTypes

\* A step that leaves the books alone.
LEMMA BooksUntouched ==
  ASSUME Balanced, phase' # "load" => phase # "load",
         Owed' = Owed, Read' = Read, recorded' = recorded, spend'.spent = spend.spent,
         tally'.returned = tally.returned, tally'.rows = tally.rows
  PROVE  Balanced'
<1> QED BY DEF Balanced, Sums

\* A cost is in memory, and its row is owed.
LEMMA CostAccrues ==
  ASSUME CapInv, PhaseInv, Balanced, phase # "load", NEW w \in Workers,
         call[w] # "recording", NEW c \in Nat, cost'[w] = c, \A v \in Workers : v # w => cost'[v] = cost[v],
         call' = [call EXCEPT ![w] = "recording"],
         recorded' = recorded, spend'.spent = spend.spent + c
  PROVE  \E s : Sums(s, Owed') /\ recorded' + s[Limit] = spend'.spent
<1>1. PICK s : Sums(s, Owed) /\ recorded + s[Limit] = spend.spent
  BY DEF Balanced
<1>2. /\ Owed'[w] = Owed[w] + c
      /\ \A v \in Workers : v # w => Owed'[v] = Owed[v]
  <2>1. Owed'[w] = c /\ Owed[w] = 0
    BY DEF Owed, PhaseInv
  <2>2. \A v \in Workers : v # w => Owed'[v] = Owed[v]
    BY DEF Owed, PhaseInv
  <2> QED BY <2>1, <2>2
<1>3. PICK t : Sums(t, Owed') /\ t[Limit] = s[Limit] + c
  <2>1. Sums(s, Owed) /\ Owed \in [Workers -> Int] /\ c \in Int
    BY <1>1, OwedTypes
  <2> QED BY <2>1, <1>2, SumsShift
<1>4. s[Limit] \in Int
  BY <1>1, PoolAssumption DEF Sums
<1>5. recorded' + t[Limit] = spend'.spent
  BY <1>1, <1>3, <1>4, OwedTypes
<1> QED BY <1>3, <1>5

\* The row is in.
LEMMA RowPaid ==
  ASSUME CapInv, PhaseInv, Balanced, phase # "load", NEW w \in Workers,
         call[w] = "recording", NEW a \in Slot \ {"recording"},
         call' = [call EXCEPT ![w] = a], cost' = cost,
         recorded' = recorded + cost[w], spend'.spent = spend.spent
  PROVE  \E s : Sums(s, Owed') /\ recorded' + s[Limit] = spend'.spent
<1>1. PICK s : Sums(s, Owed) /\ recorded + s[Limit] = spend.spent
  BY DEF Balanced
<1>2. -cost[w] \in Int /\ cost[w] \in Nat
  BY OwedTypes
<1>3. /\ Owed'[w] = Owed[w] + (-cost[w])
      /\ \A v \in Workers : v # w => Owed'[v] = Owed[v]
  <2>1. Owed'[w] = 0 /\ Owed[w] = cost[w]
    BY DEF Owed, PhaseInv
  <2>2. \A v \in Workers : v # w => Owed'[v] = Owed[v]
    BY DEF Owed, PhaseInv
  <2>3. Owed[w] + (-cost[w]) = 0
    BY <2>1, <1>2
  <2> QED BY <2>1, <2>2, <2>3
<1>4. PICK t : Sums(t, Owed') /\ t[Limit] = s[Limit] + (-cost[w])
  BY <1>1, <1>2, <1>3, SumsShift, OwedTypes
<1>5. s[Limit] \in Int
  BY <1>1, PoolAssumption DEF Sums
<1>6. recorded' + t[Limit] = spend'.spent
  BY <1>1, <1>2, <1>4, <1>5, OwedTypes
<1> QED BY <1>4, <1>6

\* Nothing that has failed is made good.
LEMMA IntactBefore ==
  ASSUME IInv, PhaseInv, Next, Intact'
  PROVE  Intact
<1>1. status # "failed"
  <2>1. CASE RunStep
    BY <2>1 DEF RunStep, LoadSpendState, ExtractBatch, EnterPatch, EnterFalsify,
       FanOutResolves, FanOutRejects, Persist, StoreFails, Intact
  <2>2. ASSUME NEW w \in Workers, WorkerStep(w) PROVE status # "failed"
    BY <2>2, WorkerMoves DEF Intact
  <2>3. ASSUME NEW w \in Workers, ExtractStep(w) PROVE status # "failed"
    BY <2>3 DEF ExtractStep, ExtractReturn, ExtractReject, ExtractAccrue, ExtractRecorded,
       ExtractRecordFails, Intact
  <2> QED BY <2>1, <2>2, <2>3 DEF Next
<1>2. ASSUME NEW w \in Workers PROVE st[w] # "thrown"
  <2>1. CASE promise \in {"idle", "resolved"}
    BY <2>1 DEF IInv, StateInv
  <2>2. CASE promise \in {"pending", "rejected"}
    <3>1. [PoolNext]_fanVars /\ ~(\E n \in 0..MaxItems : Call(n))
      BY <2>2, RunStepIsFanOut DEF Call
    <3>2. CASE UNCHANGED fanVars
      BY <3>2 DEF fanVars, Intact
    <3>3. CASE \E v \in Workers : Launch(v) \/ Finish(v) \/ Throw(v)
      <4>1. PICK v \in Workers : Launch(v) \/ Finish(v) \/ Throw(v)
        BY <3>3
      <4>2. st[v] # "thrown"
        BY <4>1 DEF Launch, Finish, Throw
      <4>3. v # w => st'[w] = st[w]
        BY <4>1, DrawTypes DEF Launch, Finish, Throw, IInv, PoolTypeOK
      <4> QED BY <4>2, <4>3 DEF Intact
    <3>4. CASE Resolve \/ Reject
      BY <3>4 DEF Resolve, Reject, Intact
    <3> QED BY <3>1, <3>2, <3>3, <3>4 DEF PoolNext
  <2> QED BY <2>1, <2>2 DEF IInv, PoolTypeOK
<1> QED BY <1>1, <1>2 DEF Intact

LEMMA BeginBooks ==
  ASSUME CapInv, PhaseInv, Balanced, NEW w \in Workers, phase \in Fanning,
         phase' = phase, cost' = cost, recorded' = recorded,
         call[w] # "recording", Begin(w)
  PROVE  Balanced'
<1>1. PICK a \in {"none", "calling", "skipped"} : call' = [call EXCEPT ![w] = a]
  BY DEF Begin, SlotIs
<1>2. call[w] \notin {"settled", "recording"}
  BY DEF PhaseInv
<1>3. Owed' = Owed /\ Read' = Read
  <2>1. \A v \in Workers : /\ call'[v] = "recording" <=> call[v] = "recording"
                           /\ call'[v] = "settled" <=> call[v] = "settled"
    BY <1>1, <1>2 DEF PhaseInv
  <2> QED BY <2>1 DEF Owed, Read
<1>4. /\ spend'.spent = spend.spent
      /\ tally'.returned = tally.returned /\ tally'.rows = tally.rows
  BY DEF Begin, CapInv, CounterTypes
<1> QED BY <1>3, <1>4, BooksUntouched DEF Fanning

LEMMA WorkerBooks ==
  ASSUME IInv, CapInv, PhaseInv, Balanced, NEW w \in Workers, WorkerStep(w), Intact'
  PROVE  Balanced'
<1>1. phase \in Fanning /\ phase' = phase /\ phase # "load"
  BY WorkerMoves DEF Fanning
<1>2. \A v \in Workers : call[v] # "settled" /\ (st[v] = "busy" <=> call[v] # "none")
  BY <1>1 DEF PhaseInv
<1>3. CASE LaunchWorker(w)
  BY <1>1, <1>2, <1>3, BeginBooks DEF LaunchWorker, Launch
<1>4. CASE \E c \in Costs : CallReturns(w, c)
  <2>1. PICK c \in Costs : CallReturns(w, c)
    BY <1>4
  <2>2. c \in Nat /\ cost'[w] = c /\ \A v \in Workers : v # w => cost'[v] = cost[v]
    BY <2>1, BudgetAssumption, OwedTypes DEF CallReturns, Costs
  <2>3. spend'.spent = spend.spent + c /\ recorded' = recorded
    BY <2>1 DEF CallReturns, Accrue, CapInv, CounterTypes
  <2>4. call[w] = "calling" /\ call' = [call EXCEPT ![w] = "recording"]
    BY <2>1 DEF CallReturns, SlotIs
  <2>5. \E s : Sums(s, Owed') /\ recorded' + s[Limit] = spend'.spent
    BY <1>1, <2>2, <2>3, <2>4, CostAccrues
  <2>6. Read' = Read \cup {w} /\ w \notin Read
    BY <2>4 DEF Read, PhaseInv
  <2>7. Cardinality(Read') = Cardinality(Read) + 1
    BY <2>6, OwedTypes, DueCount, FS_AddElement
  <2>8. tally'.returned = tally.returned + 1 /\ tally'.rows = tally.rows
    BY <2>1 DEF CallReturns, CapInv, CounterTypes
  <2> QED BY <2>5, <2>7, <2>8, OwedTypes DEF Balanced
<1>5. CASE CallThrows(w)
  <2>1. st'[w] = "thrown"
    BY <1>5 DEF CallThrows, Throw, IInv, PoolTypeOK
  <2> QED BY <2>1 DEF Intact
<1>6. CASE RowInserted(w)
  <2>1. call[w] = "recording" /\ call' = [call EXCEPT ![w] = "answered"]
    BY <1>6 DEF RowInserted, SlotIs
  <2>2. recorded' = recorded + cost[w] /\ spend' = spend /\ cost' = cost
    BY <1>6 DEF RowInserted
  <2>3. \E s : Sums(s, Owed') /\ recorded' + s[Limit] = spend'.spent
    BY <1>1, <2>1, <2>2, RowPaid DEF Slot
  <2>4. Read = Read' \cup {w} /\ w \notin Read' /\ Read' \in SUBSET Workers
    BY <2>1 DEF Read, PhaseInv
  <2>5. Cardinality(Read) = Cardinality(Read') + 1 /\ Cardinality(Read') \in Nat
    BY <2>4, DueCount, FS_AddElement
  <2>6. tally'.returned = tally.returned /\ tally'.rows = tally.rows + 1
    BY <1>6 DEF RowInserted, CapInv, CounterTypes
  <2> QED BY <2>3, <2>5, <2>6, OwedTypes DEF Balanced
<1>7. CASE \/ \E reply \in Reply : ImpactAnswered(w, reply)
           \/ ImpactStarved(w)
           \/ \E v \in {"stands", "refuted", "refusal"} : FindingAnswered(w, v)
           \/ FindingStarved(w)
  <2>1. HandlerReturns(w) /\ call[w] # "recording"
    BY <1>7 DEF ImpactAnswered, ImpactStarved, FindingAnswered, FindingStarved
  <2> QED BY <1>1, <2>1, BeginBooks DEF HandlerReturns
<1> QED BY <1>3, <1>4, <1>5, <1>6, <1>7 DEF WorkerStep

LEMMA ExtractBooks ==
  ASSUME CapInv, PhaseInv, Balanced, NEW w \in Workers, ExtractStep(w), Intact'
  PROVE  Balanced'
<1>1. phase = "extract" /\ phase' = phase
  BY DEF ExtractStep, ExtractReturn, ExtractReject, ExtractAccrue, ExtractRecorded,
     ExtractRecordFails
<1>2. CASE \E c \in Costs : ExtractReturn(w, c)
  <2>1. PICK c \in Costs : ExtractReturn(w, c)
    BY <1>2
  <2>2. call[w] = "calling" /\ call' = [call EXCEPT ![w] = "settled"]
    BY <2>1 DEF ExtractReturn, SlotIs
  <2>3. Owed' = Owed
    <3>1. \A v \in Workers : /\ call'[v] = "recording" <=> call[v] = "recording"
                             /\ call[v] = "recording" => cost'[v] = cost[v]
      BY <2>1, <2>2, OwedTypes DEF PhaseInv, ExtractReturn
    <3> QED BY <3>1 DEF Owed
  <2>4. Read' = Read \cup {w} /\ w \notin Read
    BY <2>2 DEF Read, PhaseInv
  <2>5. Cardinality(Read') = Cardinality(Read) + 1
    BY <2>4, OwedTypes, DueCount, FS_AddElement
  <2>6. /\ tally'.returned = tally.returned + 1 /\ tally'.rows = tally.rows
        /\ recorded' = recorded /\ spend' = spend
    BY <2>1 DEF ExtractReturn, CapInv, CounterTypes
  <2>7. \E s : Sums(s, Owed') /\ recorded' + s[Limit] = spend'.spent
    BY <1>1, <2>3, <2>6 DEF Balanced
  <2> QED BY <2>5, <2>6, <2>7, OwedTypes DEF Balanced
<1>3. CASE ExtractReject(w)
  <2>1. Owed' = Owed /\ Read' = Read
    <3>1. \A v \in Workers : /\ call'[v] = "recording" <=> call[v] = "recording"
                             /\ call'[v] = "settled" <=> call[v] = "settled"
      BY <1>3 DEF PhaseInv, ExtractReject, SlotIs
    <3>2. cost' = cost
      BY <1>3 DEF ExtractReject
    <3> QED BY <3>1, <3>2 DEF Owed, Read
  <2> QED BY <1>1, <1>3, <2>1, BooksUntouched DEF ExtractReject
<1>4. CASE ExtractAccrue(w)
  <2>1. call[w] = "settled" /\ call' = [call EXCEPT ![w] = "recording"]
    BY <1>4 DEF ExtractAccrue, SlotIs
  <2>2. /\ cost' = cost /\ recorded' = recorded /\ tally' = tally
        /\ spend'.spent = spend.spent + cost[w] /\ cost[w] \in Nat
    BY <1>4 DEF ExtractAccrue, Accrue, CapInv, CounterTypes
  <2>3. \E s : Sums(s, Owed') /\ recorded' + s[Limit] = spend'.spent
    BY <1>1, <2>1, <2>2, CostAccrues
  <2>4. Read' = Read
    BY <2>1 DEF Read, PhaseInv
  <2> QED BY <2>2, <2>3, <2>4 DEF Balanced
<1>5. CASE ExtractRecorded(w)
  <2>1. call[w] = "recording" /\ call' = [call EXCEPT ![w] = "none"]
    BY <1>5 DEF ExtractRecorded, SlotIs
  <2>2. recorded' = recorded + cost[w] /\ spend' = spend /\ cost' = cost
    BY <1>5 DEF ExtractRecorded
  <2>3. \E s : Sums(s, Owed') /\ recorded' + s[Limit] = spend'.spent
    BY <1>1, <2>1, <2>2, RowPaid DEF Slot
  <2>4. Read = Read' \cup {w} /\ w \notin Read' /\ Read' \in SUBSET Workers
    BY <2>1 DEF Read, PhaseInv
  <2>5. Cardinality(Read) = Cardinality(Read') + 1 /\ Cardinality(Read') \in Nat
    BY <2>4, DueCount, FS_AddElement
  <2>6. tally'.returned = tally.returned /\ tally'.rows = tally.rows + 1
    BY <1>5 DEF ExtractRecorded, CapInv, CounterTypes
  <2> QED BY <2>3, <2>5, <2>6, OwedTypes DEF Balanced
<1>6. CASE ExtractRecordFails(w)
  BY <1>6 DEF ExtractRecordFails, Intact
<1> QED BY <1>2, <1>3, <1>4, <1>5, <1>6 DEF ExtractStep

\* Where no slot holds a reply, nothing is owed.
LEMMA NothingOwed ==
  ASSUME CapInv, PhaseInv, \A w \in Workers : call[w] \notin {"settled", "recording"}
  PROVE  /\ \A n \in Workers : Owed[n] = 0
         /\ Cardinality(Read) = 0
<1>1. Read = {}
  BY DEF Read
<1> QED BY <1>1, FS_EmptySet DEF Owed

LEMMA RunBooks ==
  ASSUME CapInv, PhaseInv, Balanced, RunStep
  PROVE  Balanced'
<1>1. CASE LoadSpendState
  <2>1. \A w \in Workers : call[w] = "none" /\ call'[w] = "none"
    BY <1>1 DEF LoadSpendState, PhaseInv
  <2>2. Read' = Read /\ Owed' = [w \in Workers |-> 0]
    BY <2>1 DEF Read, Owed
  <2>3. /\ spend'.spent = recorded /\ recorded' = recorded
        /\ tally'.returned = tally.returned /\ tally'.rows = tally.rows
    BY <1>1 DEF LoadSpendState, CapInv, CounterTypes
  <2>4. Sums([n \in 0..Limit |-> 0], Owed')
    <3>1. \A n \in Workers : n \in 0..Limit /\ n - 1 \in 0..Limit
      BY PoolAssumption DEF Workers
    <3> DEFINE z == [n \in 0..Limit |-> 0]
    <3>2. z \in [0..Limit -> Int] /\ z[0] = 0
      BY PoolAssumption
    <3>3. \A n \in Workers : z[n] = 0 /\ z[n - 1] = 0 /\ Owed'[n] = 0
      BY <2>2, <3>1
    <3> HIDE DEF z
    <3>4. \A n \in Workers : z[n] = z[n - 1] + Owed'[n]
      BY <3>3
    <3>5. Sums(z, Owed')
      BY <3>2, <3>4 DEF Sums
    <3> QED BY <3>5 DEF z
  <2>5. recorded' + [n \in 0..Limit |-> 0][Limit] = spend'.spent
    BY <2>3, OwedTypes, PoolAssumption
  <2>6. \E s : Sums(s, Owed') /\ recorded' + s[Limit] = spend'.spent
    BY <2>4, <2>5
  <2> QED BY <2>2, <2>3, <2>6 DEF Balanced
<1>2. CASE ExtractBatch
  <2>1. \A w \in Workers : call[w] = "none" /\ call'[w] \in {"none", "calling"}
    BY <1>2 DEF ExtractBatch, IdleSlots
  <2>2. Read' = Read /\ Owed' = Owed
    BY <2>1 DEF Read, Owed
  <2>3. /\ phase' = phase /\ spend' = spend /\ recorded' = recorded
        /\ tally'.returned = tally.returned /\ tally'.rows = tally.rows
    BY <1>2 DEF ExtractBatch, CapInv, CounterTypes
  <2> QED BY <2>2, <2>3, BooksUntouched
<1>3. CASE EnterPatch \/ EnterFalsify \/ FanOutResolves \/ FanOutRejects \/ Persist
           \/ StoreFails
  <2>1. /\ UNCHANGED <<spend, tally, call, cost, recorded>>
        /\ phase' # "load" => phase # "load"
    BY <1>3 DEF EnterPatch, EnterFalsify, FanOutResolves, FanOutRejects, Persist,
       StoreFails, Resolve, PhaseInv
  <2>2. Read' = Read /\ Owed' = Owed
    BY <2>1 DEF Read, Owed
  <2> QED BY <2>1, <2>2, BooksUntouched
<1> QED BY <1>1, <1>2, <1>3 DEF RunStep

LEMMA LedgerStart == Init => LedgerInv
<1> SUFFICES ASSUME Init PROVE Balanced
  BY DEF LedgerInv
<1>1. Read = {}
  BY DEF Init, Read
<1> QED BY <1>1, FS_EmptySet DEF Init, Balanced

LEMMA LedgerStep ==
  IInv /\ CapInv /\ PhaseInv /\ LedgerInv /\ [Next]_vars => LedgerInv'
<1> SUFFICES ASSUME IInv, CapInv, PhaseInv, LedgerInv, [Next]_vars, Intact'
             PROVE  Balanced'
  BY DEF LedgerInv
<1>1. CASE UNCHANGED vars
  <2>1. UNCHANGED <<phase, spend, tally, call, cost, recorded, st, status>>
    BY <1>1 DEF vars, runVars, fanVars
  <2>2. Read' = Read /\ Owed' = Owed /\ Intact
    BY <2>1 DEF Read, Owed, Intact
  <2> QED BY <2>1, <2>2, BooksUntouched DEF LedgerInv
<1>2. CASE Next
  <2>1. Balanced
    BY <1>2, IntactBefore DEF LedgerInv
  <2> QED BY <1>2, <2>1, RunBooks, WorkerBooks, ExtractBooks DEF Next
<1> QED BY <1>1, <1>2

(***************************************************************************)
(* What becomes of the impacts and the findings.  An impact that waits for *)
(* a patch call is Raw until a handler has answered it, and Settled from   *)
(* then on; the fan-out over the impacts has the raw ones open and no      *)
(* others, so when it resolves none is left.  The findings are treated     *)
(* alike.                                                                  *)
(***************************************************************************)
ImpactType ==
  [action : Actions, conflict : BOOLEAN,
   disposition : {"unresolved", "proposed", "no_action", "escalated"},
   note : {"none", "budget", "risk", "refusal", "gate_a", "unusable"},
   patch : BOOLEAN]

FindingType ==
  [disposition : {"active", "suppressed"}, why : {"none", "budget", "refuted", "refusal"}]

Fresh == [disposition |-> "active", why |-> "none"]

Raw(r) ==
  /\ r.action \in {"GROUNDED_PATCH", "EDITORIAL_REVIEW"} /\ ~r.conflict
  /\ r.disposition = "unresolved" /\ r.note = "none" /\ ~r.patch

Settled(r) ==
  \/ r.disposition \in {"no_action", "escalated"}
  \/ r.disposition = "proposed" /\ (r.patch \/ r.action = "DETERMINISTIC_REGEN")
  \/ r.disposition = "unresolved" /\ (r.note # "none" \/ r.conflict
                                      \/ r.action = "UNRESOLVED_CONFLICT")

\* The items of the fan-out under way whose handler has not returned.
Open == (0..(len - 1)) \ filled

Patching ==
  /\ client /\ len = Len(work) /\ work \in Seq(ImpactIds)
  /\ \A j, k \in 1..Len(work) : work[j] = work[k] => j = k
  /\ \A j \in Open : Raw(impact[work[j + 1]])
  /\ \A i \in ImpactIds : Raw(impact[i]) => \E j \in Open : work[j + 1] = i

ImpactInv ==
  /\ impact \in [ImpactIds -> ImpactType]
  /\ \A i \in ImpactIds : Raw(impact[i]) \/ Settled(impact[i])
  /\ phase \in {"load", "extract"} => \A i \in Workable : Raw(impact[i])
  /\ phase = "patch" => Patching
  /\ phase \in {"patched", "falsify", "persist", "end"} /\ client =>
       \A i \in ImpactIds : Settled(impact[i])

Falsifying ==
  /\ len = NFindings
  /\ \A j \in Open : finding[j + 1] = Fresh
  /\ \A f \in FindingIds : finding[f].disposition = "active" => f - 1 \in Open \/ f \in heard

FindingInv ==
  /\ finding \in [FindingIds -> FindingType]
  /\ phase \in {"load", "extract", "patch", "patched"} => \A f \in FindingIds : finding[f] = Fresh
  /\ phase = "falsify" => Falsifying
  /\ phase \in {"persist", "end"} /\ client =>
       \A f \in FindingIds : finding[f].disposition = "active" => f \in heard

StarvedImpact == \E i \in ImpactIds : impact[i].note = "budget"
StarvedFinding == \E f \in FindingIds : finding[f].why = "budget"

StarveInv ==
  /\ exhausted <=> StarvedImpact \/ StarvedFinding
  /\ Finished => (status = "partial" <=> exhausted)

\* The item in the hand of a busy worker is open.
LEMMA HandIsOpen ==
  ASSUME IInv, NEW w \in Workers, st[w] = "busy"
  PROVE  ix[w] \in Open
<1>1. w \in Hands
  BY DEF Hands
<1>2. ix[w] \in Nat /\ len \in Nat /\ ix[w] < len /\ ix[w] \notin filled
  BY <1>1, PoolAssumption DEF IInv, PoolTypeOK, StateInv, EachItemOnce
<1> QED BY <1>2 DEF Open

\* Once the workers have returned nothing is open.
LEMMA NoneOpen ==
  ASSUME IInv, promise # "idle", AllReturned
  PROVE  Open = {}
  BY ReturnedIsComplete DEF Open

LEMMA ResolvedSettles ==
  ASSUME NEW r \in ImpactType, Raw(r), NEW reply \in Reply
  PROVE  /\ Resolved(r, reply) \in ImpactType /\ Settled(Resolved(r, reply))
         /\ Resolved(r, reply).note # "budget"
  BY DEF ImpactType, Raw, Reply, Resolved, Accepted, Settled, Actions

LEMMA StarvedSettles ==
  ASSUME NEW r \in ImpactType, Raw(r)
  PROVE  [r EXCEPT !.note = "budget"] \in ImpactType /\ Settled([r EXCEPT !.note = "budget"])
  BY DEF ImpactType, Raw, Settled

------------------------------------------------------------------------------
LEMMA ImpactStart == Init => ImpactInv
<1> SUFFICES ASSUME Init PROVE ImpactInv
  OBVIOUS
<1>1. PICK t \in [ImpactIds -> TracedImpact] : impact = [i \in ImpactIds |-> ImpactRecord(t[i])]
  BY BudgetAssumption DEF Init
<1>2. ASSUME NEW i \in ImpactIds
      PROVE  /\ impact[i] \in ImpactType
             /\ Raw(impact[i]) \/ Settled(impact[i])
             /\ i \in Workable => Raw(impact[i])
  <2>1. t[i] \in TracedImpact /\ impact[i] = ImpactRecord(t[i])
    BY <1>1
  <2>2. ASSUME NEW a \in TracedImpact
        PROVE  /\ ImpactRecord(a) \in ImpactType
               /\ Raw(ImpactRecord(a)) \/ Settled(ImpactRecord(a))
               /\ /\ ImpactRecord(a).action \in {"GROUNDED_PATCH", "EDITORIAL_REVIEW"}
                  /\ ~ImpactRecord(a).conflict
                  => Raw(ImpactRecord(a))
    BY DEF TracedImpact, ImpactRecord, DispositionFor, ImpactType, Raw, Settled, Actions
  <2> QED BY <2>1, <2>2 DEF Workable, WorkOf
<1>3. impact \in [ImpactIds -> ImpactType]
  BY <1>1, <1>2
<1>4. Workable \subseteq ImpactIds
  BY DEF Workable, WorkOf
<1> QED BY <1>2, <1>3, <1>4 DEF ImpactInv, Init

\* A handler has answered: its impact is settled, and the others are as before.
LEMMA ImpactHandled ==
  ASSUME IInv, IInv', ImpactInv, phase = "patch", NEW w \in Workers, st[w] = "busy",
         NEW r \in ImpactType, Settled(r), ~Raw(r),
         impact' = [impact EXCEPT ![work[ix[w] + 1]] = r], filled' = filled \cup {ix[w]},
         UNCHANGED <<len, work, client, phase>>
  PROVE  ImpactInv'
<1> DEFINE j == ix[w]
           n == work[j + 1]
<1>1. j \in Open /\ Open' = Open \ {j} /\ Open \subseteq 0..(len - 1)
  <2>1. filled' = filled \cup {j} /\ len' = len /\ j \in Open
    BY HandIsOpen
  <2> QED BY <2>1 DEF Open
<1>0. ix[w] = j
  OBVIOUS
<1> HIDE DEF j
<1>2. Patching /\ len \in Nat
  BY PoolAssumption DEF ImpactInv, IInv, PoolTypeOK
<1>3. \A k \in Open : k + 1 \in 1..Len(work) /\ k \in Nat
  BY <1>1, <1>2 DEF Patching
<1>4. n \in ImpactIds /\ Raw(impact[n])
  <2>1. j \in Open /\ j + 1 \in 1..Len(work) /\ work \in Seq(ImpactIds)
    BY <1>1, <1>2, <1>3 DEF Patching
  <2>2. work[j + 1] \in ImpactIds
    BY <2>1
  <2> QED BY <2>1, <2>2, <1>2 DEF Patching
<1>5. impact' \in [ImpactIds -> ImpactType]
  BY <1>0, <1>4 DEF ImpactInv
<1>6. impact'[n] = r /\ \A i \in ImpactIds : i # n => impact'[i] = impact[i]
  BY <1>0, <1>4 DEF ImpactInv
<1> HIDE DEF n
<1>7. \A i \in ImpactIds : (Raw(impact[i]) \/ Settled(impact[i]))'
  BY <1>6 DEF ImpactInv, Raw, Settled
<1>8. ASSUME NEW k \in Open' PROVE work[k + 1] \in ImpactIds /\ work[k + 1] # n
  <2>1. k \in Open /\ k # j /\ k + 1 \in 1..Len(work) /\ j + 1 \in 1..Len(work)
    BY <1>1, <1>3
  <2>2. k \in Nat /\ j \in Nat
    BY <2>1, <1>1, <1>3
  <2>3. k + 1 # j + 1
    BY <2>1, <2>2
  <2>4. work[k + 1] # work[j + 1]
    BY <2>1, <2>3, <1>2 DEF Patching
  <2>5. work[k + 1] \in ImpactIds
    BY <2>1, <1>2 DEF Patching
  <2> QED BY <2>4, <2>5 DEF n
<1>9. \A k \in Open' : Raw(impact'[work[k + 1]])
  BY <1>1, <1>2, <1>6, <1>8 DEF Patching
<1>10. ASSUME NEW i \in ImpactIds, Raw(impact'[i]) PROVE \E k \in Open' : work[k + 1] = i
  <2>1. i # n /\ n = work[j + 1]
    BY <1>6, <1>10 DEF n
  <2>2. PICK k \in Open : work[k + 1] = i
    BY <2>1, <1>2, <1>6, <1>10 DEF Patching
  <2> QED BY <2>1, <2>2, <1>1
<1>11. Patching'
  BY <1>2, <1>9, <1>10 DEF Patching, Raw
<1> QED BY <1>5, <1>7, <1>11 DEF ImpactInv

LEMMA HandlerTakes ==
  ASSUME NEW w \in Workers, HandlerReturns(w)
  PROVE  /\ st[w] = "busy" /\ filled' = filled \cup {ix[w]}
         /\ UNCHANGED <<len, work, client, phase>>
  BY DEF HandlerReturns, Finish

LEMMA ImpactUnchanged ==
  ASSUME ImpactInv, UNCHANGED <<impact, phase, client>>,
         phase = "patch" => UNCHANGED <<work, len, filled>>
  PROVE  ImpactInv'
<1>1. Workable' = Workable
  BY DEF Workable, WorkOf
<1>2. phase = "patch" => Open' = Open
  BY DEF Open
<1>3. phase = "patch" => Patching'
  BY <1>2 DEF Patching, Raw, ImpactInv
<1>4. ASSUME NEW i \in ImpactIds
      PROVE  (Raw(impact[i]))' = Raw(impact[i]) /\ (Settled(impact[i]))' = Settled(impact[i])
  BY DEF Raw, Settled
<1>5. Workable \subseteq ImpactIds
  BY DEF Workable, WorkOf
<1> QED BY <1>1, <1>3, <1>4, <1>5 DEF ImpactInv

\* The steps that are not the return of a handler leave the items alone.
LEMMA WorkerItems ==
  ASSUME IInv, PhaseInv, NEW w \in Workers, WorkerStep(w)
  PROVE  \/ \E reply \in Reply : ImpactAnswered(w, reply)
         \/ ImpactStarved(w)
         \/ \E v \in {"stands", "refuted", "refusal"} : FindingAnswered(w, v)
         \/ FindingStarved(w)
         \/ UNCHANGED <<impact, finding, heard, exhausted, filled, len, work, phase, client>>
<1>1. CASE LaunchWorker(w)
  BY <1>1 DEF LaunchWorker, Launch
<1>2. CASE \E c \in Costs : CallReturns(w, c)
  BY <1>2 DEF CallReturns, fanVars
<1>3. CASE CallThrows(w)
  BY <1>3 DEF CallThrows, Throw
<1>4. CASE RowInserted(w)
  BY <1>4 DEF RowInserted, fanVars
<1> QED BY <1>1, <1>2, <1>3, <1>4 DEF WorkerStep

\* The steps of the run, and of extraction, leave the contents alone.
LEMMA RunItems ==
  ASSUME RunStep \/ \E w \in Workers : ExtractStep(w)
  PROVE  /\ UNCHANGED <<impact, finding, heard, exhausted, client>>
         /\ \/ EnterPatch \/ EnterFalsify \/ FanOutResolves
            \/ /\ UNCHANGED <<len, filled, work>>
               /\ \/ phase' = phase
                  \/ phase = "load" /\ phase' = "extract"
                  \/ phase = "persist" /\ phase' = "end"
<1>1. CASE RunStep
  BY <1>1 DEF RunStep, LoadSpendState, ExtractBatch, EnterPatch, EnterFalsify,
     FanOutResolves, FanOutRejects, Reject, Persist, StoreFails, fanVars
<1>2. CASE \E w \in Workers : ExtractStep(w)
  BY <1>2 DEF ExtractStep, ExtractReturn, ExtractReject, ExtractAccrue, ExtractRecorded,
     ExtractRecordFails, fanVars
<1> QED BY <1>1, <1>2

LEMMA WorkerImpacts ==
  ASSUME IInv, IInv', PhaseInv, ImpactInv, NEW w \in Workers, WorkerStep(w)
  PROVE  ImpactInv'
<1> DEFINE i == work[ix[w] + 1]
<1>1. ASSUME st[w] = "busy", phase = "patch"
      PROVE  i \in ImpactIds /\ Raw(impact[i]) /\ impact[i] \in ImpactType
  <2>1. ix[w] \in Open /\ Patching /\ len \in Nat
    BY <1>1, HandIsOpen, PoolAssumption DEF ImpactInv, IInv, PoolTypeOK
  <2>2. ix[w] + 1 \in 1..Len(work) /\ work \in Seq(ImpactIds) /\ Raw(impact[i])
    BY <2>1 DEF Patching, Open
  <2>3. i \in ImpactIds
    BY <2>2
  <2> QED BY <2>2, <2>3 DEF ImpactInv
<1>2. CASE \E reply \in Reply : ImpactAnswered(w, reply)
  <2>1. PICK reply \in Reply : ImpactAnswered(w, reply)
    BY <1>2
  <2>2. phase = "patch" /\ HandlerReturns(w) /\ st[w] = "busy"
    BY <2>1, HandlerTakes DEF ImpactAnswered
  <2>3. i \in ImpactIds /\ Raw(impact[i]) /\ impact[i] \in ImpactType
    BY <1>1, <2>2
  <2> DEFINE r == Resolved(impact[i], reply)
  <2>4. impact' = [impact EXCEPT ![i] = r]
    BY <2>1 DEF ImpactAnswered
  <2>5. r \in ImpactType /\ Settled(r)
    BY <2>3, ResolvedSettles
  <2>6. ~Raw(r)
    BY <2>5 DEF Raw, Settled
  <2> HIDE DEF r
  <2> QED BY <2>2, <2>4, <2>5, <2>6, HandlerTakes, ImpactHandled
<1>3. CASE ImpactStarved(w)
  <2>1. phase = "patch" /\ HandlerReturns(w) /\ st[w] = "busy"
    BY <1>3, HandlerTakes DEF ImpactStarved
  <2>2. i \in ImpactIds /\ Raw(impact[i]) /\ impact[i] \in ImpactType
    BY <1>1, <2>1
  <2> DEFINE r == [impact[i] EXCEPT !.note = "budget"]
  <2>3. impact' = [impact EXCEPT ![i] = r]
    BY <1>3 DEF ImpactStarved
  <2>4. r \in ImpactType /\ Settled(r)
    BY <2>2, StarvedSettles
  <2>5. ~Raw(r)
    BY <2>4 DEF Raw, Settled
  <2> HIDE DEF r
  <2> QED BY <2>1, <2>3, <2>4, <2>5, HandlerTakes, ImpactHandled
<1>4. CASE (\E v \in {"stands", "refuted", "refusal"} : FindingAnswered(w, v))
           \/ FindingStarved(w)
  <2>1. phase = "falsify" /\ HandlerReturns(w) /\ impact' = impact
    BY <1>4 DEF FindingAnswered, FindingStarved
  <2> QED BY <2>1, HandlerTakes, ImpactUnchanged
<1>5. CASE UNCHANGED <<impact, finding, heard, exhausted, filled, len, work, phase, client>>
  BY <1>5, ImpactUnchanged
<1> QED BY <1>2, <1>3, <1>4, <1>5, WorkerItems

\* The fan-out over the impacts opens with every raw impact, each one once.
LEMMA PatchOpens ==
  ASSUME PhaseInv, ImpactInv, EnterPatch
  PROVE  ImpactInv'
<1>1. phase = "extract" /\ UNCHANGED <<impact, client>>
  BY DEF EnterPatch
<1>2. PICK g \in Listing(WorkOf("GROUNDED_PATCH")), e \in Listing(WorkOf("EDITORIAL_REVIEW")) :
        /\ work' = g \o e
        /\ IF client /\ work' # <<>> THEN Call(Len(work')) /\ phase' = "patch"
                                     ELSE phase' = "patched"
  BY DEF EnterPatch
<1>3. Enumerates(work', Workable) /\ Workable \subseteq ImpactIds
  BY <1>2, WorkIsList DEF Workable, WorkOf
<1>4. ASSUME NEW i \in ImpactIds
      PROVE  /\ Raw(impact[i]) <=> i \in Workable
             /\ (Raw(impact[i]))' = Raw(impact[i])
             /\ (Settled(impact[i]))' = Settled(impact[i])
  BY <1>1 DEF ImpactInv, Raw, Settled, Workable, WorkOf
<1>5. CASE client /\ work' # <<>>
  <2>1. len' = Len(work') /\ filled' = {} /\ phase' = "patch" /\ client'
    BY <1>1, <1>2, <1>5 DEF Call
  <2>2. Open' = 0..(Len(work') - 1)
    BY <2>1 DEF Open
  <2>3. work' \in Seq(Workable) /\ work' \in Seq(ImpactIds) /\ Len(work') \in Nat
    BY <1>3 DEF Enumerates
  <2>4. \A j \in Open' : j + 1 \in 1..Len(work') /\ work'[j + 1] \in Workable
    BY <2>2, <2>3
  <2>5. \A j \in Open' : Raw(impact'[work'[j + 1]])
    BY <2>4, <1>1, <1>3, <1>4
  <2>6. ASSUME NEW i \in ImpactIds, Raw(impact'[i]) PROVE \E j \in Open' : work'[j + 1] = i
    <3>1. PICK k \in 1..Len(work') : work'[k] = i
      BY <2>6, <1>1, <1>3, <1>4 DEF Enumerates
    <3>2. k - 1 \in Open' /\ (k - 1) + 1 = k
      BY <2>2, <2>3
    <3> QED BY <3>1, <3>2
  <2>7. Patching'
    BY <2>1, <2>3, <2>5, <2>6, <1>3 DEF Patching, Enumerates, Raw
  <2> QED BY <2>1, <2>7, <1>1, <1>4 DEF ImpactInv
<1>6. CASE client /\ work' = <<>>
  <2>1. Workable = {}
    BY <1>3, <1>6 DEF Enumerates
  <2>2. \A i \in ImpactIds : Settled(impact[i])
    BY <2>1, <1>4 DEF ImpactInv
  <2> QED BY <2>2, <1>1, <1>2, <1>4, <1>6 DEF ImpactInv
<1>7. CASE ~client
  BY <1>1, <1>2, <1>4, <1>7 DEF ImpactInv
<1> QED BY <1>5, <1>6, <1>7

LEMMA RunImpacts ==
  ASSUME IInv, IInv', PhaseInv, ImpactInv, RunStep \/ \E w \in Workers : ExtractStep(w)
  PROVE  ImpactInv'
<1>1. UNCHANGED <<impact, client>>
  BY RunItems
<1>2. ASSUME NEW i \in ImpactIds
      PROVE  (Raw(impact[i]))' = Raw(impact[i]) /\ (Settled(impact[i]))' = Settled(impact[i])
  BY <1>1 DEF Raw, Settled
<1>3. Workable' = Workable /\ Workable \subseteq ImpactIds
  BY <1>1 DEF Workable, WorkOf
<1>4. CASE EnterPatch
  BY <1>4, PatchOpens
<1>5. CASE EnterFalsify
  <2>1. phase = "patched" /\ phase' \in {"falsify", "persist"}
    BY <1>5 DEF EnterFalsify
  <2> QED BY <1>1, <1>2, <2>1 DEF ImpactInv
<1>6. CASE FanOutResolves
  <2>1. phase \in Fanning /\ phase' = (IF phase = "patch" THEN "patched" ELSE "persist")
    BY <1>6 DEF FanOutResolves, Resolve, PhaseInv, Phase, Fanning
  <2>2. CASE phase = "patch"
    <3>1. Open = {}
      BY <1>6, NoneOpen DEF FanOutResolves, Resolve
    <3>2. \A i \in ImpactIds : ~Raw(impact[i])
      BY <2>2, <3>1 DEF ImpactInv, Patching
    <3>3. \A i \in ImpactIds : Settled(impact[i])
      BY <3>2 DEF ImpactInv
    <3> QED BY <1>1, <1>2, <2>1, <2>2, <3>3 DEF ImpactInv
  <2>3. CASE phase = "falsify"
    BY <1>1, <1>2, <2>1, <2>3 DEF ImpactInv
  <2> QED BY <2>1, <2>2, <2>3 DEF Fanning
<1>7. CASE UNCHANGED <<len, filled, work>> /\ phase' = phase
  BY <1>1, <1>7, ImpactUnchanged
<1>8. CASE \/ phase = "load" /\ phase' = "extract"
           \/ phase = "persist" /\ phase' = "end"
  BY <1>1, <1>2, <1>3, <1>8 DEF ImpactInv
<1> QED BY <1>4, <1>5, <1>6, <1>7, <1>8, RunItems

LEMMA ImpactStep ==
  IInv /\ IInv' /\ PhaseInv /\ ImpactInv /\ [Next]_vars => ImpactInv'
<1> SUFFICES ASSUME IInv, IInv', PhaseInv, ImpactInv, [Next]_vars PROVE ImpactInv'
  OBVIOUS
<1>1. CASE UNCHANGED vars
  BY <1>1, ImpactUnchanged DEF vars, runVars, fanVars
<1>2. CASE Next
  BY <1>2, RunImpacts, WorkerImpacts DEF Next
<1> QED BY <1>1, <1>2

LEMMA FindingStart == Init => FindingInv
  BY DEF Init, FindingInv, FindingType, Fresh

LEMMA FindingUnchanged ==
  ASSUME FindingInv, UNCHANGED <<finding, heard, phase, client>>,
         phase = "falsify" => UNCHANGED <<len, filled>>
  PROVE  FindingInv'
<1>1. phase = "falsify" => Open' = Open
  BY DEF Open
<1>2. phase = "falsify" => Falsifying'
  BY <1>1 DEF Falsifying, FindingInv
<1> QED BY <1>2 DEF FindingInv

\* A falsifier has answered, or was refused: its finding is heard or suppressed.
LEMMA FindingHandled ==
  ASSUME IInv, FindingInv, phase = "falsify", NEW w \in Workers, st[w] = "busy",
         NEW r \in FindingType,
         finding' = [finding EXCEPT ![ix[w] + 1] = r], filled' = filled \cup {ix[w]},
         heard \subseteq heard', r.disposition = "active" => ix[w] + 1 \in heard',
         UNCHANGED <<len, client, phase>>
  PROVE  FindingInv'
<1> DEFINE j == ix[w]
<1>1. j \in Open /\ Open' = Open \ {j} /\ Open \subseteq 0..(len - 1)
  <2>1. filled' = filled \cup {j} /\ len' = len /\ j \in Open
    BY HandIsOpen
  <2> QED BY <2>1 DEF Open
<1>0. ix[w] = j
  OBVIOUS
<1> HIDE DEF j
<1>2. Falsifying /\ NFindings \in Nat
  BY BudgetAssumption, PoolAssumption DEF FindingInv
<1>3. j + 1 \in FindingIds /\ j \in Nat
  BY <1>1, <1>2 DEF Falsifying, FindingIds
<1>4. finding' \in [FindingIds -> FindingType]
  BY <1>0, <1>3 DEF FindingInv
<1>5. finding'[j + 1] = r /\ \A f \in FindingIds : f # j + 1 => finding'[f] = finding[f]
  BY <1>0, <1>3 DEF FindingInv
<1>6. \A k \in Open' : finding'[k + 1] = Fresh
  <2> SUFFICES ASSUME NEW k \in Open' PROVE finding'[k + 1] = Fresh
    OBVIOUS
  <2>1. k \in Open /\ k # j /\ k \in Nat /\ k + 1 \in FindingIds
    BY <1>1, <1>2 DEF Falsifying, FindingIds
  <2>2. k + 1 # j + 1
    BY <2>1, <1>3
  <2> QED BY <2>1, <2>2, <1>2, <1>5 DEF Falsifying
<1>7. ASSUME NEW f \in FindingIds, finding'[f].disposition = "active"
      PROVE  f - 1 \in Open' \/ f \in heard'
  <2>1. CASE f = j + 1
    BY <2>1, <1>0, <1>5, <1>7
  <2>2. CASE f # j + 1
    <3>1. f - 1 \in Open \/ f \in heard
      BY <2>2, <1>2, <1>5, <1>7 DEF Falsifying
    <3>2. f - 1 # j
      BY <2>2, <1>3, <1>2 DEF FindingIds
    <3> QED BY <3>1, <3>2, <1>1
  <2> QED BY <2>1, <2>2
<1>8. Falsifying'
  BY <1>2, <1>6, <1>7 DEF Falsifying
<1> QED BY <1>4, <1>8 DEF FindingInv

LEMMA WorkerFindings ==
  ASSUME IInv, PhaseInv, FindingInv, NEW w \in Workers, WorkerStep(w)
  PROVE  FindingInv'
<1>1. ASSUME st[w] = "busy", phase = "falsify"
      PROVE  ix[w] + 1 \in FindingIds /\ finding[ix[w] + 1] = Fresh
  <2>1. ix[w] \in Open /\ Falsifying /\ NFindings \in Nat
    BY <1>1, HandIsOpen, BudgetAssumption, PoolAssumption DEF FindingInv
  <2> QED BY <2>1 DEF Falsifying, Open, FindingIds
<1>2. CASE \E v \in {"stands", "refuted", "refusal"} : FindingAnswered(w, v)
  <2>1. PICK v \in {"stands", "refuted", "refusal"} : FindingAnswered(w, v)
    BY <1>2
  <2>2. phase = "falsify" /\ HandlerReturns(w) /\ st[w] = "busy"
    BY <2>1, HandlerTakes DEF FindingAnswered
  <2> DEFINE r == IF v = "stands" THEN finding[ix[w] + 1] ELSE Suppressed(v)
  <2>3. finding' = [finding EXCEPT ![ix[w] + 1] = r] /\ heard' = heard \cup {ix[w] + 1}
    BY <2>1 DEF FindingAnswered
  <2>4. r \in FindingType
    BY <1>1, <2>2 DEF FindingInv, Suppressed, FindingType, Fresh
  <2> HIDE DEF r
  <2> QED BY <2>2, <2>3, <2>4, HandlerTakes, FindingHandled
<1>3. CASE FindingStarved(w)
  <2>1. phase = "falsify" /\ HandlerReturns(w) /\ st[w] = "busy"
    BY <1>3, HandlerTakes DEF FindingStarved
  <2> DEFINE r == Suppressed("budget")
  <2>2. finding' = [finding EXCEPT ![ix[w] + 1] = r] /\ heard' = heard
    BY <1>3 DEF FindingStarved
  <2>3. r \in FindingType /\ r.disposition # "active"
    BY DEF Suppressed, FindingType
  <2> HIDE DEF r
  <2> QED BY <2>1, <2>2, <2>3, HandlerTakes, FindingHandled
<1>4. CASE (\E reply \in Reply : ImpactAnswered(w, reply)) \/ ImpactStarved(w)
  <2>1. phase = "patch" /\ HandlerReturns(w) /\ finding' = finding /\ heard' = heard
    BY <1>4 DEF ImpactAnswered, ImpactStarved
  <2> QED BY <2>1, HandlerTakes, FindingUnchanged
<1>5. CASE UNCHANGED <<impact, finding, heard, exhausted, filled, len, work, phase, client>>
  BY <1>5, FindingUnchanged
<1> QED BY <1>2, <1>3, <1>4, <1>5, WorkerItems

LEMMA RunFindings ==
  ASSUME IInv, PhaseInv, FindingInv, RunStep \/ \E w \in Workers : ExtractStep(w)
  PROVE  FindingInv'
<1>1. UNCHANGED <<finding, heard, client>>
  BY RunItems
<1>2. CASE EnterPatch
  <2>1. phase = "extract" /\ phase' \in {"patch", "patched"}
    BY <1>2 DEF EnterPatch
  <2> QED BY <1>1, <2>1 DEF FindingInv
<1>3. CASE EnterFalsify
  <2>0. NFindings \in Nat
    BY BudgetAssumption, PoolAssumption
  <2>1. phase = "patched" /\ \A f \in FindingIds : finding[f] = Fresh
    BY <1>3 DEF EnterFalsify, FindingInv
  <2>2. CASE client /\ NFindings > 0
    <3>1. phase' = "falsify" /\ len' = NFindings /\ filled' = {}
      BY <1>3, <2>2 DEF EnterFalsify, Call
    <3>2. Open' = 0..(NFindings - 1)
      BY <3>1 DEF Open
    <3>3. \A j \in Open' : j + 1 \in FindingIds
      BY <3>2, <2>0 DEF FindingIds
    <3>4. \A f \in FindingIds : f - 1 \in Open'
      BY <3>2, <2>0 DEF FindingIds
    <3>5. Falsifying'
      BY <1>1, <2>1, <3>1, <3>3, <3>4 DEF Falsifying
    <3> QED BY <1>1, <3>1, <3>5 DEF FindingInv
  <2>3. CASE ~(client /\ NFindings > 0)
    <3>1. phase' = "persist"
      BY <1>3, <2>3 DEF EnterFalsify
    <3>2. client => FindingIds = {}
      BY <2>0, <2>3 DEF FindingIds
    <3> QED BY <1>1, <3>1, <3>2 DEF FindingInv
  <2> QED BY <2>2, <2>3
<1>4. CASE FanOutResolves
  <2>1. phase \in Fanning /\ phase' = (IF phase = "patch" THEN "patched" ELSE "persist")
    BY <1>4 DEF FanOutResolves, Resolve, PhaseInv, Phase, Fanning
  <2>2. CASE phase = "patch"
    BY <1>1, <2>1, <2>2 DEF FindingInv
  <2>3. CASE phase = "falsify"
    <3>1. Open = {}
      BY <1>4, NoneOpen DEF FanOutResolves, Resolve
    <3>2. \A f \in FindingIds : finding[f].disposition = "active" => f \in heard
      BY <2>3, <3>1 DEF FindingInv, Falsifying
    <3> QED BY <1>1, <2>1, <2>3, <3>2 DEF FindingInv
  <2> QED BY <2>1, <2>2, <2>3 DEF Fanning
<1>5. CASE UNCHANGED <<len, filled, work>> /\ phase' = phase
  BY <1>1, <1>5, FindingUnchanged
<1>6. CASE \/ phase = "load" /\ phase' = "extract"
           \/ phase = "persist" /\ phase' = "end"
  BY <1>1, <1>6 DEF FindingInv
<1> QED BY <1>2, <1>3, <1>4, <1>5, <1>6, RunItems

LEMMA FindingStep ==
  IInv /\ PhaseInv /\ FindingInv /\ [Next]_vars => FindingInv'
<1> SUFFICES ASSUME IInv, PhaseInv, FindingInv, [Next]_vars PROVE FindingInv'
  OBVIOUS
<1>1. CASE UNCHANGED vars
  BY <1>1, FindingUnchanged DEF vars, runVars, fanVars
<1>2. CASE Next
  BY <1>2, RunFindings, WorkerFindings DEF Next
<1> QED BY <1>1, <1>2

------------------------------------------------------------------------------
\* What the note of one impact, or the reason of one finding, does to the flag.
LEMMA StarveStart == Init => StarveInv
<1> SUFFICES ASSUME Init PROVE StarveInv
  OBVIOUS
<1>1. \A i \in ImpactIds : impact[i].note = "none"
  BY DEF Init, ImpactRecord
<1>2. \A f \in FindingIds : finding[f].why = "none"
  BY DEF Init
<1> QED BY <1>1, <1>2 DEF Init, StarveInv, StarvedImpact, StarvedFinding, Finished

LEMMA WorkerStarves ==
  ASSUME IInv, PhaseInv, ImpactInv, FindingInv, StarveInv, NEW w \in Workers, WorkerStep(w)
  PROVE  StarveInv'
<1> DEFINE i == work[ix[w] + 1]
           f == ix[w] + 1
<1>1. /\ ~Finished /\ ~Finished'
      /\ exhausted \in BOOLEAN
  BY WorkerMoves DEF PhaseInv, Fanning, Finished
<1>2. SUFFICES exhausted' <=> StarvedImpact' \/ StarvedFinding'
  BY <1>1 DEF StarveInv
<1>3. ASSUME st[w] = "busy", phase = "patch"
      PROVE  i \in ImpactIds /\ Raw(impact[i]) /\ impact[i] \in ImpactType
  <2>1. ix[w] \in Open /\ Patching /\ len \in Nat
    BY <1>3, HandIsOpen, PoolAssumption DEF ImpactInv, IInv, PoolTypeOK
  <2>2. ix[w] + 1 \in 1..Len(work) /\ work \in Seq(ImpactIds) /\ Raw(impact[i])
    BY <2>1 DEF Patching, Open
  <2>3. i \in ImpactIds
    BY <2>2
  <2> QED BY <2>2, <2>3 DEF ImpactInv
<1>4. ASSUME st[w] = "busy", phase = "falsify"
      PROVE  f \in FindingIds /\ finding[f] = Fresh
  <2>1. ix[w] \in Open /\ Falsifying /\ NFindings \in Nat
    BY <1>4, HandIsOpen, BudgetAssumption, PoolAssumption DEF FindingInv
  <2> QED BY <2>1 DEF Falsifying, Open, FindingIds
<1>5. /\ impact \in [ImpactIds -> ImpactType] /\ finding \in [FindingIds -> FindingType]
      /\ exhausted <=> StarvedImpact \/ StarvedFinding
  BY DEF ImpactInv, FindingInv, StarveInv
<1>6. CASE \E reply \in Reply : ImpactAnswered(w, reply)
  <2>1. PICK reply \in Reply : ImpactAnswered(w, reply)
    BY <1>6
  <2>2. i \in ImpactIds /\ Raw(impact[i]) /\ impact[i] \in ImpactType
    BY <1>3, <2>1, HandlerTakes DEF ImpactAnswered
  <2> DEFINE r == Resolved(impact[i], reply)
  <2>3. impact' = [impact EXCEPT ![i] = r] /\ finding' = finding /\ exhausted' = exhausted
    BY <2>1 DEF ImpactAnswered
  <2>4. r.note # "budget" /\ impact[i].note # "budget"
    BY <2>2, ResolvedSettles DEF Raw
  <2> HIDE DEF r, i
  <2>5. StarvedImpact' <=> StarvedImpact
    BY <2>2, <2>3, <2>4, <1>5 DEF StarvedImpact
  <2> QED BY <2>3, <2>5, <1>5 DEF StarvedFinding
<1>7. CASE ImpactStarved(w)
  <2>1. i \in ImpactIds /\ impact[i] \in ImpactType
    BY <1>3, <1>7, HandlerTakes DEF ImpactStarved
  <2>2. impact' = [impact EXCEPT ![i].note = "budget"] /\ exhausted' = TRUE
    BY <1>7 DEF ImpactStarved, Starve
  <2>3. impact'[i].note = "budget"
    BY <2>1, <2>2, <1>5 DEF ImpactType
  <2> QED BY <2>1, <2>2, <2>3 DEF StarvedImpact
<1>8. CASE \E v \in {"stands", "refuted", "refusal"} : FindingAnswered(w, v)
  <2>1. PICK v \in {"stands", "refuted", "refusal"} : FindingAnswered(w, v)
    BY <1>8
  <2>2. f \in FindingIds /\ finding[f] = Fresh
    BY <1>4, <2>1, HandlerTakes DEF FindingAnswered
  <2> DEFINE r == IF v = "stands" THEN finding[f] ELSE Suppressed(v)
  <2>3. finding' = [finding EXCEPT ![f] = r] /\ impact' = impact /\ exhausted' = exhausted
    BY <2>1 DEF FindingAnswered
  <2>4. r.why # "budget" /\ finding[f].why # "budget"
    BY <2>2 DEF Fresh, Suppressed
  <2> HIDE DEF r, f
  <2>5. StarvedFinding' <=> StarvedFinding
    BY <2>2, <2>3, <2>4, <1>5 DEF StarvedFinding
  <2> QED BY <2>3, <2>5, <1>5 DEF StarvedImpact
<1>9. CASE FindingStarved(w)
  <2>1. f \in FindingIds
    BY <1>4, <1>9, HandlerTakes DEF FindingStarved
  <2>2. finding' = [finding EXCEPT ![f] = Suppressed("budget")] /\ exhausted' = TRUE
    BY <1>9 DEF FindingStarved, Starve
  <2>3. finding'[f].why = "budget"
    BY <2>1, <2>2, <1>5 DEF Suppressed
  <2> QED BY <2>1, <2>2, <2>3 DEF StarvedFinding
<1>10. CASE UNCHANGED <<impact, finding, heard, exhausted, filled, len, work, phase, client>>
  BY <1>5, <1>10 DEF StarvedImpact, StarvedFinding
<1> QED BY <1>6, <1>7, <1>8, <1>9, <1>10, WorkerItems

LEMMA RunStarves ==
  ASSUME PhaseInv, StarveInv, RunStep \/ \E w \in Workers : ExtractStep(w)
  PROVE  StarveInv'
<1>1. UNCHANGED <<impact, finding, exhausted>>
  BY RunItems
<1>2. (exhausted <=> StarvedImpact \/ StarvedFinding)'
  BY <1>1 DEF StarveInv, StarvedImpact, StarvedFinding
<1>3. (Finished => (status = "partial" <=> exhausted))'
  <2>1. CASE Persist
    BY <1>1, <2>1 DEF Persist, PhaseInv
  <2>2. CASE ~Persist
    <3>1. status' = status \/ status' = "failed"
      BY <2>2 DEF RunStep, LoadSpendState, ExtractBatch, EnterPatch, EnterFalsify,
         FanOutResolves, FanOutRejects, StoreFails, ExtractStep, ExtractReturn,
         ExtractReject, ExtractAccrue, ExtractRecorded, ExtractRecordFails
    <3> QED BY <1>1, <3>1 DEF StarveInv, Finished
  <2> QED BY <2>1, <2>2
<1> QED BY <1>2, <1>3 DEF StarveInv

LEMMA StarveStep ==
  IInv /\ PhaseInv /\ ImpactInv /\ FindingInv /\ StarveInv /\ [Next]_vars => StarveInv'
<1> SUFFICES ASSUME IInv, PhaseInv, ImpactInv, FindingInv, StarveInv, [Next]_vars
             PROVE  StarveInv'
  OBVIOUS
<1>1. CASE UNCHANGED vars
  BY <1>1 DEF vars, runVars, StarveInv, StarvedImpact, StarvedFinding, Finished
<1>2. CASE Next
  BY <1>2, RunStarves, WorkerStarves DEF Next
<1> QED BY <1>1, <1>2

------------------------------------------------------------------------------
(* The invariants together, and what they say of a run that ends.          *)

RunInv ==
  /\ IInv /\ CapInv /\ PhaseInv /\ CostInv /\ SpendInv /\ LedgerInv
  /\ ImpactInv /\ FindingInv /\ StarveInv

THEOREM RunInvariant == Spec => []RunInv
<1>1. Init => RunInv
  <2>1. Init => IInv
    BY InitInv DEF Init
  <2> QED BY <2>1, CapInit, PhaseStart, CostStart, SpendStart, LedgerStart, ImpactStart,
         FindingStart, StarveStart DEF RunInv
<1>2. RunInv /\ [Next]_vars => RunInv'
  <2> SUFFICES ASSUME RunInv, [Next]_vars PROVE RunInv'
    OBVIOUS
  <2>1. IInv'
    BY RunStepIsFanOut, StepInv DEF RunInv
  <2>2. CapInv'
    BY CapStep DEF RunInv
  <2>3. PhaseInv' /\ CostInv' /\ LedgerInv'
    BY PhaseStep, CostStep, LedgerStep DEF RunInv
  <2>4. SpendInv'
    BY <2>2, SpendStep DEF RunInv
  <2>5. ImpactInv' /\ FindingInv' /\ StarveInv'
    BY <2>1, ImpactStep, FindingStep, StarveStep DEF RunInv
  <2> QED BY <2>1, <2>2, <2>3, <2>4, <2>5 DEF RunInv
<1> QED BY <1>1, <1>2, PTL DEF Spec

\* The workers overshoot the daily cap by the calls that are out when it is
\* reached and no more, for any number of workers, any cap and any prices.
THEOREM OvershootHolds == Spec => []SpendOvershootBounded
<1>1. RunInv => SpendOvershootBounded
  <2> SUFFICES ASSUME RunInv PROVE SpendOvershootBounded
    OBVIOUS
  <2>1. MaxCost * Cardinality(Due) \in Nat
    BY DueTypes, DueMoney DEF RunInv
  <2>2. CASE phase = "load"
    BY <2>2, BudgetAssumption DEF RunInv, SpendInv, SpendOvershootBounded
  <2>3. CASE phase # "load"
    BY <2>1, <2>3, DueTypes DEF RunInv, SpendInv, SpendOvershootBounded, Exposed, Extracting
  <2> QED BY <2>2, <2>3
<1> QED BY <1>1, RunInvariant, PTL

\* When a run ends without failing, its rows and its memory agree: every reply
\* that was read has its row, and the sums are the same.
THEOREM LedgerHolds == Spec => []LedgerAgrees
<1>1. RunInv => LedgerAgrees
  <2> SUFFICES ASSUME RunInv, Finished PROVE LedgerAgrees
    BY DEF LedgerAgrees
  <2>1. phase = "end" /\ promise \in {"idle", "resolved"} /\ \A w \in Workers : call[w] = "none"
    BY DEF RunInv, PhaseInv
  <2>2. Intact
    BY <2>1 DEF RunInv, IInv, StateInv, Intact, Finished
  <2>3. Balanced
    BY <2>2 DEF RunInv, LedgerInv
  <2>4. (\A n \in Workers : Owed[n] = 0) /\ Cardinality(Read) = 0
    BY <2>1, NothingOwed DEF RunInv
  <2>5. PICK s : Sums(s, Owed) /\ recorded + s[Limit] = spend.spent
    BY <2>1, <2>3 DEF Balanced
  <2>6. s[Limit] = 0
    BY <2>4, <2>5, SumsOfNothing
  <2>7. tally.rows = tally.returned /\ recorded = spend.spent
    BY <2>3, <2>4, <2>5, <2>6, OwedTypes DEF Balanced, RunInv
  <2>8. spend.calls = tally.made - tally.attempted
    BY DEF RunInv, CapInv, Reserved
  <2> QED BY <2>7, <2>8 DEF LedgerAgrees
<1> QED BY <1>1, RunInvariant, PTL

\* I10: a run that had a model client and ends has dropped no impact, whatever the
\* replies, the refusals of the gate and the order the workers took.
THEOREM NothingDroppedHolds == Spec => []NothingDropped
<1>1. RunInv => NothingDropped
  BY DEF RunInv, PhaseInv, ImpactInv, Settled, NothingDropped
<1> QED BY <1>1, RunInvariant, PTL

\* A run ends partial exactly when the budget starved an impact or a finding.
THEOREM PartialHolds == Spec => []PartialIffStarved
<1>1. RunInv => PartialIffStarved
  BY DEF RunInv, StarveInv, StarvedImpact, StarvedFinding, PartialIffStarved
<1> QED BY <1>1, RunInvariant, PTL

\* A finding that a finished run shows has faced its falsifier.
THEOREM SurfacedHolds == Spec => []SurfacedFindingsHeard
<1>1. RunInv => SurfacedFindingsHeard
  BY DEF RunInv, PhaseInv, FindingInv, SurfacedFindingsHeard
<1> QED BY <1>1, RunInvariant, PTL

\* What the run does with its fan-out implements the bounded pool.
THEOREM RunImplementsBoundedPool == Spec => ImplementsBoundedPool
  BY RunIsAFanOut, FanOutImplementsBoundedPool
==============================================================================

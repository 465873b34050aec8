----------------------------- MODULE BoundedPool -----------------------------
(***************************************************************************)
(* What a bounded fan-out promises its caller, whatever way it hands the   *)
(* items to its workers: an item is started at most once, no more than     *)
(* Limit items are in flight, the call resolves only when every item has   *)
(* settled, and it rejects as soon as one item has failed -- while the     *)
(* items still in flight, and even items not yet started, may go on.       *)
(* The pool is called again and again by its owner, one call at a time.    *)
(***************************************************************************)
EXTENDS Integers, FiniteSets

CONSTANTS Limit,      \* the most items in flight
          MaxItems    \* the longest list of items a call may bring

VARIABLES todo,       \* items of the call that nobody has started
          running,    \* items in flight
          settled,    \* items whose result is in
          failed,     \* items whose handler threw
          outcome     \* of the call: "idle" before the first one

poolVars == <<todo, running, settled, failed, outcome>>

Init ==
  /\ todo = {} /\ running = {} /\ settled = {} /\ failed = {}
  /\ outcome = "idle"

\* The owner hands over a list of n items once the previous call has resolved.
Begin(n) ==
  /\ outcome \in {"idle", "resolved"}
  /\ outcome' = "pending"
  /\ todo' = 0..(n - 1)
  /\ running' = {} /\ settled' = {} /\ failed' = {}

\* Some items in flight settle and some new ones start, within the limit.
Advance ==
  \E done \in SUBSET running, new \in SUBSET todo :
    /\ running' = (running \ done) \cup new
    /\ Cardinality(running') <= Limit
    /\ settled' = settled \cup done
    /\ todo' = todo \ new
    /\ UNCHANGED <<failed, outcome>>

Break ==
  \E i \in running :
    /\ running' = running \ {i}
    /\ failed' = failed \cup {i}
    /\ UNCHANGED <<todo, settled, outcome>>

Resolve ==
  /\ outcome = "pending"
  /\ todo = {} /\ running = {} /\ failed = {}
  /\ outcome' = "resolved"
  /\ UNCHANGED <<todo, running, settled, failed>>

Reject ==
  /\ outcome = "pending"
  /\ failed # {}
  /\ outcome' = "rejected"
  /\ UNCHANGED <<todo, running, settled, failed>>

Next == (\E n \in 0..MaxItems : Begin(n)) \/ Advance \/ Break \/ Resolve \/ Reject

Spec == Init /\ [][Next]_poolVars
==============================================================================

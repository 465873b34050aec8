--------------------------- MODULE RelayKernelProofs ---------------------------
(***************************************************************************)
(* What holds of the Relay kernel and its callers for any number of them,  *)
(* any datasets, any number of attempts and any number of faults, as long  *)
(* as a signed URL is good for all the attempts together.                  *)
(***************************************************************************)
EXTENDS RelayKernel, TLAPS

(***************************************************************************)
(* The runtime tier: while both requests may still be answered, what the   *)
(* first one brought is of the image that runs, or the container was       *)
(* replaced since.                                                         *)
(***************************************************************************)
Resolution == [pc : {"idle", "waiting", "pending", "ok"}, versions : Nat \cup {None},
               catalog : Nat \cup {None}, rolled : BOOLEAN]

Faithful(t, i) ==
    /\ t.pc = "idle" => t.versions = None /\ t.catalog = None
    /\ t.pc = "waiting" /\ ~t.rolled => t.versions \in {None, i} /\ t.catalog \in {None, i}
    /\ t.pc = "ok" => t.versions = t.catalog \/ t.rolled

ClaimsInv ==
    /\ image \in Nat
    /\ truth \in [Actors -> Resolution]
    /\ \A a \in Actors : Faithful(truth[a], image)

LEMMA ClaimsInit == Init => ClaimsInv
  BY DEF Init, ClaimsInv, Resolution, Faithful

\* One resolution moves on.
LEMMA OneMoves ==
    ASSUME ClaimsInv, NEW a \in Actors, NEW t \in Resolution, Faithful(t, image),
           truth' = [truth EXCEPT ![a] = t], UNCHANGED image
    PROVE  ClaimsInv'
  BY DEF ClaimsInv

LEMMA TellClaims ==
    ASSUME ClaimsInv, NEW r \in waiting, r.by \in Actors, Tell(r)
    PROVE  ClaimsInv'
<1> DEFINE t == truth[r.by]
           v == Report([t EXCEPT !.versions = image])
           c == Report([t EXCEPT !.catalog = image])
<1>1. t \in Resolution /\ image \in Nat /\ Faithful(t, image)
  BY DEF ClaimsInv
<1>2. \/ t.pc # "waiting" /\ truth' = [truth EXCEPT ![r.by] = t] /\ UNCHANGED image
      \/ t.pc = "waiting" /\ truth' = [truth EXCEPT ![r.by] = v] /\ UNCHANGED image
      \/ t.pc = "waiting" /\ truth' = [truth EXCEPT ![r.by] = c] /\ UNCHANGED image
  BY DEF Tell
<1>3. t.pc = "waiting" => v \in Resolution /\ Faithful(v, image)
  BY <1>1 DEF Report, Resolved, Resolution, Faithful
<1>4. t.pc = "waiting" => c \in Resolution /\ Faithful(c, image)
  BY <1>1 DEF Report, Resolved, Resolution, Faithful
<1> HIDE DEF t, v, c
<1> QED BY <1>1, <1>2, <1>3, <1>4, OneMoves

LEMMA RestartClaims ==
    ASSUME ClaimsInv, Restart
    PROVE  ClaimsInv'
<1>1. image' \in Nat
  BY DEF Restart, ClaimsInv
<1>2. \A a \in Actors :
        truth'[a] = [truth[a] EXCEPT !.rolled = @ \/ (truth[a].pc = "waiting" /\ image' # image)]
  BY DEF Restart
<1>3. truth' = [a \in Actors |-> truth'[a]]
  BY DEF Restart
<1>4. ASSUME NEW a \in Actors PROVE truth'[a] \in Resolution /\ Faithful(truth'[a], image')
  <2>1. truth[a] \in Resolution /\ Faithful(truth[a], image)
    BY DEF ClaimsInv
  <2> QED BY <1>2, <2>1 DEF Resolution, Faithful
<1> QED BY <1>1, <1>3, <1>4 DEF ClaimsInv

\* Every request is some actor's.
Owned == /\ \A r \in waiting : r.by \in Actors
         /\ \A s \in serving : s = [req |-> s.req, loaded |-> s.loaded] /\ s.req.by \in Actors

LEMMA RetryOwned ==
    ASSUME NEW a \in Actors, NEW left, \A r \in left : r.by \in Actors, Retry(a, left)
    PROVE  \A r \in waiting' : r.by \in Actors
  BY DEF Retry, Request

LEMMA OwnedStep == Owned /\ [Next]_vars => Owned'
<1> SUFFICES ASSUME Owned, [Next]_vars PROVE Owned'
  OBVIOUS
<1>1. ASSUME NEW a \in Actors, TimeOut(a) \/ Break(a) PROVE Owned'
  <2>1. PICK left \in {waiting, waiting \ {Current(a)}} : Retry(a, left)
    BY <1>1 DEF TimeOut, Break
  <2>2. \A r \in left : r.by \in Actors
    BY <2>1 DEF Owned
  <2>3. \A r \in waiting' : r.by \in Actors
    BY <2>1, <2>2, RetryOwned
  <2> QED BY <1>1, <2>3 DEF TimeOut, Break, Owned
<1>2. ASSUME NEW a \in Actors, Gone(a) PROVE Owned'
  <2>1. \A r \in waiting' : r.by \in Actors
    BY <1>2, RetryOwned DEF Gone, Owned
  <2> QED BY <1>2, <2>1 DEF Gone, Owned
<1>3. ASSUME NEW a \in Actors, Ask(a) \/ Observe(a) \/ CheckHealth(a) PROVE Owned'
  <2>1. \A p, n : Request(a, p, n).by = a
    BY DEF Request
  <2>2. waiting' \subseteq waiting \cup {Request(a, "op", 1), Request(a, "versions", 0),
                                        Request(a, "operations", 0)}
    BY <1>3 DEF Ask, Observe, CheckHealth
  <2>3. serving' = serving
    BY <1>3 DEF Ask, Observe, CheckHealth
  <2> QED BY <2>1, <2>2, <2>3 DEF Owned
<1>4. ASSUME NEW a \in Actors,
             \/ Unobserved(a) \/ checkR2Put(a) \/ checkR2Get(a) \/ checkR2Delete(a)
             \/ LinkFails(a) \/ KernelLate(a) \/ runHealthChecks(a)
      PROVE  Owned'
  BY <1>4 DEF Owned, Unobserved, checkR2Put, checkR2Get, checkR2Delete, LinkFails, KernelLate,
     runHealthChecks, kernel
<1>5. ASSUME NEW r \in waiting, Begin(r) PROVE Owned'
  <2>1. serving' = serving \/ serving' = {[req |-> r, loaded |-> FALSE]}
    BY <1>5 DEF Begin
  <2>2. waiting' \subseteq waiting
    BY <1>5 DEF Begin
  <2> QED BY <2>1, <2>2 DEF Owned
<1>6. ASSUME NEW r \in waiting, Tell(r) \/ checkKernel(r) PROVE Owned'
  BY <1>6 DEF Owned, Tell, checkKernel
<1>7. ASSUME NEW s \in serving, Load(s) \/ LoadFails(s) \/ Compute(s) PROVE Owned'
  <2>1. serving' = {} \/ serving' = {[s EXCEPT !.loaded = TRUE]}
    BY <1>7 DEF Load, LoadFails, Compute
  <2>2. \A t \in serving' : t = [req |-> t.req, loaded |-> t.loaded] /\ t.req.by \in Actors
    BY <2>1 DEF Owned
  <2> QED BY <1>7, <2>2 DEF Owned, Load, LoadFails, Compute
<1>8. ASSUME NEW s \in serving, Crash(s) PROVE Owned'
  <2>1. s.req.by \in Actors
    BY DEF Owned
  <2>2. \A r \in waiting' : r.by \in Actors
    BY <1>8, <2>1, RetryOwned DEF Crash, Owned
  <2> QED BY <1>8, <2>2 DEF Crash, Owned
<1>9. ASSUME Restart \/ Tick \/ (\E f \in Files : DeleteObject(f)) \/ UNCHANGED vars PROVE Owned'
  BY <1>9 DEF Owned, Restart, Tick, DeleteObject, vars, kernel
<1> QED BY <1>1, <1>2, <1>3, <1>4, <1>5, <1>6, <1>7, <1>8, <1>9 DEF Next

LEMMA ClaimsStep == Owned /\ ClaimsInv /\ [Next]_vars => ClaimsInv'
<1> SUFFICES ASSUME Owned, ClaimsInv, [Next]_vars PROVE ClaimsInv'
  OBVIOUS
<1>1. ASSUME UNCHANGED <<truth, image>> PROVE ClaimsInv'
  BY <1>1 DEF ClaimsInv
<1>2. ASSUME NEW a \in Actors, Observe(a) PROVE ClaimsInv'
  <2>1. truth[a] \in Resolution /\ Faithful(truth[a], image) /\ truth[a].pc = "idle"
    BY <1>2 DEF Observe, ClaimsInv
  <2>2. PICK to \in {"pending", "waiting"} : truth' = [truth EXCEPT ![a].pc = to]
    BY <1>2 DEF Observe
  <2>3. [truth[a] EXCEPT !.pc = to] \in Resolution /\ Faithful([truth[a] EXCEPT !.pc = to], image)
    BY <2>1 DEF Resolution, Faithful
  <2> QED BY <1>2, <2>2, <2>3, OneMoves DEF Observe
<1>3. ASSUME NEW a \in Actors, Unobserved(a) PROVE ClaimsInv'
  <2>1. truth[a] \in Resolution
    BY <1>3 DEF ClaimsInv
  <2>2. /\ [truth[a] EXCEPT !.pc = "pending"] \in Resolution
        /\ Faithful([truth[a] EXCEPT !.pc = "pending"], image)
    BY <2>1 DEF Resolution, Faithful
  <2>3. truth' = [truth EXCEPT ![a] = [truth[a] EXCEPT !.pc = "pending"]]
    BY <1>3 DEF Unobserved
  <2> QED BY <1>3, <2>2, <2>3, OneMoves DEF Unobserved, kernel
<1>4. CASE Restart
  BY <1>4, RestartClaims
<1>5. ASSUME NEW r \in waiting, Tell(r) PROVE ClaimsInv'
  BY <1>5, TellClaims DEF Owned
<1>6. CASE UNCHANGED vars
  BY <1>1, <1>6 DEF vars
<1>7. ASSUME NEW a \in Actors,
             \/ Ask(a) \/ TimeOut(a) \/ Break(a) \/ Gone(a)
             \/ CheckHealth(a) \/ checkR2Put(a) \/ checkR2Get(a) \/ checkR2Delete(a)
             \/ LinkFails(a) \/ KernelLate(a) \/ runHealthChecks(a)
      PROVE  ClaimsInv'
  BY <1>1, <1>7 DEF Ask, TimeOut, Break, Gone, CheckHealth, checkR2Put, checkR2Get,
     checkR2Delete, LinkFails, KernelLate, runHealthChecks, kernel
<1>8. ASSUME NEW r \in waiting, Begin(r) \/ checkKernel(r) PROVE ClaimsInv'
  BY <1>1, <1>8 DEF Begin, checkKernel
<1>9. ASSUME NEW s \in serving, Load(s) \/ LoadFails(s) \/ Compute(s) \/ Crash(s)
      PROVE  ClaimsInv'
  BY <1>1, <1>9 DEF Load, LoadFails, Compute, Crash
<1>10. ASSUME Tick \/ \E f \in Files : DeleteObject(f) PROVE ClaimsInv'
  BY <1>1, <1>10 DEF Tick, DeleteObject, kernel
<1> QED BY <1>2, <1>3, <1>4, <1>5, <1>6, <1>7, <1>8, <1>9, <1>10 DEF Next

LEMMA ClaimsHold == Spec => [](Owned /\ ClaimsInv)
<1>1. Init => Owned /\ ClaimsInv
  BY ClaimsInit DEF Init, Owned
<1>2. Owned /\ ClaimsInv /\ [Next]_vars => (Owned /\ ClaimsInv)'
  BY OwnedStep, ClaimsStep
<1> QED BY <1>1, <1>2, PTL DEF Spec

\* The claims of the runtime tier carry the image that reported them, unless the
\* container was replaced between the two requests.
THEOREM ClaimsFromOneImageHolds == Spec => []ClaimsFromOneImage
<1>1. ClaimsInv => ClaimsFromOneImage
  BY DEF ClaimsInv, Faithful, ClaimsFromOneImage
<1> QED BY <1>1, ClaimsHold, PTL

(***************************************************************************)
(* The probe object: between its put and its get a check finds its own     *)
(* value there, unless another check came by.                              *)
(***************************************************************************)
Probing == [pc : {"idle", "links", "done"}, r2 : {"put", "get", "delete", "ok", "bad"},
            read : Actors \cup {None}, kernel : {"versions", "ok", "bad"},
            all_ok : BOOLEAN, failed : BOOLEAN, crossed : BOOLEAN]

Explained(a) == LET c == check[a] IN
    /\ c.r2 = "get" /\ ~c.crossed => probe = a
    /\ c.r2 = "get" => c.pc = "links"
    /\ c.r2 = "delete" => c.read = a \/ c.crossed
    /\ c.r2 = "bad" => c.failed \/ c.crossed

BucketInv ==
    /\ check \in [Actors -> Probing]
    /\ probe \in Actors \cup {None}
    /\ \A a \in Actors : Explained(a)

LEMMA CrossingKeeps ==
    ASSUME NEW c \in [Actors -> Probing], NEW a
    PROVE  /\ Crossing(c, a) \in [Actors -> Probing]
           /\ a \in Actors => Crossing(c, a)[a] = c[a]
<1>1. ASSUME NEW b \in Actors PROVE Crossing(c, a)[b] \in Probing
  <2>1. c[b] \in Probing
    OBVIOUS
  <2> QED BY <2>1 DEF Crossing, Probing
<1>2. Crossing(c, a) = [b \in Actors |-> Crossing(c, a)[b]]
  BY DEF Crossing
<1>3. a \in Actors => Crossing(c, a)[a] = c[a]
  BY DEF Crossing
<1> QED BY <1>1, <1>2, <1>3

LEMMA OthersCrossed ==
    ASSUME NEW c \in [Actors -> Probing], NEW a, NEW b \in Actors
    PROVE  LET e == Crossing(c, a)[b] IN
           /\ e.pc = c[b].pc /\ e.r2 = c[b].r2 /\ e.read = c[b].read /\ e.failed = c[b].failed
           /\ c[b].crossed => e.crossed
           /\ b # a /\ c[b].pc = "links" /\ c[b].r2 = "get" => e.crossed
<1>1. c[b] \in Probing
  OBVIOUS
<1> QED BY <1>1 DEF Crossing, Probing

\* A step of one check that touches the object: whoever is waiting to read it is
\* crossed.
LEMMA Touches ==
    ASSUME BucketInv, NEW a \in Actors, NEW n \in Probing,
           check' = Crossing([check EXCEPT ![a] = n], a),
           probe' \in Actors \cup {None},
           /\ n.r2 = "get" /\ ~n.crossed => probe' = a
           /\ n.r2 = "get" => n.pc = "links"
           /\ n.r2 = "delete" => n.read = a \/ n.crossed
           /\ n.r2 = "bad" => n.failed \/ n.crossed
    PROVE  BucketInv'
<1> DEFINE d == [check EXCEPT ![a] = n]
<1>1. d \in [Actors -> Probing] /\ d[a] = n /\ \A b \in Actors \ {a} : d[b] = check[b]
  BY DEF BucketInv
<1> HIDE DEF d
<1>2. check' = Crossing(d, a)
  BY DEF d
<1>3. check' \in [Actors -> Probing] /\ check'[a] = n
  BY <1>1, <1>2, CrossingKeeps
<1>4. Explained(a)'
  BY <1>3 DEF Explained
<1>5. ASSUME NEW b \in Actors, b # a PROVE Explained(b)'
  <2>1. d[b] = check[b] /\ Explained(b)
    BY <1>1, <1>5 DEF BucketInv
  <2> DEFINE e == Crossing(d, a)
  <2>2. /\ e[b].pc = d[b].pc
        /\ e[b].r2 = d[b].r2
        /\ e[b].read = d[b].read
        /\ e[b].failed = d[b].failed
        /\ d[b].crossed => e[b].crossed
        /\ d[b].pc = "links" /\ d[b].r2 = "get" => e[b].crossed
    BY <1>1, <1>5, OthersCrossed
  <2>3. check' = e /\ check'[b] = e[b]
    BY <1>2
  <2> HIDE DEF e
  <2> QED BY <2>1, <2>2, <2>3 DEF Explained
<1> QED BY <1>3, <1>4, <1>5 DEF BucketInv

\* A step of one check that does not.
LEMMA Leaves ==
    ASSUME BucketInv, NEW a \in Actors, NEW n \in Probing,
           check' = [check EXCEPT ![a] = n], probe' = probe,
           /\ n.r2 = "get" /\ ~n.crossed => probe = a
           /\ n.r2 = "get" => n.pc = "links"
           /\ n.r2 = "delete" => n.read = a \/ n.crossed
           /\ n.r2 = "bad" => n.failed \/ n.crossed
    PROVE  BucketInv'
<1>1. check' \in [Actors -> Probing] /\ check'[a] = n
      /\ \A b \in Actors \ {a} : check'[b] = check[b]
  BY DEF BucketInv
<1>2. \A b \in Actors : Explained(b)'
  BY <1>1 DEF BucketInv, Explained
<1> QED BY <1>1, <1>2 DEF BucketInv

LEMMA BucketStep == Owned /\ BucketInv /\ [Next]_vars => BucketInv'
<1> SUFFICES ASSUME Owned, BucketInv, [Next]_vars PROVE BucketInv'
  OBVIOUS
<1>0. \A a \in Actors : check[a] \in Probing /\ Explained(a)
  BY DEF BucketInv
<1>1. ASSUME UNCHANGED <<check, probe>> PROVE BucketInv'
  BY <1>1 DEF BucketInv, Explained
<1>2. ASSUME NEW a \in Actors, CheckHealth(a) PROVE BucketInv'
  <2>1. PICK k \in {"bad", "versions"} :
          check' = [check EXCEPT ![a] = [check[a] EXCEPT !.pc = "links", !.kernel = k]]
    BY <1>2 DEF CheckHealth
  <2> DEFINE n == [check[a] EXCEPT !.pc = "links", !.kernel = k]
  <2>2. /\ n \in Probing /\ n.pc = "links" /\ n.r2 = check[a].r2 /\ n.read = check[a].read
        /\ n.failed = check[a].failed /\ n.crossed = check[a].crossed
    BY <1>0 DEF Probing
  <2>3. probe' = probe
    BY <1>2 DEF CheckHealth
  <2> HIDE DEF n
  <2> QED BY <1>0, <2>1, <2>2, <2>3, Leaves DEF n, Explained
<1>3. ASSUME NEW a \in Actors, checkR2Put(a) PROVE BucketInv'
  <2> DEFINE n == [check[a] EXCEPT !.r2 = "get"]
  <2>1. check' = Crossing([check EXCEPT ![a] = n], a) /\ probe' = a /\ check[a].pc = "links"
    BY <1>3 DEF checkR2Put, Linked
  <2>2. n \in Probing /\ n.r2 = "get" /\ n.pc = check[a].pc
    BY <1>0 DEF Probing
  <2> HIDE DEF n
  <2> QED BY <2>1, <2>2, Touches
<1>4. ASSUME NEW a \in Actors, checkR2Get(a) PROVE BucketInv'
  <2> DEFINE n == [check[a] EXCEPT !.r2 = "delete", !.read = probe]
  <2>1. check' = [check EXCEPT ![a] = n] /\ probe' = probe /\ check[a].r2 = "get"
    BY <1>4 DEF checkR2Get, Linked
  <2>2. /\ n \in Probing /\ n.r2 = "delete" /\ n.read = probe /\ n.crossed = check[a].crossed
    BY <1>0 DEF Probing, BucketInv
  <2> HIDE DEF n
  <2> QED BY <1>0, <2>1, <2>2, Leaves DEF Explained
<1>5. ASSUME NEW a \in Actors, checkR2Delete(a) PROVE BucketInv'
  <2>1. PICK to \in {"ok", "bad"} :
          /\ check' = Crossing([check EXCEPT ![a] = [check[a] EXCEPT !.r2 = to]], a)
          /\ to = "bad" => check[a].read # a
    BY <1>5 DEF checkR2Delete
  <2> DEFINE n == [check[a] EXCEPT !.r2 = to]
  <2>2. n \in Probing /\ n.r2 = to /\ n.crossed = check[a].crossed
    BY <1>0 DEF Probing
  <2>3. probe' = None /\ check[a].r2 = "delete" /\ Explained(a)
    BY <1>0, <1>5 DEF checkR2Delete, Linked
  <2>4. to = "bad" => check[a].crossed
    BY <2>1, <2>3 DEF Explained
  <2> HIDE DEF n
  <2> QED BY <2>1, <2>2, <2>3, <2>4, Touches DEF n
<1>6. ASSUME NEW a \in Actors, LinkFails(a) PROVE BucketInv'
  <2> DEFINE n == [check[a] EXCEPT !.r2 = "bad", !.failed = TRUE]
  <2>1. check' = Crossing([check EXCEPT ![a] = n], a) /\ probe' \in Actors \cup {None}
    BY <1>6 DEF LinkFails, BucketInv
  <2>2. n \in Probing /\ n.r2 = "bad" /\ n.failed
    BY <1>0 DEF Probing
  <2> HIDE DEF n
  <2> QED BY <2>1, <2>2, Touches
<1>7. ASSUME NEW r \in waiting, checkKernel(r) PROVE BucketInv'
  <2> DEFINE a == r.by
             n == [check[a] EXCEPT !.kernel = IF @ = "versions" THEN "ok" ELSE @]
  <2>1. a \in Actors
    BY DEF Owned
  <2>2. check' = [check EXCEPT ![a] = n] /\ probe' = probe
    BY <1>7 DEF checkKernel
  <2>3. /\ n \in Probing /\ n.pc = check[a].pc /\ n.r2 = check[a].r2 /\ n.read = check[a].read
        /\ n.failed = check[a].failed /\ n.crossed = check[a].crossed
    BY <1>0, <2>1 DEF Probing
  <2> HIDE DEF n, a
  <2> QED BY <1>0, <2>1, <2>2, <2>3, Leaves DEF Explained
<1>8. ASSUME NEW a \in Actors, KernelLate(a) PROVE BucketInv'
  <2> DEFINE n == [check[a] EXCEPT !.kernel = "bad"]
  <2>1. check' = [check EXCEPT ![a] = n] /\ probe' = probe
    BY <1>8 DEF KernelLate
  <2>2. /\ n \in Probing /\ n.pc = check[a].pc /\ n.r2 = check[a].r2 /\ n.read = check[a].read
        /\ n.failed = check[a].failed /\ n.crossed = check[a].crossed
    BY <1>0 DEF Probing
  <2> HIDE DEF n
  <2> QED BY <1>0, <2>1, <2>2, Leaves DEF Explained
<1>9. ASSUME NEW a \in Actors, runHealthChecks(a) PROVE BucketInv'
  <2>1. PICK v \in BOOLEAN :
          check' = [check EXCEPT ![a] = [check[a] EXCEPT !.pc = "done", !.all_ok = v]]
    BY <1>9 DEF runHealthChecks
  <2> DEFINE n == [check[a] EXCEPT !.pc = "done", !.all_ok = v]
  <2>2. /\ n \in Probing /\ n.r2 = check[a].r2 /\ n.read = check[a].read
        /\ n.failed = check[a].failed /\ n.crossed = check[a].crossed
    BY <1>0 DEF Probing
  <2>3. probe' = probe /\ check[a].r2 \in {"ok", "bad"}
    BY <1>9 DEF runHealthChecks, Links
  <2> HIDE DEF n
  <2> QED BY <1>0, <2>1, <2>2, <2>3, Leaves DEF n, Explained
<1>10. ASSUME NEW a \in Actors,
              Ask(a) \/ TimeOut(a) \/ Break(a) \/ Gone(a) \/ Observe(a) \/ Unobserved(a)
       PROVE  BucketInv'
  BY <1>1, <1>10 DEF Ask, TimeOut, Break, Gone, Observe, Unobserved
<1>11. ASSUME NEW r \in waiting, Begin(r) \/ Tell(r) PROVE BucketInv'
  BY <1>1, <1>11 DEF Begin, Tell
<1>12. ASSUME NEW s \in serving, Load(s) \/ LoadFails(s) \/ Compute(s) \/ Crash(s)
       PROVE  BucketInv'
  BY <1>1, <1>12 DEF Load, LoadFails, Compute, Crash
<1>13. ASSUME Restart \/ Tick \/ (\E f \in Files : DeleteObject(f)) \/ UNCHANGED vars
       PROVE  BucketInv'
  BY <1>1, <1>13 DEF Restart, Tick, DeleteObject, vars
<1> QED BY <1>2, <1>3, <1>4, <1>5, <1>6, <1>7, <1>8, <1>9, <1>10, <1>11, <1>12, <1>13 DEF Next

\* A health check reports the bucket as broken only if a call to it failed, or
\* another check came between its put and its get.
THEOREM BucketAlarmsHaveCauseHolds == Spec => []BucketAlarmsHaveCause
<1>1. Init => Owned /\ BucketInv
  BY DEF Init, Owned, BucketInv, Probing, Explained
<1>2. Owned /\ BucketInv /\ [Next]_vars => (Owned /\ BucketInv)'
  BY OwnedStep, BucketStep
<1>3. BucketInv => BucketAlarmsHaveCause
  BY DEF BucketInv, Explained, BucketAlarmsHaveCause
<1> QED BY <1>1, <1>2, <1>3, PTL DEF Spec
(***************************************************************************)
(* The operations: what the Worker lets through the kernel accepts, and a  *)
(* URL outlives the attempts it is used for.                               *)
(***************************************************************************)
LEMMA ParsedIsValid ==
    ASSUME NEW q \in Requests, Gate(q)
    PROVE  model_validate(safeParse(q))
<1> DEFINE shape(op, s) == [op : {op}, sizes : {s}, extra : BOOLEAN, how : Variants(op),
                            names : UNION {[1 .. n -> Columns] : n \in Arities(op, s)}]
<1>1. q \in UNION {UNION {shape(op, s) : s \in Sizes(op)} : op \in OPERATION_IDS}
  BY DEF Requests
<1> HIDE DEF shape
<1>2. PICK op \in OPERATION_IDS : q \in UNION {shape(op, s) : s \in Sizes(op)}
  BY <1>1
<1>3. PICK s \in Sizes(op) : q \in shape(op, s)
  BY <1>2
<1> DEFINE d == Defaults(op)
           p == [f \in DOMAIN s \cup DOMAIN d |-> IF f \in DOMAIN s THEN s[f] ELSE d[f]]
<1>4. q.op = op /\ q.sizes = s
  BY <1>3 DEF shape
<1>5. safeParse(q).op = op /\ safeParse(q).sizes = p /\ safeParse(q).extra = FALSE
  BY <1>3, <1>4 DEF safeParse, shape
<1>6. OPERATION_PARAM_MODELS[op] = OPERATION_PARAMS_SCHEMAS[op]
  BY DEF OPERATION_PARAM_MODELS, OPERATION_PARAMS_SCHEMAS
<1> DEFINE schema == OPERATION_PARAMS_SCHEMAS[op]
<1>7. ASSUME NEW f \in DOMAIN schema, f \in DOMAIN d, f \notin DOMAIN s PROVE d[f] \in schema[f].lo .. schema[f].hi
  BY <1>7 DEF Defaults, OPERATION_PARAMS_SCHEMAS, OPERATION_IDS, May, Must
<1>8. Fits(s, schema)
  BY <1>4 DEF Gate
<1> HIDE DEF schema, d
<1>9. Fits(p, schema)
  BY <1>7, <1>8 DEF Fits
<1> QED BY <1>4, <1>5, <1>6, <1>9 DEF model_validate, schema

Ends == {"none"} \cup {i.ends : i \in Inquiries}

Answers == Ends \cup {"refused", "internal", "unavailable", "dataset_fetch_failed",
                     "invalid_params"}

Calls == [pc : {"idle", "waiting", "done"}, file : Files \cup {None}, ends : Ends,
          accepted : BOOLEAN, attempt : Nat, since : Nat, age : Nat, answer : Answers,
          cut : BOOLEAN]

Sound(c, there) ==
    /\ c.pc # "done" => c.answer = "none"
    /\ c.pc = "idle" => c.since = 0
    /\ c.pc = "waiting" =>
          /\ c.accepted
          /\ 1 <= c.attempt /\ c.attempt <= Attempts
          /\ c.since <= OpTimeout
          /\ c.age <= (c.attempt - 1) * OpTimeout + c.since
    /\ \/ c.answer \in {"none", "refused", "internal", "unavailable"}
       \/ c.answer = c.ends
       \/ c.answer = "dataset_fetch_failed" /\ (c.cut \/ c.file \notin there)

AnswersInv ==
    /\ objects \subseteq Files
    /\ call \in [Actors -> Calls]
    /\ \A a \in Actors : Sound(call[a], objects)

LEMMA OneCall ==
    ASSUME AnswersInv, NEW a \in Actors, NEW c \in Calls, Sound(c, objects),
           call' = [call EXCEPT ![a] = c], objects' = objects
    PROVE  AnswersInv'
  BY DEF AnswersInv

LEMMA Answering ==
    ASSUME AnswersInv, NEW a \in Actors, NEW code \in Answers, Answered(a, code),
           objects' = objects,
           \/ code \in {"none", "refused", "internal", "unavailable"}
           \/ code = call[a].ends
           \/ code = "dataset_fetch_failed" /\ call[a].file \notin objects
    PROVE  AnswersInv'
<1> DEFINE c == [call[a] EXCEPT !.pc = "done", !.answer = code]
<1>1. call[a] \in Calls
  BY DEF AnswersInv
<1>2. c \in Calls /\ Sound(c, objects)
  BY <1>1 DEF Calls, Sound
<1>3. call' = [call EXCEPT ![a] = c]
  BY DEF Answered
<1> HIDE DEF c
<1> QED BY <1>2, <1>3, OneCall

LEMMA Trying ==
    ASSUME AnswersInv, NEW a \in Actors, Awaited(a), NEW left, Retry(a, left),
           objects' = objects
    PROVE  AnswersInv'
<1>1. call[a] \in Calls /\ Sound(call[a], objects) /\ call[a].pc = "waiting"
  BY DEF AnswersInv, Awaited
<1>2. CASE call[a].attempt < Attempts
  <2> DEFINE c == [call[a] EXCEPT !.attempt = @ + 1, !.since = 0]
  <2>1. call' = [call EXCEPT ![a] = c]
    BY <1>2 DEF Retry
  <2>2. c \in Calls
    <3>1. call[a].attempt + 1 \in Nat
      BY <1>1 DEF Calls
    <3> QED BY <1>1, <3>1 DEF Calls
  <2>3. /\ c.pc = "waiting" /\ c.since = 0 /\ c.attempt = call[a].attempt + 1
        /\ c.age = call[a].age /\ c.accepted = call[a].accepted /\ c.answer = call[a].answer
        /\ c.ends = call[a].ends /\ c.cut = call[a].cut /\ c.file = call[a].file
    BY <1>1 DEF Calls
  <2>4. call[a].attempt \in Nat /\ call[a].since \in Nat /\ call[a].age \in Nat
    BY <1>1 DEF Calls
  <2> HIDE DEF c
  <2>5. c.age <= (c.attempt - 1) * OpTimeout + c.since
    <3>1. ASSUME NEW n \in Nat, NEW s \in Nat, NEW g \in Nat, s <= OpTimeout,
                 g <= (n - 1) * OpTimeout + s
          PROVE  g <= ((n + 1) - 1) * OpTimeout + 0
      BY <3>1, KernelAssumption
    <3> QED BY <1>1, <2>3, <2>4, <3>1 DEF Sound
  <2>6. Sound(c, objects)
    BY <1>1, <1>2, <2>3, <2>4, <2>5, KernelAssumption DEF Sound
  <2> QED BY <2>1, <2>2, <2>6, OneCall
<1>3. CASE ~(call[a].attempt < Attempts)
  <2>1. Answered(a, "unavailable")
    BY <1>3 DEF Retry
  <2> QED BY <2>1, Answering DEF Answers
<1> QED BY <1>2, <1>3

\* The URL of a call that is waited for has not expired.
LEMMA InTime ==
    ASSUME AnswersInv, NEW a \in Actors, call[a].pc = "waiting"
    PROVE  verifyDatasetUrl(a)
<1>1. call[a] \in Calls /\ Sound(call[a], objects)
  BY DEF AnswersInv
<1>2. ASSUME NEW n \in Nat, NEW s \in Nat, NEW g \in Nat, 1 <= n, n <= Attempts,
             s <= OpTimeout, g <= (n - 1) * OpTimeout + s
      PROVE  g <= Ttl
  <2>1. g <= n * OpTimeout
    BY <1>2, KernelAssumption
  <2>2. \A k, m, t \in Nat : k <= m => k * t <= m * t
    <3>1. TAKE k, m, t \in Nat
    <3>2. HAVE k <= m
    <3>3. m - k \in Nat /\ (m - k) * t \in Nat /\ m * t = k * t + (m - k) * t
      BY <3>2
    <3> QED BY <3>3
  <2>3. n * OpTimeout <= Attempts * OpTimeout
    BY <1>2, <2>2, KernelAssumption
  <2>4. n * OpTimeout \in Nat /\ Attempts * OpTimeout \in Nat
    BY <1>2, KernelAssumption
  <2> QED BY <2>1, <2>3, <2>4, KernelAssumption
<1>3. call[a].attempt \in Nat /\ call[a].since \in Nat /\ call[a].age \in Nat
  BY <1>1 DEF Calls
<1> QED BY <1>1, <1>2, <1>3 DEF Sound, verifyDatasetUrl

LEMMA AskAnswers ==
    ASSUME AnswersInv, NEW a \in Actors, Ask(a)
    PROVE  AnswersInv'
<1>1. call[a] \in Calls /\ Sound(call[a], objects) /\ objects' = objects
  BY DEF AnswersInv, Ask
<1>2. CASE \E code \in {"refused", "unavailable", "internal"} : Answered(a, code)
  BY <1>1, <1>2, Answering DEF Answers
<1>3. ASSUME NEW i \in Inquiries, NEW f \in objects, i.passes,
             call' = [call EXCEPT ![a] = [signDatasetUrl(call[a], f) EXCEPT
                        !.pc = "waiting", !.attempt = 1,
                        !.ends = i.ends, !.accepted = i.accepted]],
             call[a].pc = "idle"
      PROVE  AnswersInv'
  <2> DEFINE c == [signDatasetUrl(call[a], f) EXCEPT
                      !.pc = "waiting", !.attempt = 1, !.ends = i.ends, !.accepted = i.accepted]
  <2>1. i.accepted = TRUE
    <3>1. PICK q \in Requests : i.passes = Gate(q) /\ i.accepted = model_validate(safeParse(q))
      <4> DEFINE inquiry(q, g) ==
                   [passes |-> Gate(q), accepted |-> model_validate(safeParse(q)),
                    ends |-> IF Gate(q) THEN First(<<load_dataset(g), OPERATIONS(g, q)>>)
                             ELSE "none"]
      <4>1. i \in {inquiry(q, g) : q \in Requests, g \in Frames}
        BY DEF Inquiries
      <4>2. \A q, g : inquiry(q, g).passes = Gate(q)
                     /\ inquiry(q, g).accepted = model_validate(safeParse(q))
        OBVIOUS
      <4> HIDE DEF inquiry
      <4> QED BY <4>1, <4>2
    <3>2. model_validate(safeParse(q)) = TRUE
      BY <1>3, <3>1, ParsedIsValid DEF model_validate
    <3> QED BY <3>1, <3>2
  <2>2. i.ends \in Ends /\ f \in Files
    BY <1>3 DEF Ends, AnswersInv
  <2> DEFINE e == signDatasetUrl(call[a], f)
  <2>3. /\ e \in Calls /\ e.age = 0 /\ e.since = call[a].since /\ e.answer = call[a].answer
    BY <1>1, <2>2 DEF Calls, signDatasetUrl
  <2> HIDE DEF e
  <2>4. c = [e EXCEPT !.pc = "waiting", !.attempt = 1, !.ends = i.ends, !.accepted = i.accepted]
    BY DEF e
  <2> HIDE DEF c
  <2>5. c \in Calls
    BY <2>1, <2>2, <2>3, <2>4 DEF Calls
  <2>6. /\ c.pc = "waiting" /\ c.accepted /\ c.attempt = 1 /\ c.age = 0
        /\ c.since = call[a].since /\ c.answer = call[a].answer
    BY <2>1, <2>3, <2>4 DEF Calls
  <2>7. call[a].since = 0 /\ call[a].answer = "none"
    BY <1>1, <1>3 DEF Sound
  <2>8. Sound(c, objects)
    BY <2>6, <2>7, KernelAssumption DEF Sound
  <2>9. call' = [call EXCEPT ![a] = c]
    BY <1>3 DEF c
  <2> QED BY <1>1, <2>5, <2>8, <2>9, OneCall
<1> QED BY <1>2, <1>3 DEF Ask

LEMMA KernelAnswers ==
    ASSUME AnswersInv, Owned, NEW s \in serving,
           Load(s) \/ LoadFails(s) \/ Compute(s) \/ Crash(s)
    PROVE  AnswersInv'
<1> DEFINE a == s.req.by
<1>1. a \in Actors /\ objects' = objects
  BY DEF Owned, Load, LoadFails, Compute, Crash
<1>2. call[a] \in Calls /\ Sound(call[a], objects)
  BY <1>1 DEF AnswersInv
<1>3. call' = call => AnswersInv'
  BY <1>1 DEF AnswersInv
<1>4. CASE Load(s)
  <2>1. CASE Authorized(a)
    BY <1>3, <1>4, <2>1 DEF Load
  <2>2. CASE ~Authorized(a)
    <3>1. Reply(s.req, "dataset_fetch_failed")
      BY <1>4, <2>2 DEF Load
    <3>2. CASE call' = call
      BY <1>3, <3>2
    <3>3. CASE Awaited(a) /\ Answered(a, "dataset_fetch_failed")
      <4>1. call[a].file \notin objects
        BY <1>1, <2>2, <3>3, InTime DEF Authorized, Awaited
      <4> QED BY <1>1, <3>3, <4>1, Answering DEF Answers
    <3> QED BY <3>1, <3>2, <3>3 DEF Reply
  <2> QED BY <2>1, <2>2
<1>5. CASE LoadFails(s)
  <2> DEFINE c == [call[a] EXCEPT !.pc = "done", !.answer = "dataset_fetch_failed", !.cut = TRUE]
  <2>1. call' = [call EXCEPT ![a] = c] \/ call' = [call EXCEPT ![a] = call[a]]
    BY <1>5 DEF LoadFails
  <2>2. c \in Calls /\ Sound(c, objects)
    BY <1>2 DEF Calls, Sound, Answers
  <2> HIDE DEF c
  <2> QED BY <1>1, <1>2, <2>1, <2>2, OneCall
<1>6. CASE Compute(s)
  <2>1. call' = call \/ Answered(a, call[a].ends)
    BY <1>6 DEF Compute, Reply
  <2>2. call[a].ends \in Answers
    BY <1>2 DEF Calls, Answers
  <2> QED BY <1>1, <1>3, <2>1, <2>2, Answering
<1>7. CASE Crash(s)
  <2>1. call' = call \/ (Awaited(a) /\ Retry(a, waiting))
    BY <1>7 DEF Crash
  <2> QED BY <1>1, <1>3, <2>1, Trying
<1> QED BY <1>4, <1>5, <1>6, <1>7

LEMMA TickAnswers ==
    ASSUME AnswersInv, Tick
    PROVE  AnswersInv'
<1> DEFINE Older(c) == [c EXCEPT !.age = @ + 1, !.since = @ + 1]
<1>1. call' = [a \in Actors |-> IF Awaited(a) THEN Older(call[a]) ELSE call[a]]
  BY DEF Tick
<1>2. ASSUME NEW a \in Actors
      PROVE  call'[a] \in Calls /\ Sound(call'[a], objects)
  <2>1. call[a] \in Calls /\ Sound(call[a], objects)
    BY DEF AnswersInv
  <2>2. CASE ~Awaited(a)
    BY <1>1, <2>1, <2>2
  <2>3. CASE Awaited(a)
    <3> DEFINE c == Older(call[a])
    <3>1. call'[a] = c
      BY <1>1, <2>3
    <3>2. call[a].since < OpTimeout
      BY <2>3 DEF Tick
    <3>3. call[a].age + 1 \in Nat /\ call[a].since + 1 \in Nat
      BY <2>1 DEF Calls
    <3>4. /\ c \in Calls /\ c.pc = call[a].pc /\ c.age = call[a].age + 1
          /\ c.since = call[a].since + 1 /\ c.attempt = call[a].attempt
          /\ c.accepted = call[a].accepted /\ c.answer = call[a].answer
          /\ c.ends = call[a].ends /\ c.cut = call[a].cut /\ c.file = call[a].file
      BY <2>1, <3>3 DEF Calls
    <3>5. call[a].attempt \in Nat /\ call[a].since \in Nat /\ call[a].age \in Nat
      BY <2>1 DEF Calls
    <3>6. (call[a].attempt - 1) * OpTimeout \in Int
      BY <3>5, KernelAssumption
    <3> HIDE DEF c
    <3>7. \A p \in Int, g, n \in Nat : g <= p + n => g + 1 <= p + (n + 1)
      OBVIOUS
    <3>8. call[a].pc = "waiting" => c.age <= (c.attempt - 1) * OpTimeout + c.since
      BY <2>1, <3>4, <3>5, <3>6, <3>7 DEF Sound
    <3>9. c.since <= OpTimeout
      BY <3>2, <3>4, <3>5, KernelAssumption
    <3>10. Sound(c, objects)
      BY <2>1, <2>3, <3>4, <3>8, <3>9 DEF Sound, Awaited
    <3> QED BY <3>1, <3>4, <3>10
  <2> QED BY <2>2, <2>3
<1>3. call' = [a \in Actors |-> call'[a]] /\ objects' = objects
  BY <1>1 DEF Tick
<1> QED BY <1>2, <1>3 DEF AnswersInv

LEMMA AnswersStep == Owned /\ AnswersInv /\ [Next]_vars => AnswersInv'
<1> SUFFICES ASSUME Owned, AnswersInv, [Next]_vars PROVE AnswersInv'
  OBVIOUS
<1>1. ASSUME UNCHANGED <<call, objects>> PROVE AnswersInv'
  BY <1>1 DEF AnswersInv
<1>2. ASSUME NEW a \in Actors, Ask(a) PROVE AnswersInv'
  BY <1>2, AskAnswers
<1>3. ASSUME NEW a \in Actors, TimeOut(a) \/ Break(a) \/ Gone(a) PROVE AnswersInv'
  <2>1. Awaited(a) /\ objects' = objects /\ \E left : Retry(a, left)
    BY <1>3 DEF TimeOut, Break, Gone
  <2> QED BY <2>1, Trying
<1>4. ASSUME NEW r \in waiting, Begin(r) PROVE AnswersInv'
  <2>1. r.by \in Actors /\ objects' = objects
    BY <1>4 DEF Owned, Begin
  <2>2. Awaited(r.by) => call[r.by].accepted
    BY <2>1 DEF AnswersInv, Sound, Awaited
  <2>3. call' = call
    BY <1>4, <2>2 DEF Begin, Reply
  <2> QED BY <2>1, <2>3, <1>1
<1>5. ASSUME NEW s \in serving, Load(s) \/ LoadFails(s) \/ Compute(s) \/ Crash(s)
      PROVE  AnswersInv'
  BY <1>5, KernelAnswers
<1>6. CASE Tick
  BY <1>6, TickAnswers
<1>7. ASSUME NEW f \in Files, DeleteObject(f) PROVE AnswersInv'
  <2>1. call' = call /\ objects' \subseteq objects
    BY <1>7 DEF DeleteObject
  <2> QED BY <2>1 DEF AnswersInv, Sound
<1>8. ASSUME NEW a \in Actors,
             \/ Observe(a) \/ Unobserved(a)
             \/ CheckHealth(a) \/ checkR2Put(a) \/ checkR2Get(a) \/ checkR2Delete(a)
             \/ LinkFails(a) \/ KernelLate(a) \/ runHealthChecks(a)
      PROVE  AnswersInv'
  BY <1>1, <1>8 DEF Observe, Unobserved, CheckHealth, checkR2Put, checkR2Get, checkR2Delete,
     LinkFails, KernelLate, runHealthChecks
<1>9. ASSUME NEW r \in waiting, Tell(r) \/ checkKernel(r) PROVE AnswersInv'
  BY <1>1, <1>9 DEF Tell, checkKernel
<1>10. ASSUME Restart \/ UNCHANGED vars PROVE AnswersInv'
  BY <1>1, <1>10 DEF Restart, vars
<1> QED BY <1>2, <1>3, <1>4, <1>5, <1>6, <1>7, <1>8, <1>9, <1>10 DEF Next

\* Whoever asks for an operation gets what the operation makes of the dataset and
\* the columns: the kernel accepts whatever the Worker lets through, and the URL
\* is good for as long as anybody waits, if it is for all attempts together.
THEOREM AnswersAreTheOperationsHolds == Spec => []AnswersAreTheOperations
<1>1. Init => Owned /\ AnswersInv
  BY DEF Init, Owned, AnswersInv, Calls, Sound, Ends, Answers
<1>2. Owned /\ AnswersInv /\ [Next]_vars => (Owned /\ AnswersInv)'
  BY OwnedStep, AnswersStep
<1>3. AnswersInv => AnswersAreTheOperations
  BY DEF AnswersInv, Sound, AnswersAreTheOperations
<1> QED BY <1>1, <1>2, <1>3, PTL DEF Spec
================================================================================

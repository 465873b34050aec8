------------------------------ MODULE RelayKernel ------------------------------
(***************************************************************************)
(* The Relay kernel and those who call it: an operation by way of the      *)
(* Worker, the resolver of the runtime tier of product truth, and a health *)
(* check.  The kernel is one container with one event loop; an operation   *)
(* blocks the loop from its first byte of data to its answer.  Time is     *)
(* counted in timeouts of an operation, eight seconds each.                *)
(***************************************************************************)
EXTENDS KernelOps

CONSTANTS Actors,       \* each makes one call, or one check, or one snapshot
          Files,        \* the datasets there are at the start
          OpTimeout,    \* how long an attempt is waited for
          Ttl,          \* how long a signed URL is good for
          Attempts,     \* how often an operation is tried
          MaxFaults,    \* calls that fail, containers that go (a bound)
          None

ASSUME KernelAssumption ==
    /\ OpTimeout \in Nat \ {0} /\ Attempts \in Nat \ {0}
    /\ Ttl \in Nat /\ Ttl >= Attempts * OpTimeout

VARIABLES setup,        \* what this deployment lacks
          kind,         \* what each actor is
          call,         \* an operation, as the Worker sees it
          truth,        \* a snapshot's T0 resolution
          check,        \* a health check
          waiting,      \* requests that the kernel has not begun
          serving,      \* the one it has begun, if any
          image,        \* the image of the running container
          objects,      \* datasets in the bucket
          probe,        \* what is at health/probe
          faults

vars == <<setup, kind, call, truth, check, waiting, serving, image, objects, probe, faults>>
kernel == <<waiting, serving, image>>
world == <<setup, kind>>

Kinds == {"op", "truth", "check"}

Request(a, path, n) == [by |-> a, path |-> path, n |-> n]

Init ==
    /\ setup \in {"ok", "no_kernel", "no_secret"}
    /\ kind \in [Actors -> Kinds]
    /\ call = [a \in Actors |-> [pc |-> "idle", file |-> None, ends |-> "none",
                                  accepted |-> FALSE, attempt |-> 0, since |-> 0, age |-> 0,
                                  answer |-> "none", cut |-> FALSE]]
    /\ truth = [a \in Actors |-> [pc |-> "idle", versions |-> None, catalog |-> None,
                                   rolled |-> FALSE]]
    /\ check = [a \in Actors |-> [pc |-> "idle", r2 |-> "put", read |-> None,
                                   kernel |-> "versions", all_ok |-> FALSE,
                                   failed |-> FALSE, crossed |-> FALSE]]
    /\ waiting = {} /\ serving = {} /\ image = 1
    /\ objects = Files /\ probe = None
    /\ faults = 0

Fault == faults < MaxFaults /\ faults' = faults + 1

(***************************************************************************)
(* POST /internal/kernel/op/:id, and the same steps of a turn.             *)
(***************************************************************************)
Gate(q) == Fits(q.sizes, OPERATION_PARAMS_SCHEMAS[q.op])

Inquiries ==
    {[passes   |-> Gate(q),
      accepted |-> model_validate(safeParse(q)),
      ends     |-> IF Gate(q) THEN First(<<load_dataset(f), OPERATIONS(f, q)>>) ELSE "none"] :
     q \in Requests, f \in Frames}

Answered(a, code) == call' = [call EXCEPT ![a].pc = "done", ![a].answer = code]

\* A URL for one object, whose time begins now.
signDatasetUrl(c, f) == [c EXCEPT !.file = f, !.age = 0]

\* The gate, the file's row (one that is not there is a 404) and the first attempt.
Ask(a) ==
    /\ kind[a] = "op" /\ call[a].pc = "idle"
    /\ \/ /\ \/ Answered(a, "refused")
             \/ setup = "no_kernel" /\ Answered(a, "unavailable")
             \/ setup = "no_secret" /\ Answered(a, "internal")
          /\ UNCHANGED waiting
       \/ /\ setup = "ok"
          /\ \E i \in Inquiries, f \in objects :
               /\ i.passes
               /\ call' = [call EXCEPT ![a] =
                              [signDatasetUrl(call[a], f) EXCEPT
                                 !.pc = "waiting", !.attempt = 1,
                                 !.ends = i.ends, !.accepted = i.accepted]]
          /\ waiting' = waiting \cup {Request(a, "op", 1)}
    /\ UNCHANGED <<world, truth, check, serving, image, objects, probe, faults>>

Current(a) == Request(a, "op", call[a].attempt)
Awaited(a) == kind[a] = "op" /\ call[a].pc = "waiting"

\* ContainerKernel.op after a failed attempt: the same request once more, with
\* the same URL.
Retry(a, left) ==
    IF call[a].attempt < Attempts
    THEN /\ call' = [call EXCEPT ![a].attempt = @ + 1, ![a].since = 0]
         /\ waiting' = left \cup {Request(a, "op", call[a].attempt + 1)}
    ELSE Answered(a, "unavailable") /\ waiting' = left

\* The Worker waits no longer.  A request that the kernel has begun goes on; one
\* that it has not may be begun all the same.
TimeOut(a) ==
    /\ Awaited(a) /\ call[a].since = OpTimeout
    /\ \E left \in {waiting, waiting \ {Current(a)}} : Retry(a, left)
    /\ UNCHANGED <<world, truth, check, serving, image, objects, probe, faults>>

\* The connection breaks, before the request arrived or after.
Break(a) ==
    /\ Awaited(a) /\ Fault
    /\ \E left \in {waiting, waiting \ {Current(a)}} : Retry(a, left)
    /\ UNCHANGED <<world, truth, check, serving, image, objects, probe>>

\* The container went while it had the request.
Gone(a) ==
    /\ Awaited(a)
    /\ Current(a) \notin waiting \cup {s.req : s \in serving}
    /\ Retry(a, waiting)
    /\ UNCHANGED <<world, truth, check, serving, image, objects, probe, faults>>

(***************************************************************************)
(* The kernel: run_operation.                                              *)
(***************************************************************************)
Free == serving = {}

\* The answer reaches the Worker if it still waits for this attempt.
Reply(r, code) ==
    IF Awaited(r.by) /\ r = Current(r.by) THEN Answered(r.by, code) ELSE UNCHANGED call

Begin(r) ==
    /\ Free /\ r \in waiting /\ r.path = "op"
    /\ waiting' = waiting \ {r}
    /\ IF call[r.by].accepted
       THEN serving' = {[req |-> r, loaded |-> FALSE]} /\ UNCHANGED call
       ELSE Reply(r, "invalid_params") /\ UNCHANGED serving
    /\ UNCHANGED <<world, truth, check, image, objects, probe, faults>>

verifyDatasetUrl(a) == call[a].age <= Ttl

\* GET /api/dataset
Authorized(a) == verifyDatasetUrl(a) /\ call[a].file \in objects

\* load_dataset: what the Worker does not hand out, and what does not arrive, is
\* a rejection like any other.
Load(s) ==
    /\ s \in serving /\ ~s.loaded
    /\ \/ /\ Authorized(s.req.by)
          /\ serving' = {[s EXCEPT !.loaded = TRUE]}
          /\ UNCHANGED <<call, faults>>
       \/ /\ ~Authorized(s.req.by)
          /\ Reply(s.req, "dataset_fetch_failed")
          /\ serving' = {} /\ UNCHANGED faults
    /\ UNCHANGED <<world, truth, check, waiting, image, objects, probe>>

LoadFails(s) ==
    /\ s \in serving /\ ~s.loaded /\ Fault
    /\ call' = [call EXCEPT ![s.req.by] =
                   IF Awaited(s.req.by) /\ s.req = Current(s.req.by)
                   THEN [@ EXCEPT !.pc = "done", !.answer = "dataset_fetch_failed",
                                  !.cut = TRUE]
                   ELSE @]
    /\ serving' = {}
    /\ UNCHANGED <<world, truth, check, waiting, image, objects, probe>>

\* mapKernelResponse: a result of the contract, or the kernel's own code.
Compute(s) ==
    /\ s \in serving /\ s.loaded
    /\ Reply(s.req, call[s.req.by].ends)
    /\ serving' = {}
    /\ UNCHANGED <<world, truth, check, waiting, image, objects, probe, faults>>

\* An exception that no handler catches: a 500 whose body is not JSON.
Crash(s) ==
    /\ s \in serving /\ s.loaded /\ Fault
    /\ IF Awaited(s.req.by) /\ s.req = Current(s.req.by)
       THEN Retry(s.req.by, waiting)
       ELSE UNCHANGED <<call, waiting>>
    /\ serving' = {}
    /\ UNCHANGED <<world, truth, check, image, objects, probe>>

\* The container stops, and another starts, of this image or the next.
Restart ==
    /\ Fault
    /\ image' \in {image, image + 1}
    /\ waiting' = {} /\ serving' = {}
    /\ truth' = [a \in Actors |-> [truth[a] EXCEPT
                    !.rolled = @ \/ (truth[a].pc = "waiting" /\ image' # image)]]
    /\ UNCHANGED <<world, call, check, objects, probe>>

(***************************************************************************)
(* The runtime tier of product truth: two requests at once.                *)
(***************************************************************************)
Observe(a) ==
    /\ kind[a] = "truth" /\ truth[a].pc = "idle"
    /\ IF setup = "no_kernel"
       THEN truth' = [truth EXCEPT ![a].pc = "pending"] /\ UNCHANGED waiting
       ELSE /\ truth' = [truth EXCEPT ![a].pc = "waiting"]
            /\ waiting' = waiting \cup {Request(a, "versions", 0), Request(a, "operations", 0)}
    /\ UNCHANGED <<world, call, check, serving, image, objects, probe, faults>>

\* Slip: the versions alone will do.
ResolvedEarly(t) == t.versions # None

\* Promise.all
Resolved(t) == t.versions # None /\ t.catalog # None

Report(t) == [t EXCEPT !.pc = IF Resolved(t) THEN "ok" ELSE @]

\* GET /versions and GET /operations, when the event loop gets to them.
Tell(r) ==
    /\ Free /\ r \in waiting /\ kind[r.by] = "truth"
    /\ waiting' = waiting \ {r}
    /\ LET t == truth[r.by] IN
       truth' = [truth EXCEPT ![r.by] =
                   IF t.pc # "waiting" THEN t
                   ELSE IF r.path = "versions" THEN Report([t EXCEPT !.versions = image])
                   ELSE Report([t EXCEPT !.catalog = image])]
    /\ UNCHANGED <<world, call, check, serving, image, objects, probe, faults>>

\* One of the two fails or takes more than thirty seconds.
Unobserved(a) ==
    /\ truth[a].pc = "waiting"
    /\ truth' = [truth EXCEPT ![a].pc = "pending"]
    /\ UNCHANGED <<world, call, check, kernel, objects, probe, faults>>

(***************************************************************************)
(* A health check: its links are checked side by side.  A call that shares *)
(* nothing with another is folded into the step that uses its result.      *)
(***************************************************************************)
Links(a) == {check[a].r2, check[a].kernel}

CheckHealth(a) ==
    /\ kind[a] = "check" /\ check[a].pc = "idle"
    /\ check' = [check EXCEPT ![a].pc = "links",
                              ![a].kernel = IF setup = "no_kernel" THEN "bad" ELSE "versions"]
    /\ waiting' = IF setup = "no_kernel" THEN waiting
                  ELSE waiting \cup {Request(a, "versions", 0)}
    /\ UNCHANGED <<world, call, truth, serving, image, objects, probe, faults>>

Linked(a, link, at) == check[a].pc = "links" /\ check[a][link] = at

\* Another check is between its put and its get.
Crossing(c, a) == [b \in Actors |-> IF b # a /\ c[b].pc = "links" /\ c[b].r2 = "get"
                                   THEN [c[b] EXCEPT !.crossed = TRUE] ELSE c[b]]

\* Slip: the put is not awaited, and may come after the get.
checkR2PutLate(a) ==
    /\ Linked(a, "r2", "put")
    /\ check' = Crossing([check EXCEPT ![a].r2 = "get"], a)
    /\ UNCHANGED <<world, call, truth, kernel, objects, probe, faults>>

checkR2Put(a) ==
    /\ Linked(a, "r2", "put")
    /\ probe' = a
    /\ check' = Crossing([check EXCEPT ![a].r2 = "get"], a)
    /\ UNCHANGED <<world, call, truth, kernel, objects, faults>>

checkR2Get(a) ==
    /\ Linked(a, "r2", "get")
    /\ check' = [check EXCEPT ![a].r2 = "delete", ![a].read = probe]
    /\ UNCHANGED <<world, call, truth, kernel, objects, probe, faults>>

checkR2Delete(a) ==
    /\ Linked(a, "r2", "delete")
    /\ probe' = None
    /\ check' = Crossing([check EXCEPT ![a].r2 = IF check[a].read = a THEN "ok" ELSE "bad"], a)
    /\ UNCHANGED <<world, call, truth, kernel, objects, faults>>

\* timed: a link whose call fails is bad.  A put or a delete that failed may have
\* been done.
LinkFails(a) ==
    /\ check[a].pc = "links" /\ Fault
    /\ check[a].r2 \in {"put", "get", "delete"}
    /\ check' = Crossing([check EXCEPT ![a].r2 = "bad", ![a].failed = TRUE], a)
    /\ \/ UNCHANGED probe
       \/ check[a].r2 = "put" /\ probe' = a
       \/ check[a].r2 = "delete" /\ probe' = None
    /\ UNCHANGED <<world, call, truth, kernel, objects>>

\* GET /versions; then GET /health, whose answer changes nothing.
checkKernel(r) ==
    /\ Free /\ r \in waiting /\ kind[r.by] = "check"
    /\ waiting' = waiting \ {r}
    /\ check' = [check EXCEPT ![r.by].kernel = IF @ = "versions" THEN "ok" ELSE @]
    /\ UNCHANGED <<world, call, truth, serving, image, objects, probe, faults>>

KernelLate(a) ==
    /\ check[a].pc = "links" /\ check[a].kernel = "versions"
    /\ check' = [check EXCEPT ![a].kernel = "bad"]
    /\ UNCHANGED <<world, call, truth, kernel, objects, probe, faults>>

\* runHealthChecks: the page, the database and the model answer as they will.  A
\* check of the database looks for a value of its own, so checks do not meet there.
runHealthChecks(a) ==
    /\ check[a].pc = "links"
    /\ Links(a) \subseteq {"ok", "bad"}
    /\ \E checkWorkerAssets, checkD1, checkAnthropic \in {"ok", "bad"} :
         check' = [check EXCEPT ![a].pc = "done",
                                ![a].all_ok = Links(a) \cup {checkWorkerAssets, checkD1,
                                                             checkAnthropic} = {"ok"}]
    /\ UNCHANGED <<world, call, truth, kernel, objects, probe, faults>>

(***************************************************************************)
(* Time, and deletes by other requests.                                    *)
(***************************************************************************)
\* Nobody looks at the clock of a call that is over.
Tick ==
    /\ \E a \in Actors : Awaited(a)
    /\ \A a \in Actors : Awaited(a) => call[a].since < OpTimeout
    /\ call' = [a \in Actors |-> IF Awaited(a) THEN [call[a] EXCEPT !.age = @ + 1, !.since = @ + 1]
                                 ELSE call[a]]
    /\ UNCHANGED <<world, truth, check, kernel, objects, probe, faults>>

DeleteObject(f) ==
    /\ objects' = objects \ {f}
    /\ f \in objects
    /\ UNCHANGED <<world, call, truth, check, kernel, probe, faults>>

Next ==
    \/ \E a \in Actors :
         \/ Ask(a) \/ TimeOut(a) \/ Break(a) \/ Gone(a)
         \/ Observe(a) \/ Unobserved(a)
         \/ CheckHealth(a) \/ checkR2Put(a) \/ checkR2Get(a) \/ checkR2Delete(a)
         \/ LinkFails(a) \/ KernelLate(a) \/ runHealthChecks(a)
    \/ \E r \in waiting : Begin(r) \/ Tell(r) \/ checkKernel(r)
    \/ \E s \in serving : Load(s) \/ LoadFails(s) \/ Compute(s) \/ Crash(s)
    \/ Restart \/ Tick
    \/ \E f \in Files : DeleteObject(f)

Spec == Init /\ [][Next]_vars

(***************************************************************************)
(* Properties.                                                             *)
(***************************************************************************)

\* Whoever asks for an operation gets what the operation makes of the dataset and
\* the columns, and nothing that comes of the way there: a URL never expires
\* under a request somebody waits for, however long the kernel was busy; the
\* kernel never refuses a shape of parameters that the Worker let through; and a
\* dataset that cannot be fetched was deleted, or the connection broke
\* (container-kernel.ts, presign.ts, main.py, dataset.py).
AnswersAreTheOperations ==
    \A a \in Actors : LET c == call[a] IN
       \/ c.answer \in {"none", "refused", "internal", "unavailable"}
       \/ c.answer = c.ends
       \/ c.answer = "dataset_fetch_failed" /\ (c.cut \/ c.file \notin objects)

\* The claims of the runtime tier carry the image that reported them, unless the
\* container was replaced between the two requests (t0-runtime.ts).
ClaimsFromOneImage ==
    \A a \in Actors : truth[a].pc = "ok" => truth[a].versions = truth[a].catalog \/ truth[a].rolled

\* A health check reports the bucket as broken only if a call to it failed, or
\* another check came between its put and its get: they share one key (health.ts).
BucketAlarmsHaveCause ==
    \A a \in Actors : check[a].r2 = "bad" => check[a].failed \/ check[a].crossed
=================================================================================

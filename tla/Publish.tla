------------------------------- MODULE Publish -------------------------------
(***************************************************************************)
(* Publishing a run on GitHub (packages/concord-api/src/github.ts): the    *)
(* publish half of executeRun with publishRun, and the hourly cron pass    *)
(* cleanupStaleRuns, which share nothing but the estate repository.        *)
(*                                                                         *)
(* GitHub is external.  A call that would change it is answered with its   *)
(* effect, refused without it, or loses its answer -- fetch rejects, and   *)
(* the effect may have taken place.  Calls that only read, or write        *)
(* objects no ref points to, show as a failure of the call they precede.   *)
(* Deleting the head branch of an open pull request closes it.  The estate *)
(* commit a run is built against is older than 48 hours.                   *)
(***************************************************************************)
EXTENDS Integers

CONSTANTS Runs,        \* live runs with patches to publish; each has one branch
          MaxFaults    \* bound: calls that go wrong and consumers that die

ASSUME PublishAssumption == MaxFaults \in Nat

VARIABLES branch,   \* branch[r]: the commit concord/run-r points to, or "none"
          pr,       \* pr[r]: its pull request
          stale,    \* runs whose own commit is older than 48 hours
          pc,       \* pc[r]: the call the publish half makes next
          result,   \* result[r]: what publishRun came to
          steps,    \* steps[r]: the `publish` rows of run_step
          url,      \* runs whose pr_url stands in audit_log
          cron,     \* the call the cron pass makes next, and for which ref
          listed,   \* the refs the pass has still to visit, as it listed them
          faults,   \* how many calls went wrong
          unsure,   \* history: runs that may have lost track of their branch
          caught    \* history: runs listed by a pass before their commit was in

github == <<branch, pr>>
publisher == <<pc, result, steps, url>>
cleaner == <<cron, listed>>
vars == <<github, stale, publisher, cleaner, faults, unsure, caught>>

Outcomes == {"published", "unpublished"}

Init ==
  /\ branch = [r \in Runs |-> "none"]
  /\ pr = [r \in Runs |-> "none"]
  /\ stale = {}
  /\ pc = [r \in Runs |-> "branch"]
  /\ result = [r \in Runs |-> "none"]
  /\ steps = [r \in Runs |-> {}]
  /\ url = {}
  /\ cron = [at |-> "idle"]
  /\ listed = {}
  /\ faults = 0
  /\ unsure = {} /\ caught = {}

------------------------------------------------------------------------------
(* GitHub.                                                                 *)

Point(r, to) == branch' = [branch EXCEPT ![r] = to]

ClosePull(r) == pr' = [pr EXCEPT ![r] = IF @ = "open" THEN "closed" ELSE @]

DeleteBranch(r) == Point(r, "none") /\ ClosePull(r)

Fault == faults < MaxFaults /\ faults' = faults + 1

------------------------------------------------------------------------------
(* publishRun, and the try block of executeRun around it.                  *)

Goto(r, from, to) == pc[r] = from /\ pc' = [pc EXCEPT ![r] = to]

Returns(r, outcome) == result' = [result EXCEPT ![r] = outcome]

\* No path passes the allowlist: publishRun returns before any call.
NothingToPublish(r) ==
  /\ Goto(r, "branch", "step")
  /\ Returns(r, "unpublished")
  /\ UNCHANGED <<github, stale, steps, url, cleaner, faults, unsure, caught>>

CreateBranch(r) ==
  /\ Goto(r, "branch", "ref")
  /\ Point(r, "estate")
  /\ UNCHANGED <<pr, stale, result, steps, url, cleaner, faults, unsure, caught>>

\* The token is not minted, the branch is refused, or the answer is lost: nothing
\* is undone, although the branch may be there.
BranchFails(r) ==
  /\ Fault
  /\ Goto(r, "branch", "step")
  /\ Returns(r, "unpublished")
  /\ \/ UNCHANGED <<branch, unsure>>
     \/ Point(r, "estate") /\ unsure' = unsure \cup {r}
  /\ UNCHANGED <<pr, stale, steps, url, cleaner, caught>>

\* Slip: a failure after the branch was created is reported and not undone.
ReportOnly == "step"

\* catch (e) { await gh("DELETE", refPath) }
OnFailure == "undo"

MoveRef(r) ==
  /\ Goto(r, "ref", "pull")
  /\ branch[r] # "none"
  /\ Point(r, "own")
  /\ UNCHANGED <<pr, stale, result, steps, url, cleaner, faults, unsure, caught>>

OpenPull(r) ==
  /\ Goto(r, "pull", "step")
  /\ branch[r] # "none"
  /\ pr' = [pr EXCEPT ![r] = "open"]
  /\ Returns(r, "published")
  /\ UNCHANGED <<branch, stale, steps, url, cleaner, faults, unsure, caught>>

\* The ref has been deleted under the publisher: GitHub refuses the call.
RefGone(r) ==
  /\ pc[r] \in {"ref", "pull"} /\ branch[r] = "none"
  /\ pc' = [pc EXCEPT ![r] = OnFailure]
  /\ Returns(r, "unpublished")
  /\ UNCHANGED <<github, stale, steps, url, cleaner, faults, unsure, caught>>

MoveRefFails(r) ==
  /\ Fault
  /\ Goto(r, "ref", OnFailure)
  /\ Returns(r, "unpublished")
  /\ \/ UNCHANGED branch
     \/ branch[r] # "none" /\ Point(r, "own")
  /\ UNCHANGED <<pr, stale, steps, url, cleaner, unsure, caught>>

OpenPullFails(r) ==
  /\ Fault
  /\ Goto(r, "pull", OnFailure)
  /\ Returns(r, "unpublished")
  /\ \/ UNCHANGED pr
     \/ branch[r] # "none" /\ pr' = [pr EXCEPT ![r] = "open"]
  /\ UNCHANGED <<branch, stale, steps, url, cleaner, unsure, caught>>

\* A branch that is gone already is a 422, which is reported and no more.
Undo(r) ==
  /\ Goto(r, "undo", "step")
  /\ DeleteBranch(r)
  /\ UNCHANGED <<stale, result, steps, url, cleaner, faults, unsure, caught>>

\* The DELETE is refused, or its answer is lost and the catch throws.
UndoFails(r) ==
  /\ Fault
  /\ Goto(r, "undo", "step")
  /\ unsure' = unsure \cup {r}
  /\ UNCHANGED github \/ DeleteBranch(r)
  /\ UNCHANGED <<stale, result, steps, url, cleaner, caught>>

\* Slip: the step says published because the run was to be published.
RecordHopefully(r) ==
  /\ Goto(r, "step", IF result[r] = "published" THEN "link" ELSE "done")
  /\ steps' = [steps EXCEPT ![r] = @ \cup {"published"}]
  /\ UNCHANGED <<github, stale, result, url, cleaner, faults, unsure, caught>>

RecordStep(r) ==
  /\ Goto(r, "step", IF result[r] = "published" THEN "link" ELSE "done")
  /\ steps' = [steps EXCEPT ![r] = @ \cup {result[r]}]
  /\ UNCHANGED <<github, stale, result, url, cleaner, faults, unsure, caught>>

RecordUrl(r) ==
  /\ Goto(r, "link", "done")
  /\ url' = url \cup {r}
  /\ UNCHANGED <<github, stale, result, steps, cleaner, faults, unsure, caught>>

\* A D1 call of the try block rejects: executeRun's inner catch records that the
\* run was not published, whatever GitHub did -- unless that fails as well.
RecordFails(r) ==
  /\ Fault
  /\ pc[r] \in {"step", "link"}
  /\ pc' = [pc EXCEPT ![r] = "done"]
  /\ UNCHANGED steps \/ steps' = [steps EXCEPT ![r] = @ \cup {"unpublished"}]
  /\ UNCHANGED <<github, stale, result, url, cleaner, unsure, caught>>

\* The consumer dies.  Its redelivery fails before it publishes (LiveRuns).
Dies(r) ==
  /\ Fault
  /\ pc[r] # "done"
  /\ pc' = [pc EXCEPT ![r] = "done"]
  /\ unsure' = unsure \cup {r}
  /\ UNCHANGED <<github, stale, result, steps, url, cleaner, caught>>

\* 48 hours pass, long after the consumer's time limit.
Age(r) ==
  /\ pc[r] = "done" /\ branch[r] = "own" /\ r \notin stale
  /\ stale' = stale \cup {r}
  /\ UNCHANGED <<github, publisher, cleaner, faults, unsure, caught>>

------------------------------------------------------------------------------
(* cleanupStaleRuns.                                                       *)

\* matching-refs/heads/concord/run-
Listing == {[run |-> r, at |-> branch[r]] : r \in {q \in Runs : branch[q] # "none"}}

CronList ==
  /\ cron.at = "idle"
  /\ cron' = [at |-> "visit"]
  /\ listed' = Listing
  /\ caught' = caught \cup {r \in Runs : branch[r] = "estate"}
  /\ UNCHANGED <<github, stale, publisher, faults, unsure>>

\* Slips: every branch is stale, and a branch without a commit of its own never.
AnyRefStale(ref) == TRUE
OwnCommitStale(ref) == ref.at = "own" /\ ref.run \in stale

\* The committer date of the LISTED sha, 48 hours or more ago.
IsStale(ref) == ref.at = "estate" \/ ref.run \in stale

CronVisit(ref) ==
  /\ cron.at = "visit" /\ ref \in listed
  /\ listed' = listed \ {ref}
  /\ cron' = IF IsStale(ref) THEN [at |-> "close", ref |-> ref] ELSE cron
  /\ UNCHANGED <<github, stale, publisher, faults, unsure, caught>>

CronClose ==
  /\ cron.at = "close"
  /\ ClosePull(cron.ref.run)
  /\ cron' = [cron EXCEPT !.at = "delete"]
  /\ UNCHANGED <<branch, stale, publisher, listed, faults, unsure, caught>>

CronDelete ==
  /\ cron.at = "delete"
  /\ DeleteBranch(cron.ref.run)
  /\ cron' = [at |-> "visit"]
  /\ UNCHANGED <<stale, publisher, listed, faults, unsure, caught>>

CronDone ==
  /\ cron.at = "visit" /\ listed = {}
  /\ cron' = [at |-> "idle"]
  /\ UNCHANGED <<github, stale, publisher, listed, faults, unsure, caught>>

\* A refused call is noted in the report, and the pass goes on: a ref whose commit
\* is not found is passed over, a pull request that cannot be closed is left.
CronCallRefused ==
  /\ Fault
  /\ \/ \E ref \in listed : /\ cron.at = "visit"
                            /\ listed' = listed \ {ref} /\ UNCHANGED cron
     \/ cron.at = "close" /\ cron' = [cron EXCEPT !.at = "delete"] /\ UNCHANGED listed
     \/ cron.at = "delete" /\ cron' = [at |-> "visit"] /\ UNCHANGED listed
  /\ UNCHANGED <<github, stale, publisher, unsure, caught>>

\* fetch rejects, its effect done or not, and the pass is over; the next tick
\* starts another.
CronPassFails ==
  /\ Fault
  /\ cron.at # "idle"
  /\ \/ UNCHANGED github
     \/ cron.at = "close" /\ ClosePull(cron.ref.run) /\ UNCHANGED branch
     \/ cron.at = "delete" /\ DeleteBranch(cron.ref.run)
  /\ cron' = [at |-> "idle"]
  /\ listed' = {}
  /\ UNCHANGED <<stale, publisher, unsure, caught>>

Publishing(r) ==
  \/ NothingToPublish(r)
  \/ CreateBranch(r)
  \/ MoveRef(r)
  \/ OpenPull(r)
  \/ RefGone(r)
  \/ Undo(r)
  \/ RecordStep(r)
  \/ RecordUrl(r)

Cleaning ==
  \/ CronList
  \/ \E ref \in listed : CronVisit(ref)
  \/ CronClose
  \/ CronDelete
  \/ CronDone

Failing ==
  \/ \E r \in Runs : \/ BranchFails(r)
                     \/ MoveRefFails(r)
                     \/ OpenPullFails(r)
                     \/ UndoFails(r)
                     \/ RecordFails(r)
                     \/ Dies(r)
  \/ CronCallRefused
  \/ CronPassFails

Next == (\E r \in Runs : Publishing(r) \/ Age(r)) \/ Cleaning \/ Failing

\* The consumer goes on until it dies, time passes, and the cron ticks for ever.
Spec ==
  /\ Init /\ [][Next]_vars
  /\ \A r \in Runs : WF_vars(Publishing(r)) /\ WF_vars(Age(r))
  /\ WF_vars(Cleaning)

------------------------------------------------------------------------------
\* SECURITY.md, "on ANY failure after branch creation the branch is deleted", as far
\* as it holds: a run that was not published leaves a branch behind only if the
\* answer to its creation was lost, the DELETE itself went wrong, or the consumer
\* died.
NoOrphanUnlessUnsure ==
  \A r \in Runs : pc[r] = "done" /\ result[r] # "published" /\ branch[r] # "none"
                    => r \in unsure

\* The database claims no pull request that was not opened: a `published` step row
\* and the audit log's url, which only follows it, mean that there was one.
ClaimsAreTrue ==
  \A r \in Runs :
    /\ "published" \in steps[r] => result[r] = "published" /\ pr[r] # "none"
    /\ r \in url => "published" \in steps[r]

\* The cron closes the pull request of a fresh run only if a pass had listed the
\* branch before the run's commit was on it.
FreshClosedOnlyIfCaught ==
  \A r \in Runs : result[r] = "published" /\ r \notin stale /\ pr[r] = "closed"
                    => r \in caught

\* "close PRs and delete branches older than 48h": no branch stays for good and
\* no pull request stays open, orphans of failed and dead runs included.
NothingStays == \A r \in Runs : <>[](branch[r] = "none" /\ pr[r] # "open")

\* github.ts, "close PRs and delete `concord/run-*` branches older than 48 hours":
\* the pull request of a run that was published stays open until it is stale.
FreshPullsStayOpen ==
  \A r \in Runs : result[r] = "published" /\ r \notin stale => pr[r] = "open"
==============================================================================

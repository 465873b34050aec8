---------------------------- MODULE PublishProofs ----------------------------
(***************************************************************************)
(* The database claims no pull request that was never opened, for any      *)
(* number of runs and of faults.  Nothing is written before publishRun has *)
(* come to its result, the result does not change after that, and what the *)
(* cron does to a pull request never makes it one that was not opened.     *)
(* What GitHub is left with, and what the cron closes, is said of the same *)
(* state, with the fate of each run's branch.                              *)
(***************************************************************************)
EXTENDS Publish, TLAPS

Shapes ==
  /\ pr \in [Runs -> {"none", "open", "closed"}]
  /\ pc \in [Runs -> {"branch", "ref", "pull", "undo", "step", "link", "done"}]
  /\ result \in [Runs -> Outcomes \cup {"none"}]
  /\ steps \in [Runs -> SUBSET (Outcomes \cup {"none"})]

\* What has been written down where the publisher stands.
WrittenDown(r) ==
  /\ pc[r] \in {"branch", "ref", "pull", "undo"} => steps[r] = {}
  /\ result[r] = "published" => pr[r] # "none"
  /\ "published" \in steps[r] => result[r] = "published"
  /\ pc[r] = "link" => "published" \in steps[r]
  /\ r \in url => "published" \in steps[r]

IInv == Shapes /\ \A r \in Runs : WrittenDown(r)

LEMMA InitInv == Init => IInv
  BY DEF Init, IInv, Shapes, WrittenDown, Outcomes

\* Closing a pull request leaves it one that was opened.
LEMMA CloseKeeps ==
  ASSUME NEW r \in Runs, pr \in [Runs -> {"none", "open", "closed"}], ClosePull(r)
  PROVE  /\ pr' \in [Runs -> {"none", "open", "closed"}]
         /\ \A q \in Runs : pr'[q] = "none" <=> pr[q] = "none"
  BY DEF ClosePull

\* A step that leaves the publishers alone and forgets no pull request.
LEMMA OthersInv ==
  ASSUME IInv, UNCHANGED publisher,
         pr' \in [Runs -> {"none", "open", "closed"}],
         \A q \in Runs : pr'[q] = "none" => pr[q] = "none"
  PROVE  IInv'
  BY DEF IInv, Shapes, WrittenDown, publisher

\* publishRun goes on or comes to its result; nothing is written yet.
LEMMA ResultInv ==
  ASSUME IInv, NEW r \in Runs, NEW to \in {"ref", "pull", "undo", "step"},
         pc[r] \in {"branch", "ref", "pull", "undo"}, pc' = [pc EXCEPT ![r] = to],
         UNCHANGED <<steps, url>>,
         pr' \in [Runs -> {"none", "open", "closed"}],
         \A q \in Runs : pr'[q] = "none" => pr[q] = "none",
         \/ result' = result
         \/ result' = [result EXCEPT ![r] = "unpublished"]
         \/ result' = [result EXCEPT ![r] = "published"] /\ pr'[r] # "none"
  PROVE  IInv'
<1>1. Shapes'
  BY DEF IInv, Shapes, Outcomes
<1>2. ASSUME NEW q \in Runs PROVE WrittenDown(q)'
  <2>1. WrittenDown(q) /\ WrittenDown(r) /\ Shapes
    BY DEF IInv
  <2>2. CASE q = r
    BY <2>1, <2>2 DEF Shapes, WrittenDown
  <2>3. CASE q # r
    BY <2>1, <2>3 DEF Shapes, WrittenDown
  <2> QED BY <2>2, <2>3
<1> QED BY <1>1, <1>2 DEF IInv

LEMMA PublishingInv ==
  ASSUME IInv, NEW r \in Runs, Publishing(r)
  PROVE  IInv'
<1>0. /\ pr \in [Runs -> {"none", "open", "closed"}]
      /\ pc \in [Runs -> {"branch", "ref", "pull", "undo", "step", "link", "done"}]
      /\ \A q \in Runs : WrittenDown(q)
  BY DEF IInv, Shapes
<1>1. CASE NothingToPublish(r) \/ CreateBranch(r) \/ MoveRef(r)
  BY <1>0, <1>1, ResultInv DEF NothingToPublish, CreateBranch, MoveRef, Goto, Returns, github
<1>2. CASE OpenPull(r)
  BY <1>0, <1>2, ResultInv DEF OpenPull, Goto, Returns
<1>3. CASE RefGone(r)
  BY <1>0, <1>3, ResultInv DEF RefGone, OnFailure, Returns, github
<1>4. CASE Undo(r)
  <2>1. ClosePull(r) /\ pc[r] = "undo" /\ pc' = [pc EXCEPT ![r] = "step"]
        /\ UNCHANGED <<steps, url, result>>
    BY <1>4 DEF Undo, DeleteBranch, Goto
  <2> QED BY <1>0, <2>1, CloseKeeps, ResultInv
<1>5. CASE RecordStep(r)
  <2>1. /\ pc[r] = "step"
        /\ pc' = [pc EXCEPT ![r] = IF result[r] = "published" THEN "link" ELSE "done"]
        /\ steps' = [steps EXCEPT ![r] = @ \cup {result[r]}]
        /\ UNCHANGED <<pr, result, url>>
    BY <1>5 DEF RecordStep, Goto, github
  <2>2. Shapes'
    BY <2>1 DEF IInv, Shapes
  <2>3. ASSUME NEW q \in Runs PROVE WrittenDown(q)'
    BY <1>0, <2>1 DEF IInv, Shapes, WrittenDown
  <2> QED BY <2>2, <2>3 DEF IInv
<1>6. CASE RecordUrl(r)
  <2>1. /\ pc[r] = "link" /\ pc' = [pc EXCEPT ![r] = "done"]
        /\ url' = url \cup {r} /\ UNCHANGED <<pr, result, steps>>
    BY <1>6 DEF RecordUrl, Goto, github
  <2> QED BY <2>1 DEF IInv, Shapes, WrittenDown, Outcomes
<1> QED BY <1>1, <1>2, <1>3, <1>4, <1>5, <1>6 DEF Publishing

\* A publisher whose calls fail, or that dies, is at its end or on its way to it.
LEMMA FailingInv ==
  ASSUME IInv, NEW r \in Runs,
         \/ BranchFails(r) \/ MoveRefFails(r) \/ OpenPullFails(r) \/ UndoFails(r)
         \/ RecordFails(r) \/ Dies(r)
  PROVE  IInv'
<1>0. /\ pr \in [Runs -> {"none", "open", "closed"}]
      /\ \A q \in Runs : WrittenDown(q)
  BY DEF IInv, Shapes
<1>1. CASE BranchFails(r) \/ MoveRefFails(r) \/ OpenPullFails(r)
  <2>1. pr' = pr \/ pr' = [pr EXCEPT ![r] = "open"]
    BY <1>1 DEF BranchFails, MoveRefFails, OpenPullFails
  <2>2. \E to \in {"undo", "step"} : pc' = [pc EXCEPT ![r] = to]
    BY <1>1 DEF BranchFails, MoveRefFails, OpenPullFails, Goto, OnFailure
  <2>3. /\ pc[r] \in {"branch", "ref", "pull"}
        /\ UNCHANGED <<steps, url>>
        /\ result' = [result EXCEPT ![r] = "unpublished"]
    BY <1>1 DEF BranchFails, MoveRefFails, OpenPullFails, Goto, Returns
  <2> QED BY <1>0, <2>1, <2>2, <2>3, ResultInv
<1>2. CASE UndoFails(r)
  <2>1. /\ ClosePull(r) \/ pr' = pr
        /\ pc[r] = "undo" /\ pc' = [pc EXCEPT ![r] = "step"]
        /\ UNCHANGED <<steps, url, result>>
    BY <1>2 DEF UndoFails, DeleteBranch, Goto, github
  <2> QED BY <1>0, <2>1, CloseKeeps, ResultInv
<1>3. CASE RecordFails(r) \/ Dies(r)
  <2>1. /\ pc' = [pc EXCEPT ![r] = "done"]
        /\ steps' = steps \/ steps' = [steps EXCEPT ![r] = @ \cup {"unpublished"}]
        /\ UNCHANGED <<pr, result, url>>
    BY <1>3 DEF RecordFails, Dies, github
  <2>2. Shapes'
    BY <2>1 DEF IInv, Shapes, Outcomes
  <2>3. ASSUME NEW q \in Runs PROVE WrittenDown(q)'
    BY <1>0, <2>1 DEF IInv, Shapes, WrittenDown
  <2> QED BY <2>2, <2>3 DEF IInv
<1> QED BY <1>1, <1>2, <1>3

LEMMA CronInv ==
  ASSUME IInv, Cleaning \/ CronCallRefused \/ CronPassFails
  PROVE  IInv'
<1>0. pr \in [Runs -> {"none", "open", "closed"}]
  BY DEF IInv, Shapes
<1>1. UNCHANGED publisher
  BY DEF Cleaning, CronList, CronVisit, CronClose, CronDelete, CronDone,
     CronCallRefused, CronPassFails
<1>2. pr' = pr \/ \E r : ClosePull(r)
  BY DEF Cleaning, CronList, CronVisit, CronClose, CronDelete, CronDone,
     CronCallRefused, CronPassFails, DeleteBranch, github
<1>3. /\ pr' \in [Runs -> {"none", "open", "closed"}]
      /\ \A q \in Runs : pr'[q] = "none" => pr[q] = "none"
  BY <1>0, <1>2 DEF ClosePull
<1> QED BY <1>1, <1>3, OthersInv

LEMMA StepInv == IInv /\ [Next]_vars => IInv'
<1> SUFFICES ASSUME IInv, [Next]_vars PROVE IInv'
  OBVIOUS
<1>1. CASE UNCHANGED vars
  BY <1>1 DEF vars, github, publisher, IInv, Shapes, WrittenDown
<1>2. ASSUME NEW r \in Runs, Age(r) PROVE IInv'
  BY <1>2 DEF Age, github, publisher, IInv, Shapes, WrittenDown
<1>3. CASE Next
  BY <1>2, <1>3, PublishingInv, FailingInv, CronInv DEF Next, Failing
<1> QED BY <1>1, <1>3

\* A `published` step row, and the url in the audit log, mean that a pull request
\* was opened, whatever fails and whatever the cron closes.
THEOREM ClaimsAreTrueHolds == Spec => []ClaimsAreTrue
<1>1. IInv => ClaimsAreTrue
  BY DEF IInv, WrittenDown, ClaimsAreTrue
<1> QED BY <1>1, InitInv, StepInv, PTL DEF Spec

(***************************************************************************)
(* What becomes of a branch and of a pull request.  A branch that outlives *)
(* a run that was not published is one somebody may have lost track of,    *)
(* and the cron holds only refs it may close: those that were listed       *)
(* before the run's commit was on them, and those of stale runs.           *)
(***************************************************************************)
Refs == [run : Runs, at : {"estate", "own"}]

Fate(r) ==
  /\ pc[r] = "branch" => branch[r] = "none"
  /\ pc[r] \in {"branch", "ref", "pull", "undo"} => result[r] # "published"
  /\ pc[r] = "undo" => result[r] = "unpublished"
  /\ pc[r] \in {"step", "link", "done"} /\ result[r] # "published" /\ branch[r] # "none"
       => r \in unsure
  /\ pr[r] = "closed" => result[r] = "unpublished" \/ r \in caught \cup stale

CronHolds ==
  /\ listed \subseteq Refs
  /\ cron \in [at : {"idle", "visit"}] \cup [at : {"close", "delete"}, ref : Refs]
  /\ \A ref \in listed : ref.at = "estate" => ref.run \in caught
  /\ cron.at \in {"close", "delete"} => cron.ref.run \in caught \cup stale

FateInv ==
  /\ branch \in [Runs -> {"none", "estate", "own"}]
  /\ CronHolds
  /\ \A r \in Runs : Fate(r)

LEMMA FateInit == Init => FateInv
  BY DEF Init, FateInv, Fate, CronHolds

\* A step of one publisher.
LEMMA OwnFate ==
  ASSUME FateInv, NEW r \in Runs, UNCHANGED <<stale, cleaner, caught>>,
         branch' \in [Runs -> {"none", "estate", "own"}],
         \A q \in Runs \ {r} : /\ pc'[q] = pc[q] /\ result'[q] = result[q]
                               /\ branch'[q] = branch[q] /\ pr'[q] = pr[q],
         unsure \subseteq unsure', Fate(r)'
  PROVE  FateInv'
<1>1. CronHolds'
  BY DEF FateInv, CronHolds, cleaner
<1>2. ASSUME NEW q \in Runs, q # r PROVE Fate(q)'
  BY <1>2 DEF FateInv, Fate
<1> QED BY <1>1, <1>2 DEF FateInv

LEMMA PublishingFate ==
  ASSUME IInv, FateInv, NEW r \in Runs, Publishing(r)
  PROVE  FateInv'
<1>0. /\ pr \in [Runs -> {"none", "open", "closed"}]
      /\ pc \in [Runs -> {"branch", "ref", "pull", "undo", "step", "link", "done"}]
      /\ result \in [Runs -> Outcomes \cup {"none"}]
      /\ branch \in [Runs -> {"none", "estate", "own"}] /\ Fate(r)
  BY DEF IInv, Shapes, FateInv
<1>1. CASE NothingToPublish(r)
  BY <1>0, <1>1, OwnFate DEF NothingToPublish, Goto, Returns, github, Fate
<1>2. CASE CreateBranch(r)
  BY <1>0, <1>2, OwnFate DEF CreateBranch, Goto, Point, Fate
<1>3. CASE MoveRef(r)
  BY <1>0, <1>3, OwnFate DEF MoveRef, Goto, Point, Fate
<1>4. CASE OpenPull(r)
  BY <1>0, <1>4, OwnFate DEF OpenPull, Goto, Returns, Fate
<1>5. CASE RefGone(r)
  BY <1>0, <1>5, OwnFate DEF RefGone, OnFailure, Returns, github, Fate
<1>6. CASE Undo(r)
  BY <1>0, <1>6, OwnFate DEF Undo, Goto, DeleteBranch, ClosePull, Point, Fate
<1>7. CASE RecordStep(r)
  BY <1>0, <1>7, OwnFate DEF RecordStep, Goto, github, Fate
<1>8. CASE RecordUrl(r)
  BY <1>0, <1>8, OwnFate DEF RecordUrl, Goto, github, Fate
<1> QED BY <1>1, <1>2, <1>3, <1>4, <1>5, <1>6, <1>7, <1>8 DEF Publishing

LEMMA FailingFate ==
  ASSUME IInv, FateInv, NEW r \in Runs,
         \/ BranchFails(r) \/ MoveRefFails(r) \/ OpenPullFails(r) \/ UndoFails(r)
         \/ RecordFails(r) \/ Dies(r)
  PROVE  FateInv'
<1>0. /\ pr \in [Runs -> {"none", "open", "closed"}]
      /\ pc \in [Runs -> {"branch", "ref", "pull", "undo", "step", "link", "done"}]
      /\ result \in [Runs -> Outcomes \cup {"none"}]
      /\ branch \in [Runs -> {"none", "estate", "own"}] /\ Fate(r)
  BY DEF IInv, Shapes, FateInv
<1>1. CASE BranchFails(r)
  BY <1>0, <1>1, OwnFate DEF BranchFails, Goto, Returns, Point, Fate
<1>2. CASE MoveRefFails(r)
  BY <1>0, <1>2, OwnFate DEF MoveRefFails, Goto, Returns, Point, OnFailure, Fate
<1>3. CASE OpenPullFails(r)
  BY <1>0, <1>3, OwnFate DEF OpenPullFails, Goto, Returns, OnFailure, Fate
<1>4. CASE UndoFails(r)
  BY <1>0, <1>4, OwnFate DEF UndoFails, Goto, DeleteBranch, ClosePull, Point, github, Fate
<1>5. CASE RecordFails(r)
  BY <1>0, <1>5, OwnFate DEF RecordFails, github, Fate
<1>6. CASE Dies(r)
  BY <1>0, <1>6, OwnFate DEF Dies, github, Fate
<1> QED BY <1>1, <1>2, <1>3, <1>4, <1>5, <1>6

\* Whatever the cron closes it may close.
LEMMA CronFate ==
  ASSUME IInv, FateInv, Cleaning \/ CronCallRefused \/ CronPassFails
  PROVE  FateInv'
<1>0. /\ pr \in [Runs -> {"none", "open", "closed"}]
      /\ branch \in [Runs -> {"none", "estate", "own"}]
      /\ CronHolds /\ \A r \in Runs : Fate(r)
  BY DEF IInv, Shapes, FateInv
<1>1. UNCHANGED <<publisher, stale, unsure>> /\ caught \subseteq caught'
  BY DEF Cleaning, CronList, CronVisit, CronClose, CronDelete, CronDone,
     CronCallRefused, CronPassFails
<1>2. branch' = branch \/ (cron.at = "delete" /\ Point(cron.ref.run, "none"))
  BY DEF Cleaning, CronList, CronVisit, CronClose, CronDelete, CronDone,
     CronCallRefused, CronPassFails, DeleteBranch, github
<1>3. pr' = pr \/ (cron.at \in {"close", "delete"} /\ ClosePull(cron.ref.run))
  BY DEF Cleaning, CronList, CronVisit, CronClose, CronDelete, CronDone,
     CronCallRefused, CronPassFails, DeleteBranch, github
<1>4. /\ branch' \in [Runs -> {"none", "estate", "own"}]
      /\ \A r \in Runs : branch'[r] # "none" => branch[r] # "none"
  BY <1>0, <1>2 DEF Point
<1>5. \A r \in Runs : pr'[r] = "closed" => pr[r] = "closed" \/ r \in caught \cup stale
  BY <1>0, <1>3 DEF ClosePull, CronHolds
<1>6. ASSUME NEW r \in Runs PROVE Fate(r)'
  BY <1>0, <1>1, <1>4, <1>5 DEF Fate, publisher
<1>7. CronHolds'
  <2>1. CASE CronList
    <3>1. listed' = Listing /\ cron' = [at |-> "visit"]
          /\ caught' = caught \cup {r \in Runs : branch[r] = "estate"}
      BY <2>1 DEF CronList
    <3>2. \A ref \in Listing : ref \in Refs /\ (ref.at = "estate" => branch[ref.run] = "estate")
      BY <1>0 DEF Listing, Refs
    <3>3. \A ref \in Listing : ref.run \in Runs
      BY DEF Listing
    <3> QED BY <3>1, <3>2, <3>3 DEF CronHolds
  <2>2. ASSUME NEW ref \in listed, CronVisit(ref) PROVE CronHolds'
    <3>1. /\ listed' = listed \ {ref} /\ UNCHANGED <<stale, caught>> /\ ref \in Refs
          /\ cron' = cron \/ (IsStale(ref) /\ cron' = [at |-> "close", ref |-> ref])
      BY <1>0, <2>2 DEF CronVisit, CronHolds
    <3>2. IsStale(ref) => ref.run \in caught \cup stale
      BY <1>0 DEF IsStale, CronHolds
    <3> QED BY <1>0, <3>1, <3>2 DEF CronHolds
  <2>3. CASE CronClose \/ CronDelete \/ CronDone \/ CronCallRefused \/ CronPassFails
    <3>1. listed' \subseteq listed /\ UNCHANGED <<stale, caught>>
      BY <2>3 DEF CronClose, CronDelete, CronDone, CronCallRefused, CronPassFails
    <3>2. \/ cron' = cron
          \/ cron' \in [at : {"idle", "visit"}]
          \/ cron.at = "close" /\ cron' = [cron EXCEPT !.at = "delete"]
      BY <2>3 DEF CronClose, CronDelete, CronDone, CronCallRefused, CronPassFails
    <3>3. cron.at = "close" => cron \in [at : {"close", "delete"}, ref : Refs]
      BY <1>0 DEF CronHolds
    <3>4. cron.at = "close" /\ cron' = [cron EXCEPT !.at = "delete"]
            => /\ cron' \in [at : {"close", "delete"}, ref : Refs]
               /\ cron'.ref = cron.ref
      BY <3>3
    <3> QED BY <1>0, <3>1, <3>2, <3>3, <3>4 DEF CronHolds
  <2> QED BY <2>1, <2>2, <2>3 DEF Cleaning
<1> QED BY <1>4, <1>6, <1>7 DEF FateInv

LEMMA FateStep == IInv /\ FateInv /\ [Next]_vars => FateInv'
<1> SUFFICES ASSUME IInv, FateInv, [Next]_vars PROVE FateInv'
  OBVIOUS
<1>1. CASE UNCHANGED vars
  BY <1>1 DEF vars, github, publisher, cleaner, FateInv, Fate, CronHolds
<1>2. ASSUME NEW r \in Runs, Age(r) PROVE FateInv'
  BY <1>2 DEF Age, github, publisher, cleaner, FateInv, Fate, CronHolds
<1>3. CASE Next
  BY <1>2, <1>3, PublishingFate, FailingFate, CronFate DEF Next, Failing
<1> QED BY <1>1, <1>3

LEMMA FateHolds == Spec => [](IInv /\ FateInv)
<1>1. Init => IInv /\ FateInv
  BY InitInv, FateInit
<1>2. IInv /\ FateInv /\ [Next]_vars => (IInv /\ FateInv)'
  BY StepInv, FateStep
<1> QED BY <1>1, <1>2, PTL DEF Spec

\* A run that was not published leaves a branch behind only if the answer to its
\* creation was lost, the DELETE went wrong, or the consumer died.
THEOREM NoOrphanHolds == Spec => []NoOrphanUnlessUnsure
<1>1. FateInv => NoOrphanUnlessUnsure
  BY DEF FateInv, Fate, NoOrphanUnlessUnsure
<1> QED BY <1>1, FateHolds, PTL

\* The cron closes the pull request of a fresh run only if a pass had listed the
\* branch before the run's commit was on it.
THEOREM FreshClosedHolds == Spec => []FreshClosedOnlyIfCaught
<1>1. FateInv => FreshClosedOnlyIfCaught
  BY DEF FateInv, Fate, FreshClosedOnlyIfCaught
<1> QED BY <1>1, FateHolds, PTL
==============================================================================

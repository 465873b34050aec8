------------------------- MODULE SnapshotLedgerProofs -------------------------
(***************************************************************************)
(* What the snapshot ledger promises, for any set of runs, any facts and   *)
(* values, any number of changes and redeliveries.                         *)
(*                                                                         *)
(* All three properties rest on where a snapshot comes from: it is one of  *)
(* the truths the product has had, under its number (Genuine).  That drift *)
(* is on record needs more: while no two runs overlap there is at most one *)
(* at work, what it compares with is the snapshot before its own, and only *)
(* the last snapshot may have drift that is not yet on record.             *)
(***************************************************************************)
EXTENDS SnapshotLedger, TLAPS

States == AtWork \cup {"queued", "completed", "failed"}

Snapshots == [version : Nat, value : Truths]
Changes   == [key : Keys, from : Values, to : Values]

Types ==
  /\ shipped \in Seq(Truths) /\ Len(shipped) >= 1
  /\ snapshot \in Seq(Snapshots)
  /\ pc \in [Runs -> States]
  /\ current \in [Runs -> Snapshots]
  /\ previous \in [Runs -> {<<>>} \cup {<<s>> : s \in Snapshots}]
  /\ mutation \in [Runs -> SUBSET (Keys \X Values)]
  /\ deltas \in [Runs -> SUBSET Changes]
  /\ recorded \in [Runs -> SUBSET Changes]
  /\ retries \in [Runs -> Nat]
  /\ overlapped \in BOOLEAN
  /\ orphaned \in SUBSET Nat

\* A snapshot of the product: a truth it has had, under its number.
Genuine(s) == s.version \in 1 .. Len(shipped) /\ s.value = shipped[s.version]

\* A value that a fact has had.
Had(d) == \E n \in 1 .. Len(shipped) : shipped[n][d.key] = d.from

Sources ==
  /\ \A i \in 1 .. Len(snapshot) : Genuine(snapshot[i])
  /\ \A r \in Runs : Genuine(current[r])
  /\ \A r \in Runs : previous[r] # <<>> => Genuine(previous[r][1])
  /\ \A r \in Runs : \A d \in deltas[r] \cup recorded[r] : Had(d)

PrivateInv == Types /\ Sources

-------------------------------------------------------------------------------
LEMMA SnapshotSeq ==
  ASSUME NEW S, NEW s \in Seq(S), NEW x \in S
  PROVE  /\ Append(s, x) \in Seq(S) /\ Len(Append(s, x)) = Len(s) + 1
         /\ Append(s, x)[Len(s) + 1] = x
         /\ \A i \in 1 .. Len(s) : Append(s, x)[i] = s[i]
         /\ \A i \in 1 .. Len(s) : s[i] \in S
         /\ Len(s) \in Nat
  OBVIOUS

LEMMA TruthIs ==
  ASSUME Types
  PROVE  Truth \in Snapshots /\ Genuine(Truth)
<1>1. Len(shipped) \in Nat /\ shipped[Len(shipped)] \in Truths
  BY DEF Types
<1> QED BY <1>1 DEF Types, Truth, Snapshots, Genuine

LEMMA LatestIs ==
  ASSUME Types
  PROVE  /\ Latest \in {<<>>} \cup {<<s>> : s \in Snapshots}
         /\ Latest # <<>> => /\ Len(snapshot) \in Nat \ {0}
                             /\ Latest[1] = snapshot[Len(snapshot)]
         /\ Latest = <<>> => snapshot = <<>>
<1>1. CASE snapshot = <<>>
  BY <1>1 DEF Latest
<1>2. CASE snapshot # <<>>
  <2>1. Len(snapshot) \in Nat \ {0} /\ snapshot[Len(snapshot)] \in Snapshots
    BY <1>2 DEF Types
  <2>2. Latest = <<snapshot[Len(snapshot)]>>
    BY <1>2 DEF Latest
  <2> QED BY <2>1, <2>2
<1> QED BY <1>1, <1>2

LEMMA WorkingCopyIs ==
  ASSUME Types, NEW r \in Runs
  PROVE  /\ WorkingCopy(r) \in Truths
         /\ \A k \in Keys : (~\E v \in Values : <<k, v>> \in mutation[r])
                            => WorkingCopy(r)[k] = current[r].value[k]
<1>1. current[r].value \in [Keys -> Values]
  BY DEF Types, Snapshots, Truths
<1>2. \A k \in Keys : WorkingCopy(r)[k] \in Values
  <2> SUFFICES ASSUME NEW k \in Keys PROVE WorkingCopy(r)[k] \in Values
    OBVIOUS
  <2>1. CASE \E v \in Values : <<k, v>> \in mutation[r]
    <3>1. (CHOOSE v \in Values : <<k, v>> \in mutation[r]) \in Values
      BY <2>1
    <3> QED BY <2>1, <3>1 DEF WorkingCopy
  <2>2. CASE ~\E v \in Values : <<k, v>> \in mutation[r]
    BY <2>2, <1>1 DEF WorkingCopy
  <2> QED BY <2>1, <2>2
<1>3. WorkingCopy(r) = [k \in Keys |-> WorkingCopy(r)[k]]
  BY DEF WorkingCopy
<1> QED BY <1>1, <1>2, <1>3 DEF WorkingCopy, Truths

\* The truths that there have been stay.
LEMMA StillGenuine ==
  ASSUME Types, NEW t \in Truths, shipped' = Append(shipped, t)
  PROVE  /\ shipped' \in Seq(Truths) /\ Len(shipped') >= 1
         /\ \A s : Genuine(s) => Genuine(s)'
         /\ \A d : Had(d) => Had(d)'
<1>1. /\ shipped \in Seq(Truths) /\ Len(shipped) >= 1
  BY DEF Types
<1>2. /\ shipped' \in Seq(Truths) /\ Len(shipped') = Len(shipped) + 1
      /\ \A i \in 1 .. Len(shipped) : shipped'[i] = shipped[i]
      /\ Len(shipped) \in Nat
  BY <1>1, SnapshotSeq
<1>3. \A n \in 1 .. Len(shipped) : n \in 1 .. Len(shipped') /\ shipped'[n] = shipped[n]
  BY <1>2
<1>4. \A s : Genuine(s) => Genuine(s)'
  BY <1>3 DEF Genuine
<1>5. \A d : Had(d) => Had(d)'
  BY <1>3 DEF Had
<1> QED BY <1>1, <1>2, <1>4, <1>5

LEMMA SameGenuine ==
  ASSUME UNCHANGED shipped
  PROVE  (\A s : Genuine(s)' <=> Genuine(s)) /\ (\A d : Had(d)' <=> Had(d))
  BY DEF Genuine, Had

LEMMA PrivateInit == Init => PrivateInv
<1> SUFFICES ASSUME Init PROVE PrivateInv
  OBVIOUS
<1>1. PICK t \in Truths : shipped = <<t>>
  BY DEF Init
<1>2. Types
  <2>1. Truth \in Snapshots
    BY <1>1 DEF Truth, Snapshots
  <2>2. mutation \in [Runs -> SUBSET (Keys \X Values)]
    BY DEF Init
  <2>3. <<t>> \in Seq(Truths) /\ Len(<<t>>) = 1
    OBVIOUS
  <2>4. <<>> \in Seq(Snapshots)
    OBVIOUS
  <2>5. shipped \in Seq(Truths) /\ Len(shipped) >= 1 /\ snapshot \in Seq(Snapshots)
    BY <1>1, <2>3, <2>4 DEF Init
  <2>6. /\ pc \in [Runs -> States]
        /\ current \in [Runs -> Snapshots]
        /\ previous \in [Runs -> {<<>>} \cup {<<s>> : s \in Snapshots}]
    BY <2>1 DEF Init, States, AtWork
  <2>7. /\ deltas \in [Runs -> SUBSET Changes] /\ recorded \in [Runs -> SUBSET Changes]
        /\ retries \in [Runs -> Nat] /\ overlapped \in BOOLEAN /\ orphaned \in SUBSET Nat
    BY DEF Init
  <2> QED BY <2>2, <2>5, <2>6, <2>7 DEF Types
<1>3. Genuine(Truth)
  BY <1>2, TruthIs
<1>4. Sources
  BY <1>3 DEF Init, Sources
<1> QED BY <1>2, <1>4 DEF PrivateInv

LEMMA ShipPrivate ==
  ASSUME PrivateInv, NEW k \in Keys, NEW v \in Values, Ship(k, v)
  PROVE  PrivateInv'
<1> USE DEF PrivateInv
<1>1. Truth.value \in Truths
  BY TruthIs DEF Snapshots
<1>2. [Truth.value EXCEPT ![k] = v] \in Truths
  BY <1>1 DEF Truths
<1>3. /\ shipped' \in Seq(Truths) /\ Len(shipped') >= 1
      /\ \A s : Genuine(s) => Genuine(s)'
      /\ \A d : Had(d) => Had(d)'
  BY <1>2, StillGenuine DEF Ship
<1>4. Types'
  BY <1>3 DEF Ship, Types, run
<1>5. Sources'
  BY <1>3 DEF Ship, Sources, run
<1> QED BY <1>4, <1>5

LEMMA FetchPrivate ==
  ASSUME PrivateInv, NEW r \in Runs, Fetch(r)
  PROVE  PrivateInv'
<1> USE DEF PrivateInv
<1>1. Types'
  BY TruthIs DEF Fetch, Goto, Types, States, AtWork
<1>2. Sources'
  <2>1. \A q \in Runs : Genuine(current'[q])
    BY TruthIs DEF Fetch, Sources, Types
  <2> QED BY <2>1, SameGenuine DEF Fetch, Sources
<1> QED BY <1>1, <1>2

LEMMA ReadPrivate ==
  ASSUME PrivateInv, NEW r \in Runs, ReadPrevious(r)
  PROVE  PrivateInv'
<1> USE DEF PrivateInv
<1>1. Types'
  BY LatestIs DEF ReadPrevious, Goto, Types, States, AtWork
<1>2. Latest # <<>> => Genuine(Latest[1])
  BY LatestIs DEF Sources
<1>3. \A q \in Runs : previous'[q] # <<>> => Genuine(previous'[q][1])
  BY <1>2 DEF ReadPrevious, Sources, Types
<1>4. Sources'
  BY <1>3, SameGenuine DEF ReadPrevious, Sources
<1> QED BY <1>1, <1>4

LEMMA StorePrivate ==
  ASSUME PrivateInv, NEW r \in Runs, StoreSnapshot(r)
  PROVE  PrivateInv'
<1> USE DEF PrivateInv
<1>1. current[r] \in Snapshots /\ snapshot \in Seq(Snapshots)
  BY DEF Types
<1>2. /\ snapshot' \in Seq(Snapshots)
      /\ \A i \in 1 .. Len(snapshot') : \/ i \in 1 .. Len(snapshot) /\ snapshot'[i] = snapshot[i]
                                        \/ snapshot'[i] = current[r]
  BY <1>1, SnapshotSeq DEF StoreSnapshot
<1>3. Types'
  BY <1>2 DEF StoreSnapshot, Goto, Types, States, AtWork
<1>4. \A i \in 1 .. Len(snapshot') : Genuine(snapshot'[i])
  BY <1>2 DEF Sources
<1>5. Sources'
  BY <1>4, SameGenuine DEF StoreSnapshot, Sources
<1> QED BY <1>3, <1>5

LEMMA BaseIs ==
  ASSUME PrivateInv, NEW r \in Runs
  PROVE  /\ Base(r) \in Truths
         /\ \E n \in 1 .. Len(shipped) : Base(r) = shipped[n]
<1>1. CASE previous[r] = <<>>
  BY <1>1 DEF Base, PrivateInv, Types, Sources, Genuine, Snapshots
<1>2. CASE previous[r] # <<>>
  <2>1. PICK s \in Snapshots : previous[r] = <<s>>
    BY <1>2 DEF PrivateInv, Types
  <2>2. Genuine(s)
    BY <1>2, <2>1 DEF PrivateInv, Sources
  <2>3. Base(r) = s.value
    BY <1>2, <2>1 DEF Base
  <2> QED BY <2>1, <2>2, <2>3 DEF Genuine, Snapshots
<1> QED BY <1>1, <1>2

LEMMA DetectPrivate ==
  ASSUME PrivateInv, NEW r \in Runs, Detect(r)
  PROVE  PrivateInv'
<1> USE DEF PrivateInv
<1> DEFINE D == Diff(Base(r), WorkingCopy(r))
<1>1. D \in SUBSET Changes /\ \A d \in D : Had(d)
  <2>1. PICK n \in 1 .. Len(shipped) : Base(r) = shipped[n]
    BY BaseIs
  <2>2. Base(r) \in [Keys -> Values] /\ WorkingCopy(r) \in [Keys -> Values]
    BY BaseIs, WorkingCopyIs DEF Truths
  <2> SUFFICES ASSUME NEW d \in D PROVE d \in Changes /\ Had(d)
    OBVIOUS
  <2>3. PICK k \in Keys : d = [key |-> k, from |-> Base(r)[k], to |-> WorkingCopy(r)[k]]
    BY DEF Diff
  <2> QED BY <2>1, <2>2, <2>3 DEF Changes, Had
<1>2. Types'
  BY <1>1 DEF Detect, Goto, Types, States, AtWork
<1>3. \A q \in Runs : \A d \in deltas'[q] : Had(d)
  BY <1>1 DEF Detect, Sources, Types
<1>4. Sources'
  BY <1>3, SameGenuine DEF Detect, Sources
<1> QED BY <1>2, <1>4

LEMMA PersistPrivate ==
  ASSUME PrivateInv, NEW r \in Runs, Persist(r)
  PROVE  PrivateInv'
<1> USE DEF PrivateInv
<1>1. Types'
  BY DEF Persist, Goto, Types, States, AtWork
<1>2. \A q \in Runs : \A d \in recorded'[q] : Had(d)
  BY DEF Persist, Sources, Types
<1>3. Sources'
  BY <1>2, SameGenuine DEF Persist, Sources
<1> QED BY <1>1, <1>3

LEMMA OrphanType ==
  ASSUME Types, NEW r \in Runs, Orphan(r)
  PROVE  orphaned' \in SUBSET Nat
<1>1. Len(snapshot) \in Nat
  BY DEF Types
<1> QED BY <1>1 DEF Orphan, Types

LEMMA FailPrivate ==
  ASSUME PrivateInv, NEW r \in Runs, Fail(r)
  PROVE  PrivateInv'
<1> USE DEF PrivateInv
<1>1. orphaned' \in SUBSET Nat
  BY OrphanType DEF Fail
<1>2. Types'
  BY <1>1 DEF Fail, Types, States
<1>3. Sources'
  BY SameGenuine DEF Fail, Sources
<1> QED BY <1>2, <1>3

LEMMA RedeliverPrivate ==
  ASSUME PrivateInv, NEW r \in Runs, Redeliver(r)
  PROVE  PrivateInv'
<1> USE DEF PrivateInv
<1>1. orphaned' \in SUBSET Nat
  BY OrphanType DEF Redeliver
<1>2. Types'
  BY <1>1 DEF Redeliver, Types, States
<1>3. \A q \in Runs : deltas'[q] \subseteq deltas[q]
  BY DEF Redeliver, Types
<1>4. Sources'
  BY <1>3, SameGenuine DEF Redeliver, Sources
<1> QED BY <1>2, <1>4

LEMMA PrivateStep == PrivateInv /\ [Next]_vars => PrivateInv'
<1> SUFFICES ASSUME PrivateInv, [Next]_vars PROVE PrivateInv'
  OBVIOUS
<1>1. CASE UNCHANGED vars
  BY <1>1, SameGenuine DEF vars, run, PrivateInv, Types, Sources
<1>2. ASSUME NEW k \in Keys, NEW v \in Values, Ship(k, v) PROVE PrivateInv'
  BY <1>2, ShipPrivate
<1>3. ASSUME NEW r \in Runs,
             \/ Fetch(r) \/ ReadPrevious(r) \/ StoreSnapshot(r) \/ Detect(r)
             \/ Persist(r) \/ Fail(r) \/ Redeliver(r)
      PROVE  PrivateInv'
  BY <1>3, FetchPrivate, ReadPrivate, StorePrivate, DetectPrivate, PersistPrivate,
     FailPrivate, RedeliverPrivate
<1> QED BY <1>1, <1>2, <1>3 DEF Next

(* The origin of every snapshot and of every old value a run reports.      *)
THEOREM PrivateHolds == Spec => []PrivateInv
<1> QED BY PrivateInit, PrivateStep, PTL DEF Spec

(* The old value of a fact that a run puts on record is one the product    *)
(* has had, never another run's hypothetical, however runs overlap, fail   *)
(* and are executed again.                                                 *)
THEOREM MutationsStayPrivateHolds == Spec => []MutationsStayPrivate
<1>1. PrivateInv => MutationsStayPrivate
  BY DEF PrivateInv, Sources, Had, MutationsStayPrivate
<1> QED BY <1>1, PrivateHolds, PTL

-------------------------------------------------------------------------------
\* While no two runs have overlapped:
Alone ==
  ~overlapped => \A q, r \in Runs : pc[q] \in AtWork /\ pc[r] \in AtWork => q = r

\* what a run has fetched is not older than anything that is stored,
Youngest ==
  ~overlapped => \A r \in Runs : pc[r] \in {"fetched", "read"} =>
    \A i \in 1 .. Len(snapshot) : snapshot[i].version <= current[r].version

\* nor than what it compares with,
Forward ==
  ~overlapped => \A r \in Runs :
    pc[r] \in {"read", "stored", "detected", "completed"} /\ previous[r] # <<>> =>
      previous[r][1].version <= current[r].version

ForwardInv == PrivateInv /\ Alone /\ Youngest /\ Forward

LEMMA ForwardInit == Init => ForwardInv
<1> SUFFICES ASSUME Init PROVE ForwardInv
  OBVIOUS
<1>1. PrivateInv
  BY PrivateInit
<1> QED BY <1>1 DEF Init, ForwardInv, Alone, Youngest, Forward, AtWork

LEMMA FetchForward ==
  ASSUME ForwardInv, PrivateInv', NEW r \in Runs, Fetch(r)
  PROVE  ForwardInv'
<1> USE DEF ForwardInv
<1>1. Types
  BY DEF PrivateInv
<1>2. ~overlapped' => ~overlapped /\ \A q \in Runs : pc[q] \notin AtWork
  BY <1>1 DEF Fetch, Types
<1>3. pc' = [pc EXCEPT ![r] = "fetched"] /\ current' = [current EXCEPT ![r] = Truth]
      /\ UNCHANGED <<snapshot, previous>>
  BY DEF Fetch, Goto
<1>4. Alone'
  BY <1>1, <1>2, <1>3 DEF Alone, Types
<1>5. \A i \in 1 .. Len(snapshot) : snapshot[i].version <= Truth.version
  BY DEF PrivateInv, Sources, Genuine, Truth, Types
<1>6. Youngest'
  BY <1>1, <1>2, <1>3, <1>5 DEF Youngest, Types, AtWork
<1>7. Forward'
  BY <1>1, <1>2, <1>3 DEF Forward, Types
<1> QED BY <1>4, <1>6, <1>7

LEMMA ReadForward ==
  ASSUME ForwardInv, PrivateInv', NEW r \in Runs, ReadPrevious(r)
  PROVE  ForwardInv'
<1> USE DEF ForwardInv
<1>1. Types /\ Types'
  BY DEF PrivateInv
<1>2. /\ pc[r] = "fetched" /\ pc' = [pc EXCEPT ![r] = "read"]
      /\ previous' = [previous EXCEPT ![r] = Latest]
      /\ UNCHANGED <<snapshot, current, overlapped>>
  BY DEF ReadPrevious, Goto
<1>3. Alone' /\ Youngest'
  BY <1>1, <1>2 DEF Alone, Youngest, Types, AtWork
<1>4. ~overlapped /\ Latest # <<>> => Latest[1].version <= current[r].version
  BY <1>1, <1>2, LatestIs DEF Youngest
<1>5. Forward'
  BY <1>1, <1>2, <1>4 DEF Forward, Types
<1> QED BY <1>3, <1>5

LEMMA StoreForward ==
  ASSUME ForwardInv, PrivateInv', NEW r \in Runs, StoreSnapshot(r)
  PROVE  ForwardInv'
<1> USE DEF ForwardInv
<1>1. Types
  BY DEF PrivateInv
<1>2. /\ pc[r] = "read" /\ pc' = [pc EXCEPT ![r] = "stored"]
      /\ UNCHANGED <<current, previous, overlapped>>
  BY DEF StoreSnapshot, Goto
<1>3. Alone' /\ Forward'
  BY <1>1, <1>2 DEF Alone, Forward, Types, AtWork
<1>4. ~overlapped => \A q \in Runs : pc'[q] \notin {"fetched", "read"}
  BY <1>1, <1>2 DEF Alone, Types, AtWork
<1>5. Youngest'
  BY <1>2, <1>4 DEF Youngest
<1> QED BY <1>3, <1>5

\* The steps after the snapshot is stored, and those that end a run's work.
LEMMA LaterForward ==
  ASSUME ForwardInv, PrivateInv', NEW r \in Runs,
         Detect(r) \/ Persist(r) \/ Fail(r) \/ Redeliver(r)
  PROVE  ForwardInv'
<1> USE DEF ForwardInv
<1>1. Types
  BY DEF PrivateInv
<1>2. PICK to \in {"detected", "completed", "failed", "queued"} :
        /\ pc[r] \in AtWork /\ pc' = [pc EXCEPT ![r] = to]
        /\ to \in {"detected", "completed"} => pc[r] \in {"stored", "detected"}
        /\ UNCHANGED <<snapshot, current, previous, overlapped>>
  BY DEF Detect, Persist, Fail, Redeliver, Goto, AtWork
<1>3. Alone'
  BY <1>1, <1>2 DEF Alone, Types
<1>4. Youngest' /\ Forward'
  BY <1>1, <1>2 DEF Youngest, Forward, Types
<1> QED BY <1>3, <1>4

LEMMA ForwardStep == ForwardInv /\ [Next]_vars => ForwardInv'
<1> SUFFICES ASSUME ForwardInv, [Next]_vars PROVE ForwardInv'
  OBVIOUS
<1>1. PrivateInv'
  BY PrivateStep DEF ForwardInv
<1>2. CASE UNCHANGED vars
  BY <1>1, <1>2 DEF vars, run, ForwardInv, Alone, Youngest, Forward
<1>3. ASSUME NEW k \in Keys, NEW v \in Values, Ship(k, v) PROVE ForwardInv'
  BY <1>1, <1>3 DEF Ship, run, ForwardInv, Alone, Youngest, Forward
<1>4. ASSUME NEW r \in Runs,
             \/ Fetch(r) \/ ReadPrevious(r) \/ StoreSnapshot(r) \/ Detect(r)
             \/ Persist(r) \/ Fail(r) \/ Redeliver(r)
      PROVE  ForwardInv'
  BY <1>1, <1>4, FetchForward, ReadForward, StoreForward, LaterForward
<1> QED BY <1>2, <1>3, <1>4 DEF Next

THEOREM ForwardHolds == Spec => []ForwardInv
<1> QED BY ForwardInit, ForwardStep, PTL DEF Spec

(* As long as no two runs are at work at once, a run compares with no      *)
(* snapshot younger than the one it fetched: it never reports the          *)
(* product's change backwards.                                             *)
THEOREM DeltasRunForwardHolds == Spec => []DeltasRunForward
<1>1. ForwardInv => DeltasRunForward
  BY DEF ForwardInv, Forward, DeltasRunForward
<1> QED BY <1>1, ForwardHolds, PTL

-------------------------------------------------------------------------------
\* What a run compares with is the snapshot before its own.
Before ==
  ~overlapped => \A r \in Runs :
    /\ pc[r] = "read" => previous[r] = Latest
    /\ pc[r] \in {"stored", "detected"} =>
         /\ Len(snapshot) >= 1 /\ snapshot[Len(snapshot)] = current[r]
         /\ Len(snapshot) >= 2 => previous[r] = <<snapshot[Len(snapshot) - 1]>>
    /\ pc[r] = "detected" => deltas[r] = Diff(Base(r), WorkingCopy(r))

Unrecorded == \A r \in Runs : pc[r] # "completed" => recorded[r] = {}

\* Drift is accounted for, or it is that of the last snapshot, whose run is still
\* at work.
Pending == \E r \in Runs : pc[r] \in {"stored", "detected"}

Accounted ==
  ~overlapped => \A i \in 2 .. Len(snapshot) :
    \A d \in Diff(snapshot[i - 1].value, snapshot[i].value) :
      \/ i \in orphaned \/ Mutated(d.key) \/ d \in Known
      \/ i = Len(snapshot) /\ Pending

DriftInv == ForwardInv /\ Before /\ Unrecorded /\ Accounted

LEMMA DriftInit == Init => DriftInv
<1> SUFFICES ASSUME Init PROVE DriftInv
  OBVIOUS
<1>1. ForwardInv
  BY ForwardInit
<1>2. Before /\ Unrecorded
  BY DEF Init, Before, Unrecorded
<1>3. Len(snapshot) = 0
  BY DEF Init
<1>4. Accounted
  BY <1>3 DEF Accounted
<1> QED BY <1>1, <1>2, <1>4 DEF DriftInv

LEMMA FetchDrift ==
  ASSUME DriftInv, ForwardInv', NEW r \in Runs, Fetch(r)
  PROVE  DriftInv'
<1> USE DEF DriftInv
<1>1. Types
  BY DEF ForwardInv, PrivateInv
<1>2. ~overlapped' => ~overlapped /\ \A q \in Runs : pc[q] \notin AtWork
  BY <1>1 DEF Fetch, Types
<1>3. /\ pc[r] = "queued" /\ pc' = [pc EXCEPT ![r] = "fetched"]
      /\ UNCHANGED <<snapshot, mutation, recorded, orphaned>>
  BY DEF Fetch, Goto
<1>4. Before'
  BY <1>1, <1>2, <1>3 DEF Before, Types, AtWork
<1>5. Unrecorded'
  BY <1>1, <1>3 DEF Unrecorded, Types
<1>6. Accounted'
  BY <1>2, <1>3 DEF Accounted, Pending, Mutated, Known, AtWork
<1> QED BY <1>4, <1>5, <1>6

LEMMA ReadDrift ==
  ASSUME DriftInv, ForwardInv', NEW r \in Runs, ReadPrevious(r)
  PROVE  DriftInv'
<1> USE DEF DriftInv
<1>1. Types
  BY DEF ForwardInv, PrivateInv
<1>2. /\ pc[r] = "fetched" /\ pc' = [pc EXCEPT ![r] = "read"]
      /\ previous' = [previous EXCEPT ![r] = Latest]
      /\ UNCHANGED <<snapshot, current, mutation, deltas, recorded, overlapped, orphaned>>
  BY DEF ReadPrevious, Goto
<1>3. Latest' = Latest
  BY <1>2 DEF Latest
<1>4. ~overlapped => \A q \in Runs : q # r => pc[q] \notin AtWork
  BY <1>2 DEF ForwardInv, Alone, AtWork
<1>5. Before'
  BY <1>1, <1>2, <1>3, <1>4 DEF Before, Types, AtWork
<1>6. Unrecorded'
  BY <1>1, <1>2 DEF Unrecorded, Types
<1>7. Pending' <=> Pending
  BY <1>1, <1>2 DEF Pending, Types
<1>8. Accounted'
  BY <1>2, <1>7 DEF Accounted, Mutated, Known
<1> QED BY <1>5, <1>6, <1>8

LEMMA StoreDrift ==
  ASSUME DriftInv, ForwardInv', NEW r \in Runs, StoreSnapshot(r)
  PROVE  DriftInv'
<1> USE DEF DriftInv
<1>1. Types
  BY DEF ForwardInv, PrivateInv
<1>2. /\ pc[r] = "read" /\ pc' = [pc EXCEPT ![r] = "stored"]
      /\ snapshot' = Append(snapshot, current[r])
      /\ UNCHANGED <<current, previous, mutation, recorded, overlapped, orphaned>>
  BY DEF StoreSnapshot, Goto
<1> DEFINE n == Len(snapshot)
<1>3. /\ n \in Nat /\ Len(snapshot') = n + 1 /\ snapshot'[n + 1] = current[r]
      /\ \A i \in 1 .. n : snapshot'[i] = snapshot[i]
  BY <1>1, <1>2, SnapshotSeq DEF Types
<1> HIDE DEF n
<1>4. ~overlapped => \A q \in Runs : q # r => pc[q] \notin AtWork
  BY <1>2 DEF ForwardInv, Alone, AtWork
<1>5. ~overlapped /\ n >= 1 => previous[r] = <<snapshot[n]>>
  BY <1>2 DEF Before, Latest, n
<1>6. Before'
  <2> SUFFICES ASSUME ~overlapped, NEW q \in Runs, pc'[q] \in AtWork
               PROVE  /\ pc'[q] = "stored"
                      /\ Len(snapshot') >= 1 /\ snapshot'[Len(snapshot')] = current[q]
                      /\ Len(snapshot') >= 2 => previous[q] = <<snapshot'[Len(snapshot') - 1]>>
    BY <1>2 DEF Before, AtWork
  <2>1. q = r
    BY <1>1, <1>2, <1>4 DEF Types
  <2>2. n >= 1 => snapshot'[n] = snapshot[n]
    BY <1>3
  <2> QED BY <1>1, <1>2, <1>3, <1>5, <2>1, <2>2 DEF Types
<1>7. Unrecorded'
  BY <1>1, <1>2 DEF Unrecorded, Types
<1>8. Accounted'
  <2> SUFFICES ASSUME ~overlapped, NEW i \in 2 .. Len(snapshot'),
                      NEW d \in Diff(snapshot'[i - 1].value, snapshot'[i].value)
               PROVE  \/ i \in orphaned \/ Mutated(d.key) \/ d \in Known
                      \/ i = Len(snapshot') /\ Pending'
    BY <1>2 DEF Accounted, Mutated, Known, Diff
  <2>1. Pending'
    BY <1>1, <1>2 DEF Pending, Types
  <2>2. ~Pending
    BY <1>2, <1>4 DEF Pending, AtWork
  <2>3. CASE i \in 2 .. n
    <3>1. snapshot'[i] = snapshot[i] /\ snapshot'[i - 1] = snapshot[i - 1]
      BY <1>3, <2>3
    <3>2. d \in Diff(snapshot[i - 1].value, snapshot[i].value)
      BY <3>1
    <3> QED BY <2>2, <2>3, <3>2 DEF Accounted, n
  <2>4. CASE i = n + 1
    BY <1>3, <2>1, <2>4
  <2> QED BY <1>3, <2>3, <2>4
<1> QED BY <1>6, <1>7, <1>8

LEMMA DetectDrift ==
  ASSUME DriftInv, ForwardInv', NEW r \in Runs, Detect(r)
  PROVE  DriftInv'
<1> USE DEF DriftInv
<1>1. Types
  BY DEF ForwardInv, PrivateInv
<1>2. /\ pc[r] = "stored" /\ pc' = [pc EXCEPT ![r] = "detected"]
      /\ deltas' = [deltas EXCEPT ![r] = Diff(Base(r), WorkingCopy(r))]
      /\ UNCHANGED <<snapshot, current, previous, mutation, recorded, overlapped, orphaned>>
  BY DEF Detect, Goto
<1>3. /\ \A q \in Runs : Base(q)' = Base(q) /\ WorkingCopy(q)' = WorkingCopy(q)
      /\ Latest' = Latest
  BY <1>2 DEF Base, WorkingCopy, Latest
<1>4. Before'
  <2> SUFFICES ASSUME ~overlapped, NEW q \in Runs
               PROVE  /\ pc'[q] = "read" => previous[q] = Latest
                      /\ pc'[q] \in {"stored", "detected"} =>
                           /\ Len(snapshot) >= 1 /\ snapshot[Len(snapshot)] = current[q]
                           /\ Len(snapshot) >= 2 =>
                                previous[q] = <<snapshot[Len(snapshot) - 1]>>
                      /\ pc'[q] = "detected" => deltas'[q] = Diff(Base(q), WorkingCopy(q))
    BY <1>2, <1>3 DEF Before, Diff
  <2>1. CASE q = r
    BY <1>1, <1>2, <2>1 DEF Before, Types
  <2>2. CASE q # r
    BY <1>1, <1>2, <2>2 DEF Before, Types
  <2> QED BY <2>1, <2>2
<1>5. Unrecorded'
  BY <1>1, <1>2 DEF Unrecorded, Types
<1>6. Pending' <=> Pending
  BY <1>1, <1>2 DEF Pending, Types
<1>7. Accounted'
  BY <1>2, <1>6 DEF Accounted, Mutated, Known
<1> QED BY <1>4, <1>5, <1>7

LEMMA PersistDrift ==
  ASSUME DriftInv, ForwardInv', NEW r \in Runs, Persist(r)
  PROVE  DriftInv'
<1> USE DEF DriftInv
<1>1. Types
  BY DEF ForwardInv, PrivateInv
<1>2. /\ pc[r] = "detected" /\ pc' = [pc EXCEPT ![r] = "completed"]
      /\ recorded' = [recorded EXCEPT ![r] = deltas[r]]
      /\ UNCHANGED <<snapshot, current, previous, mutation, deltas, overlapped, orphaned>>
  BY DEF Persist, Goto
<1>3. ~overlapped => \A q \in Runs : q # r => pc[q] \notin AtWork
  BY <1>2 DEF ForwardInv, Alone, AtWork
<1>4. Before'
  BY <1>1, <1>2, <1>3 DEF Before, Types, AtWork
<1>5. Unrecorded'
  BY <1>1, <1>2 DEF Unrecorded, Types
<1>6. Known \cup deltas[r] \subseteq Known'
  <2>1. recorded[r] = {}
    BY <1>2 DEF Unrecorded
  <2> QED BY <1>1, <1>2, <2>1 DEF Known, Types
<1>7. Accounted'
  <2> SUFFICES ASSUME ~overlapped, NEW i \in 2 .. Len(snapshot),
                      NEW d \in Diff(snapshot[i - 1].value, snapshot[i].value),
                      ~Mutated(d.key), i \notin orphaned
               PROVE  d \in Known'
    BY <1>2 DEF Accounted, Mutated
  <2>1. CASE i # Len(snapshot)
    BY <1>6, <2>1 DEF Accounted
  <2>2. CASE i = Len(snapshot)
    <3>1. previous[r] = <<snapshot[i - 1]>> /\ snapshot[i] = current[r]
          /\ deltas[r] = Diff(Base(r), WorkingCopy(r))
      BY <1>2, <2>2 DEF Before
    <3>2. Base(r) = snapshot[i - 1].value
      BY <3>1 DEF Base
    <3>3. PICK k \in Keys :
            /\ snapshot[i - 1].value[k] # snapshot[i].value[k]
            /\ d = [key |-> k, from |-> snapshot[i - 1].value[k], to |-> snapshot[i].value[k]]
      BY DEF Diff
    <3>4. WorkingCopy(r)[k] = snapshot[i].value[k]
      BY <1>1, <3>1, <3>3, WorkingCopyIs DEF Mutated
    <3>5. d \in deltas[r]
      BY <3>1, <3>2, <3>3, <3>4 DEF Diff
    <3> QED BY <1>6, <3>5
  <2> QED BY <2>1, <2>2
<1> QED BY <1>4, <1>5, <1>7

\* A run ends, or begins again, without having put anything on record.
LEMMA LostDrift ==
  ASSUME DriftInv, ForwardInv', NEW r \in Runs, Fail(r) \/ Redeliver(r)
  PROVE  DriftInv'
<1> USE DEF DriftInv
<1>1. Types
  BY DEF ForwardInv, PrivateInv
<1>2. PICK to \in {"failed", "queued"} :
        /\ pc[r] \in AtWork /\ pc' = [pc EXCEPT ![r] = to]
        /\ UNCHANGED <<snapshot, mutation, recorded, overlapped>>
        /\ Orphan(r)
  BY DEF Fail, Redeliver
<1>3. ~overlapped => \A q \in Runs : pc'[q] \notin AtWork
  BY <1>1, <1>2 DEF ForwardInv, Alone, Types, AtWork
<1>4. Before'
  BY <1>2, <1>3 DEF Before, AtWork
<1>5. Unrecorded'
  BY <1>1, <1>2 DEF Unrecorded, Types, AtWork
<1>6. orphaned \subseteq orphaned'
      /\ (~overlapped /\ pc[r] \in {"stored", "detected"} => Len(snapshot) \in orphaned')
  BY <1>2 DEF Orphan
<1>7. ~overlapped /\ Pending => pc[r] \in {"stored", "detected"}
  BY <1>2 DEF Pending, ForwardInv, Alone, AtWork
<1>8. Accounted'
  <2> SUFFICES ASSUME ~overlapped, NEW i \in 2 .. Len(snapshot),
                      NEW d \in Diff(snapshot[i - 1].value, snapshot[i].value)
               PROVE  i \in orphaned' \/ Mutated(d.key) \/ d \in Known
    BY <1>2 DEF Accounted, Mutated, Known
  <2> QED BY <1>6, <1>7 DEF Accounted
<1> QED BY <1>4, <1>5, <1>8

LEMMA DriftStep == DriftInv /\ [Next]_vars => DriftInv'
<1> SUFFICES ASSUME DriftInv, [Next]_vars PROVE DriftInv'
  OBVIOUS
<1>1. ForwardInv'
  BY ForwardStep DEF DriftInv
<1>2. ASSUME UNCHANGED <<snapshot, pc, current, previous, mutation, deltas, recorded,
                         overlapped, orphaned>>
      PROVE  DriftInv'
  <2>1. /\ Pending' <=> Pending
        /\ Known' = Known /\ Latest' = Latest
        /\ \A r \in Runs : Base(r)' = Base(r) /\ WorkingCopy(r)' = WorkingCopy(r)
        /\ \A k : Mutated(k)' <=> Mutated(k)
    BY <1>2 DEF Pending, Known, Latest, Base, WorkingCopy, Mutated
  <2> QED BY <1>1, <1>2, <2>1 DEF DriftInv, Before, Unrecorded, Accounted, Diff
<1>3. CASE UNCHANGED vars
  BY <1>2, <1>3 DEF vars, run
<1>4. ASSUME NEW k \in Keys, NEW v \in Values, Ship(k, v) PROVE DriftInv'
  BY <1>2, <1>4 DEF Ship, run
<1>5. ASSUME NEW r \in Runs,
             \/ Fetch(r) \/ ReadPrevious(r) \/ StoreSnapshot(r) \/ Detect(r)
             \/ Persist(r) \/ Fail(r) \/ Redeliver(r)
      PROVE  DriftInv'
  BY <1>1, <1>5, FetchDrift, ReadDrift, StoreDrift, DetectDrift, PersistDrift, LostDrift
<1> QED BY <1>3, <1>4, <1>5 DEF Next

THEOREM DriftHolds == Spec => []DriftInv
<1> QED BY DriftInit, DriftStep, PTL DEF Spec

(* As long as no two runs overlap, every change of an unmutated fact       *)
(* between two stored snapshots is on record once all runs are at rest,    *)
(* except at a snapshot whose run was lost after it stored it.             *)
THEOREM DriftOnRecordHolds == Spec => []DriftOnRecord
<1>1. DriftInv => DriftOnRecord
  BY DEF DriftInv, Accounted, Pending, AtWork, DriftOnRecord
<1> QED BY <1>1, DriftHolds, PTL
===============================================================================

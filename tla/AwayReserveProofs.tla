-------------------------- MODULE AwayReserveProofs --------------------------
(***************************************************************************)
(* The override never loses what it owes a battery, and so never refuses a *)
(* restoration, for any number of windows, reserve levels and              *)
(* disturbances, and for any number of batteries unless the process stops  *)
(* inside a deliberate command.  When it does not, the override also       *)
(* respects the choices of the user.  That every variable keeps its type   *)
(* needs no condition.                                                     *)
(***************************************************************************)
EXTENDS AwayReserve, TLAPS

RestoreSteps == {"restore-read", "restore-supersede", "restore-write", "restore-confirm",
                 "restore-verified"}
HoldSteps == {"hold-read", "hold-supersede", "zero-check", "zero-write", "zero-confirm",
              "activate"}

\* The state record d accounts for everything the service owes, given by o.
Rec(d, o) == \A h \in Hosts : o[h] # None =>
            /\ d.host = h /\ d.prev = o[h]
            /\ d.phase \in Owning \cup {"manual-pending"}

\* What is owed was not 0, and the battery that is owed still shows 0.
OwedZero == \A h \in Hosts : owed[h] # None => owed[h] # 0 /\ device[h] = 0

\* What the running reconcile() has established before each of its awaits.
ReconcileInv ==
  /\ pc \in RestoreSteps => Owns(doc) /\ doc.phase = "restoring"
  /\ pc \in HoldSteps => Owns(doc)
  /\ pc = "apply-read" => ~Owns(doc) /\ doc.phase # "manual-pending" /\ job.host # None
  /\ pc = "pending-read" => doc.phase = "manual-pending"
  /\ pc \in {"restore-supersede", "hold-supersede"} => device[doc.host] # 0
  /\ pc \in {"zero-check", "zero-write"} => device[doc.host] = doc.prev /\ doc.prev # 0
  /\ pc \in {"restore-confirm", "restore-verified"} => owed[doc.host] = None

\* What a running command holds back for the case that it fails.
CommandInv ==
  pc \in CommandSteps =>
    /\ job.host \in Hosts /\ job.percent \in Percents
    /\ job.affected =>
         /\ Rec(job.before, owed)
         /\ job.before.phase = "manual-pending" => CrashInCommand /\ job.before.host # None
         /\ IF job.different THEN doc.phase = job.before.phase /\ Owns(job.before)
            ELSE doc.phase = "manual-pending" /\ doc.host = job.host
    /\ pc = "command-verify" => owed[job.host] = None

\* A command is left pending only by a stop of the process.
PendingInv ==
  doc.phase = "manual-pending" =>
    doc.host # None /\ (CrashInCommand \/ (pc \in CommandSteps /\ job.affected))

IInv == TypeOK /\ OwedIsRecorded /\ OwedZero /\ ReconcileInv /\ CommandInv /\ PendingInv

\* Either the process does not stop inside a command, or there is one battery.
OneOwner == ~CrashInCommand \/ \A g, h \in Hosts : g = h

-----------------------------------------------------------------------------
LEMMA EmptyDocType == EmptyDoc \in Docs /\ ~Owns(EmptyDoc)
  BY DEF EmptyDoc, Docs, Phases, Owns, Owning

LEMMA NoJobType == NoJob \in Jobs
  BY EmptyDocType DEF NoJob, Jobs

\* Hold() keeps the account, given a record that is not to be restored.
LEMMA HoldKeeps ==
  ASSUME NEW d \in Docs, NEW j \in Jobs, NEW o, Hold(d, j), Rec(d, o), d.phase # "manual-pending",
         Owns(d) => Desired(j)
  PROVE  /\ doc' \in Docs /\ Rec(doc', o) /\ doc'.phase # "manual-pending"
         /\ \/ pc' = "idle" /\ job' = NoJob
            \/ pc' = "hold-read" /\ job' = j /\ Owns(doc')
            \/ pc' = "apply-read" /\ job' = j /\ ~Owns(doc') /\ j.host # None
  <1>1. CASE ~Desired(j)
    <2>1. Finish(IF j.blocked THEN d
                 ELSE IF Suspends(j) THEN IF d.phase = "suspended" THEN d
                                          ELSE [d EXCEPT !.phase = "suspended", !.window = j.window]
                 ELSE IF ~Owns(d) /\ d.phase # "idle" THEN EmptyDoc ELSE d)
      BY <1>1 DEF Hold
    <2>2. pc' = "idle" /\ job' = NoJob
      BY <2>1 DEF Finish
    <2>3. ~Owns(d)
      BY <1>1
    <2>4. \A h \in Hosts : o[h] = None
      BY <2>3, NoneAssumption DEF Rec, Owns
    <2>5. [d EXCEPT !.phase = "suspended", !.window = j.window] \in Docs
      BY DEF Docs, Jobs, Phases
    <2>6. doc' \in {d, EmptyDoc, [d EXCEPT !.phase = "suspended", !.window = j.window]}
      BY <2>1 DEF Finish
    <2>7. doc'.phase # "manual-pending"
      <3> DEFINE s == [d EXCEPT !.phase = "suspended", !.window = j.window]
      <3>1. s.phase = "suspended" /\ EmptyDoc.phase = "idle"
        BY DEF Docs, EmptyDoc
      <3>2. doc' = d \/ doc' = EmptyDoc \/ doc' = s
        BY <2>6
      <3> HIDE DEF s
      <3> QED
        BY <3>1, <3>2
    <2> QED
      BY <2>2, <2>4, <2>5, <2>6, <2>7, EmptyDocType DEF Rec
  <1>2. CASE Desired(j)
    BY <1>2 DEF Hold, Finish, Await
  <1> QED
    BY <1>1, <1>2

\* So does the part of reconcile() that decides about a restoration.
LEMMA SettleKeeps ==
  ASSUME NEW d \in Docs, NEW j \in Jobs, NEW o, Settle(d, j), Rec(d, o), d.phase # "manual-pending"
  PROVE  /\ doc' \in Docs /\ Rec(doc', o) /\ doc'.phase # "manual-pending"
         /\ \/ pc' = "idle" /\ job' = NoJob
            \/ pc' = "restore-read" /\ job' = j /\ Owns(doc') /\ doc'.phase = "restoring"
            \/ pc' = "hold-read" /\ job' = j /\ Owns(doc')
            \/ pc' = "apply-read" /\ job' = j /\ ~Owns(doc') /\ j.host # None
  <1> DEFINE kept == d.phase = "manual" /\ SameWindow(d, j) /\ d.host = j.host
             e == IF d.phase = "manual" THEN EmptyDoc ELSE d
  <1>1. e \in Docs /\ Rec(e, o) /\ e.phase # "manual-pending"
    BY EmptyDocType DEF Rec, Owning, EmptyDoc
  <1>2. CASE kept /\ Finish(d)
    BY <1>2 DEF Finish
  <1>3. CASE MustRestore(e, j) /\ Await([e EXCEPT !.phase = "restoring"], "restore-read", j)
    <2>1. Owns(e)
      BY <1>3 DEF MustRestore
    <2> DEFINE r == [e EXCEPT !.phase = "restoring"]
    <2>2. r \in Docs /\ r.phase = "restoring" /\ r.host = e.host /\ r.prev = e.prev
      <3> HIDE DEF e
      <3> QED
        BY <1>1 DEF Docs, Phases
    <2>3. Owns(r) /\ Rec(r, o)
      <3> HIDE DEF e, r
      <3> QED
        BY <1>1, <2>1, <2>2 DEF Owns, Rec, Owning
    <2> QED
      BY <1>3, <2>2, <2>3 DEF Await
  <1>4. CASE ~MustRestore(e, j) /\ Hold(e, j)
    <2>1. Owns(e) => Desired(j)
      BY <1>4 DEF MustRestore
    <2> HIDE DEF e
    <2> QED
      BY <1>1, <1>4, <2>1, HoldKeeps
  <1> QED
    BY <1>2, <1>3, <1>4 DEF Settle

\* The state saved after a restoration, when nothing is owed any more.
LEMMA RestoredKeeps ==
  ASSUME NEW d \in Docs, NEW j \in Jobs
  PROVE  /\ Restored(d, j) \in Docs /\ ~Owns(Restored(d, j))
         /\ Restored(d, j).phase # "manual-pending"
  <1>1. CASE j.blocked
    <2> DEFINE manual == [phase |-> "manual", host |-> j.host, prev |-> None, window |-> j.window,
                          request |-> None, manualWindow |-> None, manualHost |-> None]
    <2>1. manual \in Docs /\ manual.phase = "manual"
      <3>1. j.host \in Hosts \cup {None} /\ j.window \in Windows \cup {None}
        BY DEF Jobs
      <3> QED
        BY <3>1 DEF Docs, Phases
    <2>2. Restored(d, j) = manual
      BY <1>1 DEF Restored, EmptyDoc
    <2> HIDE DEF manual
    <2> QED
      BY <2>1, <2>2 DEF Owns, Owning
  <1>2. CASE ~j.blocked /\ Suspends(j)
    <2> DEFINE held == [d EXCEPT !.phase = "suspended"]
    <2>1. held \in Docs /\ held.phase = "suspended"
      BY DEF Docs, Phases
    <2>2. Restored(d, j) = held
      BY <1>2 DEF Restored
    <2> HIDE DEF held
    <2> QED
      BY <2>1, <2>2 DEF Owns, Owning
  <1>3. CASE ~j.blocked /\ ~Suspends(j)
    BY <1>3, EmptyDocType DEF Restored, EmptyDoc
  <1> QED
    BY <1>1, <1>2, <1>3

LEMMA InitIInv == Init => IInv
  <1> SUFFICES ASSUME Init PROVE IInv
    OBVIOUS
  <1>1. TypeOK
    BY EmptyDocType, NoJobType, BudgetAssumption DEF Init, TypeOK
  <1>2. OwedIsRecorded /\ OwedZero
    BY DEF Init, OwedIsRecorded, OwedZero
  <1>3. ReconcileInv /\ CommandInv /\ PendingInv
    BY DEF Init, ReconcileInv, CommandInv, PendingInv, RestoreSteps, HoldSteps, CommandSteps, EmptyDoc
  <1> QED
    BY <1>1, <1>2, <1>3 DEF IInv

-----------------------------------------------------------------------------
\* The steps of reconcile() that only decide: the account is kept by SettleKeeps
\* and HoldKeeps, and nothing else changes.
LEMMA DecisionStep ==
  ASSUME IInv, NEW j \in Jobs,
         UNCHANGED <<device, environment, budget>>, deliberate' \subseteq Hosts,
         owed' \in [Hosts -> Percents \cup {None}],
         \A h \in Hosts : owed'[h] # None => owed'[h] = owed[h],
         doc' \in Docs, Rec(doc', owed'), doc'.phase # "manual-pending",
         \/ pc' = "idle" /\ job' = NoJob
         \/ pc' = "restore-read" /\ job' = j /\ Owns(doc') /\ doc'.phase = "restoring"
         \/ pc' = "hold-read" /\ job' = j /\ Owns(doc')
         \/ pc' = "apply-read" /\ job' = j /\ ~Owns(doc') /\ j.host # None
  PROVE  IInv'
  <1>1. TypeOK'
    BY NoJobType DEF IInv, TypeOK, ReconcileSteps, environment
  <1>2. OwedIsRecorded' /\ OwedZero'
    BY DEF IInv, OwedIsRecorded, OwedZero, Rec
  <1>3. ReconcileInv' /\ CommandInv' /\ PendingInv'
    BY DEF ReconcileInv, CommandInv, PendingInv, RestoreSteps, HoldSteps, CommandSteps, Owns
  <1> QED
    BY <1>1, <1>2, <1>3 DEF IInv

LEMMA SnapshotType == ASSUME TypeOK PROVE Snapshot \in Jobs
  <1>1. ASSUME NEW startup \in BOOLEAN, NEW blocked \in BOOLEAN
        PROVE  [NoJob EXCEPT !.startup = startup, !.enabled = enabled, !.host = batteryHost,
                             !.window = window, !.backup = backup, !.blocked = blocked] \in Jobs
    BY NoJobType DEF TypeOK, Jobs
  <1>2. /\ (pc = "start") \in BOOLEAN
        /\ (window # None /\ doc.manualWindow = window /\ doc.manualHost = batteryHost) \in BOOLEAN
    OBVIOUS
  <1> QED
    BY <1>1, <1>2 DEF Snapshot

LEMMA ReconcileStep == IInv /\ Reconcile => IInv'
  <1> SUFFICES ASSUME IInv, Reconcile PROVE IInv'
    OBVIOUS
  <1>1. Snapshot \in Jobs
    BY SnapshotType DEF IInv
  <1>2. Rec(doc, owed) /\ doc \in Docs
    BY DEF IInv, TypeOK, OwedIsRecorded, Rec
  <1>3. /\ UNCHANGED <<device, environment, ghosts, budget>> /\ pc \in {"idle", "start"}
        /\ \/ doc.phase \in Owning /\ ~Owns(doc) /\ Finish(doc)
           \/ doc.phase = "manual-pending" /\ Await(doc, "pending-read", Snapshot)
           \/ doc.phase # "manual-pending" /\ Settle(doc, Snapshot)
    BY DEF Reconcile, Refused
  <1>4. owed' = owed /\ deliberate' = deliberate /\ deliberate' \subseteq Hosts
        /\ owed' \in [Hosts -> Percents \cup {None}]
    BY <1>3 DEF ghosts, IInv, TypeOK
  <1>5. CASE doc.phase \in Owning /\ ~Owns(doc) /\ Finish(doc)
    <2>1. doc' = doc /\ pc' = "idle" /\ job' = NoJob /\ doc'.phase # "manual-pending"
      BY <1>5 DEF Finish, Owning
    <2> QED
      BY <1>1, <1>2, <1>3, <1>4, <2>1, DecisionStep
  <1>6. CASE doc.phase = "manual-pending" /\ Await(doc, "pending-read", Snapshot)
    <2>1. doc' = doc /\ pc' = "pending-read" /\ job' = Snapshot
      BY <1>6 DEF Await
    <2>2. TypeOK'
      BY <1>1, <1>3, <1>4, <2>1 DEF IInv, TypeOK, ReconcileSteps, environment
    <2>3. OwedIsRecorded' /\ OwedZero'
      BY <1>3, <1>4, <2>1 DEF IInv, OwedIsRecorded, OwedZero
    <2>4. CrashInCommand /\ doc.host # None
      BY <1>3, <1>6 DEF IInv, PendingInv, CommandSteps
    <2>5. ReconcileInv' /\ CommandInv' /\ PendingInv'
      BY <1>6, <2>1, <2>4
      DEF ReconcileInv, CommandInv, PendingInv, RestoreSteps, HoldSteps, CommandSteps
    <2> QED
      BY <2>2, <2>3, <2>5 DEF IInv
  <1>7. CASE doc.phase # "manual-pending" /\ Settle(doc, Snapshot)
    BY <1>1, <1>2, <1>3, <1>4, <1>7, SettleKeeps, DecisionStep
  <1> QED
    BY <1>3, <1>5, <1>6, <1>7

LEMMA PendingReadStep == IInv /\ PendingRead => IInv'
  <1> SUFFICES ASSUME IInv, PendingRead PROVE IInv'
    OBVIOUS
  <1> DEFINE observed == device[doc.host]
             manual == observed = doc.request \/ observed # 0
             d == [doc EXCEPT !.phase = IF manual THEN "manual" ELSE "active"]
  <1>1. /\ Settle(d, job) /\ UNCHANGED <<device, environment, budget>>
        /\ owed' = IF manual THEN [owed EXCEPT ![doc.host] = None] ELSE owed
        /\ deliberate' = IF manual THEN deliberate \cup {doc.host} ELSE deliberate
        /\ doc.phase = "manual-pending"
    BY DEF PendingRead, IInv, ReconcileInv
  <1>2. doc \in Docs /\ job \in Jobs /\ doc.host \in Hosts
    BY <1>1 DEF IInv, TypeOK, PendingInv, Docs
  <1>3. /\ owed' \in [Hosts -> Percents \cup {None}] /\ deliberate' \subseteq Hosts
        /\ \A h \in Hosts : owed'[h] # None => owed'[h] = owed[h]
    BY <1>1, <1>2 DEF IInv, TypeOK
  <1>4. d \in Docs /\ d.host = doc.host /\ d.prev = doc.prev
        /\ d.phase = IF manual THEN "manual" ELSE "active"
    BY <1>2 DEF Docs, Phases
  <1>5. CASE manual
    \* The value is now the user's, and nothing is owed any more.
    <2>1. \A h \in Hosts : owed'[h] = None
      BY <1>1, <1>2, <1>5 DEF IInv, OwedIsRecorded, TypeOK
    <2>2. Rec(d, owed') /\ d.phase # "manual-pending"
      BY <1>4, <1>5, <2>1 DEF Rec
    <2> HIDE DEF d, manual
    <2> QED
      BY <1>1, <1>2, <1>3, <1>4, <2>2, SettleKeeps, DecisionStep
  <1>6. CASE ~manual
    <2>1. Rec(d, owed') /\ d.phase # "manual-pending"
      BY <1>1, <1>4, <1>6 DEF IInv, OwedIsRecorded, Rec, Owning
    <2> HIDE DEF d, manual
    <2> QED
      BY <1>1, <1>2, <1>3, <1>4, <2>1, SettleKeeps, DecisionStep
  <1> QED
    BY <1>5, <1>6

\* The reads, writes and confirmations of reconcile() that stay within a record
\* the service owns: what each establishes for the next.
LEMMA OwnedStep ==
  ASSUME IInv, RestoreRead \/ RestoreWrite \/ RestoreConfirm \/ HoldRead \/ ZeroCheck
               \/ ZeroWrite \/ ZeroConfirm
  PROVE  IInv'
  <1> USE DEF IInv
  <1>1. /\ Owns(doc) /\ doc' = doc /\ UNCHANGED <<environment, budget>>
        /\ doc.phase # "manual-pending" /\ doc.host \in Hosts /\ doc.prev \in Percents
        /\ job' \in {job, NoJob} /\ pc \notin CommandSteps
    BY DEF RestoreRead, RestoreWrite, RestoreConfirm, HoldRead, ZeroCheck, ZeroWrite, ZeroConfirm,
           Await, Finish, ReconcileInv, RestoreSteps, HoldSteps, CommandSteps, Owns, Owning, TypeOK, Docs
  <1>2. \/ UNCHANGED <<device, owed, deliberate>>
        \/ /\ pc = "restore-write" /\ pc' = "restore-confirm" /\ doc' = doc
           /\ device' = [device EXCEPT ![doc.host] = doc.prev]
           /\ owed' = [owed EXCEPT ![doc.host] = None] /\ deliberate' = deliberate
        \/ /\ pc = "zero-write" /\ pc' = "zero-confirm"
           /\ device' = [device EXCEPT ![doc.host] = 0]
           /\ owed' = [owed EXCEPT ![doc.host] = device[doc.host]]
           /\ deliberate' = deliberate \ {doc.host}
    BY DEF RestoreRead, RestoreWrite, RestoreConfirm, HoldRead, ZeroCheck, ZeroWrite, ZeroConfirm,
           Await, ghosts
  <1>3. /\ device' \in [Hosts -> Percents] /\ owed' \in [Hosts -> Percents \cup {None}]
        /\ deliberate' \subseteq Hosts
    BY <1>1, <1>2, PercentsAssumption DEF TypeOK
  <1>4. pc' \in {"idle"} \cup ReconcileSteps /\ pc' # "apply-read" /\ pc' # "pending-read"
    BY DEF RestoreRead, RestoreWrite, RestoreConfirm, HoldRead, ZeroCheck, ZeroWrite, ZeroConfirm,
           Await, Finish, ReconcileSteps
  <1>5. TypeOK'
    BY <1>1, <1>3, <1>4, NoJobType DEF TypeOK, environment
  <1>6. OwedIsRecorded' /\ OwedZero'
    <2>1. CASE UNCHANGED <<device, owed, deliberate>>
      BY <1>1, <2>1 DEF OwedIsRecorded, OwedZero
    <2>2. CASE pc = "restore-write" /\ device' = [device EXCEPT ![doc.host] = doc.prev]
               /\ owed' = [owed EXCEPT ![doc.host] = None]
      BY <1>1, <2>2 DEF OwedIsRecorded, OwedZero, TypeOK
    <2>3. CASE pc = "zero-write" /\ device' = [device EXCEPT ![doc.host] = 0]
               /\ owed' = [owed EXCEPT ![doc.host] = device[doc.host]]
      <3>1. device[doc.host] = doc.prev /\ doc.prev # 0
        BY <2>3 DEF ReconcileInv
      <3> QED
        BY <1>1, <2>3, <3>1 DEF OwedIsRecorded, OwedZero, TypeOK, Owns
    <2> QED
      BY <1>2, <2>1, <2>2, <2>3
  <1>7. ReconcileInv'
    <2>1. pc' \in RestoreSteps => doc.phase = "restoring"
      BY DEF RestoreRead, RestoreWrite, RestoreConfirm, HoldRead, ZeroCheck, ZeroWrite, ZeroConfirm,
             Await, Finish, RestoreSteps, HoldSteps, ReconcileInv
    <2>2. pc' \in {"restore-supersede", "hold-supersede"} => device'[doc.host] # 0
      BY DEF RestoreRead, RestoreWrite, RestoreConfirm, HoldRead, ZeroCheck, ZeroWrite, ZeroConfirm,
             Await, Finish
    <2>3. pc' \in {"zero-check", "zero-write"} => device'[doc.host] = doc.prev /\ doc.prev # 0
      BY DEF RestoreRead, RestoreWrite, RestoreConfirm, HoldRead, ZeroCheck, ZeroWrite, ZeroConfirm,
             Await, Finish, ReconcileInv
    <2>4. pc' \in {"restore-confirm", "restore-verified"} => owed'[doc.host] = None
      <3>1. CASE RestoreRead
        BY <1>1, <3>1 DEF RestoreRead, Await, OwedIsRecorded, OwedZero, ghosts
      <3>2. CASE RestoreWrite
        BY <1>1, <3>2 DEF RestoreWrite, TypeOK
      <3>3. CASE RestoreConfirm
        BY <3>3 DEF RestoreConfirm, ReconcileInv, ghosts
      <3> QED
        BY <3>1, <3>2, <3>3 DEF HoldRead, ZeroCheck, ZeroWrite, ZeroConfirm, Await, Finish
    <2> QED
      BY <1>1, <1>4, <2>1, <2>2, <2>3, <2>4 DEF ReconcileInv, Owns
  <1>8. CommandInv' /\ PendingInv'
    BY <1>1, <1>4 DEF CommandInv, PendingInv, CommandSteps, ReconcileSteps
  <1> QED
    BY <1>5, <1>6, <1>7, <1>8

\* The ends of a restoration: nothing is owed, so the record may be dropped.
LEMMA RestoredStep ==
  ASSUME IInv, RestoreSupersede \/ RestoreVerified
  PROVE  IInv'
  <1> USE DEF IInv
  <1>1. /\ Owns(doc) /\ doc.host \in Hosts /\ doc \in Docs /\ job \in Jobs
        /\ UNCHANGED <<device, environment, ghosts, budget>>
    BY DEF RestoreSupersede, RestoreVerified, ReconcileInv, RestoreSteps, Owns, TypeOK, Docs
  <1>2. \A h \in Hosts : owed[h] = None
    <2>1. owed[doc.host] = None
      BY <1>1 DEF RestoreSupersede, RestoreVerified, ReconcileInv, OwedZero
    <2> QED
      BY <1>1, <2>1 DEF OwedIsRecorded
  <1>3. /\ owed' = owed /\ deliberate' = deliberate /\ deliberate' \subseteq Hosts
        /\ owed' \in [Hosts -> Percents \cup {None}]
        /\ \A d : Rec(d, owed) /\ Rec(d, owed')
    BY <1>1, <1>2 DEF ghosts, TypeOK, Rec
  <1>4. ASSUME NEW d \in Docs, Hold(Restored(d, job), job) PROVE IInv'
    BY <1>1, <1>3, <1>4, RestoredKeeps, HoldKeeps, DecisionStep
  <1>5. CASE RestoreSupersede
    <2> DEFINE m == [doc EXCEPT !.phase = "manual"]
    <2>1. m \in Docs /\ m.phase = "manual"
      BY <1>1 DEF Docs, Phases
    <2>2. Finish(m) \/ Hold(Restored(m, job), job)
      BY <1>5 DEF RestoreSupersede
    <2> HIDE DEF m
    <2>3. CASE Finish(m)
      <3>1. doc' = m /\ pc' = "idle" /\ job' = NoJob
        BY <2>3 DEF Finish
      <3> QED
        BY <1>1, <1>3, <2>1, <3>1, DecisionStep
    <2> QED
      BY <1>4, <2>1, <2>2, <2>3
  <1>6. CASE RestoreVerified
    BY <1>1, <1>4, <1>6 DEF RestoreVerified
  <1> QED
    BY <1>5, <1>6

LEMMA HoldSupersedeStep == IInv /\ HoldSupersede => IInv'
  <1> SUFFICES ASSUME IInv, HoldSupersede PROVE IInv'
    OBVIOUS
  <1> USE DEF IInv
  <1> DEFINE m == [doc EXCEPT !.phase = "manual"]
  <1>1. /\ UNCHANGED <<device, environment, ghosts, budget>> /\ job \in Jobs
        /\ doc' = m /\ pc' = "idle" /\ job' = NoJob
    BY DEF HoldSupersede, Finish, TypeOK
  <1>2. m \in Docs /\ m.phase = "manual"
    BY DEF TypeOK, Docs, Phases
  <1>3. \A h \in Hosts : owed[h] = None
    BY DEF HoldSupersede, ReconcileInv, OwedZero, OwedIsRecorded
  <1>4. /\ owed' = owed /\ deliberate' \subseteq Hosts /\ owed' \in [Hosts -> Percents \cup {None}]
        /\ \A d : Rec(d, owed')
    BY <1>1, <1>3 DEF ghosts, TypeOK, Rec
  <1> HIDE DEF m
  <1> QED
    BY <1>1, <1>2, <1>4, DecisionStep

\* The value a battery has is recorded before anything is owed to it.
LEMMA ApplyReadStep == IInv /\ ApplyRead => IInv'
  <1> SUFFICES ASSUME IInv, ApplyRead PROVE IInv'
    OBVIOUS
  <1> USE DEF IInv
  <1> DEFINE d == [EmptyDoc EXCEPT !.phase = "applying", !.host = job.host,
                                   !.prev = device[job.host], !.window = job.window]
  <1>1. /\ doc' = d /\ job' = job /\ pc = "apply-read"
        /\ pc' = IF device[job.host] = 0 THEN "activate" ELSE "zero-check"
        /\ UNCHANGED <<device, environment, owed, budget>>
        /\ deliberate' = deliberate \ {job.host}
    BY DEF ApplyRead, Await
  <1>2. job.host \in Hosts /\ job \in Jobs /\ device[job.host] \in Percents
    BY <1>1 DEF ReconcileInv, TypeOK, Jobs
  <1>3. /\ d \in Docs /\ d.host = job.host /\ d.prev = device[job.host]
        /\ d.phase = "applying"
    BY <1>2 DEF EmptyDoc, Docs, Phases, Jobs
  <1> HIDE DEF d
  <1>4. Owns(d)
    BY <1>2, <1>3, NoneAssumption DEF Owns, Owning
  <1>5. \A h \in Hosts : owed[h] = None
    <2>1. ~Owns(doc) /\ doc.phase # "manual-pending"
      BY <1>1 DEF ReconcileInv
    <2> QED
      BY <2>1, NoneAssumption DEF OwedIsRecorded, Owns
  <1>6. TypeOK'
    BY <1>1, <1>2, <1>3 DEF TypeOK, ReconcileSteps, environment
  <1>7. OwedIsRecorded' /\ OwedZero'
    BY <1>1, <1>5 DEF OwedIsRecorded, OwedZero
  <1>8. ReconcileInv' /\ CommandInv' /\ PendingInv'
    BY <1>1, <1>3, <1>4
    DEF ReconcileInv, CommandInv, PendingInv, RestoreSteps, HoldSteps, CommandSteps, Owns
  <1> QED
    BY <1>6, <1>7, <1>8

LEMMA ActivateStep == IInv /\ Activate => IInv'
  <1> SUFFICES ASSUME IInv, Activate PROVE IInv'
    OBVIOUS
  <1> USE DEF IInv
  <1> DEFINE d == [doc EXCEPT !.phase = "active"]
  <1>1. /\ UNCHANGED <<device, environment, ghosts, budget>> /\ job \in Jobs
        /\ doc' = d /\ pc' = "idle" /\ job' = NoJob
    BY DEF Activate, Finish, TypeOK
  <1>2. d \in Docs /\ d.phase = "active" /\ d.host = doc.host /\ d.prev = doc.prev
    BY DEF TypeOK, Docs, Phases
  <1> HIDE DEF d
  <1>3. Rec(d, owed)
    BY <1>2 DEF OwedIsRecorded, Rec, Owning
  <1>4. /\ owed' = owed /\ deliberate' \subseteq Hosts /\ owed' \in [Hosts -> Percents \cup {None}]
    BY <1>1 DEF ghosts, TypeOK
  <1> QED
    BY <1>1, <1>2, <1>3, <1>4, DecisionStep

\* Spending from the budget leaves a budget.
LEMMA SpendType ==
  ASSUME TypeOK, NEW kind \in Disturbances, Spend(kind)
  PROVE  budget' \in [Disturbances -> Nat]
  BY DEF TypeOK, Spend

\* A failed or interrupted reconcile() leaves the record as it is.
LEMMA AbandonStep ==
  ASSUME IInv, Fail \/ (Crash /\ pc \notin CommandSteps)
  PROVE  IInv'
  <1> USE DEF IInv
  <1>1. /\ doc' = doc /\ pc' \in {"idle", "start"} /\ job' = NoJob
        /\ device' = device /\ owed' = owed /\ deliberate' = deliberate
        /\ UNCHANGED environment
        /\ budget' \in [Disturbances -> Nat]
    BY SpendType DEF Fail, Crash, Finish, ghosts, Disturbances
  <1>2. pc \notin CommandSteps
    BY DEF Fail, ReconcileSteps, CommandSteps
  <1>3. TypeOK'
    BY <1>1, NoJobType DEF TypeOK, environment
  <1>4. OwedIsRecorded' /\ OwedZero'
    BY <1>1 DEF OwedIsRecorded, OwedZero
  <1>5. ReconcileInv' /\ CommandInv' /\ PendingInv'
    BY <1>1, <1>2 DEF ReconcileInv, CommandInv, PendingInv, RestoreSteps, HoldSteps, CommandSteps
  <1> QED
    BY <1>3, <1>4, <1>5

-----------------------------------------------------------------------------
LEMMA CommandStep ==
  ASSUME OneOwner, IInv, NEW h \in Hosts, NEW p \in Percents, Command(h, p)
  PROVE  IInv'
  <1> USE DEF IInv
  <1> DEFINE affected == \/ Owns(doc) /\ doc.host = h
                         \/ enabled /\ window # None /\ batteryHost = h
             different == affected /\ Owns(doc) /\ doc.host # h
             marked == IF different THEN [doc EXCEPT !.manualWindow = window, !.manualHost = h]
                       ELSE [doc EXCEPT !.phase = "manual-pending", !.host = h, !.request = p,
                                        !.window = IF window # None THEN window ELSE @]
             j == [NoJob EXCEPT !.host = h, !.percent = p, !.affected = affected,
                                !.different = different, !.before = doc]
  <1>1. /\ doc' = IF affected THEN marked ELSE doc
        /\ pc = "idle" /\ pc' = "command-check" /\ job' = j
        /\ device' = device /\ owed' = owed /\ deliberate' = deliberate
        /\ UNCHANGED environment
        /\ budget' \in [Disturbances -> Nat]
    BY SpendType DEF Command, Await, ghosts, Disturbances
  <1>2. affected \in BOOLEAN /\ different \in BOOLEAN /\ doc \in Docs /\ window \in Windows \cup {None}
    BY DEF TypeOK
  <1>3. /\ marked \in Docs
        /\ different => marked.phase = doc.phase /\ marked.host = doc.host /\ marked.prev = doc.prev
        /\ ~different => marked.phase = "manual-pending" /\ marked.host = h /\ marked.prev = doc.prev
    <2> HIDE DEF affected, different
    <2> QED
      BY <1>2 DEF Docs, Phases
  <1>4. /\ j \in Jobs /\ j.host = h /\ j.percent = p /\ j.before = doc
        /\ j.affected = affected /\ j.different = different
    <2> HIDE DEF affected, different
    <2> QED
      BY <1>2, NoJobType DEF Jobs, NoJob
  <1>5. different => Owns(doc)
    OBVIOUS
  <1>6. Owns(doc) /\ affected /\ ~different => doc.host = h
    OBVIOUS
  <1>7. doc.phase = "manual-pending" => CrashInCommand /\ doc.host # None
    BY <1>1 DEF PendingInv, CommandSteps
  <1> HIDE DEF affected, different, marked, j
  <1>8. TypeOK'
    BY <1>1, <1>3, <1>4 DEF TypeOK, environment, CommandSteps
  <1>9. OwedIsRecorded' /\ OwedZero'
    <2>1. OwedZero'
      BY <1>1 DEF OwedZero
    <2>2. ASSUME NEW g \in Hosts, owed[g] # None
          PROVE  /\ doc'.host = g /\ doc'.prev = owed[g]
                 /\ doc'.phase \in Owning \cup {"manual-pending"}
      <3>1. doc.host = g /\ doc.prev = owed[g] /\ doc.phase \in Owning \cup {"manual-pending"}
        BY <2>2 DEF OwedIsRecorded
      <3>2. CASE ~affected \/ different
        BY <1>1, <1>3, <3>1, <3>2
      <3>3. CASE affected /\ ~different
        \* The only case that needs OneOwner: a pending record of another battery
        \* would be overwritten here.
        <4>1. h = g
          BY <1>6, <1>7, <2>2, <3>1, <3>3, NoneAssumption DEF OneOwner, Owns
        <4> QED
          BY <1>1, <1>3, <3>1, <3>3, <4>1
      <3> QED
        BY <3>2, <3>3
    <2> QED
      BY <1>1, <2>1, <2>2 DEF OwedIsRecorded
  <1>10. ReconcileInv'
    BY <1>1 DEF ReconcileInv, RestoreSteps, HoldSteps
  <1>11. CommandInv' /\ PendingInv'
    <2>1. Rec(doc, owed)
      BY DEF OwedIsRecorded, Rec
    <2>2. h # None
      BY NoneAssumption
    <2>3. Rec(job'.before, owed')
      BY <1>1, <1>4, <2>1
    <2> QED
      BY <1>1, <1>3, <1>4, <1>5, <1>7, <2>2, <2>3 DEF CommandInv, PendingInv, CommandSteps
  <1> QED
    BY <1>8, <1>9, <1>10, <1>11

\* The end of a command, by whatever outcome or by a stop: the record d is saved.
LEMMA CommandEnds ==
  ASSUME IInv, NEW d \in Docs, Rec(d, owed),
         d.phase = "manual-pending" => CrashInCommand /\ d.host # None,
         doc' = d, pc' \in {"idle", "start"}, job' = NoJob, device' = device, owed' = owed,
         deliberate' \subseteq Hosts, UNCHANGED environment, budget' \in [Disturbances -> Nat]
  PROVE  IInv'
  <1>1. TypeOK'
    BY NoJobType DEF IInv, TypeOK, environment
  <1>2. OwedIsRecorded' /\ OwedZero'
    BY DEF IInv, OwedIsRecorded, OwedZero, Rec
  <1>3. ReconcileInv' /\ CommandInv' /\ PendingInv'
    BY DEF ReconcileInv, CommandInv, PendingInv, RestoreSteps, HoldSteps, CommandSteps
  <1> QED
    BY <1>1, <1>2, <1>3 DEF IInv

\* A command that fails gives the record back.
LEMMA UndoStep ==
  ASSUME IInv, pc \in CommandSteps, Undo, device' = device, owed' = owed, deliberate' = deliberate,
         UNCHANGED environment, budget' \in [Disturbances -> Nat]
  PROVE  IInv'
  <1> DEFINE d == IF job.affected THEN job.before ELSE doc
  <1>1. doc' = d /\ pc' = "idle" /\ job' = NoJob
    BY DEF Undo, Finish
  <1>2. d \in Docs
    BY DEF IInv, TypeOK, Jobs
  <1>3. Rec(d, owed)
    BY DEF IInv, CommandInv, OwedIsRecorded, Rec
  <1>4. d.phase = "manual-pending" => CrashInCommand /\ d.host # None
    BY DEF IInv, CommandInv, PendingInv
  <1>5. deliberate' \subseteq Hosts
    BY DEF IInv, TypeOK
  <1> HIDE DEF d
  <1> QED
    BY <1>1, <1>2, <1>3, <1>4, <1>5, CommandEnds

LEMMA CommandWriteStep ==
  ASSUME IInv, CommandWrite
  PROVE  IInv'
  <1> USE DEF IInv
  <1>1. /\ doc' = doc /\ job' = job /\ pc = "command-write" /\ pc' = "command-verify"
        /\ device' = [device EXCEPT ![job.host] = job.percent]
        /\ owed' = [owed EXCEPT ![job.host] = None]
        /\ UNCHANGED <<environment, budget>>
        /\ job.host \in Hosts /\ job.percent \in Percents
        /\ deliberate' \subseteq Hosts
    BY DEF CommandWrite, Await, CommandInv, CommandSteps, TypeOK
  <1>2. TypeOK'
    BY <1>1 DEF TypeOK, environment, CommandSteps
  <1>3. OwedIsRecorded' /\ OwedZero'
    BY <1>1 DEF OwedIsRecorded, OwedZero, TypeOK
  <1>4. ReconcileInv' /\ PendingInv'
    BY <1>1 DEF ReconcileInv, PendingInv, RestoreSteps, HoldSteps, CommandSteps
  <1>5. CommandInv'
    <2>1. job.affected => Rec(job.before, owed')
      BY <1>1 DEF CommandInv, CommandSteps, Rec, TypeOK
    <2>2. owed'[job.host] = None
      BY <1>1 DEF TypeOK
    <2> QED
      BY <1>1, <2>1, <2>2 DEF CommandInv, CommandSteps
  <1> QED
    BY <1>2, <1>3, <1>4, <1>5

LEMMA CommandVerifyStep ==
  ASSUME IInv, CommandVerify
  PROVE  IInv'
  <1> USE DEF IInv
  <1> DEFINE ph == IF job.different THEN job.before.phase ELSE "manual"
             d == IF ~job.affected THEN doc ELSE [doc EXCEPT !.phase = ph]
  <1>1. /\ doc' = d /\ pc = "command-verify" /\ pc' = "idle" /\ job' = NoJob
        /\ device' = device /\ owed' = owed /\ UNCHANGED <<environment, budget>>
        /\ job.host \in Hosts /\ deliberate' \subseteq Hosts
    BY DEF CommandVerify, Finish, CommandInv, CommandSteps, TypeOK
  <1>2. ph \in Phases /\ doc \in Docs
    BY DEF TypeOK, Jobs, Docs, Phases
  <1>3. [doc EXCEPT !.phase = ph] \in Docs /\ [doc EXCEPT !.phase = ph].phase = ph
        /\ [doc EXCEPT !.phase = ph].host = doc.host /\ [doc EXCEPT !.phase = ph].prev = doc.prev
    <2> HIDE DEF ph
    <2> QED
      BY <1>2 DEF Docs
  <1>4. CASE ~job.affected
    BY <1>1, <1>2, <1>4, CommandEnds DEF TypeOK, OwedIsRecorded, Rec, PendingInv
  <1>5. CASE job.affected /\ job.different
    <2>1. ph = doc.phase /\ Owns(job.before) /\ ph = job.before.phase
      BY <1>1, <1>5 DEF CommandInv, CommandSteps
    <2>2. d \in Docs /\ Rec(d, owed) /\ d.phase # "manual-pending"
      BY <1>3, <1>5, <2>1 DEF OwedIsRecorded, Rec, Owns, Owning
    <2> HIDE DEF d
    <2> QED
      BY <1>1, <2>2, CommandEnds DEF TypeOK
  <1>6. CASE job.affected /\ ~job.different
    <2>1. \A h \in Hosts : owed[h] = None
      BY <1>1, <1>6 DEF CommandInv, CommandSteps, OwedIsRecorded
    <2>2. d \in Docs /\ Rec(d, owed) /\ d.phase # "manual-pending"
      BY <1>3, <1>6, <2>1 DEF Rec
    <2> HIDE DEF d
    <2> QED
      BY <1>1, <2>2, CommandEnds DEF TypeOK
  <1> QED
    BY <1>4, <1>5, <1>6

LEMMA CommandCheckStep ==
  ASSUME IInv, CommandCheck
  PROVE  IInv'
  <1> USE DEF IInv
  <1>1. /\ pc = "command-check" /\ device' = device /\ owed' = owed /\ deliberate' = deliberate
        /\ UNCHANGED <<environment, budget>> /\ budget' \in [Disturbances -> Nat]
    BY DEF CommandCheck, ghosts, TypeOK
  <1>2. CASE Undo
    BY <1>1, <1>2, UndoStep DEF CommandSteps
  <1>3. CASE Await(doc, "command-write", job)
    <2>1. doc' = doc /\ job' = job /\ pc' = "command-write"
      BY <1>3 DEF Await
    <2>2. TypeOK'
      BY <1>1, <2>1 DEF TypeOK, environment, CommandSteps
    <2>3. OwedIsRecorded' /\ OwedZero'
      BY <1>1, <2>1 DEF OwedIsRecorded, OwedZero
    <2>4. ReconcileInv' /\ CommandInv' /\ PendingInv'
      BY <1>1, <2>1
      DEF ReconcileInv, CommandInv, PendingInv, RestoreSteps, HoldSteps, CommandSteps, Rec
    <2> QED
      BY <2>2, <2>3, <2>4
  <1> QED
    BY <1>2, <1>3 DEF CommandCheck

LEMMA CommandFailStep ==
  ASSUME IInv, CommandFail
  PROVE  IInv'
  <1>1. budget' \in [Disturbances -> Nat]
    BY SpendType DEF CommandFail, IInv, Disturbances
  <1> QED
    BY <1>1, UndoStep DEF CommandFail, ghosts

\* Stopping inside a command keeps the record, with its value, as pending.
LEMMA CommandCrashStep ==
  ASSUME IInv, Crash, pc \in CommandSteps
  PROVE  IInv'
  <1> USE DEF IInv
  <1>1. /\ doc' = doc /\ pc' = "start" /\ job' = NoJob /\ device' = device /\ owed' = owed
        /\ UNCHANGED environment /\ CrashInCommand
        /\ budget' \in [Disturbances -> Nat] /\ deliberate' \subseteq Hosts
    BY SpendType DEF Crash, ghosts, Disturbances, TypeOK
  <1>2. doc \in Docs /\ Rec(doc, owed)
    BY DEF TypeOK, OwedIsRecorded, Rec
  <1>3. doc.phase = "manual-pending" => CrashInCommand /\ doc.host # None
    BY <1>1 DEF PendingInv
  <1> QED
    BY <1>1, <1>2, <1>3, CommandEnds

-----------------------------------------------------------------------------
LEMMA ChangeStep ==
  ASSUME IInv, Change
  PROVE  IInv'
  <1> USE DEF IInv
  <1>1. /\ doc' = doc /\ device' = device /\ pc' = pc /\ job' = job
        /\ owed' = owed /\ deliberate' = deliberate
        /\ budget' \in [Disturbances -> Nat]
    BY SpendType DEF Change, ghosts, Disturbances
  <1>2. /\ enabled' \in BOOLEAN /\ batteryHost' \in Hosts \cup {None}
        /\ window' \in Windows \cup {None} /\ backup' \in BOOLEAN
    BY DEF Change, TypeOK
  <1>3. TypeOK'
    BY <1>1, <1>2 DEF TypeOK
  <1>4. OwedIsRecorded' /\ OwedZero'
    BY <1>1 DEF OwedIsRecorded, OwedZero
  <1>5. ReconcileInv' /\ CommandInv' /\ PendingInv'
    BY <1>1 DEF ReconcileInv, CommandInv, PendingInv, Rec, Owns
  <1> QED
    BY <1>3, <1>4, <1>5

LEMMA ExternalStep ==
  ASSUME IInv, NEW h \in Hosts, NEW p \in Percents, External(h, p)
  PROVE  IInv'
  <1> USE DEF IInv
  <1>1. /\ doc' = doc /\ pc' = pc /\ job' = job /\ UNCHANGED environment
        /\ device' = [device EXCEPT ![h] = p] /\ owed' = [owed EXCEPT ![h] = None]
        /\ deliberate' = deliberate \cup {h} /\ p # 0
        /\ pc \notin {"zero-check", "zero-write", "restore-write"}
        /\ budget' \in [Disturbances -> Nat]
    BY SpendType DEF External, Disturbances
  <1>2. TypeOK'
    BY <1>1 DEF TypeOK, environment
  <1>3. OwedIsRecorded' /\ OwedZero'
    BY <1>1 DEF OwedIsRecorded, OwedZero, TypeOK
  <1>4. ReconcileInv'
    <2>1. \A g \in Hosts : /\ device[g] # 0 => device'[g] # 0
                           /\ owed[g] = None => owed'[g] = None
      BY <1>1 DEF TypeOK
    <2>2. Owns(doc) => doc.host \in Hosts
      BY DEF Owns, TypeOK, Docs
    <2> QED
      BY <1>1, <2>1, <2>2 DEF ReconcileInv, Owns, RestoreSteps, HoldSteps
  <1>5. CommandInv' /\ PendingInv'
    <2>1. \A d : Rec(d, owed) => Rec(d, owed')
      BY <1>1 DEF Rec, TypeOK
    <2>2. job.host \in Hosts => (owed[job.host] = None => owed'[job.host] = None)
      BY <1>1 DEF TypeOK
    <2> QED
      BY <1>1, <2>1, <2>2 DEF CommandInv, PendingInv
  <1> QED
    BY <1>2, <1>3, <1>4, <1>5

LEMMA StepIInv ==
  ASSUME OneOwner
  PROVE  IInv /\ [Next]_vars => IInv'
  <1> SUFFICES ASSUME IInv, [Next]_vars PROVE IInv'
    OBVIOUS
  <1>1. CASE ReconcileNext
    BY <1>1, ReconcileStep, PendingReadStep, OwnedStep, RestoredStep, HoldSupersedeStep,
       ApplyReadStep, ActivateStep DEF ReconcileNext
  <1>2. CASE CommandNext
    BY <1>2, CommandCheckStep, CommandWriteStep, CommandVerifyStep DEF CommandNext
  <1>3. ASSUME NEW h \in Hosts, NEW p \in Percents, Command(h, p) \/ External(h, p) PROVE IInv'
    BY <1>3, CommandStep, ExternalStep
  <1>4. CASE Fail \/ CommandFail \/ Crash
    BY <1>4, AbandonStep, CommandFailStep, CommandCrashStep
  <1>5. CASE Change
    BY <1>5, ChangeStep
  <1>6. CASE UNCHANGED vars
    <2>1. TypeOK'
      BY <1>6 DEF IInv, TypeOK, vars
    <2>2. OwedIsRecorded' /\ OwedZero' /\ ReconcileInv' /\ CommandInv' /\ PendingInv'
      BY <1>6 DEF IInv, vars, OwedIsRecorded, OwedZero, ReconcileInv, CommandInv, PendingInv, Rec, Owns
    <2> QED
      BY <2>1, <2>2 DEF IInv
  <1> QED
    BY <1>1, <1>2, <1>3, <1>4, <1>5, <1>6 DEF Next

-----------------------------------------------------------------------------
(* The types, without a condition on where the process stops.                  *)

\* What the types rest on: which battery an await is about.
Shaped ==
  /\ pc \in RestoreSteps \cup HoldSteps => Owns(doc)
  /\ pc = "apply-read" => job.host # None
  /\ pc = "pending-read" => doc.phase = "manual-pending"
  /\ doc.phase = "manual-pending" => doc.host # None
  /\ pc \in CommandSteps =>
       /\ job.host \in Hosts /\ job.percent \in Percents
       /\ job.affected => /\ job.before.phase = "manual-pending" => job.before.host # None
                          /\ job.different => job.before.phase # "manual-pending"

TInv == TypeOK /\ Shaped

NoDebt == [h \in Hosts |-> None]

LEMMA NoDebtRec == \A d : Rec(d, NoDebt)
  BY DEF Rec, NoDebt

\* A step of reconcile() that decides, or that ends the job.
LEMMA DecisionType ==
  ASSUME TypeOK, NEW j \in Jobs, UNCHANGED <<device, environment, budget>>,
         deliberate' \subseteq Hosts, owed' \in [Hosts -> Percents \cup {None}],
         doc' \in Docs, doc'.phase # "manual-pending",
         \/ pc' = "idle" /\ job' = NoJob
         \/ pc' = "restore-read" /\ job' = j /\ Owns(doc') /\ doc'.phase = "restoring"
         \/ pc' = "hold-read" /\ job' = j /\ Owns(doc')
         \/ pc' = "apply-read" /\ job' = j /\ ~Owns(doc') /\ j.host # None
  PROVE  TInv'
  <1>1. TypeOK'
    BY NoJobType DEF TypeOK, ReconcileSteps, environment
  <1>2. Shaped'
    BY DEF Shaped, RestoreSteps, HoldSteps, CommandSteps
  <1> QED
    BY <1>1, <1>2 DEF TInv

LEMMA ReconcileType == ASSUME TInv, Reconcile \/ PendingRead PROVE TInv'
  <1>1. TypeOK /\ Shaped /\ doc \in Docs /\ job \in Jobs /\ Snapshot \in Jobs
    BY SnapshotType DEF TInv, TypeOK
  <1>2. CASE Reconcile
    <2>1. /\ UNCHANGED <<device, environment, ghosts, budget>>
          /\ deliberate' \subseteq Hosts /\ owed' \in [Hosts -> Percents \cup {None}]
      BY <1>1, <1>2 DEF Reconcile, ghosts, TypeOK
    <2>2. CASE Refused /\ Finish(doc)
      <3>1. doc' = doc /\ pc' = "idle" /\ job' = NoJob /\ doc'.phase # "manual-pending"
        BY <2>2 DEF Refused, Finish, Owning
      <3> QED
        BY <1>1, <2>1, <3>1, DecisionType
    <2>3. CASE doc.phase = "manual-pending" /\ Await(doc, "pending-read", Snapshot)
      <3>1. doc' = doc /\ pc' = "pending-read" /\ job' = Snapshot
        BY <2>3 DEF Await
      <3>2. TypeOK'
        BY <1>1, <2>1, <3>1 DEF TypeOK, ReconcileSteps, environment
      <3>3. Shaped'
        BY <1>1, <2>3, <3>1 DEF Shaped, RestoreSteps, HoldSteps, CommandSteps
      <3> QED
        BY <3>2, <3>3 DEF TInv
    <2>4. CASE doc.phase # "manual-pending" /\ Settle(doc, Snapshot)
      BY <1>1, <2>1, <2>4, NoDebtRec, SettleKeeps, DecisionType
    <2> QED
      BY <1>2, <2>2, <2>3, <2>4 DEF Reconcile
  <1>3. CASE PendingRead
    <2> DEFINE manual == device[doc.host] = doc.request \/ device[doc.host] # 0
               d == [doc EXCEPT !.phase = IF manual THEN "manual" ELSE "active"]
    <2>1. /\ Settle(d, job) /\ UNCHANGED <<device, environment, budget>>
          /\ owed' = IF manual THEN [owed EXCEPT ![doc.host] = None] ELSE owed
          /\ deliberate' = IF manual THEN deliberate \cup {doc.host} ELSE deliberate
          /\ doc.phase = "manual-pending"
      BY <1>1, <1>3 DEF PendingRead, Shaped
    <2>2. doc.host \in Hosts
      BY <1>1, <2>1 DEF Shaped, Docs
    <2>3. owed' \in [Hosts -> Percents \cup {None}] /\ deliberate' \subseteq Hosts
      BY <1>1, <2>1, <2>2 DEF TypeOK
    <2>4. d \in Docs /\ d.phase # "manual-pending"
      <3> DEFINE ph == IF manual THEN "manual" ELSE "active"
      <3>1. ph \in Phases /\ ph # "manual-pending"
        BY DEF Phases
      <3> HIDE DEF ph
      <3> QED
        BY <1>1, <3>1 DEF d, ph, Docs
    <2> HIDE DEF d, manual
    <2> QED
      BY <1>1, <2>1, <2>3, <2>4, NoDebtRec, SettleKeeps, DecisionType
  <1> QED
    BY <1>2, <1>3

\* The reads, writes and confirmations under a record the service owns.
LEMMA OwnedType ==
  ASSUME TInv, RestoreRead \/ RestoreWrite \/ RestoreConfirm \/ HoldRead \/ ZeroCheck
               \/ ZeroWrite \/ ZeroConfirm
  PROVE  TInv'
  <1>1. TypeOK /\ Shaped
    BY DEF TInv
  <1>2. /\ Owns(doc) /\ doc' = doc /\ UNCHANGED <<environment, budget>>
        /\ doc.phase # "manual-pending" /\ doc.host \in Hosts /\ doc.prev \in Percents
        /\ job' \in {job, NoJob} /\ pc' \in {"idle"} \cup ReconcileSteps
        /\ pc' # "apply-read" /\ pc' # "pending-read"
    BY <1>1 DEF RestoreRead, RestoreWrite, RestoreConfirm, HoldRead, ZeroCheck, ZeroWrite, ZeroConfirm,
           Await, Finish, Shaped, RestoreSteps, HoldSteps, ReconcileSteps, Owns, Owning, TypeOK, Docs
  <1>3. \/ UNCHANGED <<device, owed, deliberate>>
        \/ /\ device' = [device EXCEPT ![doc.host] = doc.prev]
           /\ owed' = [owed EXCEPT ![doc.host] = None] /\ deliberate' = deliberate
        \/ /\ device' = [device EXCEPT ![doc.host] = 0]
           /\ owed' = [owed EXCEPT ![doc.host] = device[doc.host]]
           /\ deliberate' = deliberate \ {doc.host}
    BY DEF RestoreRead, RestoreWrite, RestoreConfirm, HoldRead, ZeroCheck, ZeroWrite, ZeroConfirm,
           ghosts
  <1>4. /\ device' \in [Hosts -> Percents] /\ owed' \in [Hosts -> Percents \cup {None}]
        /\ deliberate' \subseteq Hosts
    BY <1>1, <1>2, <1>3, PercentsAssumption DEF TypeOK
  <1>5. TypeOK'
    BY <1>1, <1>2, <1>4, NoJobType DEF TypeOK, environment
  <1>6. Shaped'
    BY <1>2 DEF Shaped, CommandSteps, ReconcileSteps, Owns
  <1> QED
    BY <1>5, <1>6 DEF TInv

\* The ends of a restoration and of the application, and a job that is cut short.
LEMMA EndsType ==
  ASSUME TInv, RestoreSupersede \/ RestoreVerified \/ HoldSupersede \/ Activate \/ Fail \/ Crash
  PROVE  TInv'
  <1>1. TypeOK /\ Shaped /\ doc \in Docs /\ job \in Jobs
    BY DEF TInv, TypeOK
  <1>2. CASE Fail \/ Crash
    <2>1. /\ doc' = doc /\ pc' \in {"idle", "start"} /\ job' = NoJob
          /\ UNCHANGED <<device, environment, ghosts>> /\ budget' \in [Disturbances -> Nat]
      BY <1>1, <1>2, SpendType DEF Fail, Crash, Finish, Disturbances
    <2>2. TypeOK'
      BY <1>1, <2>1, NoJobType DEF TypeOK, environment, ghosts
    <2>3. Shaped'
      BY <1>1, <2>1 DEF Shaped, RestoreSteps, HoldSteps, CommandSteps
    <2> QED
      BY <2>2, <2>3 DEF TInv
  <1>3. CASE RestoreSupersede \/ RestoreVerified \/ HoldSupersede \/ Activate
    <2> DEFINE m == [doc EXCEPT !.phase = "manual"]
               a == [doc EXCEPT !.phase = "active"]
    <2>1. /\ UNCHANGED <<device, environment, budget>>
          /\ deliberate' \subseteq Hosts /\ owed' \in [Hosts -> Percents \cup {None}]
      BY <1>1, <1>3 DEF RestoreSupersede, RestoreVerified, HoldSupersede, Activate, ghosts, TypeOK
    <2>2. /\ m \in Docs /\ m.phase = "manual"
          /\ a \in Docs /\ a.phase = "active"
      BY <1>1 DEF Docs, Phases
    <2>3. Finish(m) \/ Finish(a) \/ \E d \in {m, doc} : Hold(Restored(d, job), job)
      BY <1>3 DEF RestoreSupersede, RestoreVerified, HoldSupersede, Activate
    <2> HIDE DEF m, a
    <2>4. CASE Finish(m) \/ Finish(a)
      <3>1. doc' \in {m, a} /\ pc' = "idle" /\ job' = NoJob
        BY <2>4 DEF Finish
      <3> QED
        BY <1>1, <2>1, <2>2, <3>1, DecisionType
    <2>5. ASSUME NEW d \in {m, doc}, Hold(Restored(d, job), job) PROVE TInv'
      BY <1>1, <2>1, <2>2, <2>5, NoDebtRec, RestoredKeeps, HoldKeeps, DecisionType
    <2> QED
      BY <2>3, <2>4, <2>5
  <1> QED
    BY <1>2, <1>3

LEMMA ApplyType == ASSUME TInv, ApplyRead PROVE TInv'
  <1> DEFINE d == [EmptyDoc EXCEPT !.phase = "applying", !.host = job.host,
                                   !.prev = device[job.host], !.window = job.window]
  <1>1. TypeOK /\ Shaped
    BY DEF TInv
  <1>2. /\ doc' = d /\ job' = job /\ pc = "apply-read" /\ pc' \in {"activate", "zero-check"}
        /\ UNCHANGED <<device, environment, owed, budget>>
        /\ deliberate' = deliberate \ {job.host}
    BY DEF ApplyRead, Await
  <1>3. job.host \in Hosts /\ job \in Jobs /\ device[job.host] \in Percents
    BY <1>1, <1>2 DEF Shaped, TypeOK, Jobs
  <1>4. /\ d \in Docs /\ d.host = job.host /\ d.prev = device[job.host]
        /\ d.phase = "applying"
    BY <1>3 DEF EmptyDoc, Docs, Phases, Jobs
  <1> HIDE DEF d
  <1>5. Owns(d)
    BY <1>3, <1>4, NoneAssumption DEF Owns, Owning
  <1>6. TypeOK'
    BY <1>1, <1>2, <1>3, <1>4 DEF TypeOK, ReconcileSteps, environment
  <1>7. Shaped'
    BY <1>2, <1>4, <1>5 DEF Shaped, RestoreSteps, HoldSteps, CommandSteps
  <1> QED
    BY <1>6, <1>7 DEF TInv

LEMMA CommandType == ASSUME TInv, NEW h \in Hosts, NEW p \in Percents, Command(h, p) PROVE TInv'
  <1> DEFINE affected == \/ Owns(doc) /\ doc.host = h
                         \/ enabled /\ window # None /\ batteryHost = h
             different == affected /\ Owns(doc) /\ doc.host # h
             a == [doc EXCEPT !.manualWindow = window, !.manualHost = h]
             b == [doc EXCEPT !.phase = "manual-pending", !.host = h, !.request = p,
                              !.window = IF window # None THEN window ELSE @]
             j == [NoJob EXCEPT !.host = h, !.percent = p, !.affected = affected,
                                !.different = different, !.before = doc]
  <1>1. TypeOK /\ Shaped /\ doc \in Docs /\ window \in Windows \cup {None} /\ h # None
    BY NoneAssumption DEF TInv, TypeOK
  <1>2. /\ doc' = IF affected THEN IF different THEN a ELSE b ELSE doc
        /\ pc' = "command-check" /\ job' = j
        /\ UNCHANGED <<device, environment, ghosts>> /\ budget' \in [Disturbances -> Nat]
    BY <1>1, SpendType DEF Command, Await, Disturbances
  <1>3. affected \in BOOLEAN /\ different \in BOOLEAN /\ (different => Owns(doc))
    OBVIOUS
  <1>4. /\ a \in Docs /\ a.phase = doc.phase /\ a.host = doc.host
        /\ b \in Docs /\ b.host = h
    BY <1>1 DEF Docs, Phases
  <1>5. /\ j \in Jobs /\ j.host = h /\ j.percent = p /\ j.before = doc
        /\ j.affected = affected /\ j.different = different
    <2> HIDE DEF affected, different
    <2> QED
      BY <1>1, <1>3, NoJobType DEF Jobs, NoJob
  <1> HIDE DEF affected, different, a, b, j
  <1>6. TypeOK'
    BY <1>1, <1>2, <1>4, <1>5 DEF TypeOK, environment, ghosts, CommandSteps
  <1>7. Shaped'
    BY <1>1, <1>2, <1>3, <1>4, <1>5
       DEF Shaped, RestoreSteps, HoldSteps, CommandSteps, Owns, Owning
  <1> QED
    BY <1>6, <1>7 DEF TInv

LEMMA CommandStepsType == ASSUME TInv, CommandNext \/ CommandFail PROVE TInv'
  <1>1. /\ TypeOK /\ Shaped /\ pc \in CommandSteps /\ doc \in Docs /\ job \in Jobs
        /\ job.before \in Docs /\ job.host \in Hosts /\ job.percent \in Percents
    BY DEF TInv, TypeOK, Shaped, Jobs, CommandNext, CommandCheck, CommandWrite, CommandVerify,
           CommandFail, CommandSteps
  <1>2. /\ environment' = environment /\ budget' \in [Disturbances -> Nat]
        /\ device' \in [Hosts -> Percents] /\ owed' \in [Hosts -> Percents \cup {None}]
        /\ deliberate' \subseteq Hosts
    BY <1>1, SpendType DEF CommandNext, CommandCheck, CommandWrite, CommandVerify, CommandFail,
                           TypeOK, ghosts, Disturbances
  <1> DEFINE ph == IF job.different THEN job.before.phase ELSE "manual"
             v == [doc EXCEPT !.phase = ph]
  <1>3. v \in Docs /\ v.phase = ph /\ v.host = doc.host
    <2>1. ph \in Phases
      BY <1>1 DEF Docs, Phases
    <2> HIDE DEF ph
    <2> QED
      BY <1>1, <2>1 DEF v, Docs
  <1>4. \/ /\ doc' \in {doc, job.before, v} /\ pc' = "idle" /\ job' = NoJob
           /\ doc' # doc => job.affected
        \/ doc' = doc /\ pc' \in CommandSteps /\ job' = job
    BY <1>1 DEF CommandNext, CommandCheck, CommandWrite, CommandVerify, CommandFail, Undo, Finish,
                Await, CommandSteps
  <1>5. TypeOK'
    BY <1>1, <1>2, <1>3, <1>4, NoJobType DEF TypeOK, environment
  <1>6. Shaped'
    <2>1. job.affected => ph # "manual-pending"
      BY <1>1 DEF Shaped
    <2>2. doc'.phase = "manual-pending" => doc'.host # None
      BY <1>1, <1>3, <1>4, <2>1 DEF Shaped
    <2> QED
      BY <1>1, <1>4, <2>2 DEF Shaped, RestoreSteps, HoldSteps, CommandSteps
  <1> QED
    BY <1>5, <1>6 DEF TInv

LEMMA EnvironmentType ==
  ASSUME TInv, Change \/ \E h \in Hosts, p \in Percents : External(h, p)
  PROVE  TInv'
  <1>1. /\ TypeOK /\ Shaped /\ doc' = doc /\ pc' = pc /\ job' = job
        /\ budget' \in [Disturbances -> Nat]
    BY SpendType DEF TInv, Change, External, Disturbances
  <1>2. /\ enabled' \in BOOLEAN /\ batteryHost' \in Hosts \cup {None}
        /\ window' \in Windows \cup {None} /\ backup' \in BOOLEAN
    BY DEF Change, External, environment, TInv, TypeOK
  <1>3. /\ device' \in [Hosts -> Percents] /\ owed' \in [Hosts -> Percents \cup {None}]
        /\ deliberate' \subseteq Hosts
    BY DEF Change, External, ghosts, TInv, TypeOK
  <1>4. TypeOK'
    BY <1>1, <1>2, <1>3 DEF TypeOK
  <1>5. Shaped'
    BY <1>1 DEF Shaped, Owns
  <1> QED
    BY <1>4, <1>5 DEF TInv

LEMMA TypeStep == TInv /\ [Next]_vars => TInv'
  <1> SUFFICES ASSUME TInv, [Next]_vars PROVE TInv'
    OBVIOUS
  <1>1. CASE ReconcileNext
    BY <1>1, ReconcileType, OwnedType, EndsType, ApplyType DEF ReconcileNext
  <1>2. CASE CommandNext \/ CommandFail
    BY <1>2, CommandStepsType
  <1>3. CASE \E h \in Hosts, p \in Percents : Command(h, p)
    BY <1>3, CommandType
  <1>4. CASE Fail \/ Crash
    BY <1>4, EndsType
  <1>5. CASE Change \/ \E h \in Hosts, p \in Percents : External(h, p)
    BY <1>5, EnvironmentType
  <1>6. CASE UNCHANGED vars
    BY <1>6 DEF vars, TInv, TypeOK, Shaped, Owns
  <1> QED
    BY <1>1, <1>2, <1>3, <1>4, <1>5, <1>6 DEF Next

\* Every variable keeps its type, wherever the process stops and however many
\* batteries there are.
THEOREM TypeCorrect == Spec => []TypeOK
  <1>1. Init => TInv
    <2>1. ASSUME Init PROVE TypeOK
      BY <2>1, EmptyDocType, NoJobType, BudgetAssumption DEF Init, TypeOK
    <2>2. ASSUME Init PROVE Shaped
      BY <2>2 DEF Init, Shaped, EmptyDoc, RestoreSteps, HoldSteps, CommandSteps
    <2> QED
      BY <2>1, <2>2 DEF TInv
  <1>2. TInv => TypeOK
    BY DEF TInv
  <1> QED
    BY <1>1, <1>2, TypeStep, PTL DEF Spec

-----------------------------------------------------------------------------
\* The inductive invariant holds in every reachable state.
THEOREM Invariance ==
  ASSUME OneOwner
  PROVE  Spec => []IInv
  <1>1. IInv /\ [Next]_vars => IInv'
    BY StepIInv
  <1> QED
    BY <1>1, InitIInv, PTL DEF Spec

\* The value taken from a battery is always on record, in a phase from which it
\* is restored: through crashes, failed and lost writes, changes of battery and
\* window, Backup Preparation, and changes made by the user or from outside.
THEOREM NothingOwedIsLost ==
  ASSUME OneOwner
  PROVE  Spec => []OwedIsRecorded
  <1>1. IInv => OwedIsRecorded
    BY DEF IInv
  <1> QED
    BY <1>1, Invariance, PTL

\* Where reconcile() refuses an incomplete record, no battery waits for a value the
\* service took from it: the refusal withholds no restoration.
THEOREM RefusalsOweNothing ==
  ASSUME OneOwner
  PROVE  Spec => []RefusalOwesNothing
  <1>1. IInv => RefusalOwesNothing
    BY NoneAssumption DEF IInv, OwedIsRecorded, RefusalOwesNothing, Refused, Owns, Owning
  <1> QED
    BY <1>1, Invariance, PTL

-----------------------------------------------------------------------------
(* The choices of the user, when the process does not stop inside a deliberate *)
(* command.                                                                    *)

-----------------------------------------------------------------------------
(* The inductive invariant, on top of IInv.                                   *)

\* The record of an owner is complete, and so is the one a command may put back.
Complete ==
  /\ ~Refused
  /\ pc \in CommandSteps /\ job.affected /\ job.before.phase \in Owning => Owns(job.before)

\* A battery whose setting the user chose does not show a 0 that the record d owns.
Respect(d) == Owns(d) /\ d.host \in deliberate => device[d.host] # 0

\* This is so of the record and of the one a command may put back; the battery a
\* command writes to is not one the record goes on to own.
Chosen ==
  /\ Respect(doc)
  /\ pc = "restore-write" => device[doc.host] = 0
  /\ pc \in CommandSteps =>
       IF job.affected THEN Respect(job.before) ELSE Owns(doc) => doc.host # job.host
  /\ pc \in CommandSteps /\ job.affected /\ job.different => doc.host # job.host /\ Owns(doc)

CInv == IInv /\ Complete /\ Chosen

-----------------------------------------------------------------------------
(* What reconcile() decides about a record takes no battery into ownership.     *)

LEMMA HoldOwns ==
  ASSUME NEW d \in Docs, NEW j \in Jobs, Hold(d, j), d.phase \in Owning => Owns(d)
  PROVE  /\ doc'.phase \in Owning => Owns(doc')
         /\ Owns(doc') => Owns(d) /\ doc'.host = d.host
         /\ pc' \in {"idle", "hold-read", "apply-read"}
  <1> DEFINE s == [d EXCEPT !.phase = "suspended", !.window = j.window]
  <1>1. s.phase = "suspended" /\ EmptyDoc.phase = "idle"
    BY DEF Docs, EmptyDoc
  <1>2. doc' \in {d, EmptyDoc, s} /\ pc' \in {"idle", "hold-read", "apply-read"}
    BY DEF Hold, Finish, Await
  <1> HIDE DEF s
  <1> QED
    BY <1>1, <1>2 DEF Owns, Owning

LEMMA SettleOwns ==
  ASSUME NEW d \in Docs, NEW j \in Jobs, Settle(d, j), d.phase \in Owning => Owns(d)
  PROVE  /\ doc'.phase \in Owning => Owns(doc')
         /\ Owns(doc') => Owns(d) /\ doc'.host = d.host
         /\ pc' \in {"idle", "restore-read", "hold-read", "apply-read"}
  <1> DEFINE e == IF d.phase = "manual" THEN EmptyDoc ELSE d
  <1>1. e \in Docs /\ (e.phase \in Owning => Owns(e)) /\ (Owns(e) => Owns(d) /\ e.host = d.host)
    BY EmptyDocType DEF Owning, EmptyDoc
  <1>2. CASE Finish(d)
    BY <1>2 DEF Finish
  <1>3. CASE MustRestore(e, j) /\ Await([e EXCEPT !.phase = "restoring"], "restore-read", j)
    <2> DEFINE r == [e EXCEPT !.phase = "restoring"]
    <2>1. Owns(e)
      BY <1>3 DEF MustRestore
    <2>2. r.phase = "restoring" /\ r.host = e.host /\ r.prev = e.prev
      <3> HIDE DEF e
      <3> QED
        BY <1>1 DEF Docs
    <2>3. doc' = r /\ pc' = "restore-read"
      BY <1>3 DEF Await
    <2> HIDE DEF e, r
    <2> QED
      BY <1>1, <2>1, <2>2, <2>3 DEF Owns, Owning
  <1>4. CASE Hold(e, j)
    <2> HIDE DEF e
    <2> QED
      BY <1>1, <1>4, HoldOwns
  <1> QED
    BY <1>2, <1>3, <1>4 DEF Settle

\* A step of reconcile() that moves no battery and takes none into ownership.
LEMMA Decides ==
  ASSUME CInv, UNCHANGED <<device, deliberate>>,
         doc'.phase \in Owning => Owns(doc'),
         Owns(doc') => Owns(doc) /\ doc'.host = doc.host,
         pc' \notin CommandSteps, pc' # "restore-write"
  PROVE  Complete' /\ Chosen'
  BY DEF CInv, Complete, Chosen, Respect, Refused

-----------------------------------------------------------------------------
(* The steps of reconcile().                                                  *)

\* A command that was interrupted is never met: the process does not stop inside one.
LEMMA ReconcileChoice ==
  ASSUME CInv, ~CrashInCommand, Reconcile \/ PendingRead
  PROVE  Complete' /\ Chosen'
  <1>1. ~(pc = "pending-read")
    BY DEF CInv, IInv, ReconcileInv, PendingInv, CommandSteps
  <1>2. Reconcile /\ pc \in {"idle", "start"}
    BY <1>1 DEF PendingRead, Reconcile
  <1>3. doc.phase # "manual-pending"
    BY <1>2 DEF CInv, IInv, PendingInv, CommandSteps
  <1>4. Snapshot \in Jobs
    BY SnapshotType DEF CInv, IInv
  <1>5. UNCHANGED <<device, deliberate>> /\ (Finish(doc) \/ Settle(doc, Snapshot))
    BY <1>2, <1>3 DEF Reconcile, ghosts
  <1>6. doc \in Docs /\ (doc.phase \in Owning => Owns(doc))
    BY DEF CInv, IInv, TypeOK, Complete, Refused
  <1>7. /\ doc'.phase \in Owning => Owns(doc')
        /\ Owns(doc') => Owns(doc) /\ doc'.host = doc.host
        /\ pc' \in {"idle", "restore-read", "hold-read", "apply-read"}
    BY <1>4, <1>5, <1>6, SettleOwns DEF Finish
  <1> QED
    BY <1>5, <1>7, Decides DEF CommandSteps

\* The record left by a restoration owns nothing.
LEMMA RestoredFrees ==
  ASSUME NEW d \in Docs, NEW j \in Jobs
  PROVE  Restored(d, j) \in Docs /\ Restored(d, j).phase \notin Owning
  <1> DEFINE s == [d EXCEPT !.phase = "suspended"]
  <1> DEFINE b == [EmptyDoc EXCEPT !.phase = "manual", !.host = j.host, !.window = j.window]
  <1>1. Restored(d, j) \in Docs
    BY RestoredKeeps
  <1>2. s.phase = "suspended"
    BY DEF Docs
  <1>3. b.phase = "manual" /\ EmptyDoc.phase = "idle"
    BY DEF EmptyDoc
  <1>4. Restored(d, j) \in {s, b, EmptyDoc}
    BY DEF Restored
  <1> HIDE DEF s, b
  <1> QED
    BY <1>1, <1>2, <1>3, <1>4 DEF Owning

\* The steps that end a restoration, or leave the battery to the user.
LEMMA EndsChoice ==
  ASSUME CInv, RestoreSupersede \/ RestoreVerified \/ HoldSupersede \/ Fail
  PROVE  Complete' /\ Chosen'
  <1>1. doc \in Docs /\ job \in Jobs /\ UNCHANGED <<device, deliberate>>
    BY DEF CInv, IInv, TypeOK, RestoreSupersede, RestoreVerified, HoldSupersede, Fail, ghosts
  <1> DEFINE m == [doc EXCEPT !.phase = "manual"]
  <1>2. m \in Docs /\ m.phase = "manual"
    BY <1>1 DEF Docs, Phases
  <1> HIDE DEF m
  <1>3. Restored(m, job) \in Docs /\ Restored(m, job).phase \notin Owning
    BY <1>1, <1>2, RestoredFrees
  <1>4. Restored(doc, job) \in Docs /\ Restored(doc, job).phase \notin Owning
    BY <1>1, RestoredFrees
  <1>5. \/ Finish(m) \/ Finish(doc) \/ Hold(Restored(m, job), job) \/ Hold(Restored(doc, job), job)
    BY DEF m, RestoreSupersede, RestoreVerified, HoldSupersede, Fail
  <1>6. /\ doc'.phase \in Owning => Owns(doc')
        /\ Owns(doc') => Owns(doc) /\ doc'.host = doc.host
        /\ pc' \in {"idle", "hold-read", "apply-read"}
    <2>1. CASE Finish(m) \/ Finish(doc)
      BY <1>2, <2>1 DEF Finish, Owns, Owning, CInv, Complete, Refused
    <2>2. CASE Hold(Restored(m, job), job)
      BY <1>1, <1>3, <2>2, HoldOwns DEF Owns
    <2>3. CASE Hold(Restored(doc, job), job)
      BY <1>1, <1>4, <2>3, HoldOwns DEF Owns
    <2> QED
      BY <1>5, <2>1, <2>2, <2>3
  <1> QED
    BY <1>1, <1>6, Decides DEF CommandSteps

\* The reads, writes and confirmations under a record the service owns.
LEMMA OwnedChoice ==
  ASSUME CInv, RestoreRead \/ RestoreWrite \/ RestoreConfirm \/ HoldRead \/ ZeroCheck
               \/ ZeroWrite \/ ZeroConfirm
  PROVE  Complete' /\ Chosen' /\ (RestoreWrite => doc.host \notin deliberate)
  <1>1. Owns(doc) /\ doc' = doc /\ doc.host \in Hosts /\ pc' \notin CommandSteps
    BY DEF CInv, IInv, TypeOK, ReconcileInv, RestoreSteps, HoldSteps, Docs, Owns,
           RestoreRead, RestoreWrite, RestoreConfirm, HoldRead, ZeroCheck, ZeroWrite, ZeroConfirm,
           Await, Finish, CommandSteps
  <1>2. device \in [Hosts -> Percents]
    BY DEF CInv, IInv, TypeOK
  <1>3. CASE RestoreRead
    BY <1>1, <1>3
       DEF RestoreRead, RestoreWrite, Await, ghosts, CInv, Complete, Chosen, Respect, Refused
  <1>4. CASE RestoreWrite
    BY <1>1, <1>2, <1>4
       DEF RestoreWrite, Await, CInv, Complete, Chosen, Respect, Refused
  <1>5. CASE ZeroWrite
    BY <1>1, <1>2, <1>5
       DEF ZeroWrite, RestoreWrite, Await, CInv, Complete, Chosen, Respect, Refused
  <1>6. CASE RestoreConfirm \/ HoldRead \/ ZeroCheck \/ ZeroConfirm
    BY <1>1, <1>6
       DEF RestoreConfirm, HoldRead, ZeroCheck, ZeroConfirm, RestoreWrite, Await, Finish,
                      ghosts, CInv, Complete, Chosen, Respect, Refused
  <1> QED
    BY <1>3, <1>4, <1>5, <1>6 DEF RestoreRead, RestoreConfirm, HoldRead, ZeroCheck, ZeroWrite,
                                  ZeroConfirm, RestoreWrite

\* The record of a new override, and the end of its first write.
LEMMA ApplyChoice == ASSUME CInv, ApplyRead \/ Activate PROVE Complete' /\ Chosen'
  <1>1. doc \in Docs /\ job \in Jobs /\ device \in [Hosts -> Percents]
    BY DEF CInv, IInv, TypeOK
  <1>2. CASE ApplyRead
    <2> DEFINE d == [EmptyDoc EXCEPT !.phase = "applying", !.host = job.host,
                                     !.prev = device[job.host], !.window = job.window]
    <2>1. job.host \in Hosts
      BY <1>1, <1>2 DEF ApplyRead, CInv, IInv, ReconcileInv, Jobs
    <2>2. d.phase = "applying" /\ d.host = job.host /\ d.prev \in Percents
      BY <1>1, <2>1 DEF EmptyDoc
    <2>3. doc' = d /\ pc' \in {"activate", "zero-check"} /\ deliberate' = deliberate \ {job.host}
      BY <1>2 DEF ApplyRead, Await
    <2> HIDE DEF d
    <2>4. Owns(d)
      BY <2>1, <2>2, NoneAssumption DEF Owns, Owning
    <2> QED
      BY <2>2, <2>3, <2>4 DEF Complete, Chosen, Respect, Refused, CommandSteps
  <1>3. CASE Activate
    <2> DEFINE d == [doc EXCEPT !.phase = "active"]
    <2>1. d.phase = "active" /\ d.host = doc.host /\ d.prev = doc.prev
      BY <1>1 DEF Docs
    <2>2. doc' = d /\ pc' = "idle" /\ UNCHANGED <<device, deliberate>> /\ Owns(doc)
      BY <1>3 DEF Activate, Finish, ghosts, CInv, IInv, ReconcileInv, HoldSteps
    <2> HIDE DEF d
    <2> QED
      BY <2>1, <2>2, Decides DEF Owns, Owning, CommandSteps
  <1> QED
    BY <1>2, <1>3

-----------------------------------------------------------------------------
(* The deliberate command and the environment.                                *)

LEMMA CommandChoice ==
  ASSUME CInv, NEW h \in Hosts, NEW p \in Percents, Command(h, p)
  PROVE  Complete' /\ Chosen'
  <1> DEFINE affected == \/ Owns(doc) /\ doc.host = h
                         \/ enabled /\ window # None /\ batteryHost = h
             different == affected /\ Owns(doc) /\ doc.host # h
             c == [NoJob EXCEPT !.host = h, !.percent = p, !.affected = affected,
                                !.different = different, !.before = doc]
             a == [doc EXCEPT !.manualWindow = window, !.manualHost = h]
             b == [doc EXCEPT !.phase = "manual-pending", !.host = h, !.request = p,
                              !.window = IF window # None THEN window ELSE @]
  <1>1. doc \in Docs
    BY DEF CInv, IInv, TypeOK
  <1>2. /\ pc' = "command-check" /\ job' = c /\ UNCHANGED <<device, deliberate>>
        /\ doc' = IF affected THEN IF different THEN a ELSE b ELSE doc
    BY DEF Command, Await, ghosts
  <1>3. a.phase = doc.phase /\ a.host = doc.host /\ a.prev = doc.prev
    BY <1>1 DEF Docs
  <1>4. b.phase = "manual-pending"
    BY <1>1 DEF Docs
  <1>5. /\ c.host = h /\ c.before = doc /\ (c.affected <=> affected) /\ (c.different <=> different)
    BY DEF NoJob
  <1> HIDE DEF a, b, c
  <1>6. Complete'
    BY <1>2, <1>3, <1>4, <1>5 DEF CInv, Complete, Refused, Owns, Owning
  <1>7. Chosen'
    BY <1>2, <1>3, <1>4, <1>5 DEF CInv, Chosen, Respect, Owns, Owning, CommandSteps
  <1> QED
    BY <1>6, <1>7

LEMMA CommandStepsChoice == ASSUME CInv, CommandNext \/ CommandFail PROVE Complete' /\ Chosen'
  <1>1. /\ pc \in CommandSteps /\ doc \in Docs /\ job.host \in Hosts /\ job.percent \in Percents
        /\ device \in [Hosts -> Percents]
    BY DEF CInv, IInv, TypeOK, CommandInv, CommandNext, CommandCheck, CommandWrite, CommandVerify,
           CommandFail, CommandSteps
  <1>2. CASE Undo /\ UNCHANGED <<device, deliberate>>
    <2>1. pc' = "idle" /\ doc' = IF job.affected THEN job.before ELSE doc
      BY <1>2 DEF Undo, Finish
    <2> QED
      BY <1>1, <1>2, <2>1 DEF CInv, Complete, Chosen, Respect, Refused, CommandSteps
  <1>3. CASE Await(doc, "command-write", job) /\ UNCHANGED <<device, deliberate>>
    BY <1>1, <1>3 DEF Await, CInv, Complete, Chosen, Respect, Refused, CommandSteps
  <1>4. CASE CommandWrite
    <2>1. /\ doc' = doc /\ job' = job /\ pc' = "command-verify" /\ pc = "command-write"
          /\ device' = [device EXCEPT ![job.host] = job.percent]
          /\ deliberate' = IF job.percent = 0 THEN deliberate \ {job.host}
                           ELSE deliberate \cup {job.host}
      BY <1>4 DEF CommandWrite, Await
    <2>2. ASSUME NEW d, d.host \in deliberate => device[d.host] # 0, d.host \in Hosts
          PROVE  d.host \in deliberate' => device'[d.host] # 0
      BY <1>1, <2>1, <2>2
    <2>3. Owns(doc) => doc.host \in Hosts
      BY <1>1 DEF Owns, Docs
    <2>4. Owns(job.before) => job.before.host \in Hosts
      BY DEF Owns, Docs, CInv, IInv, TypeOK, Jobs
    <2> QED
      BY <2>1, <2>2, <2>3, <2>4
         DEF CInv, Complete, Chosen, Respect, Refused, CommandSteps
  <1>5. CASE CommandVerify
    <2> DEFINE d == [doc EXCEPT !.phase = IF job.different THEN job.before.phase ELSE "manual"]
    <2>1. /\ pc' = "idle" /\ doc' = IF ~job.affected THEN doc ELSE d
          /\ deliberate' = deliberate \cup {job.host} /\ device' = device
      BY <1>5 DEF CommandVerify, Finish
    <2>2. /\ d.host = doc.host /\ d.prev = doc.prev
          /\ d.phase = IF job.different THEN job.before.phase ELSE "manual"
      BY <1>1 DEF Docs
    <2>3. job.affected /\ job.different =>
            job.before.phase = doc.phase /\ Owns(doc) /\ doc.host # job.host
      BY <1>1 DEF CInv, IInv, CommandInv, Chosen
    <2> HIDE DEF d
    <2>4. CASE ~job.affected
      BY <1>1, <2>1, <2>4 DEF CInv, Complete, Chosen, Respect, Refused, CommandSteps
    <2>5. CASE job.affected /\ job.different
      <3>1. Owns(doc') /\ doc'.host = doc.host /\ doc.host # job.host
        BY <2>1, <2>2, <2>3, <2>5 DEF Owns
      <3> QED
        BY <1>1, <2>1, <2>3, <2>5, <3>1
           DEF CInv, Complete, Chosen, Respect, Refused, CommandSteps
    <2>6. CASE job.affected /\ ~job.different
      <3>1. doc'.phase \notin Owning /\ ~Owns(doc')
        BY <2>1, <2>2, <2>6 DEF Owns, Owning
      <3> QED
        BY <2>1, <3>1 DEF Complete, Chosen, Respect, Refused, CommandSteps
    <2> QED
      BY <2>4, <2>5, <2>6
  <1> QED
    BY <1>2, <1>3, <1>4, <1>5 DEF CommandNext, CommandCheck, CommandFail, ghosts

LEMMA EnvironmentChoice ==
  ASSUME CInv, ~CrashInCommand,
         \/ Crash \/ Change
         \/ \E h \in Hosts, p \in Percents : External(h, p)
  PROVE  Complete' /\ Chosen'
  <1>1. CASE Crash
    BY <1>1
       DEF Crash, ghosts, CInv, Complete, Chosen, Respect, Refused, CommandSteps
  <1>2. CASE Change
    BY <1>2 DEF Change, ghosts, CInv, Complete, Chosen, Respect, Refused
  <1>3. CASE \E h \in Hosts, p \in Percents : External(h, p)
    <2>1. PICK h \in Hosts, p \in Percents : External(h, p)
      BY <1>3
    <2>2. /\ doc' = doc /\ job' = job /\ pc' = pc /\ pc # "restore-write" /\ p # 0
          /\ device' = [device EXCEPT ![h] = p] /\ deliberate' = deliberate \cup {h}
      BY <2>1 DEF External
    <2>3. ASSUME NEW d, d.host \in deliberate => device[d.host] # 0, d.host \in Hosts
          PROVE  d.host \in deliberate' => device'[d.host] # 0
      BY <2>2, <2>3 DEF CInv, IInv, TypeOK
    <2>4. /\ Owns(doc) => doc.host \in Hosts
          /\ Owns(job.before) => job.before.host \in Hosts
      BY DEF Owns, Docs, CInv, IInv, TypeOK, Jobs
    <2> QED
      BY <2>2, <2>3, <2>4 DEF CInv, Complete, Chosen, Respect, Refused
  <1> QED
    BY <1>1, <1>2, <1>3

-----------------------------------------------------------------------------
LEMMA ChoiceStep ==
  ASSUME ~CrashInCommand, CInv, [Next]_vars
  PROVE  CInv' /\ (RestoreWrite => doc.host \notin deliberate)
  <1>1. IInv'
    BY StepIInv DEF CInv, OneOwner
  <1>2. RestoreWrite => doc.host \notin deliberate
    BY OwnedChoice
  <1>3. Complete' /\ Chosen'
    <2>1. CASE ReconcileNext
      BY <2>1, ReconcileChoice, EndsChoice, OwnedChoice, ApplyChoice DEF ReconcileNext
    <2>2. CASE CommandNext \/ CommandFail
      BY <2>2, CommandStepsChoice
    <2>3. CASE \E h \in Hosts, p \in Percents : Command(h, p)
      BY <2>3, CommandChoice
    <2>4. CASE Fail
      BY <2>4, EndsChoice
    <2>5. CASE Crash \/ Change \/ \E h \in Hosts, p \in Percents : External(h, p)
      BY <2>5, EnvironmentChoice
    <2>6. CASE UNCHANGED vars
      BY <2>6 DEF vars, CInv, Complete, Chosen, Respect, Refused
    <2> QED
      BY <2>1, <2>2, <2>3, <2>4, <2>5, <2>6 DEF Next
  <1> QED
    BY <1>1, <1>2, <1>3 DEF CInv

\* Where the restoring write is due, nothing else changes a battery.
LEMMA OneWriter ==
  ASSUME [Next]_vars, pc = "restore-write", device' # device
  PROVE  RestoreWrite
  <1>1. CASE ReconcileNext
    BY <1>1
       DEF ReconcileNext, Reconcile, PendingRead, RestoreRead, RestoreSupersede, RestoreConfirm,
                RestoreVerified, HoldRead, HoldSupersede, ApplyRead, ZeroCheck, ZeroWrite,
                ZeroConfirm, Activate
  <1>2. CASE CommandNext \/ CommandFail \/ Fail \/ Crash \/ Change
    BY <1>2 DEF CommandNext, CommandCheck, CommandWrite, CommandVerify, CommandFail, CommandSteps,
                Fail, Crash, Change
  <1>3. ASSUME NEW h \in Hosts, NEW p \in Percents, Command(h, p) \/ External(h, p) PROVE FALSE
    BY <1>3 DEF Command, External
  <1>4. CASE UNCHANGED vars
    BY <1>4 DEF vars
  <1> QED
    BY <1>1, <1>2, <1>3, <1>4 DEF Next

LEMMA ChoiceInit == Init => CInv
  <1> SUFFICES ASSUME Init PROVE CInv
    OBVIOUS
  <1>1. Complete /\ Chosen
    BY DEF Init, EmptyDoc, Complete, Chosen, Respect, Refused, Owns, Owning, CommandSteps
  <1> QED
    BY <1>1, InitIInv DEF CInv

(* A restoration never writes over a setting the user chose, through the page, by a  *)
(* schedule or on the battery itself, since the override took hold of the battery.   *)
THEOREM RestorationRespectsChoice ==
  ASSUME ~CrashInCommand
  PROVE  Spec => RestoreRespectsChoice
  <1>1. CInv /\ [Next]_vars => CInv'
    BY ChoiceStep
  <1>2. CInv /\ [Next]_vars =>
          [pc = "restore-write" /\ device' # device => doc.host \notin deliberate]_vars
    BY ChoiceStep, OneWriter
  <1> QED
    BY <1>1, <1>2, ChoiceInit, PTL DEF Spec, RestoreRespectsChoice
=============================================================================

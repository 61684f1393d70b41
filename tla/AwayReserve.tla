----------------------------- MODULE AwayReserve -----------------------------
(***************************************************************************)
(* The Away reserve override (lib/services/away-reserve-service.ts with    *)
(* lib/domain/away-reserve.ts): while the household is away the minimum    *)
(* reserve of the battery is lowered to 0, and the value it had is saved   *)
(* first and restored afterwards, across restarts, failures, changes of    *)
(* battery and deliberate changes of the reserve.                          *)
(*                                                                         *)
(* exclusive() serializes reconcile() and withCommand(), so one job runs   *)
(* at a time; an action is the code from one await to the next.  The       *)
(* configuration, the Away window, Backup Preparation and the battery may  *)
(* change between two actions, and the process may stop there.  A process  *)
(* that starts awaits one reconcile() before it serves requests and starts *)
(* its timers (initializeState in create-application.ts).                  *)
(*                                                                         *)
(* Left out: lastError, retryAt, windowUntil and updatedAt of the          *)
(* document.  They decide when the next reconcile() runs and what the page *)
(* shows; here a reconcile() may run at any time.                          *)
(***************************************************************************)
EXTENDS Integers

CONSTANTS Hosts,            \* batteries
          Windows,          \* starts of continuous Away windows
          Percents,         \* reserve settings
          None,             \* null
          Budget,           \* how often each kind of disturbance may occur, for TLC
          CrashInCommand    \* whether the process may stop inside withCommand()

Disturbances == {"crash", "fault", "change", "external", "command"}
Phases == {"idle", "applying", "active", "restoring", "suspended", "manual", "manual-pending"}

ASSUME NoneAssumption == None \notin Hosts \cup Windows \cup Percents
ASSUME PercentsAssumption == 0 \in Percents
ASSUME BudgetAssumption == Budget \in [Disturbances -> Nat]
ASSUME CrashAssumption == CrashInCommand \in BOOLEAN

VARIABLES doc,          \* the durable document "awayReserveState"
          device,       \* the reserve each battery has
          enabled,      \* config.awayReserveEnabled
          batteryHost,  \* config.batteryHost
          window,       \* continuousAwayWindow(periods, now).from
          backup,       \* whether Backup Preparation blocks actions
          pc,           \* the await the running job is at, "idle" when none runs,
                        \* "start" before the reconcile() of the startup
          job,          \* the local constants of the running job
          owed,         \* ghost: the setting this service took from a battery
          deliberate,   \* ghost: batteries whose setting is a choice of the user
          budget

vars == <<doc, device, enabled, batteryHost, window, backup, pc, job, owed, deliberate, budget>>
environment == <<enabled, batteryHost, window, backup>>
ghosts == <<owed, deliberate>>

\* Mutant: the cleaned state has no default phase.
EmptyDocNoPhase == [phase |-> None, host |-> None, prev |-> None, window |-> None,
                    request |-> None, manualWindow |-> None, manualHost |-> None]

EmptyDoc == [phase |-> "idle", host |-> None, prev |-> None, window |-> None,
             request |-> None, manualWindow |-> None, manualHost |-> None]

Owning == {"applying", "active", "restoring"}
Owns(d) == d.phase \in Owning /\ d.prev # None /\ d.host # None

NoJob == [startup |-> FALSE, enabled |-> FALSE, host |-> None, window |-> None, backup |-> FALSE,
          blocked |-> FALSE, percent |-> None, affected |-> FALSE, different |-> FALSE, before |-> EmptyDoc]

CommandSteps == {"command-check", "command-write", "command-verify"}
ReconcileSteps == {"pending-read", "restore-read", "restore-supersede", "restore-write",
                   "restore-confirm", "restore-verified", "hold-read", "hold-supersede",
                   "apply-read", "zero-check", "zero-write", "zero-confirm", "activate"}

Spend(kind) == budget[kind] > 0 /\ budget' = [budget EXCEPT ![kind] = @ - 1]

Await(d, step, j) == doc' = d /\ pc' = step /\ job' = j
Finish(d) == doc' = d /\ pc' = "idle" /\ job' = NoJob

Init ==
  /\ doc = EmptyDoc
  /\ device \in [Hosts -> Percents]
  /\ enabled \in BOOLEAN /\ batteryHost \in Hosts \cup {None}
  /\ window = None /\ backup = FALSE
  /\ pc = "start" /\ job = NoJob
  /\ owed = [h \in Hosts |-> None] /\ deliberate = {}
  /\ budget = Budget

-----------------------------------------------------------------------------
(* reconcile()                                                             *)

Desired(j) == j.enabled /\ j.window # None /\ ~j.backup /\ ~j.blocked
Suspends(j) == j.enabled /\ j.window # None /\ j.backup
SameWindow(d, j) == j.window # None /\ d.window = j.window

\* After any restoration: leave the override alone, or go and establish it.
\* Without a battery address the code throws, and the catch saves no more.
Hold(d, j) ==
  \/ /\ ~Desired(j)
     /\ Finish(IF j.blocked THEN d
               ELSE IF Suspends(j) THEN IF d.phase = "suspended" THEN d
                                        ELSE [d EXCEPT !.phase = "suspended", !.window = j.window]
               ELSE IF ~Owns(d) /\ d.phase # "idle" THEN EmptyDoc ELSE d)
  \/ /\ Desired(j) /\ j.host = None
     /\ Finish(d)
  \/ /\ Desired(j) /\ j.host # None
     /\ Await(d, IF Owns(d) THEN "hold-read" ELSE "apply-read", j)

\* Mutant: the end of the window is not a reason to restore.
MustRestoreOnlyMoved(d, j) ==
  Owns(d) /\ ((j.window # None /\ d.window # j.window) \/ d.host # j.host \/ d.phase = "restoring")

MustRestore(d, j) ==
  Owns(d) /\ (~Desired(j) \/ ~SameWindow(d, j) \/ d.host # j.host \/ d.phase = "restoring")

\* A manual choice lasts for its window and its battery; then ownership ends
\* with a restoration where the override no longer belongs.
Settle(d, j) ==
  LET kept == d.phase = "manual" /\ SameWindow(d, j) /\ d.host = j.host
      e == IF d.phase = "manual" THEN EmptyDoc ELSE d
  IN \/ kept /\ Finish(d)
     \/ /\ ~kept /\ MustRestore(e, j)
        /\ Await([e EXCEPT !.phase = "restoring"], "restore-read", j)
     \/ ~kept /\ ~MustRestore(e, j) /\ Hold(e, j)

\* What the saved state becomes once the battery has its own value again.
Restored(d, j) ==
  IF j.blocked THEN [EmptyDoc EXCEPT !.phase = "manual", !.host = j.host, !.window = j.window]
  ELSE IF Suspends(j) THEN [d EXCEPT !.phase = "suspended"]
  ELSE EmptyDoc

\* A record that owns the battery but does not say which, or which value it had:
\* reconcile() only throws.
Refused == doc.phase \in Owning /\ ~Owns(doc)

\* What reconcile() reads first and decides on.
Snapshot ==
  [NoJob EXCEPT !.startup = (pc = "start"), !.enabled = enabled, !.host = batteryHost,
                !.window = window, !.backup = backup,
                !.blocked = /\ window # None /\ doc.manualWindow = window
                            /\ doc.manualHost = batteryHost]

\* The startup, a tick of the automation, the deadline timer, a route, or Backup
\* Preparation.
Reconcile ==
  /\ pc \in {"idle", "start"}
  /\ \/ Refused /\ Finish(doc)
     \/ doc.phase = "manual-pending" /\ Await(doc, "pending-read", Snapshot)
     \/ doc.phase # "manual-pending" /\ ~Refused /\ Settle(doc, Snapshot)
  /\ UNCHANGED <<device, environment, ghosts, budget>>

\* A command was interrupted: what the battery shows decides whose value it is.
PendingRead ==
  LET observed == device[doc.host]
      manual == observed = doc.request \/ observed # 0
  IN /\ pc = "pending-read"
     /\ Settle([doc EXCEPT !.phase = IF manual THEN "manual" ELSE "active"], job)
     /\ owed' = IF manual THEN [owed EXCEPT ![doc.host] = None] ELSE owed
     /\ deliberate' = IF manual THEN deliberate \cup {doc.host} ELSE deliberate
     /\ UNCHANGED <<device, environment, budget>>

\* Mutant: the setting found on the battery is not compared with the saved one.
RestoreReadBlind ==
  /\ pc = "restore-read"
  /\ Await(doc, IF device[doc.host] # doc.prev THEN "restore-write" ELSE "restore-verified", job)
  /\ UNCHANGED <<device, environment, ghosts, budget>>

RestoreRead ==
  LET observed == device[doc.host]
  IN /\ pc = "restore-read"
     /\ Await(doc, IF observed \notin {0, doc.prev} THEN "restore-supersede"
                   ELSE IF observed # doc.prev THEN "restore-write" ELSE "restore-verified", job)
     /\ UNCHANGED <<device, environment, ghosts, budget>>

\* The setting was changed from outside, which ends the override.
RestoreSupersede ==
  LET manual == [doc EXCEPT !.phase = "manual"]
  IN /\ pc = "restore-supersede"
     /\ IF SameWindow(doc, job) /\ doc.host = job.host THEN Finish(manual)
        ELSE Hold(Restored(manual, job), job)
     /\ UNCHANGED <<device, environment, ghosts, budget>>

\* Source "away-reserve-restore" is never refused.
RestoreWrite ==
  /\ pc = "restore-write"
  /\ device' = [device EXCEPT ![doc.host] = doc.prev]
  /\ owed' = [owed EXCEPT ![doc.host] = None]
  /\ Await(doc, "restore-confirm", job)
  /\ UNCHANGED <<environment, deliberate, budget>>

RestoreConfirm ==
  /\ pc = "restore-confirm"
  /\ IF device[doc.host] = doc.prev THEN Await(doc, "restore-verified", job) ELSE Finish(doc)
  /\ UNCHANGED <<device, environment, ghosts, budget>>

RestoreVerified ==
  /\ pc = "restore-verified"
  /\ Hold(Restored(doc, job), job)
  /\ UNCHANGED <<device, environment, ghosts, budget>>

\* Mutant: a write of 0 that was interrupted before it took effect is not repeated.
HoldReadNoRetry ==
  /\ pc = "hold-read"
  /\ Await(doc, IF device[doc.host] = 0 \/ doc.phase = "applying" THEN "activate"
                ELSE "hold-supersede", job)
  /\ UNCHANGED <<device, environment, ghosts, budget>>

HoldRead ==
  LET observed == device[doc.host]
  IN /\ pc = "hold-read"
     /\ Await(doc, IF observed = 0 THEN "activate"
                   ELSE IF doc.phase = "applying" /\ observed = doc.prev THEN "zero-check"
                   ELSE "hold-supersede", job)
     /\ UNCHANGED <<device, environment, ghosts, budget>>

HoldSupersede ==
  /\ pc = "hold-supersede"
  /\ Finish([doc EXCEPT !.phase = "manual"])
  /\ UNCHANGED <<device, environment, ghosts, budget>>

\* The value is saved before the first write.
ApplyRead ==
  LET observed == device[job.host]
  IN /\ pc = "apply-read"
     /\ Await([EmptyDoc EXCEPT !.phase = "applying", !.host = job.host, !.prev = observed,
                               !.window = job.window],
              IF observed = 0 THEN "activate" ELSE "zero-check", job)
     /\ deliberate' = deliberate \ {job.host}
     /\ UNCHANGED <<device, environment, owed, budget>>

\* assertActionAllowed() of the write of 0, some time before the write itself.
ZeroCheck ==
  /\ pc = "zero-check"
  /\ IF backup THEN Finish(doc) ELSE Await(doc, "zero-write", job)
  /\ UNCHANGED <<device, environment, ghosts, budget>>

ZeroWrite ==
  /\ pc = "zero-write"
  /\ device' = [device EXCEPT ![doc.host] = 0]
  /\ owed' = [owed EXCEPT ![doc.host] = device[doc.host]]
  /\ deliberate' = deliberate \ {doc.host}
  /\ Await(doc, "zero-confirm", job)
  /\ UNCHANGED <<environment, budget>>

ZeroConfirm ==
  /\ pc = "zero-confirm"
  /\ IF device[doc.host] = 0 THEN Await(doc, "activate", job) ELSE Finish(doc)
  /\ UNCHANGED <<device, environment, ghosts, budget>>

Activate ==
  /\ pc = "activate"
  /\ Finish([doc EXCEPT !.phase = "active"])
  /\ UNCHANGED <<device, environment, ghosts, budget>>

\* Mutant: the catch starts over from a clean state.
FailForgets ==
  /\ pc \in ReconcileSteps /\ Spend("fault")
  /\ Finish(EmptyDoc)
  /\ UNCHANGED <<device, environment, ghosts>>

\* An awaited call throws, before or after its effect: the catch keeps the
\* document and another reconcile() follows.
Fail ==
  /\ pc \in ReconcileSteps /\ Spend("fault")
  /\ Finish(doc)
  /\ UNCHANGED <<device, environment, ghosts>>

-----------------------------------------------------------------------------
(* withCommand(): a deliberate change of the reserve.                      *)

\* Mutant: the pending record is built anew and not from the one before.
CommandForgetsRecord(h, p) ==
  LET affected == \/ Owns(doc) /\ doc.host = h
                  \/ enabled /\ window # None /\ batteryHost = h
      different == affected /\ Owns(doc) /\ doc.host # h
      marked == IF different THEN [doc EXCEPT !.manualWindow = window, !.manualHost = h]
                ELSE [EmptyDoc EXCEPT !.phase = "manual-pending", !.host = h, !.request = p,
                                      !.window = IF window # None THEN window ELSE @]
  IN /\ pc = "idle" /\ Spend("command")
     /\ Await(IF affected THEN marked ELSE doc, "command-check",
              [NoJob EXCEPT !.host = h, !.percent = p, !.affected = affected,
                            !.different = different, !.before = doc])
     /\ UNCHANGED <<device, environment, ghosts>>

Command(h, p) ==
  LET affected == \/ Owns(doc) /\ doc.host = h
                  \/ enabled /\ window # None /\ batteryHost = h
      different == affected /\ Owns(doc) /\ doc.host # h
      marked == IF different THEN [doc EXCEPT !.manualWindow = window, !.manualHost = h]
                ELSE [doc EXCEPT !.phase = "manual-pending", !.host = h, !.request = p,
                                 !.window = IF window # None THEN window ELSE @]
  IN /\ pc = "idle" /\ Spend("command")
     /\ Await(IF affected THEN marked ELSE doc, "command-check",
              [NoJob EXCEPT !.host = h, !.percent = p, !.affected = affected,
                            !.different = different, !.before = doc])
     /\ UNCHANGED <<device, environment, ghosts>>

Undo == Finish(IF job.affected THEN job.before ELSE doc)

CommandCheck ==
  /\ pc = "command-check"
  /\ IF backup THEN Undo ELSE Await(doc, "command-write", job)
  /\ UNCHANGED <<device, environment, ghosts, budget>>

CommandWrite ==
  /\ pc = "command-write"
  /\ device' = [device EXCEPT ![job.host] = job.percent]
  /\ owed' = [owed EXCEPT ![job.host] = None]
  /\ deliberate' = IF job.percent = 0 THEN deliberate \ {job.host} ELSE deliberate \cup {job.host}
  /\ Await(doc, "command-verify", job)
  /\ UNCHANGED <<environment, budget>>

CommandVerify ==
  /\ pc = "command-verify"
  /\ Finish(IF ~job.affected THEN doc
            ELSE [doc EXCEPT !.phase = IF job.different THEN job.before.phase ELSE "manual"])
  /\ deliberate' = deliberate \cup {job.host}
  /\ UNCHANGED <<device, environment, owed, budget>>

CommandFail ==
  /\ pc \in CommandSteps /\ Spend("fault")
  /\ Undo
  /\ UNCHANGED <<device, environment, ghosts>>

-----------------------------------------------------------------------------
(* The environment.                                                        *)

\* The process stops and starts again: only the durable state survives, and
\* the startup awaits a reconcile() before anything else can reach the battery.
Crash ==
  /\ pc \notin {"idle", "start"} /\ (pc \in CommandSteps => CrashInCommand) /\ Spend("crash")
  /\ doc' = doc /\ pc' = "start" /\ job' = NoJob
  /\ UNCHANGED <<device, environment, ghosts>>

\* The clock moves the window at any time; requests and Backup Preparation change
\* the rest once the startup is over.
Change ==
  /\ Spend("change")
  /\ \/ window' \in Windows \cup {None} /\ UNCHANGED <<enabled, batteryHost, backup>>
     \/ /\ pc # "start" /\ ~job.startup
        /\ \/ enabled' = ~enabled /\ UNCHANGED <<batteryHost, window, backup>>
           \/ batteryHost' \in Hosts \cup {None} /\ UNCHANGED <<enabled, window, backup>>
           \/ backup' = ~backup /\ UNCHANGED <<enabled, batteryHost, window>>
  /\ UNCHANGED <<doc, device, pc, job, ghosts>>

\* Someone changes the setting without this program.  Two changes nobody could
\* respect are left out: one to 0, which looks like the program's own write, and
\* one between a reading and the write that follows it.
External(h, p) ==
  /\ p # 0 /\ pc \notin {"zero-check", "zero-write", "restore-write"} /\ Spend("external")
  /\ device' = [device EXCEPT ![h] = p]
  /\ owed' = [owed EXCEPT ![h] = None]
  /\ deliberate' = deliberate \cup {h}
  /\ UNCHANGED <<doc, environment, pc, job>>

ReconcileNext ==
  \/ Reconcile \/ PendingRead
  \/ RestoreRead \/ RestoreSupersede \/ RestoreWrite \/ RestoreConfirm \/ RestoreVerified
  \/ HoldRead \/ HoldSupersede
  \/ ApplyRead \/ ZeroCheck \/ ZeroWrite \/ ZeroConfirm \/ Activate

CommandNext == CommandCheck \/ CommandWrite \/ CommandVerify

Next ==
  \/ ReconcileNext
  \/ CommandNext
  \/ \E h \in Hosts, p \in Percents : Command(h, p) \/ External(h, p)
  \/ Fail \/ CommandFail \/ Crash \/ Change

\* The startup, ticks, timers and retries keep calling reconcile(), and an await ends.
Spec == Init /\ [][Next]_vars /\ WF_vars(ReconcileNext \/ CommandNext)

-----------------------------------------------------------------------------
Docs == [phase : Phases, host : Hosts \cup {None}, prev : Percents \cup {None},
         window : Windows \cup {None}, request : Percents \cup {None},
         manualWindow : Windows \cup {None}, manualHost : Hosts \cup {None}]

Jobs == [startup : BOOLEAN, enabled : BOOLEAN, host : Hosts \cup {None}, window : Windows \cup {None}, backup : BOOLEAN,
         blocked : BOOLEAN, percent : Percents \cup {None},
         affected : BOOLEAN, different : BOOLEAN, before : Docs]

\* Every variable keeps its shape.
TypeOK ==
  /\ doc \in Docs /\ device \in [Hosts -> Percents]
  /\ enabled \in BOOLEAN /\ batteryHost \in Hosts \cup {None}
  /\ window \in Windows \cup {None} /\ backup \in BOOLEAN
  /\ pc \in {"idle", "start"} \cup ReconcileSteps \cup CommandSteps
  /\ job \in Jobs
  /\ owed \in [Hosts -> Percents \cup {None}] /\ deliberate \subseteq Hosts
  /\ budget \in [Disturbances -> Nat]

\* The obligation to restore is never lost: while a battery holds the 0 this
\* service wrote, the durable document names that battery and the value it had,
\* in a phase from which reconcile() restores it.
OwedIsRecorded ==
  \A h \in Hosts : owed[h] # None =>
    /\ doc.host = h /\ doc.prev = owed[h]
    /\ doc.phase \in Owning \cup {"manual-pending"}

\* A restoration never overwrites a setting the user has chosen since the
\* override took hold of the battery.
RestoreRespectsChoice ==
  [][pc = "restore-write" /\ device' # device => doc.host \notin deliberate]_vars

\* When reconcile() refuses a record, no battery is owed its value: a command cut
\* short by a stop can leave such a record, but never in the place of a value the
\* service took, so the refusal withholds the override and not a restoration.
RefusalOwesNothing == Refused => \A h \in Hosts : owed[h] = None

Wanted(h) == enabled /\ window # None /\ ~backup /\ batteryHost = h

\* Whatever fails on the way, a battery gets its value back once the override is
\* no longer wanted there.
EventuallyRestored ==
  \A h \in Hosts : (owed[h] # None /\ ~Wanted(h)) ~> (owed[h] = None \/ Wanted(h))

\* While the override is wanted, the battery ends at 0 or at a value the user
\* chose; only a record that reconcile() refuses can keep it from there.
EventuallyApplied ==
  \A h \in Hosts :
    Wanted(h) ~> (~Wanted(h) \/ device[h] = 0 \/ h \in deliberate \/ Refused)
=============================================================================

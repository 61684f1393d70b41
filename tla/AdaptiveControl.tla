--------------------------- MODULE AdaptiveControl ---------------------------
(***************************************************************************)
(* Adaptive Charging: who owns the charge of the battery, and until when.  *)
(*                                                                         *)
(* The state is one document (adaptive-state-service.ts) that its writers  *)
(* read, keep across awaits and write back; a write changes only what its  *)
(* writer changed since it read.  The evaluation, the end of a charging    *)
(* slot, the pause, the resume and the manual guard restore run one at a   *)
(* time under exclusive(): "job" is the one under way.  A save of settings *)
(* and the start of Backup Preparation write the document without it:      *)
(* "outside" is the one under way, and there is one at most (a bound).     *)
(*                                                                         *)
(* A day has three moments: the two halves of the discounted window and the*)
(* time after it.  What the forecast, the plan and the telemetry tell is   *)
(* not a variable: an evaluation finds any of it.                          *)
(***************************************************************************)
EXTENDS Integers

CONSTANTS Horizon,      \* the clock stops there
          Actors        \* what takes part, besides evaluations and deadlines

AllActors == {"guard", "manual", "settings", "backup", "restart"}

ASSUME HorizonAssumption == Horizon \in Nat
ASSUME ActorsAssumption == Actors \subseteq AllActors

VARIABLES t,        \* the clock
          doc,      \* document "adaptiveChargingState"
          device,   \* operation mode of the battery
          enabled,  \* adaptiveChargingConfiguredActive(config)
          guard,    \* a Demand Guard rule awaits its restore
          backup,   \* Backup Preparation blocks actions
          timer,    \* the deadline timer of adaptive-control-service.ts
          stale,    \* deadlines that fired before their timer was replaced
          asked,    \* the evaluation that waits for exclusive()
          job,      \* the holder of exclusive()
          outside,  \* the writer that does not hold it
          manual,   \* a manual command that has paused Adaptive Charging
          lapsed    \* ghost: the charge was orphaned by a known lapse

vars == <<t, doc, device, enabled, guard, backup, timer, stale, asked, job, outside, manual, lapsed>>
facts == <<t, enabled, guard, backup>>

Moments == 0..(Horizon + 3)
InWindow(n) == n % 3 < 2
WindowEnd(n) == n - (n % 3) + 2
Midnight(n) == n - (n % 3) + 3
SlotEnds(n) == IF InWindow(n) THEN (n + 1)..WindowEnd(n) ELSE {}

\* The slot, the hold and the pause are known by their ends; 0 is null.
Doc == [owner : BOOLEAN, slot : Moments, hold : Moments, paused : Moments]
Unowned(d) == [d EXCEPT !.owner = FALSE, !.slot = 0]
Held(d, n) == [d EXCEPT !.hold = n]
Paused(d, n) == [d EXCEPT !.paused = n]
Resized(d, e) == [d EXCEPT !.slot = e]
Charged(d, e) == [d EXCEPT !.owner = TRUE, !.slot = e, !.hold = 0]
\* Mutant: a release forgets the hold.
ReleasedHeld(d) == Unowned(d)

Released(d) == Held(Unowned(d), 0)
NoDoc == [owner |-> FALSE, slot |-> 0, hold |-> 0, paused |-> 0]

NoTimer == [st |-> "off", key |-> 0]
Never == [kind |-> "none", now |-> 0]
NoJob == [kind |-> "none", pc |-> "idle", mem |-> NoDoc, base |-> NoDoc, now |-> 0, by |-> "none"]
Nobody == [kind |-> "none", pc |-> "idle", mem |-> NoDoc, base |-> NoDoc]

Init == /\ t = 0 /\ doc = NoDoc /\ device = "auto"
        /\ enabled = TRUE /\ guard = FALSE /\ backup = FALSE
        /\ timer = NoTimer /\ stale = {} /\ asked = Never
        /\ job = NoJob /\ outside = Nobody /\ manual = FALSE /\ lapsed = FALSE

----------------------------------------------------------------------------
(* adaptive-state-service.ts: commit(), and syncDeadline() at its end.      *)

Merge(current, base, new) ==
  [f \in DOMAIN current |->
     IF /\ new[f] # base[f] /\ current[f] = base[f]
        /\ (f = "paused" \/ current.paused = base.paused)
     THEN new[f] ELSE current[f]]

SlotEndKey(d) == IF d.owner THEN d.slot ELSE 0

\* A timer that is replaced has perhaps fired: its deadline is enforced all the same.
SyncDeadline(d) ==
  LET key == SlotEndKey(d)
      keep == timer.st # "off" /\ timer.key = key
  IN /\ timer' = IF key = 0 THEN NoTimer
                 ELSE IF keep THEN timer ELSE [st |-> "armed", key |-> key]
     /\ stale' = IF timer.st = "fired" /\ ~keep THEN stale \cup {timer.key} ELSE stale

Commit(base, new) == /\ doc' = Merge(doc, base, new)
                     /\ SyncDeadline(doc')

----------------------------------------------------------------------------
(* Commands of the battery.                                                 *)

\* A command that succeeds took effect, one that fails may have; Backup Preparation
\* refuses all but its own.
Command(by, m, ok) ==
  \/ (by = "backup" \/ ~backup) /\ device' = m
  \/ ~ok /\ UNCHANGED device

\* The release of the charge is under way elsewhere, or was written meanwhile.
ReleasedMeanwhile == \/ outside.pc = "write" /\ outside.base.owner /\ ~outside.mem.owner
                     \/ job.base.owner /\ ~doc.owner

Sets(by, m, ok) == /\ Command(by, m, ok)
                   /\ lapsed' = IF device' # "charge" THEN FALSE
                                ELSE lapsed \/ (m = "charge" /\ ReleasedMeanwhile)

Working(kind, pc) == job.kind = kind /\ job.pc = pc
Goto(pc, mem) == job' = [job EXCEPT !.pc = pc, !.mem = mem]
End == job' = NoJob
Proceed(pc, mem) == outside' = [outside EXCEPT !.pc = pc, !.mem = mem]
Hold(kind, pc, mem, now, by) ==
  job' = [kind |-> kind, pc |-> pc, mem |-> mem, base |-> doc, now |-> now, by |-> by]
Locked == <<facts, doc, timer, stale, asked, outside, manual>>

----------------------------------------------------------------------------
(* adaptive-charging-evaluator.ts, step by step up to its single write.     *)

\* The automation lock: evaluations, the guard and the start of Backup Preparation.
Unattended == /\ asked = Never /\ job.kind \notin {"evaluate", "restore"}
              /\ outside.kind # "backup"

EvaluateAsk ==
  /\ Unattended /\ enabled
  /\ asked' = [kind |-> "evaluate", now |-> t]
  /\ UNCHANGED <<facts, doc, device, timer, stale, job, outside, manual, lapsed>>

\* Mutant: what is left of a hold is looked for inside a window only.
FirstStepInWindow(d, now) ==
  IF backup THEN Hold("evaluate", "write", Released(d), now, "none")
  ELSE Hold("evaluate", IF d.hold # 0 /\ d.hold <= now /\ InWindow(now) /\ ~guard THEN "expire" ELSE "decide",
            d, now, "none")

\* prepareAdaptiveEvaluation(), and what is left of a hold that is over.
FirstStep(d, now) ==
  IF backup THEN Hold("evaluate", "write", Released(d), now, "none")
  ELSE Hold("evaluate", IF d.hold # 0 /\ d.hold <= now /\ ~guard THEN "expire" ELSE "decide",
            d, now, "none")

EvaluateBegin ==
  /\ asked.kind = "evaluate" /\ job = NoJob
  /\ FirstStep(doc, asked.now)
  /\ asked' = Never
  /\ UNCHANGED <<facts, doc, device, timer, stale, outside, manual, lapsed>>

EvaluateExpire ==
  /\ Working("evaluate", "expire")
  /\ \E ok \in BOOLEAN :
       /\ Sets("adaptive", "auto", ok)
       /\ IF ok THEN Goto("decide", Held(job.mem, 0)) ELSE End
  /\ UNCHANGED Locked

\* Nothing can be planned: the window is spent in Standby, if the rates are known.
Unavailable(d, now) == {"write"} \cup IF InWindow(now) /\ d.paused <= now THEN {"standby"} ELSE {}

\* Mutant: a pause does not stop the evaluation.
EvaluateDecideUnpaused ==
  /\ Working("evaluate", "decide")
  /\ \/ ~guard /\ Goto(IF job.mem.owner THEN "refresh" ELSE "start", job.mem)
     \/ guard /\ Goto("write", Unowned(job.mem))
  /\ UNCHANGED <<Locked, device, lapsed>>

\* Paused or otherwise unavailable; or the guard interrupts the charge; or go on.
EvaluateDecide ==
  /\ Working("evaluate", "decide")
  /\ LET paused == job.mem.paused > job.now
     IN \/ IF guard THEN Goto("write", job.mem)
           ELSE IF job.mem.owner THEN Goto("drop", job.mem)
           ELSE \E pc \in Unavailable(job.mem, job.now) : Goto(pc, job.mem)
        \/ guard /\ ~paused /\ Goto("write", Unowned(job.mem))
        \/ ~guard /\ ~paused /\ Goto(IF job.mem.owner THEN "refresh" ELSE "start", job.mem)
  /\ UNCHANGED <<Locked, device, lapsed>>

EvaluateDrop ==
  /\ Working("evaluate", "drop")
  /\ \E ok \in BOOLEAN :
       /\ Sets("adaptive", "auto", ok)
       /\ IF ok THEN \E pc \in Unavailable(job.mem, job.now) : Goto(pc, Released(job.mem)) ELSE End
  /\ UNCHANGED Locked

\* A new plan changes the end of the active slot, with a new target if need be.
EvaluateRefresh ==
  /\ Working("evaluate", "refresh")
  /\ \/ Goto("stop", job.mem) /\ UNCHANGED <<device, lapsed>>
     \/ /\ job.now < job.mem.slot
        /\ \E e \in SlotEnds(job.now) :
             LET next == Resized(job.mem, e)
             IN \/ Goto("stop", next) /\ UNCHANGED <<device, lapsed>>
                \/ Sets("adaptive", "charge", TRUE) /\ Goto("stop", next)
                \/ Sets("adaptive", "charge", FALSE) /\ End
  /\ UNCHANGED Locked

\* Mutant: the slot goes, its owner stays.
SuspendedOwned(d, hold) == [d EXCEPT !.slot = 0, !.hold = hold]

\* Suspended in Standby, until the end of the window or for the breaker to recover.
Suspended(d, hold) == Held(Unowned(d), hold)

\* stopOrRefreshActiveCharge(): a slot that is over, or a target, a limit or an export reached.
EvaluateStop ==
  /\ Working("evaluate", "stop")
  /\ \/ /\ job.now < job.mem.slot
        /\ Goto("start", job.mem) /\ UNCHANGED <<device, lapsed>>
     \/ LET end == WindowEnd(job.mem.slot)
            hold == InWindow(job.now) /\ job.now < end
            stops == {<<"auto", Released(job.mem)>>}
              \cup IF job.now < job.mem.slot THEN {<<"standby", Suspended(job.mem, 0)>>} ELSE {}
              \cup IF hold THEN {<<"standby", Suspended(job.mem, end)>>} ELSE {}
        IN \E s \in stops, ok \in BOOLEAN :
             /\ Sets("adaptive", s[1], ok)
             /\ IF ok THEN Goto("start", s[2]) ELSE Goto("write", job.mem)
  /\ UNCHANGED Locked

\* recoverIdle(): the battery does not charge; its charge is started anew.
EvaluateIdle ==
  /\ Working("evaluate", "start")
  /\ job.mem.owner
  /\ \E ok \in BOOLEAN :
       /\ Sets("adaptive", "auto", ok)
       /\ IF ok THEN Goto("start", Released(job.mem)) ELSE End
  /\ UNCHANGED Locked

\* A charge is due.
EvaluateCharge ==
  /\ Working("evaluate", "start")
  /\ ~job.mem.owner
  /\ \E e \in SlotEnds(job.now), ok \in BOOLEAN :
       /\ Sets("adaptive", "charge", ok)
       /\ IF ok THEN Goto("write", Charged(job.mem, e))
                ELSE Goto("undo", job.mem)
  /\ UNCHANGED Locked

\* None is due, or it must wait; solar power may be expected.
EvaluateWait ==
  /\ Working("evaluate", "start")
  /\ \/ /\ job.mem.owner \/ ~InWindow(job.now)
        /\ Goto("write", job.mem)
     \/ /\ ~job.mem.owner /\ InWindow(job.now)
        /\ \/ Goto("standby", job.mem) \/ Goto("solar", job.mem)
           \/ job.mem.hold = 0 /\ Goto("write", job.mem)
  /\ UNCHANGED <<Locked, device, lapsed>>

EvaluateSolar ==
  /\ Working("evaluate", "solar")
  /\ \E ok \in BOOLEAN :
       /\ Sets("adaptive", "auto", ok)
       /\ IF ok THEN Goto("write", Held(job.mem, 0)) ELSE End
  /\ UNCHANGED Locked

\* A charge that failed to start leaves the battery in Standby, under a new hold unless
\* it resumed from one or from an interruption.
EvaluateUndo ==
  /\ Working("evaluate", "undo")
  /\ \E ok, resume \in BOOLEAN :
       /\ job.mem.hold > job.now => resume
       /\ Command("adaptive", "standby", ok)
       /\ lapsed' = (device' = "charge")
       /\ Goto("write", IF ok /\ ~resume THEN Held(job.mem, WindowEnd(job.now)) ELSE job.mem)
  /\ UNCHANGED Locked

\* ensureDiscountedWindowStandby(): a hold in force is reasserted if the status asks for it.
EvaluateStandby ==
  /\ Working("evaluate", "standby")
  /\ \/ /\ job.mem.hold >= WindowEnd(job.now)
        /\ Goto("write", job.mem) /\ UNCHANGED <<device, lapsed>>
     \/ \E ok \in BOOLEAN :
          /\ Sets("adaptive", "standby", ok)
          /\ Goto("write", IF ok THEN Held(job.mem, WindowEnd(job.now)) ELSE job.mem)
  /\ UNCHANGED Locked

EvaluateWrite ==
  /\ Working("evaluate", "write")
  /\ Commit(job.base, job.mem)
  /\ End
  /\ UNCHANGED <<facts, device, asked, outside, manual, lapsed>>

----------------------------------------------------------------------------
(* The end of a charging slot: adaptive-control-service.ts keeps one timer, *)
(* enforceDeadline() of adaptive-charging-operations.ts stops the charge.   *)

TimerFires ==
  /\ timer.st = "armed" /\ t >= timer.key
  /\ timer' = [timer EXCEPT !.st = "fired"]
  /\ UNCHANGED <<facts, doc, device, stale, asked, job, outside, manual, lapsed>>

\* Mutant: what a replaced timer finds is applied to the timer that replaced it.
DeadlineBeginAnyTimer ==
  /\ job = NoJob
  /\ \E key \in stale \cup IF timer.st = "fired" THEN {timer.key} ELSE {} :
       LET current == timer.st = "fired" /\ timer.key = key
           due == SlotEndKey(doc) = key /\ t >= key
       IN /\ stale' = IF current THEN stale ELSE stale \ {key}
          /\ timer' = IF due THEN [timer EXCEPT !.st = IF guard THEN "armed" ELSE "running"] ELSE NoTimer
          /\ IF due /\ ~guard THEN Hold("deadline", "stop", doc, t, "none") ELSE UNCHANGED job
  /\ UNCHANGED <<facts, doc, device, asked, outside, manual, lapsed>>

\* Another slot is active, the guard owns Standby, or the charge is to be stopped.  Only
\* the timer that is still in force is armed again.
DeadlineBegin ==
  /\ job = NoJob
  /\ \E key \in stale \cup IF timer.st = "fired" THEN {timer.key} ELSE {} :
       LET current == timer.st = "fired" /\ timer.key = key
           due == SlotEndKey(doc) = key /\ t >= key
       IN /\ stale' = IF current THEN stale ELSE stale \ {key}
          /\ timer' = IF ~current THEN timer
                      ELSE IF ~due THEN NoTimer
                      ELSE [timer EXCEPT !.st = IF guard THEN "armed" ELSE "running"]
          /\ IF due /\ ~guard THEN Hold("deadline", "stop", doc, t, "none") ELSE UNCHANGED job
  /\ UNCHANGED <<facts, doc, device, asked, outside, manual, lapsed>>

DeadlineStop ==
  /\ Working("deadline", "stop")
  /\ LET end == WindowEnd(job.mem.slot)
         over == job.now >= end \/ job.mem.slot = end
     IN \E ok \in BOOLEAN :
          /\ Sets("adaptive", IF over THEN "auto" ELSE "standby", ok)
          /\ Goto("write", IF ~ok THEN job.mem ELSE IF over THEN Released(job.mem)
                           ELSE Suspended(job.mem, end))
  /\ UNCHANGED Locked

\* Mutant: a deadline that could not stop the charge is not enforced again.
DeadlineWriteOnce ==
  /\ Working("deadline", "write")
  /\ doc' = Merge(doc, job.base, job.mem)
  /\ timer' = NoTimer /\ stale' = stale
  /\ End
  /\ UNCHANGED <<facts, device, asked, outside, manual, lapsed>>

\* A failure arms the timer again, unless the write has replaced it.
DeadlineWrite ==
  /\ Working("deadline", "write")
  /\ doc' = Merge(doc, job.base, job.mem)
  /\ IF timer.st = "running" /\ SlotEndKey(doc') = timer.key
     THEN timer' = [timer EXCEPT !.st = "armed"] /\ stale' = stale
     ELSE SyncDeadline(doc')
  /\ End
  /\ UNCHANGED <<facts, device, asked, outside, manual, lapsed>>

----------------------------------------------------------------------------
(* Manual commands, the resume and the guard.                               *)

\* pauseForManualAction(), for a manual command or for a command that a save of settings
\* executes: it counts as manual.
PauseBegin ==
  /\ job = NoJob /\ ~backup
  /\ \E by \in {"manual", "settings"} :
       /\ by = "manual" => "manual" \in Actors /\ ~manual
       /\ by = "settings" => outside.kind = "settings" /\ outside.pc = "pause"
       /\ IF enabled
          THEN /\ Hold("pause", IF doc.owner \/ doc.hold # 0 THEN "free" ELSE "write", doc, t, by)
               /\ UNCHANGED <<outside, manual>>
          ELSE /\ UNCHANGED job
               /\ IF by = "manual" THEN manual' = TRUE /\ UNCHANGED outside
                  ELSE Proceed("auto", outside.mem) /\ UNCHANGED manual
  /\ UNCHANGED <<facts, doc, device, timer, stale, asked, lapsed>>

\* A release that fails fails the command, or the save, that asked for the pause.
PauseFree ==
  /\ Working("pause", "free")
  /\ \E ok \in BOOLEAN :
       /\ Sets("adaptive", "auto", ok)
       /\ IF ok THEN Goto("write", Released(job.mem)) ELSE End
       /\ outside' = IF ~ok /\ job.by = "settings" THEN Nobody ELSE outside
  /\ UNCHANGED <<facts, doc, timer, stale, asked, manual>>

PauseWrite ==
  /\ Working("pause", "write")
  /\ Commit(job.base, Paused(job.mem, Midnight(job.now)))
  /\ End
  /\ IF job.by = "manual" THEN manual' = TRUE /\ UNCHANGED outside
     ELSE Proceed("auto", outside.mem) /\ UNCHANGED manual
  /\ UNCHANGED <<facts, device, asked, lapsed>>

ManualCommand ==
  /\ manual
  /\ \E ok \in BOOLEAN : Sets("manual", "manual", ok)
  /\ manual' = FALSE
  /\ UNCHANGED <<facts, doc, timer, stale, asked, job, outside>>

ResumeBegin ==
  /\ job = NoJob /\ ~backup /\ "manual" \in Actors
  /\ Hold("resume", IF doc.hold # 0 THEN "free" ELSE "write", doc, t, "none")
  /\ UNCHANGED <<facts, doc, device, timer, stale, asked, outside, manual, lapsed>>

ResumeFree ==
  /\ Working("resume", "free")
  /\ \E ok \in BOOLEAN :
       /\ Sets("adaptive", "auto", ok)
       /\ IF ok THEN Goto("write", Held(job.mem, 0)) ELSE End
  /\ UNCHANGED Locked

ResumeWrite ==
  /\ Working("resume", "write")
  /\ Commit(job.base, Paused(job.mem, 0))
  /\ End
  /\ UNCHANGED <<facts, device, asked, outside, manual, lapsed>>

\* A run of the guard takes the battery, or returns it; it may leave Standby to Adaptive
\* Charging.
GuardTurns ==
  /\ "guard" \in Actors /\ Unattended
  /\ guard' = ~guard
  /\ \/ guard' /\ device' = "standby"
     \/ ~guard' /\ device' \in {"auto", device}
  /\ lapsed' = (lapsed /\ device' = "charge")
  /\ UNCHANGED <<t, enabled, backup, doc, timer, stale, asked, job, outside, manual>>

\* demand-guard-service.ts: a manual restore retires the ownership and evaluates at once.
GuardRestore ==
  /\ "guard" \in Actors /\ Unattended /\ guard
  /\ guard' = FALSE
  /\ device' = "auto" /\ lapsed' = FALSE
  /\ asked' = [kind |-> "restore", now |-> t]
  /\ UNCHANGED <<t, enabled, backup, doc, timer, stale, job, outside, manual>>

RestoreBegin ==
  /\ asked.kind = "restore" /\ job = NoJob
  /\ IF backup \/ ~enabled THEN UNCHANGED job ELSE Hold("restore", "write", Released(doc), t, "none")
  /\ asked' = Never
  /\ UNCHANGED <<facts, doc, device, timer, stale, outside, manual, lapsed>>

RestoreWrite ==
  /\ Working("restore", "write")
  /\ Commit(job.base, job.mem)
  /\ Goto("evaluate", job.mem)
  /\ UNCHANGED <<facts, device, asked, outside, manual, lapsed>>

\* The status cannot be read, or the evaluation begins.
RestoreEvaluate ==
  /\ Working("restore", "evaluate")
  /\ End \/ FirstStep(doc, t)
  /\ UNCHANGED <<Locked, device, lapsed>>

----------------------------------------------------------------------------
(* The writers outside exclusive().                                         *)

Enter(kind, pc, mem) == outside' = [kind |-> kind, pc |-> pc, mem |-> mem, base |-> doc]
Leave == outside' = Nobody
Outside(kind, pc) == outside.kind = kind /\ outside.pc = pc
Free == <<facts, doc, timer, stale, asked, job, manual>>

\* Inputs of Adaptive Charging change: configuration-commit-service.ts up to its release.
SettingsBegin ==
  /\ "settings" \in Actors /\ outside = Nobody
  /\ IF backup THEN Enter("settings", "write", Released(doc))
     ELSE Enter("settings", IF doc.owner THEN "release" ELSE IF doc.hold # 0 THEN "pause" ELSE "write", doc)
  /\ UNCHANGED <<Free, device, lapsed>>

\* Mutant: the settings are saved even if the charge could not be released.
SettingsReleaseAnyway ==
  /\ Outside("settings", "release")
  /\ \E ok \in BOOLEAN :
       /\ Sets("adaptive", "auto", ok)
       /\ Proceed("write", Released(outside.mem))
  /\ UNCHANGED Free

SettingsRelease ==
  /\ Outside("settings", "release")
  /\ \E ok \in BOOLEAN :
       /\ Sets("adaptive", "auto", ok)
       /\ IF ok THEN Proceed("write", Released(outside.mem)) ELSE Leave
  /\ UNCHANGED Free

SettingsAuto ==
  /\ Outside("settings", "auto")
  /\ \E ok \in BOOLEAN :
       /\ Sets("manual", "auto", ok)
       /\ IF ok THEN Proceed("write", Held(outside.mem, 0)) ELSE Leave
  /\ UNCHANGED Free

SettingsWrite ==
  /\ Outside("settings", "write")
  /\ Commit(outside.base, outside.mem)
  /\ enabled' \in BOOLEAN
  /\ Leave
  /\ UNCHANGED <<t, guard, backup, device, asked, job, manual, lapsed>>

\* backup-preparation-service.ts: start() under the automation lock, which may retire the
\* guard, and prepareAdaptiveCharging().
BackupStart ==
  /\ "backup" \in Actors /\ Unattended /\ outside = Nobody /\ ~backup
  /\ backup' = TRUE
  /\ guard' \in {guard, FALSE}
  /\ device' = IF guard' = guard THEN device ELSE "auto"
  /\ lapsed' = (lapsed /\ device' = "charge")
  /\ outside' = [Nobody EXCEPT !.kind = "backup", !.pc = "read"]
  /\ UNCHANGED <<t, enabled, doc, timer, stale, asked, job, manual>>

BackupRead ==
  /\ Outside("backup", "read")
  /\ Enter("backup", IF doc.owner \/ (doc.hold # 0 /\ ~guard) THEN "release" ELSE "write", Released(doc))
  /\ UNCHANGED <<Free, device, lapsed>>

\* A failed start is over; queueAdaptiveCharging() forgets the hold.
BackupRelease ==
  /\ Outside("backup", "release")
  /\ \E ok \in BOOLEAN :
       /\ Sets("backup", "auto", ok)
       /\ IF ok THEN /\ Proceed("write", outside.mem)
                     /\ UNCHANGED <<doc, timer, stale, backup>>
          ELSE /\ Leave /\ backup' = FALSE
               /\ Commit(doc, Held(doc, 0))
  /\ UNCHANGED <<t, enabled, guard, asked, job, manual>>

\* Then the start sets the mode and is done, or fails after all.
BackupWrite ==
  /\ Outside("backup", "write")
  /\ Commit(outside.base, outside.mem)
  /\ Leave
  /\ backup' \in BOOLEAN
  /\ device' \in IF guard THEN {device} ELSE IF backup' THEN {"auto"} ELSE {device, "auto"}
  /\ lapsed' = (lapsed /\ device' = "charge")
  /\ UNCHANGED <<t, enabled, guard, asked, job, manual>>

BackupEnd ==
  /\ backup /\ outside = Nobody
  /\ device' = IF guard THEN device ELSE "auto"
  /\ lapsed' = (lapsed /\ device' = "charge")
  /\ Commit(doc, Held(doc, 0))
  /\ backup' = FALSE
  /\ UNCHANGED <<t, enabled, guard, asked, job, outside, manual>>

----------------------------------------------------------------------------
Tick == /\ t < Horizon /\ t' = t + 1
        /\ UNCHANGED <<enabled, guard, backup, doc, device, timer, stale, asked, job, outside, manual, lapsed>>

\* runtime-coordinator.ts and, under Backup Preparation, reconcileOnStartup().
Restart ==
  /\ "restart" \in Actors /\ t < Horizon
  /\ asked' = Never /\ job' = NoJob /\ outside' = Nobody /\ manual' = FALSE
  /\ stale' = {}
  /\ timer' = IF backup \/ SlotEndKey(doc) = 0 THEN NoTimer
              ELSE [st |-> "armed", key |-> SlotEndKey(doc)]
  /\ \/ /\ backup /\ doc' = Released(doc)
        /\ device' = IF doc.owner \/ (doc.hold # 0 /\ ~guard) THEN "auto" ELSE device
     \/ /\ backup => doc.owner \/ doc.hold # 0
        /\ UNCHANGED <<doc, device>>
  /\ lapsed' = (device' = "charge" /\ (lapsed \/ ~doc'.owner))
  /\ UNCHANGED facts

Evaluate == \/ EvaluateExpire \/ EvaluateDecide \/ EvaluateDrop \/ EvaluateRefresh \/ EvaluateStop
            \/ EvaluateIdle \/ EvaluateCharge \/ EvaluateWait \/ EvaluateSolar \/ EvaluateUndo
            \/ EvaluateStandby \/ EvaluateWrite
Job == \/ Evaluate \/ DeadlineStop \/ DeadlineWrite \/ PauseFree \/ PauseWrite
       \/ ResumeFree \/ ResumeWrite \/ RestoreWrite \/ RestoreEvaluate
Writer == \/ SettingsRelease \/ SettingsAuto \/ SettingsWrite
          \/ BackupRead \/ BackupRelease \/ BackupWrite

Next == \/ Job \/ Writer \/ EvaluateAsk \/ EvaluateBegin \/ TimerFires \/ DeadlineBegin
        \/ PauseBegin \/ ManualCommand \/ ResumeBegin \/ GuardTurns \/ GuardRestore \/ RestoreBegin
        \/ SettingsBegin \/ BackupStart \/ BackupEnd \/ Tick \/ Restart

(* Workflows go on and the clock runs; the automation runs time and again;  *)
(* exclusive() serves its queue in order, so whoever waits gets his turn    *)
(* however many others come; and a command that is tried time and again     *)
(* succeeds in the end.                                                     *)
Fairness == /\ WF_vars(Job) /\ WF_vars(Writer) /\ WF_vars(Tick) /\ WF_vars(TimerFires)
            /\ SF_vars(EvaluateAsk) /\ SF_vars(EvaluateBegin \/ RestoreBegin) /\ SF_vars(DeadlineBegin)
            /\ SF_vars(DeadlineStop /\ ~job'.mem.owner)
            /\ SF_vars(EvaluateExpire /\ job'.pc = "decide")

Spec == Init /\ [][Next]_vars /\ Fairness

----------------------------------------------------------------------------
Modes == {"auto", "standby", "charge", "manual"}
Timers == [st : {"off", "armed", "fired", "running"}, key : Moments]
Asks == [kind : {"none", "evaluate", "restore"}, now : Moments]
Evaluating == {"expire", "decide", "drop", "refresh", "stop", "start", "solar", "undo", "standby", "write"}
Jobs == [kind : {"none", "evaluate", "deadline", "pause", "resume", "restore"},
         pc : Evaluating \cup {"idle", "free", "evaluate"},
         mem : Doc, base : Doc, now : Moments, by : {"none", "manual", "settings"}]
Outsiders == [kind : {"none", "settings", "backup"},
              pc : {"idle", "release", "pause", "auto", "write", "read"},
              mem : Doc, base : Doc]

(* Type correctness; an owner has a slot, and whoever is at work is not     *)
(* idle.  The converse is not true: a merge may leave a slot that nobody    *)
(* owns (adaptive-state-service.ts:55).                                     *)
TypeOK ==
  /\ t \in Moments /\ doc \in Doc
  /\ device \in Modes
  /\ enabled \in BOOLEAN /\ guard \in BOOLEAN /\ backup \in BOOLEAN
  /\ timer \in Timers /\ stale \subseteq Moments
  /\ asked \in Asks /\ job \in Jobs /\ outside \in Outsiders
  /\ manual \in BOOLEAN /\ lapsed \in BOOLEAN
  /\ doc.owner => doc.slot # 0
  /\ (job.kind = "none") = (job.pc = "idle") /\ (outside.kind = "none") = (outside.pc = "idle")

(* The end of every charge has a timer: whoever writes the document, in     *)
(* whatever order, and whatever an older timer finds when it fires.         *)
DeadlineArmed == doc.owner /\ ~backup => timer.st # "off" /\ timer.key = doc.slot /\ doc.slot # 0

(* A paused Adaptive Charging controls nothing: no write that began before  *)
(* the pause brings a charge or a hold back (the comment at                 *)
(* adaptive-state-service.ts:57).                                           *)
PausedOwnsNothing == doc.paused > t => ~doc.owner /\ doc.hold = 0

(* A charge has an owner, who will stop it: whatever fails, whoever else    *)
(* writes, unless Backup Preparation has the battery, the process stopped   *)
(* between the command and its record, the release of the charge overlapped *)
(* its renewal, or a failed start could not be undone.                      *)
ChargeIsOwned == device = "charge" /\ job.kind # "evaluate" /\ ~backup /\ ~lapsed => doc.owner

(* Adaptive Charging never overrides a manual command while it is paused.   *)
PauseHolds ==
  [][(Evaluate \/ DeadlineStop) /\ doc.paused > t => UNCHANGED device]_vars

(* A charge that is overdue ends, unless the guard or Backup Preparation    *)
(* takes the battery over.                                                  *)
OverdueChargeStops == doc.owner /\ t >= doc.slot ~> ~doc.owner \/ guard \/ backup

(* A hold that is over is released, unless the guard or Backup Preparation  *)
(* takes the battery over or Adaptive Charging is disabled.                 *)
HoldEnds == doc.hold # 0 /\ t >= doc.hold ~> doc.hold = 0 \/ guard \/ backup \/ ~enabled

=============================================================================

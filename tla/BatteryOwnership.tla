-------------------------- MODULE BatteryOwnership --------------------------
(***************************************************************************)
(* Charging Demand Guard and Backup Preparation: the two workflows that    *)
(* take a battery over and must give it back.                              *)
(*                                                                         *)
(* The automation run (automation-orchestrator.ts and                      *)
(* automation-rule-evaluator.ts) puts the battery in Standby when demand   *)
(* comes too near the breaker, remembers it in the state of the rule, and  *)
(* returns it to Auto later; demand-guard-service.ts does so on request.   *)
(* Backup Preparation (backup-preparation-service.ts) records the charging *)
(* profile of the battery, forces the backup profile, blocks every other   *)
(* source of commands and restores the profile when it ends.               *)
(*                                                                         *)
(* automationStoreService.exclusive serializes the automation run, the     *)
(* manual restore, the start of Backup Preparation and changes of the      *)
(* rules: "guard" is what its holder is doing.  operationalOverrides.mutate*)
(* serializes the operations of Backup Preparation: "backup" is the one    *)
(* under way.  The end of Backup Preparation holds only the second lock    *)
(* and interleaves with everything the first one serializes.               *)
(*                                                                         *)
(* The demand is not a variable: a rule meets any class of demand that its *)
(* conditions tell apart.  Adaptive Charging, which the run evaluates last *)
(* and both workflows replan, is one of the "other" sources of commands.   *)
(***************************************************************************)
EXTENDS Integers

CONSTANTS N,        \* number of Demand Guard rules
          Lapses    \* what may happen that the code does not survive

(* "stop": the process stops while the intervention of a guard, or its      *)
(* release, is recorded on one side only; "release": the command that      *)
(* releases a guard fails; "restore": a failed start fails to restore the  *)
(* profile; "late": a command passes its check before a start and is       *)
(* carried out after it.                                                   *)
AllLapses == {"stop", "release", "restore", "late"}

ASSUME NAssumption == N \in Nat \ {0}
ASSUME LapsesAssumption == Lapses \subseteq AllLapses

Rules == 1..N
Modes == {"auto", "standby", "charging"}
Profiles == {"eco", "backup"}

VARIABLES conf,      \* document "automationRules": each rule enabled, disabled or deleted
          state,     \* document "automationRuleState"
          override,  \* document "operationalOverrides"
          mode,      \* operation mode of the battery
          profile,   \* charging profile of the battery
          guard,     \* the holder of the automation lock
          backup,    \* the holder of the override lock
          pending,   \* a command of another source past assertActionAllowed
          by,        \* ghost: who wrote the mode last
          chosen     \* ghost: the profile the user chose last

documents == <<conf, state, override>>
battery == <<mode, profile>>
ghosts == <<by, chosen>>
vars == <<documents, battery, guard, backup, pending, ghosts>>

Idle == [awaiting |-> FALSE, since |-> FALSE]
RuleStates == [awaiting : BOOLEAN, since : BOOLEAN]

\* A rule is evaluated by steps; the manual restore and Backup Preparation hold the lock too.
Evaluating == {"rule", "check", "write"}
Guards == {g \in [pc : {"idle", "status", "persist", "restore-check", "restore-write", "backup"}
                        \cup Evaluating,
                  i : 1..(N + 1), rules : [Rules -> RuleStates], seen : Modes \cup {"unknown"},
                  skip : BOOLEAN, goal : Modes] : g.pc \in Evaluating => g.i \in Rules}
Overrides == [phase : {"inactive", "starting", "active", "ending"}, allow : BOOLEAN,
              previous : Profiles, ok : BOOLEAN]
Backups == [op : {"none", "start", "end", "startup"},
            pc : {"idle", "record", "release", "release-auto", "prepare", "profile", "auto",
                  "auto-write", "undo", "finish"},
            seen : Profiles, ok : BOOLEAN]

Free == [pc |-> "idle", i |-> 1, rules |-> [r \in Rules |-> Idle], seen |-> "auto",
         skip |-> FALSE, goal |-> "auto"]
NoBackup == [op |-> "none", pc |-> "idle", seen |-> "eco", ok |-> TRUE]

Init == /\ conf \in [Rules -> {"enabled", "disabled"}]
        /\ state = [r \in Rules |-> Idle]
        /\ override = [phase |-> "inactive", allow |-> TRUE, previous |-> "eco", ok |-> TRUE]
        /\ mode = "auto" /\ profile \in Profiles
        /\ guard = Free /\ backup = NoBackup /\ pending = "none"
        /\ by = "other" /\ chosen = profile

Blocks == override.phase # "inactive"
GuardAllowed == Blocks => override.allow
GuardActive == \E r \in Rules : conf[r] = "enabled" /\ state[r].awaiting

\* A command of the device: one that succeeds took effect, one that fails may have.
Outcomes == {o \in [ok : BOOLEAN, took : BOOLEAN] : o.ok => o.took}
SetMode(o, m, who) == /\ mode' = IF o.took THEN m ELSE mode
                      /\ by' = IF o.took THEN who ELSE by

----------------------------------------------------------------------------
(* The automation run.                                                     *)

RunStart ==
  /\ guard.pc = "idle" /\ backup.op # "startup"
  /\ \E r \in Rules : conf[r] = "enabled"
  /\ guard' = [Free EXCEPT !.pc = "status", !.rules = state, !.skip = ~GuardAllowed]
  /\ UNCHANGED <<documents, battery, backup, pending, ghosts>>

\* getStatusSnapshot(): the mode, which may be unavailable, or a failure that ends the run.
RunStatus ==
  /\ guard.pc = "status"
  /\ guard' \in {[guard EXCEPT !.pc = "rule", !.seen = seen] : seen \in {mode, "unknown"}} \cup {Free}
  /\ UNCHANGED <<documents, battery, backup, pending, ghosts>>

\* Mutant: one rule too many.
NextRuleOffByOne(s) == [guard EXCEPT !.rules[guard.i] = s, !.i = @ + 1,
                                     !.pc = IF guard.i > N THEN "persist" ELSE "rule"]

NextRule(s) == [guard EXCEPT !.rules[guard.i] = s, !.i = @ + 1,
                             !.pc = IF guard.i = N THEN "persist" ELSE "rule"]
Execute(s, goal) == [guard EXCEPT !.rules[guard.i] = s, !.pc = "check", !.goal = goal]

\* evaluateAutomationRule() up to its command.  The delay before a restore may be 0.
Evaluations(s, seen) ==
  LET waiting == [s EXCEPT !.since = TRUE]
      reset == [s EXCEPT !.since = FALSE]
      onStandby == {NextRule(reset), NextRule(waiting), Execute(waiting, "auto")}
  IN {NextRule(s)} \cup
     IF ~s.awaiting
     THEN IF seen = "standby" THEN {} ELSE {Execute([awaiting |-> TRUE, since |-> FALSE], "standby")}
     ELSE IF seen \in {"standby", "unknown"} THEN onStandby ELSE {Execute(s, "standby")}

\* Mutant: the intent of the guard is recorded after the command succeeded.
RunRuleLateIntent ==
  /\ guard.pc = "rule"
  /\ LET r == guard.i
         s == guard.rules[r]
     IN guard' \in IF conf[r] = "enabled" /\ ~guard.skip
                   THEN {[g EXCEPT !.rules[r].awaiting = s.awaiting] : g \in Evaluations(s, guard.seen)}
                   ELSE {NextRule(s)}
  /\ UNCHANGED <<documents, battery, backup, pending, ghosts>>

RunRule ==
  /\ guard.pc = "rule"
  /\ LET s == guard.rules[guard.i]
     IN guard' \in IF conf[guard.i] = "enabled" /\ ~guard.skip
                   THEN Evaluations(s, guard.seen) ELSE {NextRule(s)}
  /\ UNCHANGED <<documents, battery, backup, pending, ghosts>>

\* assertActionAllowed("charging-demand-guard"): a refusal is recorded in the rule.
RunCheck ==
  /\ guard.pc = "check"
  /\ guard' = IF GuardAllowed THEN [guard EXCEPT !.pc = "write"] ELSE NextRule(guard.rules[guard.i])
  /\ UNCHANGED <<documents, battery, backup, pending, ghosts>>

\* The command, its verification and recordGuardTrigger(); after a failure the rule
\* keeps what it had before the command.
RunWrite ==
  /\ guard.pc = "write"
  /\ \E o \in Outcomes :
       /\ SetMode(o, guard.goal, IF guard.goal = "standby" THEN "guard" ELSE "other")
       /\ guard' = NextRule(IF o.ok THEN [awaiting |-> guard.goal = "standby", since |-> FALSE]
                                    ELSE guard.rules[guard.i])
  /\ UNCHANGED <<documents, profile, backup, pending, chosen>>

\* writeAutomationRuleStates(): the states of all rules at once, after the last rule.
RunPersist ==
  /\ guard.pc = "persist"
  /\ state' = guard.rules
  /\ guard' = Free
  /\ UNCHANGED <<conf, override, battery, backup, pending, ghosts>>

----------------------------------------------------------------------------
(* The manual restore and the changes of the rules, under the same lock.   *)

RestoreStart ==
  /\ guard.pc = "idle" /\ backup.op # "startup"
  /\ GuardAllowed
  /\ \E r \in Rules : state[r].awaiting
  /\ guard' = [Free EXCEPT !.pc = "restore-check", !.rules = state]
  /\ UNCHANGED <<documents, battery, backup, pending, ghosts>>

RestoreCheck ==
  /\ guard.pc = "restore-check"
  /\ guard' = IF GuardAllowed THEN [guard EXCEPT !.pc = "restore-write"] ELSE Free
  /\ UNCHANGED <<documents, battery, backup, pending, ghosts>>

RestoreWrite ==
  /\ guard.pc = "restore-write"
  /\ \E o \in Outcomes :
       /\ SetMode(o, "auto", "other")
       /\ guard' = IF o.ok
                   THEN [guard EXCEPT !.pc = "persist",
                           !.rules = [r \in Rules |-> IF @[r].awaiting THEN Idle ELSE @[r]]]
                   ELSE Free
  /\ UNCHANGED <<documents, profile, backup, pending, chosen>>

\* PATCH keeps the state of the rule, POST adds one and DELETE drops one with its
\* state, which leaves a battery in Standby to the user.
RuleConfigure ==
  /\ guard.pc = "idle" /\ backup.op # "startup"
  /\ \E r \in Rules, c \in {"enabled", "disabled", "deleted"} :
       /\ conf' = [conf EXCEPT ![r] = c]
       /\ IF c = "deleted"
          THEN /\ state' = [state EXCEPT ![r] = Idle]
               /\ by' = IF state[r].awaiting THEN "other" ELSE by
          ELSE UNCHANGED <<state, by>>
  /\ UNCHANGED <<override, battery, guard, backup, pending, chosen>>

----------------------------------------------------------------------------
(* Backup Preparation: start, end and reconcileOnStartup.                  *)

Locked == backup.op = "start"
Go(pc) == [backup EXCEPT !.pc = pc]
Continue(ok, pc) == Go(IF ok THEN pc ELSE "undo")

\* Mutant: the start does not wait for the automation lock.
BackupStartUnlocked ==
  /\ backup.op = "none" /\ ~Blocks /\ pending = "none"
  /\ backup' = [op |-> "start", pc |-> "record", seen |-> profile, ok |-> TRUE]
  /\ UNCHANGED <<documents, battery, guard, pending, ghosts>>

\* The two locks and the reading of the present profile.
BackupStart ==
  /\ backup.op = "none" /\ guard.pc = "idle" /\ ~Blocks
  /\ pending = "none" \/ "late" \in Lapses
  /\ guard' = [Free EXCEPT !.pc = "backup"]
  /\ backup' = [op |-> "start", pc |-> "record", seen |-> profile, ok |-> TRUE]
  /\ UNCHANGED <<documents, battery, pending, ghosts>>

BackupRecord ==
  /\ backup.pc = "record"
  /\ \E allow \in BOOLEAN :
       override' = [phase |-> "starting", allow |-> allow, previous |-> backup.seen, ok |-> FALSE]
  /\ backup' = Go("release")
  /\ UNCHANGED <<conf, state, battery, guard, pending, ghosts>>

\* reconcileAwayReserve(), which may fail, and releaseDemandGuard() up to its command.
BackupRelease ==
  /\ backup.pc = "release"
  /\ \/ Locked /\ backup' = Go("undo") /\ UNCHANGED state
     \/ LET release == ~override.allow /\ \E r \in Rules : state[r].awaiting
        IN /\ backup' = Go(IF release THEN "release-auto" ELSE "prepare")
           /\ state' = [r \in Rules |-> IF release /\ state[r].awaiting THEN Idle ELSE state[r]]
  /\ UNCHANGED <<conf, override, battery, guard, pending, ghosts>>

BackupReleaseAuto ==
  /\ backup.pc = "release-auto"
  /\ \E o \in Outcomes : /\ o.ok \/ "release" \in Lapses
                         /\ SetMode(o, "auto", "other")
                         /\ backup' = Continue(o.ok, "prepare")
  /\ UNCHANGED <<documents, profile, guard, pending, chosen>>

\* prepareAdaptiveCharging(): whatever Adaptive Charging holds is released to Auto.
BackupPrepare ==
  /\ backup.pc = "prepare"
  /\ \/ backup' = Go("profile") /\ UNCHANGED <<mode, by>>
     \/ \E o \in Outcomes : SetMode(o, "auto", "other") /\ backup' = Continue(o.ok, "profile")
  /\ UNCHANGED <<documents, profile, guard, pending, chosen>>

SetProfile(o, p) == profile' = IF o.took THEN p ELSE profile

\* Mutant: the profile is not read back after the command.
BackupProfileUnverified ==
  /\ backup.pc = "profile"
  /\ \E o \in Outcomes : SetProfile(o, IF backup.op = "end" THEN override.previous ELSE "backup")
  /\ backup' = Go(IF backup.op = "startup" THEN "finish" ELSE "auto")
  /\ UNCHANGED <<documents, mode, guard, pending, ghosts>>

\* setAndVerifyBatteryChargingProfile() of the profile the operation leads to.
BackupProfile ==
  /\ backup.pc = "profile"
  /\ \E o \in Outcomes :
       /\ SetProfile(o, IF backup.op = "end" THEN override.previous ELSE "backup")
       /\ backup' = Continue(o.ok, IF backup.op = "startup" THEN "finish" ELSE "auto")
  /\ UNCHANGED <<documents, mode, guard, pending, ghosts>>

\* A guard that is still awaiting keeps Standby; otherwise the battery returns to Auto.
BackupAuto ==
  /\ backup.pc = "auto"
  /\ backup' = Go(IF GuardActive /\ (backup.op = "end" \/ override.allow) THEN "finish" ELSE "auto-write")
  /\ UNCHANGED <<documents, battery, guard, pending, ghosts>>

BackupAutoWrite ==
  /\ backup.pc = "auto-write"
  /\ \E o \in Outcomes : SetMode(o, "auto", "other") /\ backup' = Continue(o.ok, "finish")
  /\ UNCHANGED <<documents, profile, guard, pending, chosen>>

\* A failure: the start restores the profile it found, the end keeps the backup profile.
BackupUndo ==
  /\ backup.pc = "undo"
  /\ CASE backup.op = "start" /\ override.previous # "backup" ->
            \E o \in Outcomes : (o.ok \/ "restore" \in Lapses) /\ SetProfile(o, override.previous)
       [] backup.op = "end" -> \E o \in Outcomes : SetProfile(o, "backup")
       [] OTHER -> UNCHANGED profile
  /\ backup' = [Go("finish") EXCEPT !.ok = FALSE]
  /\ UNCHANGED <<documents, mode, guard, pending, ghosts>>

\* Mutant: an end that failed is over all the same.
BackupFinishAnyway ==
  /\ backup.pc = "finish"
  /\ override' = [override EXCEPT !.phase = IF backup.op = "end" THEN "inactive" ELSE "active",
                                  !.ok = backup.ok]
  /\ backup' = NoBackup
  /\ guard' = IF Locked THEN Free ELSE guard
  /\ UNCHANGED <<conf, state, battery, pending, ghosts>>

BackupFinish ==
  /\ backup.pc = "finish"
  /\ override' = [override EXCEPT
       !.phase = IF \/ backup.op = "end" /\ backup.ok
                    \/ backup.op = "start" /\ ~backup.ok THEN "inactive" ELSE "active",
       !.ok = backup.ok]
  /\ backup' = NoBackup
  /\ guard' = IF Locked THEN Free ELSE guard
  /\ UNCHANGED <<conf, state, battery, pending, ghosts>>

BackupEnd ==
  /\ backup.op = "none" /\ Blocks
  /\ override' = [override EXCEPT !.phase = "ending"]
  /\ backup' = [NoBackup EXCEPT !.op = "end", !.pc = "profile"]
  /\ UNCHANGED <<conf, state, battery, guard, pending, ghosts>>

----------------------------------------------------------------------------
(* The other sources of commands, the battery itself and the process.      *)

\* executeCore() of a manual, scheduled or Adaptive Charging command: the check ...
OtherCheck ==
  /\ pending = "none" /\ ~Blocks
  /\ ~Locked \/ "late" \in Lapses
  /\ pending' \in Modes \cup Profiles
  /\ UNCHANGED <<documents, battery, guard, backup, ghosts>>

\* ... and, after other awaits, the command.
OtherWrite ==
  /\ pending # "none"
  /\ \E took \in BOOLEAN :
       IF pending \in Modes
       THEN SetMode([took |-> took], pending, "other") /\ UNCHANGED <<profile, chosen>>
       ELSE /\ SetProfile([took |-> took], pending) /\ UNCHANGED <<mode, by>>
            /\ chosen' = IF took THEN pending ELSE chosen
  /\ pending' = "none"
  /\ UNCHANGED <<documents, guard, backup>>

External ==
  /\ mode' \in Modes /\ by' = "other"
  /\ UNCHANGED <<documents, profile, guard, backup, pending, chosen>>

\* An intervention, or its release, that only one side knows of.
InMemory == \/ \E r \in Rules : guard.rules[r].awaiting /\ ~state[r].awaiting
            \/ backup.pc = "release-auto"

\* The process stops and starts again, with reconcileOnStartup() before anything else.
Restart ==
  /\ ~InMemory \/ "stop" \in Lapses
  /\ guard' = Free /\ pending' = "none"
  /\ backup' = IF Blocks THEN [NoBackup EXCEPT !.op = "startup", !.pc = "release"] ELSE NoBackup
  /\ UNCHANGED <<documents, battery, ghosts>>

Next == \/ RunStart \/ RunStatus \/ RunRule \/ RunCheck \/ RunWrite \/ RunPersist
        \/ RestoreStart \/ RestoreCheck \/ RestoreWrite \/ RuleConfigure
        \/ BackupStart \/ BackupRecord \/ BackupRelease \/ BackupReleaseAuto \/ BackupPrepare
        \/ BackupProfile \/ BackupAuto \/ BackupAutoWrite \/ BackupUndo \/ BackupFinish \/ BackupEnd
        \/ OtherCheck \/ OtherWrite \/ External \/ Restart

Spec == Init /\ [][Next]_vars

----------------------------------------------------------------------------
(* Type correctness, with the rule being evaluated being one of the rules. *)
TypeOK ==
  /\ conf \in [Rules -> {"enabled", "disabled", "deleted"}]
  /\ state \in [Rules -> RuleStates]
  /\ override \in Overrides /\ mode \in Modes /\ profile \in Profiles
  /\ guard \in Guards /\ backup \in Backups
  /\ pending \in Modes \cup Profiles \cup {"none"}
  /\ by \in {"guard", "other"} /\ chosen \in Profiles

(* A battery that a guard put in Standby can be returned to Auto: some rule *)
(* is known to await a restore, in the document or in the run that will     *)
(* write it, or the release of the guard is under way.  It relates the      *)
(* order of command and record in the evaluator, in the manual restore and  *)
(* in releaseDemandGuard() to failures and restarts between them.           *)
StandbyHasRestorePath ==
  mode = "standby" /\ by = "guard" =>
    \/ \E r \in Rules : state[r].awaiting \/ guard.rules[r].awaiting
    \/ backup.pc = "release-auto"

(* A guard command is never under way while a Backup Preparation that       *)
(* disallows the guard owns the battery: the start waits for the automation *)
(* lock, so the permission a command was given cannot be withdrawn before   *)
(* the command is over.                                                     *)
GuardHonoursPolicy == guard.pc \in {"write", "restore-write"} => GuardAllowed

(* Backup Preparation reports success only while the battery has the backup *)
(* profile, after starts, failed ends and restarts alike.                   *)
ActiveIsBackup == override.phase = "active" /\ override.ok => profile = "backup"

(* The profile the user chose is never lost: the battery has it, or it is   *)
(* the one that the override in force will restore.                         *)
ProfileKept == IF Blocks THEN override.previous = chosen ELSE profile = chosen
============================================================================

----------------------- MODULE BatteryOwnershipProofs -----------------------
(***************************************************************************)
(* What Demand Guard and Backup Preparation give back, for any number of   *)
(* rules.  Every theorem assumes away the lapses that break its property,  *)
(* and no other: the guard's restore path survives a failed restoration of *)
(* the profile and a late command; the profiles survive a stop and a       *)
(* failed release; types and policy survive all four.                      *)
(***************************************************************************)
EXTENDS BatteryOwnership, TLAPS

-----------------------------------------------------------------------------
(* Who holds which lock, in which phase.                                    *)

\* A start of Backup Preparation holds the automation lock all the while, the operation
\* at startup runs before any automation, and an end takes no part of that lock.  The
\* override blocks from the record on, in the phase of the operation under way, and the
\* operation has not failed until it comes to "undo".
Turns ==
  /\ backup.op = "start" <=> guard.pc = "backup"
  /\ backup.op = "none" <=> backup.pc = "idle"
  /\ guard.pc = "status" => guard.i = 1
  /\ backup.op = "startup" => guard.pc = "idle"
  /\ backup.pc \in {"release", "release-auto"} => backup.op # "end"
  /\ backup.pc \in {"auto", "auto-write"} => backup.op # "startup"
  /\ backup.pc = "record" => backup.op = "start" /\ ~Blocks
  /\ backup.op # "none" /\ backup.pc # "record" => Blocks
  /\ backup.op = "start" /\ Blocks => override.phase = "starting"
  /\ backup.op = "end" => override.phase = "ending"
  /\ backup.pc \notin {"idle", "undo", "finish"} => backup.ok

\* What every other argument rests on; no lapse breaks it.
Base == TypeOK /\ Turns /\ GuardHonoursPolicy

-----------------------------------------------------------------------------
(* The records the steps are built from.                                    *)

LEMMA FreeType ==
  /\ Idle \in RuleStates /\ Free \in Guards /\ NoBackup \in Backups
  /\ Free.pc = "idle" /\ Free.rules = [r \in Rules |-> Idle]
  /\ NoBackup.op = "none" /\ NoBackup.pc = "idle"
  BY NAssumption DEF Idle, RuleStates, Free, Guards, NoBackup, Backups, Rules, Modes, Profiles, Evaluating

\* The next rule is one of the rules, or the run is over.
LEMMA NextRuleType ==
  ASSUME guard \in Guards, guard.pc \in Evaluating, NEW s \in RuleStates
  PROVE  /\ NextRule(s) \in Guards
         /\ NextRule(s).pc \in {"rule", "persist"}
         /\ NextRule(s).rules = [guard.rules EXCEPT ![guard.i] = s]
  <1> DEFINE rules == [guard.rules EXCEPT ![guard.i] = s]
             pc == IF guard.i = N THEN "persist" ELSE "rule"
  <1>1. rules \in [Rules -> RuleStates] /\ guard.i \in Rules /\ guard.i + 1 \in 1..(N + 1)
    BY NAssumption DEF Guards, Rules
  <1>2. pc = "rule" => guard.i + 1 \in Rules
    BY <1>1, NAssumption DEF Rules
  <1>3. NextRule(s) = [guard EXCEPT !.rules = rules, !.i = guard.i + 1, !.pc = pc]
    BY DEF NextRule, Guards
  <1>4. pc \in {"rule", "persist"}
    OBVIOUS
  <1> HIDE DEF rules, pc
  <1>5. NextRule(s) \in Guards /\ NextRule(s).pc = pc /\ NextRule(s).rules = rules
    BY <1>1, <1>2, <1>3, <1>4 DEF Guards, Evaluating
  <1> QED
    BY <1>4, <1>5 DEF rules

LEMMA ExecuteType ==
  ASSUME guard \in Guards, guard.pc \in Evaluating, NEW s \in RuleStates, NEW goal \in Modes
  PROVE  /\ Execute(s, goal) \in Guards
         /\ Execute(s, goal).pc = "check"
         /\ Execute(s, goal).goal = goal /\ Execute(s, goal).i = guard.i
         /\ Execute(s, goal).rules = [guard.rules EXCEPT ![guard.i] = s]
  BY NAssumption DEF Execute, Guards, Rules, Evaluating

LEMMA GoType ==
  ASSUME backup \in Backups,
         NEW pc \in {"idle", "record", "release", "release-auto", "prepare", "profile", "auto",
                     "auto-write", "undo", "finish"}
  PROVE  /\ Go(pc) \in Backups /\ Go(pc).pc = pc
         /\ Go(pc).op = backup.op /\ Go(pc).seen = backup.seen /\ Go(pc).ok = backup.ok
  BY DEF Go, Backups


\* An evaluation keeps what the rule awaits, or records the intent of its command.
LEMMA EvaluationsType ==
  ASSUME guard \in Guards, guard.pc \in Evaluating, NEW s \in RuleStates, NEW seen,
         NEW g \in Evaluations(s, seen)
  PROVE  \E u \in RuleStates :
           \/ g = NextRule(u) /\ (u.awaiting <=> s.awaiting)
           \/ g = Execute(u, "auto") /\ (u.awaiting <=> s.awaiting)
           \/ g = Execute(u, "standby") /\ u.awaiting
  <1> DEFINE waiting == [s EXCEPT !.since = TRUE]
             reset == [s EXCEPT !.since = FALSE]
             intent == [awaiting |-> TRUE, since |-> FALSE]
  <1>1. waiting \in RuleStates /\ (waiting.awaiting <=> s.awaiting)
    BY DEF RuleStates
  <1>2. reset \in RuleStates /\ (reset.awaiting <=> s.awaiting)
    BY DEF RuleStates
  <1>3. intent \in RuleStates /\ intent.awaiting
    BY DEF RuleStates
  <1>4. \/ g \in {NextRule(s), NextRule(reset), NextRule(waiting), Execute(waiting, "auto")}
        \/ g = Execute(intent, "standby")
        \/ s.awaiting /\ g = Execute(s, "standby")
    BY DEF Evaluations
  <1> HIDE DEF waiting, reset, intent
  <1> QED
    BY <1>1, <1>2, <1>3, <1>4

-----------------------------------------------------------------------------
(* Types, turns and the policy.                                             *)

\* What runs under the automation lock, Backup Preparation apart.
Automation == \/ RunStart \/ RunStatus \/ RunRule \/ RunCheck \/ RunWrite \/ RunPersist
              \/ RestoreStart \/ RestoreCheck \/ RestoreWrite \/ RuleConfigure

\* It leaves Backup Preparation alone, and no command begins that the policy forbids.
LEMMA AutomationShape ==
  ASSUME Base, Automation
  PROVE  /\ conf' \in [Rules -> {"enabled", "disabled", "deleted"}]
         /\ guard'.pc = "status" => guard'.i = 1
         /\ state' \in [Rules -> RuleStates]
         /\ mode' \in Modes /\ by' \in {"guard", "other"} /\ guard' \in Guards
         /\ guard.pc # "backup" /\ guard'.pc # "backup" /\ backup.op # "startup"
         /\ guard'.pc \in {"write", "restore-write"} => GuardAllowed
         /\ UNCHANGED <<override, profile, backup, pending, chosen>>
  <1>1. /\ conf \in [Rules -> {"enabled", "disabled", "deleted"}]
        /\ state \in [Rules -> RuleStates]
        /\ mode \in Modes /\ by \in {"guard", "other"} /\ guard \in Guards /\ backup \in Backups
        /\ backup.op = "startup" => guard.pc = "idle"
        /\ guard.rules \in [Rules -> RuleStates]
    BY DEF Base, TypeOK, Turns, Guards
  <1>2. CASE RunStart
    <2> DEFINE g == [Free EXCEPT !.pc = "status", !.rules = state, !.skip = ~GuardAllowed]
    <2>1. g \in Guards /\ g.pc = "status" /\ g.i = 1
      BY <1>1, FreeType DEF Guards, Evaluating, Free
    <2> HIDE DEF g
    <2>2. guard' = g
      BY <1>2 DEF RunStart, g
    <2> QED
      BY <1>1, <1>2, <2>1, <2>2 DEF RunStart, documents, battery, ghosts
  <1>3. CASE RunStatus
    <2>1. guard.i \in Rules /\ guard.i = 1
      BY <1>3, NAssumption DEF RunStatus, Base, Turns, Rules
    <2>2. ASSUME NEW seen \in {mode, "unknown"}
          PROVE  /\ [guard EXCEPT !.pc = "rule", !.seen = seen] \in Guards
                 /\ [guard EXCEPT !.pc = "rule", !.seen = seen].pc = "rule"
      BY <1>1, <2>1 DEF Guards, Evaluating
    <2>3. guard' \in Guards /\ guard'.pc \in {"rule", "idle"}
      BY <1>3, <2>2, FreeType DEF RunStatus
    <2> QED
      BY <1>1, <1>3, <2>3 DEF RunStatus, documents, battery, ghosts
  <1>4. CASE RunRule
    <2> DEFINE s == guard.rules[guard.i]
    <2>1. guard.i \in Rules /\ s \in RuleStates /\ guard.pc = "rule"
      BY <1>1, <1>4 DEF RunRule, Guards, Evaluating
    <2>2. PICK u \in RuleStates :
            guard' = NextRule(u) \/ guard' = Execute(u, "auto") \/ guard' = Execute(u, "standby")
      <3>1. guard' \in Evaluations(s, guard.seen) \/ guard' = NextRule(s)
        BY <1>4 DEF RunRule
      <3>2. guard.pc \in Evaluating
        BY <2>1 DEF Evaluating
      <3> HIDE DEF s
      <3> QED
        BY <1>1, <2>1, <3>1, <3>2, EvaluationsType
    <2>3. guard' \in Guards /\ guard'.pc \in {"rule", "check", "persist"}
      <3>1. guard.pc \in Evaluating /\ "auto" \in Modes /\ "standby" \in Modes
        BY <2>1 DEF Evaluating, Modes
      <3> HIDE DEF s
      <3>2. CASE guard' = NextRule(u)
        BY <1>1, <3>1, <3>2, NextRuleType
      <3>3. CASE guard' = Execute(u, "auto") \/ guard' = Execute(u, "standby")
        <4>1. ASSUME NEW goal \in Modes, guard' = Execute(u, goal)
              PROVE  guard' \in Guards /\ guard'.pc = "check"
          BY <1>1, <3>1, <4>1, ExecuteType
        <4> QED
          BY <3>1, <3>3, <4>1
      <3> QED
        BY <2>2, <3>2, <3>3
    <2> QED
      BY <1>1, <1>4, <2>3 DEF RunRule, documents, battery, ghosts
  <1>5. CASE RunCheck
    <2>1. guard.pc = "check" /\ guard.rules[guard.i] \in RuleStates
      BY <1>1, <1>5 DEF RunCheck, Guards, Evaluating
    <2>2. CASE GuardAllowed
      <3>1. guard' = [guard EXCEPT !.pc = "write"]
        BY <1>5, <2>2 DEF RunCheck
      <3>2. guard' \in Guards /\ guard'.pc = "write"
        BY <1>1, <2>1, <3>1 DEF Guards, Evaluating
      <3> QED
        BY <1>1, <1>5, <2>2, <3>2 DEF RunCheck, documents, battery, ghosts
    <2>3. CASE ~GuardAllowed
      <3>1. guard' \in Guards /\ guard'.pc \in {"rule", "persist"}
        BY <1>1, <1>5, <2>1, <2>3, NextRuleType DEF RunCheck, Evaluating
      <3> QED
        BY <1>1, <1>5, <3>1 DEF RunCheck, documents, battery, ghosts
    <2> QED
      BY <2>2, <2>3
  <1>6. CASE RunWrite
    <2>1. guard.pc = "write" /\ guard.rules[guard.i] \in RuleStates /\ guard.goal \in Modes
      BY <1>1, <1>6 DEF RunWrite, Guards, Evaluating
    <2>2. PICK o \in Outcomes :
            /\ SetMode(o, guard.goal, IF guard.goal = "standby" THEN "guard" ELSE "other")
            /\ guard' = NextRule(IF o.ok THEN [awaiting |-> guard.goal = "standby", since |-> FALSE]
                                 ELSE guard.rules[guard.i])
      BY <1>6 DEF RunWrite
    <2>3. [awaiting |-> guard.goal = "standby", since |-> FALSE] \in RuleStates
      BY DEF RuleStates
    <2>4. guard' \in Guards /\ guard'.pc \in {"rule", "persist"}
      BY <1>1, <2>1, <2>2, <2>3, NextRuleType DEF Evaluating
    <2>5. mode' \in Modes /\ by' \in {"guard", "other"}
      BY <1>1, <2>1, <2>2 DEF SetMode
    <2> QED
      BY <1>1, <1>6, <2>4, <2>5 DEF RunWrite, documents
  <1>7. CASE RunPersist
    BY <1>1, <1>7, FreeType DEF RunPersist, battery, ghosts
  <1>8. CASE RestoreStart
    <2> DEFINE g == [Free EXCEPT !.pc = "restore-check", !.rules = state]
    <2>1. g \in Guards /\ g.pc = "restore-check"
      BY <1>1, FreeType DEF Guards, Evaluating
    <2> HIDE DEF g
    <2>2. guard' = g
      BY <1>8 DEF RestoreStart, g
    <2> QED
      BY <1>1, <1>8, <2>1, <2>2 DEF RestoreStart, documents, battery, ghosts
  <1>9. CASE RestoreCheck
    <2> DEFINE g == [guard EXCEPT !.pc = "restore-write"]
    <2>1. g \in Guards /\ g.pc = "restore-write"
      BY <1>1 DEF Guards, Evaluating
    <2> HIDE DEF g
    <2>2. guard' = IF GuardAllowed THEN g ELSE Free
      BY <1>9 DEF RestoreCheck, g
    <2> QED
      BY <1>1, <1>9, <2>1, <2>2, FreeType DEF RestoreCheck, documents, battery, ghosts
  <1>10. CASE RestoreWrite
    <2> DEFINE rules == [r \in Rules |-> IF guard.rules[r].awaiting THEN Idle ELSE guard.rules[r]]
               g == [guard EXCEPT !.pc = "persist", !.rules = rules]
    <2>1. rules \in [Rules -> RuleStates]
      BY <1>1, FreeType
    <2>2. g \in Guards /\ g.pc = "persist"
      BY <1>1, <2>1 DEF Guards, Evaluating
    <2>3. PICK o \in Outcomes : SetMode(o, "auto", "other") /\ guard' = IF o.ok THEN g ELSE Free
      BY <1>10 DEF RestoreWrite
    <2> HIDE DEF g
    <2>4. mode' \in Modes /\ by' \in {"guard", "other"}
      BY <1>1, <2>3 DEF SetMode, Modes
    <2>5. guard' \in Guards /\ guard'.pc \in {"persist", "idle"}
      BY <2>2, <2>3, FreeType
    <2> QED
      BY <1>1, <1>10, <2>4, <2>5 DEF RestoreWrite, documents
  <1>11. CASE RuleConfigure
    BY <1>1, <1>11, FreeType DEF RuleConfigure, battery, Turns, Base
  <1> QED
    BY <1>2, <1>3, <1>4, <1>5, <1>6, <1>7, <1>8, <1>9, <1>10, <1>11 DEF Automation


LEMMA AutomationBase ==
  ASSUME Base, Automation
  PROVE  Base'
  <1>1. TypeOK'
    BY AutomationShape DEF Base, TypeOK
  <1>2. Turns'
    BY AutomationShape DEF Base, Turns, Blocks
  <1>3. GuardHonoursPolicy'
    BY AutomationShape DEF GuardHonoursPolicy, GuardAllowed, Blocks
  <1> QED
    BY <1>1, <1>2, <1>3 DEF Base

Preparation == \/ BackupStart \/ BackupRecord \/ BackupRelease \/ BackupReleaseAuto \/ BackupPrepare
               \/ BackupProfile \/ BackupAuto \/ BackupAutoWrite \/ BackupUndo \/ BackupFinish
               \/ BackupEnd

\* The start, which takes the lock of the automation, and the request to end.
LEMMA EntersBase ==
  ASSUME Base, BackupStart \/ BackupEnd
  PROVE  Base'
  <1>1. /\ guard \in Guards /\ override \in Overrides /\ backup \in Backups /\ profile \in Profiles
    BY DEF Base, TypeOK
  <1>2. CASE BackupStart
    <2> DEFINE g == [Free EXCEPT !.pc = "backup"]
    <2>1. g \in Guards /\ g.pc = "backup"
      BY FreeType DEF Guards, Evaluating
    <2>2. guard' = g
      BY <1>2 DEF BackupStart
    <2> HIDE DEF g
    <2>3. /\ backup' \in Backups /\ backup'.op = "start" /\ backup'.pc = "record" /\ backup'.ok
          /\ ~Blocks /\ UNCHANGED <<documents, battery, pending, ghosts>>
      BY <1>1, <1>2 DEF BackupStart, Backups
    <2>4. TypeOK'
      BY <2>1, <2>2, <2>3 DEF Base, TypeOK, documents, battery, ghosts
    <2>5. Turns'
      BY <2>1, <2>2, <2>3 DEF Turns, Blocks, documents
    <2> QED
      BY <2>1, <2>2, <2>4, <2>5 DEF Base, GuardHonoursPolicy
  <1>3. CASE BackupEnd
    <2> DEFINE b == [NoBackup EXCEPT !.op = "end", !.pc = "profile"]
               v == [override EXCEPT !.phase = "ending"]
    <2>1. b \in Backups /\ b.op = "end" /\ b.pc = "profile" /\ b.ok
      BY FreeType DEF Backups, NoBackup
    <2>2. v \in Overrides /\ v.phase = "ending" /\ (v.allow <=> override.allow)
      BY <1>1 DEF Overrides
    <2>3. backup' = b /\ override' = v /\ Blocks /\ backup.op = "none"
          /\ UNCHANGED <<conf, state, battery, guard, pending, ghosts>>
      BY <1>3 DEF BackupEnd
    <2> HIDE DEF b, v
    <2>4. TypeOK'
      BY <2>1, <2>2, <2>3 DEF Base, TypeOK, battery, ghosts
    <2>5. Turns'
      BY <2>1, <2>2, <2>3 DEF Base, Turns, Blocks
    <2>6. GuardHonoursPolicy'
      BY <2>2, <2>3 DEF Base, GuardHonoursPolicy, GuardAllowed, Blocks
    <2> QED
      BY <2>4, <2>5, <2>6 DEF Base
  <1> QED
    BY <1>2, <1>3

\* The steps in between keep the operation and the phase; a failure leads to "undo".
LEMMA ProceedsShape ==
  ASSUME Base, BackupRelease \/ BackupReleaseAuto \/ BackupPrepare \/ BackupProfile \/ BackupAuto
               \/ BackupAutoWrite \/ BackupUndo
  PROVE  /\ backup' \in Backups /\ backup'.op = backup.op /\ backup.op # "none"
         /\ backup'.pc \notin {"idle", "record", "release"} /\ backup.pc # "record"
         /\ backup'.pc = "release-auto" => backup.op # "end"
         /\ backup'.pc \in {"auto", "auto-write"} => backup.op # "startup"
         /\ backup'.pc \notin {"undo", "finish"} => backup'.ok
         /\ state' \in [Rules -> RuleStates] /\ mode' \in Modes /\ profile' \in Profiles
         /\ by' \in {"guard", "other"}
         /\ UNCHANGED <<conf, override, guard, pending, chosen>>
  <1>1. /\ backup \in Backups /\ state \in [Rules -> RuleStates] /\ override \in Overrides
        /\ mode \in Modes /\ profile \in Profiles /\ by \in {"guard", "other"}
    BY DEF Base, TypeOK
  <1>2. CASE BackupRelease
    BY <1>1, <1>2, GoType, FreeType DEF BackupRelease, Base, Turns, battery, ghosts
  <1>3. CASE BackupReleaseAuto
    BY <1>1, <1>3, GoType DEF BackupReleaseAuto, SetMode, Continue, documents, Base, Turns, Modes
  <1>4. CASE BackupPrepare
    BY <1>1, <1>4, GoType DEF BackupPrepare, SetMode, Continue, documents, Base, Turns, Modes
  <1>5. CASE BackupProfile
    BY <1>1, <1>5, GoType DEF BackupProfile, SetProfile, Continue, documents, ghosts, Base, Turns, Profiles, Overrides
  <1>6. CASE BackupAuto
    BY <1>1, <1>6, GoType DEF BackupAuto, documents, battery, ghosts, Base, Turns
  <1>7. CASE BackupAutoWrite
    BY <1>1, <1>7, GoType DEF BackupAutoWrite, SetMode, Continue, documents, Base, Turns, Modes
  <1>8. CASE BackupUndo
    <2> DEFINE b == [Go("finish") EXCEPT !.ok = FALSE]
    <2>1. b \in Backups /\ b.op = backup.op /\ b.pc = "finish"
      BY <1>1, GoType DEF Backups
    <2> HIDE DEF b
    <2>2. backup' = b /\ backup.pc = "undo" /\ UNCHANGED <<documents, mode, guard, pending, ghosts>>
      BY <1>8 DEF BackupUndo, b
    <2>3. profile' \in Profiles
      BY <1>1, <1>8 DEF BackupUndo, SetProfile, Overrides, Profiles
    <2> QED
      BY <1>1, <2>1, <2>2, <2>3 DEF documents, ghosts, Base, Turns
  <1> QED
    BY <1>2, <1>3, <1>4, <1>5, <1>6, <1>7, <1>8


\* The record of the start and the end of an operation.
LEMMA RecordsBase ==
  ASSUME Base, BackupRecord \/ BackupFinish
  PROVE  Base'
  <1>1. guard \in Guards /\ override \in Overrides /\ backup \in Backups
    BY DEF Base, TypeOK
  <1>2. CASE BackupRecord
    <2>1. /\ override' \in Overrides /\ override'.phase = "starting"
          /\ backup' = Go("release") /\ backup.op = "start" /\ backup.ok /\ guard.pc = "backup"
          /\ UNCHANGED <<conf, state, battery, guard, pending, ghosts>>
      BY <1>1, <1>2 DEF BackupRecord, Overrides, Backups, Base, Turns
    <2>2. backup' \in Backups /\ backup'.op = "start" /\ backup'.pc = "release" /\ backup'.ok
      BY <1>1, <2>1, GoType
    <2>3. TypeOK'
      BY <2>1, <2>2 DEF Base, TypeOK, battery, ghosts
    <2>4. Turns'
      BY <2>1, <2>2 DEF Turns, Blocks
    <2> QED
      BY <2>1, <2>3, <2>4 DEF Base, GuardHonoursPolicy
  <1>3. CASE BackupFinish
    <2> DEFINE phase == IF \/ backup.op = "end" /\ backup.ok
                           \/ backup.op = "start" /\ ~backup.ok THEN "inactive" ELSE "active"
               v == [override EXCEPT !.phase = phase, !.ok = backup.ok]
    <2>1. /\ backup.pc = "finish" /\ backup.op # "none" /\ Blocks
          /\ override' = v /\ backup' = NoBackup /\ guard' = IF Locked THEN Free ELSE guard
          /\ UNCHANGED <<conf, state, battery, pending, ghosts>>
      BY <1>3 DEF BackupFinish, Base, Turns
    <2>2. v \in Overrides /\ (v.allow <=> override.allow)
      BY <1>1 DEF Overrides, Backups
    <2> HIDE DEF v
    <2>3. guard' \in Guards /\ (guard' = guard \/ guard'.pc = "idle") /\ guard'.pc # "backup"
      BY <1>1, <2>1, FreeType DEF Locked, Base, Turns
    <2>4. TypeOK'
      BY <2>1, <2>2, <2>3, FreeType DEF Base, TypeOK, battery, ghosts
    <2>5. Turns'
      BY <2>1, <2>3, FreeType DEF Base, Turns
    <2>6. GuardHonoursPolicy'
      BY <2>1, <2>2, <2>3 DEF Base, GuardHonoursPolicy, GuardAllowed, Blocks
    <2> QED
      BY <2>4, <2>5, <2>6 DEF Base
  <1> QED
    BY <1>2, <1>3

LEMMA PreparationBase ==
  ASSUME Base, Preparation
  PROVE  Base'
  <1>1. CASE BackupStart \/ BackupEnd
    BY <1>1, EntersBase
  <1>2. CASE BackupRecord \/ BackupFinish
    BY <1>2, RecordsBase
  <1>3. CASE BackupRelease \/ BackupReleaseAuto \/ BackupPrepare \/ BackupProfile \/ BackupAuto
               \/ BackupAutoWrite \/ BackupUndo
    <2>1. TypeOK'
      BY <1>3, ProceedsShape DEF Base, TypeOK
    <2>2. Turns'
      BY <1>3, ProceedsShape DEF Base, Turns, Blocks
    <2>3. GuardHonoursPolicy'
      BY <1>3, ProceedsShape DEF Base, GuardHonoursPolicy, GuardAllowed, Blocks
    <2> QED
      BY <2>1, <2>2, <2>3 DEF Base
  <1> QED
    BY <1>1, <1>2, <1>3 DEF Preparation

LEMMA EnvironmentBase ==
  ASSUME Base, OtherCheck \/ OtherWrite \/ External \/ Restart
  PROVE  Base'
  <1>1. CASE OtherCheck
    <2>1. pending' \in Modes \cup Profiles
          /\ UNCHANGED <<documents, battery, ghosts, guard, backup>>
      BY <1>1 DEF OtherCheck
    <2> QED
      BY <2>1 DEF Base, TypeOK, Turns, GuardHonoursPolicy, GuardAllowed, Blocks, documents, battery, ghosts
  <1>2. CASE OtherWrite \/ External
    <2>1. /\ mode' \in Modes /\ profile' \in Profiles /\ by' \in {"guard", "other"}
          /\ chosen' \in Profiles /\ pending' \in Modes \cup Profiles \cup {"none"}
          /\ UNCHANGED <<documents, guard, backup>>
      BY <1>2 DEF OtherWrite, External, SetMode, SetProfile, Base, TypeOK, documents
    <2> QED
      BY <2>1 DEF Base, TypeOK, Turns, GuardHonoursPolicy, GuardAllowed, Blocks, documents
  <1>3. CASE Restart
    <2> DEFINE b == [NoBackup EXCEPT !.op = "startup", !.pc = "release"]
    <2>1. b \in Backups /\ b.op = "startup" /\ b.pc = "release" /\ b.ok
      BY FreeType DEF Backups, NoBackup
    <2>2. /\ guard' = Free /\ pending' = "none" /\ backup' = IF Blocks THEN b ELSE NoBackup
          /\ UNCHANGED <<documents, battery, ghosts>>
      BY <1>3 DEF Restart
    <2> HIDE DEF b
    <2>3. TypeOK'
      BY <2>1, <2>2, FreeType DEF Base, TypeOK, documents, battery, ghosts
    <2>4. Turns'
      BY <2>1, <2>2, FreeType DEF Turns, Blocks, documents
    <2> QED
      BY <2>2, <2>3, <2>4, FreeType DEF Base, GuardHonoursPolicy
  <1> QED
    BY <1>1, <1>2, <1>3

LEMMA BaseStep == Base /\ [Next]_vars => Base'
  <1> SUFFICES ASSUME Base, [Next]_vars PROVE Base'
    OBVIOUS
  <1>1. CASE Automation
    BY <1>1, AutomationBase
  <1>2. CASE Preparation
    BY <1>2, PreparationBase
  <1>3. CASE OtherCheck \/ OtherWrite \/ External \/ Restart
    BY <1>3, EnvironmentBase
  <1>4. CASE UNCHANGED vars
    BY <1>4 DEF vars, Base, TypeOK, Turns, GuardHonoursPolicy, GuardAllowed, Blocks, documents, battery, ghosts
  <1> QED
    BY <1>1, <1>2, <1>3, <1>4 DEF Next, Automation, Preparation

LEMMA BaseInit == Init => Base
  <1> SUFFICES ASSUME Init PROVE Base
    OBVIOUS
  <1>1. TypeOK
    BY FreeType DEF Init, TypeOK, Overrides, Profiles, Modes
  <1>2. Turns /\ GuardHonoursPolicy
    BY FreeType DEF Init, Turns, Blocks, GuardHonoursPolicy
  <1> QED
    BY <1>1, <1>2 DEF Base

(* Every reachable state has its type: no run evaluates a rule past the last. *)
THEOREM TypeCorrect == Spec => []TypeOK
  <1>1. Base => TypeOK
    BY DEF Base
  <1> QED
    BY <1>1, BaseInit, BaseStep, PTL DEF Spec

(* A command of the guard, or of its manual restore, is under way only while  *)
(* Backup Preparation allows it, whatever stops and failures there are.      *)
THEOREM GuardPermitted == Spec => []GuardHonoursPolicy
  <1>1. Base => GuardHonoursPolicy
    BY DEF Base
  <1> QED
    BY <1>1, BaseInit, BaseStep, PTL DEF Spec


-----------------------------------------------------------------------------
(* The restore path of the guard.                                           *)

\* The states of the rules that count: those of the run while it lasts, which it will
\* write, and the document otherwise.
Awaiting(rules) == \E r \in Rules : rules[r].awaiting
Known == IF guard.pc \in {"idle", "backup"} THEN state ELSE guard.rules

\* The intent precedes the Standby command; a run that may end without writing has
\* changed nothing yet; and a Standby of the guard is awaited by a rule that counts.
Path ==
  /\ guard.pc \in {"check", "write"} /\ guard.goal = "standby" => guard.rules[guard.i].awaiting
  /\ guard.pc \in {"status", "restore-check", "restore-write"} => guard.rules = state
  /\ mode = "standby" /\ by = "guard" => Awaiting(Known) \/ backup.pc = "release-auto"

LEMMA PathSuffices == ASSUME Path PROVE StandbyHasRestorePath
  BY DEF Path, StandbyHasRestorePath, Awaiting, Known

LEMMA AwaitingUpdate ==
  ASSUME NEW rules \in [Rules -> RuleStates], NEW i \in Rules, NEW u \in RuleStates,
         rules[i].awaiting => u.awaiting, Awaiting(rules)
  PROVE  Awaiting([rules EXCEPT ![i] = u])
  BY DEF Awaiting

\* The steps of the run that only read or decide.
LEMMA RunPath ==
  ASSUME Base, Path, RunStart \/ RunStatus \/ RunRule \/ RunCheck \/ RunPersist
  PROVE  Path'
  <1>1. /\ guard \in Guards /\ state \in [Rules -> RuleStates] /\ guard.rules \in [Rules -> RuleStates]
    BY DEF Base, TypeOK, Guards
  <1>2. UNCHANGED <<mode, by, backup>>
    BY DEF RunStart, RunStatus, RunRule, RunCheck, RunPersist, battery, ghosts
  <1>3. CASE RunStart
    <2> DEFINE g == [Free EXCEPT !.pc = "status", !.rules = state, !.skip = ~GuardAllowed]
    <2>1. g.rules = state /\ g.pc = "status"
      BY DEF Free
    <2> HIDE DEF g
    <2>2. guard' = g /\ state' = state /\ guard.pc = "idle"
      BY <1>3 DEF RunStart, g, documents
    <2> QED
      BY <1>2, <2>1, <2>2 DEF Path, Known, Awaiting
  <1>4. CASE RunStatus
    <2>1. ASSUME NEW seen
          PROVE  /\ [guard EXCEPT !.pc = "rule", !.seen = seen].pc = "rule"
                 /\ [guard EXCEPT !.pc = "rule", !.seen = seen].rules = guard.rules
      BY <1>1 DEF Guards
    <2>2. /\ guard.pc = "status" /\ state' = state
          /\ guard' = Free \/ (guard'.pc = "rule" /\ guard'.rules = guard.rules)
      BY <1>4, <2>1 DEF RunStatus, documents
    <2> QED
      BY <1>2, <2>2, FreeType DEF Path, Known, Awaiting
  <1>5. CASE RunRule
    <2> DEFINE s == guard.rules[guard.i]
    <2>1. guard.i \in Rules /\ s \in RuleStates /\ guard.pc = "rule" /\ guard.pc \in Evaluating
      BY <1>1, <1>5 DEF RunRule, Guards, Evaluating
    <2>2. state' = state
      BY <1>5 DEF RunRule, documents
    <2>3. PICK u \in RuleStates :
             \/ guard' = NextRule(u) /\ (u.awaiting <=> s.awaiting)
             \/ guard' = Execute(u, "auto") /\ (u.awaiting <=> s.awaiting)
             \/ guard' = Execute(u, "standby") /\ u.awaiting
      <3>1. guard' \in Evaluations(s, guard.seen) \/ guard' = NextRule(s)
        BY <1>5 DEF RunRule
      <3> HIDE DEF s
      <3> QED
        BY <1>1, <2>1, <3>1, EvaluationsType
    <2>4. /\ guard'.rules = [guard.rules EXCEPT ![guard.i] = u] /\ (s.awaiting => u.awaiting)
          /\ guard'.pc \in {"rule", "check", "persist"}
          /\ guard'.pc = "check" /\ guard'.goal = "standby" => u.awaiting /\ guard'.i = guard.i
      <3> HIDE DEF s
      <3>1. "auto" \in Modes /\ "standby" \in Modes
        BY DEF Modes
      <3>2. CASE guard' = NextRule(u) /\ (u.awaiting <=> s.awaiting)
        BY <1>1, <2>1, <3>2, NextRuleType
      <3>3. ASSUME NEW goal \in Modes, guard' = Execute(u, goal)
            PROVE  /\ guard'.rules = [guard.rules EXCEPT ![guard.i] = u] /\ guard'.pc = "check"
                   /\ guard'.goal = goal /\ guard'.i = guard.i
        BY <1>1, <2>1, <3>3, ExecuteType
      <3>4. CASE guard' = Execute(u, "auto") /\ (u.awaiting <=> s.awaiting)
        BY <3>1, <3>3, <3>4
      <3>5. CASE guard' = Execute(u, "standby") /\ u.awaiting
        BY <3>1, <3>3, <3>5
      <3> QED
        BY <2>3, <3>2, <3>4, <3>5
    <2>5. Awaiting(guard.rules) => Awaiting(guard'.rules)
      <3>1. guard.rules \in [Rules -> RuleStates]
        BY <1>1 DEF Guards
      <3>2. s = guard.rules[guard.i]
        OBVIOUS
      <3> HIDE DEF s
      <3> QED
        BY <2>1, <2>4, <3>1, <3>2, AwaitingUpdate
    <2>6. guard'.pc = "check" /\ guard'.goal = "standby" => guard'.rules[guard'.i].awaiting
      <3>1. guard.rules \in [Rules -> RuleStates]
        BY <1>1 DEF Guards
      <3> HIDE DEF s
      <3> QED
        BY <2>1, <2>4, <3>1
    <2>7. mode' = "standby" /\ by' = "guard" => Awaiting(Known') \/ backup'.pc = "release-auto"
      BY <1>2, <2>1, <2>2, <2>4, <2>5 DEF Path, Known
    <2> QED
      BY <2>4, <2>6, <2>7 DEF Path, Awaiting
  <1>6. CASE RunCheck
    <2> DEFINE g == [guard EXCEPT !.pc = "write"]
    <2>1. /\ guard.pc = "check" /\ guard.pc \in Evaluating /\ state' = state /\ guard.i \in Rules
          /\ guard' = IF GuardAllowed THEN g ELSE NextRule(guard.rules[guard.i])
      BY <1>1, <1>6 DEF RunCheck, documents, Guards, Evaluating
    <2>2. g.pc = "write" /\ g.rules = guard.rules /\ g.goal = guard.goal /\ g.i = guard.i
      BY <1>1 DEF Guards
    <2> HIDE DEF g
    <2>3. [guard.rules EXCEPT ![guard.i] = guard.rules[guard.i]] = guard.rules
      BY <1>1
    <2>4. /\ guard'.rules = guard.rules
          /\ \/ guard'.pc \in {"rule", "persist"}
             \/ guard'.pc = "write" /\ guard'.goal = guard.goal /\ guard'.i = guard.i
      <3>1. CASE GuardAllowed
        BY <2>1, <2>2, <3>1
      <3>2. CASE ~GuardAllowed
        <4>1. guard' = NextRule(guard.rules[guard.i]) /\ guard.rules[guard.i] \in RuleStates
          BY <1>1, <2>1, <3>2
        <4> QED
          BY <1>1, <2>1, <2>3, <4>1, NextRuleType
      <3> QED
        BY <3>1, <3>2
    <2> QED
      BY <1>2, <2>1, <2>4 DEF Path, Known, Awaiting
  <1>7. CASE RunPersist
    BY <1>2, <1>7, FreeType DEF RunPersist, Path, Known, Awaiting
  <1> QED
    BY <1>3, <1>4, <1>5, <1>6, <1>7

\* The commands of the guard and of the manual restore, and the changes of the rules.
LEMMA CommandPath ==
  ASSUME Base, Path, RunWrite \/ RestoreStart \/ RestoreCheck \/ RestoreWrite \/ RuleConfigure
  PROVE  Path'
  <1>1. /\ guard \in Guards /\ state \in [Rules -> RuleStates] /\ guard.rules \in [Rules -> RuleStates]
        /\ mode \in Modes /\ by \in {"guard", "other"}
    BY DEF Base, TypeOK, Guards
  <1>2. backup.pc # "release-auto" /\ backup' = backup
    <2>1. Automation
      BY DEF Automation
    <2> QED
      BY <2>1, AutomationShape DEF Base, Turns, TypeOK, Backups
  <1>3. CASE RunWrite
    <2> DEFINE s == guard.rules[guard.i]
               done == [awaiting |-> guard.goal = "standby", since |-> FALSE]
    <2>1. guard.i \in Rules /\ s \in RuleStates /\ guard.pc = "write" /\ guard.pc \in Evaluating
      BY <1>1, <1>3 DEF RunWrite, Guards, Evaluating
    <2>2. done \in RuleStates /\ (done.awaiting <=> guard.goal = "standby")
      BY DEF RuleStates
    <2>3. PICK o \in Outcomes :
            /\ SetMode(o, guard.goal, IF guard.goal = "standby" THEN "guard" ELSE "other")
            /\ guard' = NextRule(IF o.ok THEN done ELSE s)
      BY <1>3 DEF RunWrite
    <2>4. (o.ok => o.took) /\ state' = state
      BY <1>3 DEF Outcomes, RunWrite, documents
    <2>5. guard.goal = "standby" => s.awaiting
      BY <2>1 DEF Path
    <2> HIDE DEF s, done
    <2> DEFINE u == IF o.ok THEN done ELSE s
    <2>6. u \in RuleStates
      BY <2>1, <2>2
    <2> HIDE DEF u
    <2>7. guard'.rules = [guard.rules EXCEPT ![guard.i] = u] /\ guard'.pc \in {"rule", "persist"}
      BY <1>1, <2>1, <2>3, <2>6, NextRuleType DEF u
    <2>8. CASE guard.goal = "standby"
      <3>1. u.awaiting
        BY <2>2, <2>5, <2>8 DEF u
      <3>2. Awaiting(guard'.rules)
        BY <1>1, <2>1, <2>6, <2>7, <3>1 DEF Awaiting
      <3> QED
        BY <2>7, <3>2 DEF Path, Known, Awaiting
    <2>9. CASE guard.goal # "standby"
      <3>1. CASE o.took
        BY <2>3, <2>7, <2>9, <3>1 DEF Path, SetMode
      <3>2. CASE ~o.took
        <4>1. u = s /\ UNCHANGED <<mode, by>>
          BY <2>3, <2>4, <3>2 DEF SetMode, u
        <4>2. guard'.rules = guard.rules
          BY <1>1, <2>1, <2>7, <4>1 DEF s
        <4> QED
          BY <1>2, <2>1, <2>7, <4>1, <4>2 DEF Path, Known, Awaiting
      <3> QED
        BY <3>1, <3>2
    <2> QED
      BY <2>8, <2>9
  <1>4. CASE RestoreStart
    <2> DEFINE g == [Free EXCEPT !.pc = "restore-check", !.rules = state]
    <2>1. g.rules = state /\ g.pc = "restore-check"
      BY DEF Free
    <2> HIDE DEF g
    <2>2. guard' = g /\ UNCHANGED <<state, mode, by>> /\ guard.pc = "idle"
      BY <1>4 DEF RestoreStart, g, documents, battery, ghosts
    <2> QED
      BY <1>2, <2>1, <2>2 DEF Path, Known, Awaiting
  <1>5. CASE RestoreCheck
    <2> DEFINE g == [guard EXCEPT !.pc = "restore-write"]
    <2>1. g.rules = guard.rules /\ g.pc = "restore-write"
      BY <1>1 DEF Guards
    <2> HIDE DEF g
    <2>2. /\ guard' = g \/ guard' = Free
          /\ UNCHANGED <<state, mode, by>> /\ guard.pc = "restore-check"
      BY <1>5 DEF RestoreCheck, g, documents, battery, ghosts
    <2> QED
      BY <1>2, <2>1, <2>2, FreeType DEF Path, Known, Awaiting
  <1>6. CASE RestoreWrite
    <2> DEFINE rules == [r \in Rules |-> IF guard.rules[r].awaiting THEN Idle ELSE guard.rules[r]]
               g == [guard EXCEPT !.pc = "persist", !.rules = rules]
    <2>1. g.pc = "persist"
      BY <1>1 DEF Guards
    <2>2. PICK o \in Outcomes : SetMode(o, "auto", "other") /\ guard' = IF o.ok THEN g ELSE Free
      BY <1>6 DEF RestoreWrite
    <2>3. (o.ok => o.took) /\ state' = state /\ guard.pc = "restore-write"
      BY <1>6 DEF Outcomes, RestoreWrite, documents
    <2> HIDE DEF g
    <2>4. CASE o.took
      <3>1. mode' = "auto" /\ guard'.pc \in {"persist", "idle"}
        BY <2>1, <2>2, <2>4, FreeType DEF SetMode
      <3> QED
        BY <3>1 DEF Path
    <2>5. CASE ~o.took
      <3>1. guard' = Free /\ UNCHANGED <<mode, by>>
        BY <2>2, <2>3, <2>5 DEF SetMode
      <3> QED
        BY <1>2, <2>3, <3>1, FreeType DEF Path, Known, Awaiting
    <2> QED
      BY <2>4, <2>5
  <1>7. CASE RuleConfigure
    <2>1. guard.pc = "idle" /\ guard' = guard /\ mode' = mode
      BY <1>7 DEF RuleConfigure, battery
    <2>2. by' = "other" \/ (by' = by /\ (Awaiting(state) => Awaiting(state')))
      <3>1. PICK r \in Rules : \/ by' = "other"
                               \/ by' = by /\ state' = state
                               \/ by' = by /\ ~state[r].awaiting /\ state' = [state EXCEPT ![r] = Idle]
        BY <1>7 DEF RuleConfigure
      <3> QED
        BY <1>1, <3>1, FreeType, AwaitingUpdate
    <2> QED
      BY <1>2, <2>1, <2>2 DEF Path, Known
  <1> QED
    BY <1>3, <1>4, <1>5, <1>6, <1>7

\* Backup Preparation: the release forgets the rules and returns the battery to Auto.
LEMMA PreparationPath ==
  ASSUME Base, Path, Preparation, "release" \notin Lapses
  PROVE  Path'
  <1>1. state \in [Rules -> RuleStates] /\ backup \in Backups
    BY DEF Base, TypeOK
  <1>2. CASE BackupStart
    <2> DEFINE g == [Free EXCEPT !.pc = "backup"]
    <2>1. g.pc = "backup"
      BY DEF Free
    <2> HIDE DEF g
    <2>2. guard' = g /\ UNCHANGED <<state, mode, by>> /\ guard.pc = "idle" /\ backup.op = "none"
      BY <1>2 DEF BackupStart, g, documents, battery, ghosts
    <2> QED
      BY <2>1, <2>2 DEF Path, Known, Awaiting, Base, Turns
  <1>3. CASE BackupFinish \/ BackupRecord \/ BackupEnd
    <2>1. /\ guard' = guard \/ (guard.pc = "backup" /\ guard'.pc = "idle")
          /\ UNCHANGED <<state, mode, by>> /\ backup.pc # "release-auto"
      <3>1. CASE BackupFinish
        BY <3>1, FreeType DEF BackupFinish, battery, ghosts, Locked, Base, Turns
      <3>2. CASE BackupRecord
        BY <3>2 DEF BackupRecord, battery, ghosts
      <3>3. CASE BackupEnd
        BY <3>3 DEF BackupEnd, battery, ghosts, Base, Turns
      <3> QED
        BY <1>3, <3>1, <3>2, <3>3
    <2> QED
      BY <2>1 DEF Path, Known, Awaiting
  <1>4. CASE BackupRelease
    <2>1. guard.pc \in {"idle", "backup"} /\ backup.pc = "release"
      BY <1>1, <1>4 DEF BackupRelease, Base, Turns, Backups
    <2>2. UNCHANGED <<guard, mode, by>>
      BY <1>4 DEF BackupRelease, battery, ghosts
    <2>3. backup'.pc = "release-auto" \/ state' = state
      <3>1. \/ state' = state
            \/ \E release \in BOOLEAN :
                 /\ backup' = Go(IF release THEN "release-auto" ELSE "prepare")
                 /\ state' = [r \in Rules |-> IF release /\ state[r].awaiting THEN Idle ELSE state[r]]
        BY <1>4 DEF BackupRelease
      <3> QED
        BY <1>1, <3>1, GoType
    <2> QED
      BY <2>1, <2>2, <2>3 DEF Path, Known, Awaiting
  <1>5. CASE BackupReleaseAuto
    <2>1. mode' = "auto" /\ UNCHANGED <<state, guard>>
      BY <1>5 DEF BackupReleaseAuto, Outcomes, SetMode, documents
    <2> QED
      BY <2>1 DEF Path
  <1>6. CASE BackupPrepare \/ BackupProfile \/ BackupAuto \/ BackupAutoWrite \/ BackupUndo
    <2>1. /\ mode' = "auto" \/ UNCHANGED <<mode, by>>
          /\ UNCHANGED <<state, guard>> /\ backup.pc # "release-auto"
      BY <1>6 DEF BackupPrepare, BackupProfile, BackupAuto, BackupAutoWrite, BackupUndo,
                  SetMode, documents, battery, ghosts
    <2> QED
      BY <2>1 DEF Path, Known, Awaiting
  <1> QED
    BY <1>2, <1>3, <1>4, <1>5, <1>6 DEF Preparation

LEMMA EnvironmentPath ==
  ASSUME Base, Path, "stop" \notin Lapses, OtherCheck \/ OtherWrite \/ External \/ Restart
  PROVE  Path'
  <1>1. CASE OtherCheck \/ OtherWrite \/ External
    <2>1. by' = "other" \/ UNCHANGED <<mode, by>>
      BY <1>1 DEF OtherCheck, OtherWrite, External, SetMode, SetProfile, battery, ghosts
    <2>2. UNCHANGED <<state, guard, backup>>
      BY <1>1 DEF OtherCheck, OtherWrite, External, documents
    <2> QED
      BY <2>1, <2>2 DEF Path, Known, Awaiting
  <1>2. CASE Restart
    <2>1. /\ guard' = Free /\ UNCHANGED <<state, mode, by>> /\ backup.pc # "release-auto"
          /\ \A r \in Rules : guard.rules[r].awaiting => state[r].awaiting
      BY <1>2 DEF Restart, InMemory, documents, battery, ghosts
    <2> QED
      BY <2>1, FreeType DEF Path, Known, Awaiting
  <1> QED
    BY <1>1, <1>2

(* A battery that a guard put in Standby can always be returned to Auto, unless *)
(* the process stops, or a release fails, while one side only knows of it.     *)
THEOREM StandbyIsRestored ==
  ASSUME Lapses \cap {"stop", "release"} = {}
  PROVE  Spec => []StandbyHasRestorePath
  <1>1. Init => Base /\ Path
    <2> SUFFICES ASSUME Init PROVE Path
      BY BaseInit
    <2> QED
      BY FreeType DEF Init, Path
  <1>2. Base /\ Path /\ [Next]_vars => (Base /\ Path)'
    <2> SUFFICES ASSUME Base, Path, [Next]_vars PROVE Path'
      BY BaseStep
    <2>1. "stop" \notin Lapses /\ "release" \notin Lapses
      OBVIOUS
    <2>2. CASE RunStart \/ RunStatus \/ RunRule \/ RunCheck \/ RunPersist
      BY <2>2, RunPath
    <2>3. CASE RunWrite \/ RestoreStart \/ RestoreCheck \/ RestoreWrite \/ RuleConfigure
      BY <2>3, CommandPath
    <2>4. CASE Preparation
      BY <2>1, <2>4, PreparationPath
    <2>5. CASE OtherCheck \/ OtherWrite \/ External \/ Restart
      BY <2>1, <2>5, EnvironmentPath
    <2>6. CASE UNCHANGED vars
      BY <2>6 DEF vars, documents, battery, ghosts, Path, Known, Awaiting
    <2> QED
      BY <2>2, <2>3, <2>4, <2>5, <2>6 DEF Next, Preparation
  <1>3. Path => StandbyHasRestorePath
    BY PathSuffices
  <1> QED
    BY <1>1, <1>2, <1>3, PTL DEF Spec


-----------------------------------------------------------------------------
(* The charging profile.                                                    *)

\* No other source of commands is at work once a start has taken the battery over.
Quiet == pending # "none" => ~Blocks /\ backup.op # "start"

\* A start that has come past its verified command has the backup profile.
Forced ==
  /\ backup.op \in {"start", "startup"} /\ backup.pc \in {"auto", "auto-write", "finish"} /\ backup.ok
       => profile = "backup"
  /\ ActiveIsBackup

\* The profile of the user is read before it is overwritten, and restored by an end and
\* by the undoing of a start; a start that finds the backup profile leaves it.
Restoring ==
  /\ backup.pc = "record" => backup.seen = profile
  /\ backup.op = "start" /\ Blocks /\ override.previous = "backup" => profile = "backup"
  /\ backup.op = "start" /\ backup.pc = "finish" /\ ~backup.ok => profile = override.previous
  /\ backup.op = "end" /\ backup.pc \in {"auto", "auto-write", "finish"} /\ backup.ok
       => profile = override.previous
  /\ ProfileKept

LEMMA QuietStep ==
  ASSUME Base, Quiet, [Next]_vars, "late" \notin Lapses
  PROVE  Quiet'
  <1>1. CASE Automation
    BY <1>1, AutomationShape DEF Quiet, Blocks
  <1>2. CASE BackupStart
    BY <1>2 DEF BackupStart, Quiet
  <1>3. CASE BackupRecord \/ BackupFinish \/ BackupEnd
    BY <1>3, FreeType DEF BackupRecord, BackupFinish, BackupEnd, Quiet, Base, Turns
  <1>4. CASE BackupRelease \/ BackupReleaseAuto \/ BackupPrepare \/ BackupProfile \/ BackupAuto
               \/ BackupAutoWrite \/ BackupUndo
    BY <1>4, ProceedsShape DEF Quiet, Blocks
  <1>5. CASE OtherCheck \/ OtherWrite \/ External
    BY <1>5 DEF OtherCheck, OtherWrite, External, Quiet, Blocks, Locked, documents
  <1>6. CASE Restart
    BY <1>6 DEF Restart, Quiet
  <1>7. CASE UNCHANGED vars
    BY <1>7 DEF vars, documents, Quiet, Blocks
  <1> QED
    BY <1>1, <1>2, <1>3, <1>4, <1>5, <1>6, <1>7 DEF Next, Automation

\* What each step of Backup Preparation does to the profile of the battery.
LEMMA ProfileSteps ==
  ASSUME Base, Preparation
  PROVE  \/ BackupStart \/ BackupRecord \/ BackupFinish \/ BackupEnd
         \/ /\ UNCHANGED <<override, chosen>> /\ backup'.op = backup.op /\ backup.pc # "record"
            /\ \/ /\ profile' = profile
                  /\ backup'.pc \in {"release-auto", "prepare", "profile", "undo"}
               \/ /\ profile' = profile /\ backup.pc \in {"auto", "auto-write"}
                  /\ backup'.pc \in {"auto-write", "finish"}
                  /\ backup'.ok = backup.ok
               \/ BackupProfile \/ BackupUndo
  <1>1. backup \in Backups
    BY DEF Base, TypeOK
  <1>2. CASE BackupRelease
    BY <1>1, <1>2, GoType DEF BackupRelease, battery, ghosts
  <1>3. CASE BackupReleaseAuto
    BY <1>1, <1>3, GoType DEF BackupReleaseAuto, Continue, documents
  <1>4. CASE BackupPrepare
    BY <1>1, <1>4, GoType DEF BackupPrepare, Continue, documents
  <1>5. CASE BackupAuto
    BY <1>1, <1>5, GoType DEF BackupAuto, documents, battery, ghosts
  <1>6. CASE BackupAutoWrite
    BY <1>1, <1>6, GoType DEF BackupAutoWrite, Continue, documents
  <1>7. CASE BackupProfile \/ BackupUndo
    <2>1. UNCHANGED <<override, chosen>> /\ backup'.op = backup.op /\ backup.pc # "record"
      BY <1>7, ProceedsShape DEF Base, Turns
    <2> QED
      BY <1>7, <2>1
  <1> QED
    BY <1>2, <1>3, <1>4, <1>5, <1>6, <1>7 DEF Preparation

\* The profile the operation leads to, unless the command failed.
LEMMA ProfileWritten ==
  ASSUME Base, BackupProfile
  PROVE  LET target == IF backup.op = "end" THEN override.previous ELSE "backup"
         IN  /\ profile' = profile \/ profile' = target
             /\ backup'.pc # "undo" => profile' = target
             /\ backup'.pc \in {"undo", "auto", "finish"} /\ (backup'.pc # "undo" => backup'.ok)
             /\ UNCHANGED <<override, chosen>> /\ backup'.op = backup.op
             /\ backup.op # "none" /\ Blocks
  <1>1. backup \in Backups /\ backup.pc = "profile" /\ backup.op # "none" /\ Blocks /\ backup.ok
    BY DEF Base, TypeOK, Turns, BackupProfile
  <1>2. UNCHANGED <<override, chosen>>
    BY DEF BackupProfile, documents, ghosts
  <1>3. PICK o \in Outcomes :
          /\ SetProfile(o, IF backup.op = "end" THEN override.previous ELSE "backup")
          /\ backup' = Continue(o.ok, IF backup.op = "startup" THEN "finish" ELSE "auto")
    BY DEF BackupProfile
  <1>4. o.ok => o.took
    BY DEF Outcomes
  <1>5. backup' = Go("undo") \/ (o.ok /\ (backup' = Go("finish") \/ backup' = Go("auto")))
    BY <1>3 DEF Continue
  <1> QED
    BY <1>1, <1>2, <1>3, <1>4, <1>5, GoType DEF SetProfile

\* A failed operation ends with the profile it found or, for an end, any of the two.
LEMMA ProfileUndone ==
  ASSUME Base, BackupUndo
  PROVE  /\ backup'.pc = "finish" /\ ~backup'.ok /\ backup'.op = backup.op
         /\ backup.op # "none" /\ Blocks /\ UNCHANGED <<override, chosen>>
         /\ backup.op = "startup" => profile' = profile
         /\ backup.op = "start" /\ override.previous = "backup" => profile' = profile
         /\ backup.op = "start" /\ override.previous # "backup" /\ "restore" \notin Lapses
              => profile' = override.previous
  <1> DEFINE b == [Go("finish") EXCEPT !.ok = FALSE]
  <1>1. backup \in Backups /\ backup.pc = "undo" /\ backup.op # "none" /\ Blocks
    BY DEF Base, TypeOK, Turns, BackupUndo
  <1>2. b.op = backup.op /\ b.pc = "finish" /\ ~b.ok
    BY <1>1, GoType DEF Backups
  <1>3. backup' = b /\ UNCHANGED <<override, chosen>>
    BY DEF BackupUndo, documents, ghosts
  <1> HIDE DEF b
  <1>4. /\ backup.op = "startup" => profile' = profile
        /\ backup.op = "start" /\ override.previous = "backup" => profile' = profile
    BY DEF BackupUndo
  <1>5. ASSUME backup.op = "start", override.previous # "backup", "restore" \notin Lapses
        PROVE  profile' = override.previous
    BY <1>5 DEF BackupUndo, SetProfile, Outcomes
  <1> QED
    BY <1>1, <1>2, <1>3, <1>4, <1>5

LEMMA ForcedStep ==
  ASSUME Base, Quiet, Forced, [Next]_vars
  PROVE  Forced'
  <1>1. CASE Automation
    BY <1>1, AutomationShape DEF Forced, ActiveIsBackup
  <1>2. CASE BackupStart \/ BackupRecord \/ BackupEnd
    <2>1. backup'.pc \in {"record", "release", "profile"} /\ UNCHANGED profile
      <3>1. CASE BackupStart
        BY <3>1 DEF BackupStart, battery
      <3>2. CASE BackupRecord
        BY <3>2, GoType DEF BackupRecord, battery, Base, TypeOK
      <3>3. CASE BackupEnd
        BY <3>3 DEF BackupEnd, NoBackup, battery
      <3> QED
        BY <1>2, <3>1, <3>2, <3>3
    <2>2. override' = override \/ override'.phase \in {"starting", "ending"}
      BY <1>2 DEF BackupStart, BackupRecord, BackupEnd, documents, Base, TypeOK, Overrides
    <2> QED
      BY <2>1, <2>2 DEF Forced, ActiveIsBackup
  <1>3. CASE BackupFinish
    <2> DEFINE phase == IF \/ backup.op = "end" /\ backup.ok
                           \/ backup.op = "start" /\ ~backup.ok THEN "inactive" ELSE "active"
               v == [override EXCEPT !.phase = phase, !.ok = backup.ok]
    <2>1. /\ backup.pc = "finish" /\ override' = v /\ backup' = NoBackup /\ UNCHANGED profile
          /\ backup.op \in {"start", "end", "startup"}
      BY <1>3 DEF BackupFinish, battery, Base, TypeOK, Turns, Backups
    <2>2. v.phase = phase /\ (v.ok <=> backup.ok)
      BY DEF Base, TypeOK, Overrides
    <2> HIDE DEF v
    <2> QED
      BY <2>1, <2>2, FreeType DEF Forced, ActiveIsBackup
  <1>4. CASE BackupRelease \/ BackupReleaseAuto \/ BackupPrepare \/ BackupAuto \/ BackupAutoWrite
    <2>1. Preparation /\ ~BackupStart /\ ~BackupRecord /\ ~BackupFinish /\ ~BackupEnd
          /\ ~BackupProfile /\ ~BackupUndo
      BY <1>4 DEF Preparation, BackupRelease, BackupReleaseAuto, BackupPrepare, BackupAuto,
                  BackupAutoWrite, BackupStart, BackupRecord, BackupFinish, BackupEnd,
                  BackupProfile, BackupUndo, Base, Turns
    <2> QED
      BY <2>1, ProfileSteps DEF Forced, ActiveIsBackup
  <1>5. CASE BackupProfile
    BY <1>5, ProfileWritten DEF Forced, ActiveIsBackup, Base, Turns
  <1>6. CASE BackupUndo
    BY <1>6, ProfileUndone DEF Forced, ActiveIsBackup, Base, TypeOK, Turns, Backups
  <1>7. CASE OtherCheck \/ OtherWrite \/ External
    <2>1. UNCHANGED <<backup, override>> /\ (profile' = profile \/ pending # "none")
      BY <1>7 DEF OtherCheck, OtherWrite, External, documents, battery
    <2> QED
      BY <2>1 DEF Forced, ActiveIsBackup, Quiet, Blocks, Base, Turns
  <1>8. CASE Restart
    <2>1. backup'.pc \in {"idle", "release"} /\ UNCHANGED <<profile, override>>
      BY <1>8 DEF Restart, NoBackup, documents, battery
    <2> QED
      BY <2>1 DEF Forced, ActiveIsBackup
  <1>9. CASE UNCHANGED vars
    BY <1>9 DEF vars, documents, battery, Forced, ActiveIsBackup
  <1> QED
    BY <1>1, <1>2, <1>3, <1>4, <1>5, <1>6, <1>7, <1>8, <1>9 DEF Next, Automation

LEMMA RestoringStep ==
  ASSUME Base, Quiet, Restoring, [Next]_vars, "restore" \notin Lapses
  PROVE  Restoring'
  <1>1. CASE Automation
    BY <1>1, AutomationShape DEF Restoring, ProfileKept, Blocks
  <1>2. CASE BackupStart
    <2>1. /\ backup'.pc = "record" /\ backup'.seen = profile /\ ~Blocks /\ backup'.op = "start"
          /\ UNCHANGED <<override, profile, chosen>>
      BY <1>2 DEF BackupStart, documents, battery, ghosts
    <2> QED
      BY <2>1 DEF Restoring, ProfileKept, Blocks
  <1>3. CASE BackupRecord
    <2>1. /\ backup'.pc = "release" /\ override'.phase = "starting" /\ ~Blocks
          /\ override'.previous = profile /\ UNCHANGED <<profile, chosen>>
      BY <1>3, GoType DEF BackupRecord, battery, ghosts, Base, TypeOK, Turns, Restoring
    <2> QED
      BY <2>1 DEF Restoring, ProfileKept, Blocks
  <1>4. CASE BackupEnd
    <2>1. /\ backup'.pc = "profile" /\ backup'.op = "end" /\ Blocks /\ Blocks'
          /\ override'.previous = override.previous /\ UNCHANGED <<profile, chosen>>
      BY <1>4 DEF BackupEnd, NoBackup, battery, ghosts, Base, TypeOK, Overrides, Blocks
    <2> QED
      BY <2>1 DEF Restoring, ProfileKept
  <1>5. CASE BackupFinish
    <2> DEFINE phase == IF \/ backup.op = "end" /\ backup.ok
                           \/ backup.op = "start" /\ ~backup.ok THEN "inactive" ELSE "active"
               v == [override EXCEPT !.phase = phase, !.ok = backup.ok]
    <2>1. /\ backup.pc = "finish" /\ override' = v /\ backup' = NoBackup /\ Blocks
          /\ UNCHANGED <<profile, chosen>>
      BY <1>5 DEF BackupFinish, battery, ghosts, Base, Turns
    <2>2. v.phase = phase /\ v.previous = override.previous
      BY DEF Base, TypeOK, Overrides
    <2> HIDE DEF v
    <2> QED
      BY <2>1, <2>2, FreeType DEF Restoring, ProfileKept, Blocks
  <1>6. CASE BackupRelease \/ BackupReleaseAuto \/ BackupPrepare \/ BackupAuto \/ BackupAutoWrite
    <2>1. Preparation /\ ~BackupStart /\ ~BackupRecord /\ ~BackupFinish /\ ~BackupEnd
          /\ ~BackupProfile /\ ~BackupUndo
      BY <1>6 DEF Preparation, BackupRelease, BackupReleaseAuto, BackupPrepare, BackupAuto,
                  BackupAutoWrite, BackupStart, BackupRecord, BackupFinish, BackupEnd,
                  BackupProfile, BackupUndo, Base, Turns
    <2>2. backup.pc \in {"auto", "auto-write"} => backup.ok
      BY DEF Base, Turns
    <2> QED
      BY <2>1, <2>2, ProfileSteps DEF Restoring, ProfileKept, Blocks
  <1>7. CASE BackupProfile
    BY <1>7, ProfileWritten DEF Restoring, ProfileKept, Blocks
  <1>8. CASE BackupUndo
    BY <1>8, ProfileUndone DEF Restoring, ProfileKept, Blocks
  <1>9. CASE OtherCheck \/ External
    <2>1. UNCHANGED <<backup, override, profile, chosen>>
      BY <1>9 DEF OtherCheck, External, documents, battery, ghosts
    <2> QED
      BY <2>1 DEF Restoring, ProfileKept, Blocks
  <1>10. CASE OtherWrite
    <2>1. /\ UNCHANGED <<backup, override>> /\ pending # "none"
          /\ UNCHANGED <<profile, chosen>> \/ profile' = chosen'
      BY <1>10 DEF OtherWrite, SetProfile, documents, Restoring, ProfileKept, Quiet
    <2> QED
      BY <2>1 DEF Restoring, ProfileKept, Quiet, Blocks, Base, Turns
  <1>11. CASE Restart
    <2>1. /\ UNCHANGED <<profile, override, chosen>>
          /\ \/ backup'.pc = "idle" /\ backup'.op = "none"
             \/ backup'.pc = "release" /\ backup'.op = "startup"
      BY <1>11 DEF Restart, NoBackup, documents, battery, ghosts
    <2> QED
      BY <2>1 DEF Restoring, ProfileKept, Blocks
  <1>12. CASE UNCHANGED vars
    BY <1>12 DEF vars, documents, battery, ghosts, Restoring, ProfileKept, Blocks
  <1> QED
    BY <1>1, <1>2, <1>3, <1>4, <1>5, <1>6, <1>7, <1>8, <1>9, <1>10, <1>11, <1>12
       DEF Next, Automation

(* Backup Preparation never claims success without the backup profile, unless *)
(* a command of another source reaches the battery late.                     *)
THEOREM SuccessIsVerified ==
  ASSUME "late" \notin Lapses
  PROVE  Spec => []ActiveIsBackup
  <1>1. Init => Base /\ Quiet /\ Forced
    <2> SUFFICES ASSUME Init PROVE Quiet /\ Forced
      BY BaseInit
    <2> QED
      BY FreeType DEF Init, Quiet, Forced, ActiveIsBackup
  <1>2. Base /\ Quiet /\ Forced /\ [Next]_vars => (Base /\ Quiet /\ Forced)'
    BY BaseStep, QuietStep, ForcedStep
  <1>3. Forced => ActiveIsBackup
    BY DEF Forced
  <1> QED
    BY <1>1, <1>2, <1>3, PTL DEF Spec

(* The user's profile is never lost: the battery has it or the override in force  *)
(* will restore it, unless a command comes late or the undoing of a start fails. *)
THEOREM ProfileIsKept ==
  ASSUME Lapses \cap {"late", "restore"} = {}
  PROVE  Spec => []ProfileKept
  <1>0. "late" \notin Lapses /\ "restore" \notin Lapses
    OBVIOUS
  <1>1. Init => Base /\ Quiet /\ Restoring
    <2> SUFFICES ASSUME Init PROVE Quiet /\ Restoring
      BY BaseInit
    <2> QED
      BY FreeType DEF Init, Quiet, Restoring, ProfileKept, Blocks
  <1>2. Base /\ Quiet /\ Restoring /\ [Next]_vars => (Base /\ Quiet /\ Restoring)'
    BY <1>0, BaseStep, QuietStep, RestoringStep
  <1>3. Restoring => ProfileKept
    BY DEF Restoring
  <1> QED
    BY <1>1, <1>2, <1>3, PTL DEF Spec

=============================================================================

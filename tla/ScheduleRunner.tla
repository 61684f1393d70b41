--------------------------- MODULE ScheduleRunner ---------------------------
(***************************************************************************)
(* The schedules of battery actions (schedule-runner.ts, schedule-service  *)
(* .ts and domain/schedules.ts): an interval timer runs whatever is due,   *)
(* and the page edits schedules meanwhile.                                 *)
(*                                                                         *)
(* A run reads Backup Preparation and the guard rules first and then joins *)
(* the queue of mutate(): "queued" holds what the waiting runs have read.  *)
(* The run at the head works on "job.mem", its copy of the document, which *)
(* reaches the document before each command and at the end; a stop of the  *)
(* process loses the copy.                                                 *)
(*                                                                         *)
(* Time is the day and, for each schedule, whether its time has come.      *)
(* lastRunDate is left out: it is set only where lastAttemptDate has been  *)
(* set to the same day.  Runs under Adaptive Charging change nothing.      *)
(***************************************************************************)
EXTENDS Naturals, Sequences

CONSTANTS N,          \* number of schedules
          ChargeStarts,   \* those that start a charge, which the demand may forbid
          MaxDay, MaxCrash, MaxQueued,   \* bounds for TLC
          MaxEdits                       \* and of edits and Backup Preparation changes

ASSUME NAssumption == N \in Nat \ {0}
ASSUME ChargeAssumption == ChargeStarts \subseteq 1..N
ASSUME BoundsAssumption == /\ MaxDay \in Nat \ {0}
                           /\ MaxCrash \in Nat /\ MaxQueued \in Nat /\ MaxEdits \in Nat

Schedules == 1..N

VARIABLES doc,      \* document "schedules"
          day,      \* the local day
          ripe,     \* schedules whose runAt, or time of the day, has come
          blocks,   \* whether Backup Preparation blocks actions
          queued,   \* runs waiting for mutate(): what each has read
          job,      \* the run inside mutate()
          crashes, edits,
          fired,        \* ghost: how often a one-time schedule changed the battery
          firedOn,      \* ghost: the attempt date on which a daily one did so last
          again,        \* ghost: daily schedules that did so twice on an attempt date
          interrupted   \* ghost: how often a stop hit the command of a one-time schedule

environment == <<day, blocks>>
ghosts == <<fired, firedOn, again, interrupted>>
counters == <<crashes, edits>>
vars == <<doc, environment, ripe, queued, job, counters, ghosts>>

Fresh == [repeat |-> "once", enabled |-> TRUE, running |-> FALSE, intent |-> "none", attempted |-> 0]
NoRun == [pc |-> "idle", i |-> 1, mem |-> [s \in Schedules |-> Fresh],
          date |-> 0, time |-> [s \in Schedules |-> FALSE], denied |-> FALSE]

Init == /\ doc \in [Schedules -> {[Fresh EXCEPT !.repeat = r] : r \in {"once", "daily"}}]
        /\ day = 1 /\ ripe = [s \in Schedules |-> FALSE]
        /\ blocks = FALSE
        /\ queued = <<>> /\ job = NoRun /\ crashes = 0 /\ edits = 0
        /\ fired = [s \in Schedules |-> 0]
        /\ firedOn = [s \in Schedules |-> 0]
        /\ again = {}
        /\ interrupted = [s \in Schedules |-> 0]

IsDue(d, time, today) ==
  /\ d.enabled /\ ~d.running /\ time
  /\ IF d.repeat = "daily" THEN d.attempted # today ELSE d.intent = "none"

\* Mutant: stale runs are left as they are.
ClearStaleNever(docs) == docs

\* No run of this process is active when one enters mutate().
ClearStale(docs) ==
  [s \in Schedules |->
     IF docs[s].running
     THEN [docs[s] EXCEPT !.running = FALSE, !.intent = IF @ = "pending" THEN "none" ELSE @]
     ELSE docs[s]]

\* Mutant: a schedule that is over is left marked running.
SettledStillRunning(d, date) == [d EXCEPT !.attempted = date, !.intent = "settled",
                                          !.enabled = @ /\ d.repeat = "daily"]

\* A blocked or finished attempt; one-time schedules are over.
Settled(d, date) == [d EXCEPT !.attempted = date, !.intent = "settled", !.running = FALSE,
                              !.enabled = @ /\ d.repeat = "daily"]

----------------------------------------------------------------------------
\* Backup Preparation, or else an enabled guard rule awaiting a restore, denies the run.
RunStart ==
  /\ Len(queued) < MaxQueued
  /\ \E guard \in BOOLEAN :
       queued' = Append(queued, [blocks |-> blocks, denied |-> blocks \/ guard])
  /\ UNCHANGED <<doc, environment, ripe, job, counters, ghosts>>

\* mutate() reads the document.  Stale runs are cleared only when nothing blocks.
RunEnter ==
  /\ job.pc = "idle" /\ queued # <<>>
  /\ job' = [pc |-> "next", i |-> 1, date |-> day, time |-> ripe,
             mem |-> IF Head(queued).blocks THEN doc ELSE ClearStale(doc),
             denied |-> Head(queued).denied]
  /\ queued' = Tail(queued)
  /\ UNCHANGED <<doc, environment, ripe, counters, ghosts>>

Current == job.mem[job.i]
Skip(d) == [job EXCEPT !.mem = [@ EXCEPT ![job.i] = d], !.time = [@ EXCEPT ![job.i] = FALSE],
                       !.i = @ + 1, !.pc = IF job.i = N THEN "leave" ELSE "next"]

Due == IsDue(Current, job.time[job.i], job.date)

RunPass ==
  /\ job.pc = "next" /\ ~Due
  /\ job' = Skip(Current)
  /\ UNCHANGED <<doc, environment, ripe, queued, counters, ghosts>>

\* Blocked by Backup Preparation, by the guard or, when it starts a charge, by the demand.
RunBlocked ==
  /\ job.pc = "next" /\ Due
  /\ job.denied \/ job.i \in ChargeStarts
  /\ job' = Skip(Settled(Current, job.date))
  /\ UNCHANGED <<doc, environment, ripe, queued, counters, ghosts>>

Attempt == [job EXCEPT !.pc = "execute",
                       !.mem = [@ EXCEPT ![job.i] = [Current EXCEPT !.attempted = job.date,
                                                     !.intent = "pending", !.running = TRUE]]]

\* Mutant: the intent is not written before the command.
RunExecuteUnwritten ==
  /\ job.pc = "next" /\ Due /\ ~job.denied
  /\ job' = Attempt
  /\ UNCHANGED <<doc, environment, ripe, queued, counters, ghosts>>

RunExecute ==
  /\ job.pc = "next" /\ Due /\ ~job.denied
  /\ job' = Attempt
  /\ doc' = job'.mem
  /\ UNCHANGED <<environment, ripe, queued, counters, ghosts>>

\* executeAction(): refused by Backup Preparation, failed, or carried out; a command
\* that failed may have been carried out.
RunOutcome ==
  /\ job.pc = "execute"
  /\ \E took \in IF blocks THEN {FALSE} ELSE BOOLEAN :
       LET once == Current.repeat = "once"
       IN /\ fired' = IF took /\ once THEN [fired EXCEPT ![job.i] = @ + 1] ELSE fired
          /\ again' = IF took /\ ~once /\ firedOn[job.i] = job.date THEN again \cup {job.i} ELSE again
          /\ firedOn' = IF took /\ ~once THEN [firedOn EXCEPT ![job.i] = job.date] ELSE firedOn
  /\ job' = Skip(Settled(Current, job.date))
  /\ UNCHANGED <<doc, environment, ripe, queued, counters, interrupted>>

RunLeave ==
  /\ job.pc = "leave"
  /\ doc' = job.mem
  /\ job' = NoRun
  /\ UNCHANGED <<environment, ripe, queued, counters, ghosts>>

----------------------------------------------------------------------------
(* The page: PATCH, POST and DELETE of a schedule take their turn in        *)
(* mutate(), where the runner is not.                                       *)

\* Enabled, repetition and time are all that a PATCH changes.
Edit ==
  /\ job.pc = "idle" /\ edits < MaxEdits
  /\ edits' = edits + 1
  /\ \E s \in Schedules, e \in BOOLEAN, r \in {"once", "daily"}, t \in BOOLEAN :
       /\ doc' = [doc EXCEPT ![s].enabled = e, ![s].repeat = r]
       /\ ripe' = [ripe EXCEPT ![s] = t]
       /\ IF r = doc[s].repeat THEN UNCHANGED <<fired, interrupted>>
          ELSE /\ fired' = [fired EXCEPT ![s] = 0]
               /\ interrupted' = [interrupted EXCEPT ![s] = 0]
  /\ UNCHANGED <<environment, queued, job, crashes, firedOn, again>>

\* A schedule is deleted and another one takes its place.
Replace ==
  /\ job.pc = "idle" /\ edits < MaxEdits
  /\ edits' = edits + 1
  /\ \E s \in Schedules, r \in {"once", "daily"} :
       /\ doc' = [doc EXCEPT ![s] = [Fresh EXCEPT !.repeat = r]]
       /\ ripe' = [ripe EXCEPT ![s] = FALSE]
       /\ fired' = [fired EXCEPT ![s] = 0]
       /\ firedOn' = [firedOn EXCEPT ![s] = 0]
       /\ interrupted' = [interrupted EXCEPT ![s] = 0]
  /\ UNCHANGED <<environment, queued, job, crashes, again>>

----------------------------------------------------------------------------
(* The clock, the other workflows and the process.                          *)

Time ==
  /\ \E s \in Schedules : ripe' = [ripe EXCEPT ![s] = TRUE]
  /\ UNCHANGED <<doc, environment, queued, job, counters, ghosts>>

Midnight ==
  /\ day < MaxDay
  /\ day' = day + 1
  /\ ripe' = [s \in Schedules |-> ripe[s] /\ doc[s].repeat = "once"]
  /\ UNCHANGED <<doc, blocks, queued, job, counters, ghosts>>

BackupChange ==
  /\ edits < MaxEdits /\ edits' = edits + 1
  /\ blocks' = ~blocks
  /\ UNCHANGED <<doc, day, ripe, queued, job, crashes, ghosts>>

\* A command whose outcome is not in the document when the process stops.
Unwritten(s) == /\ job.pc # "idle" /\ doc[s].running /\ doc[s].repeat = "once"
                /\ job.mem[s].running \/ job.mem[s].intent = "settled"

Restart ==
  /\ crashes < MaxCrash
  /\ crashes' = crashes + 1
  /\ queued' = <<>> /\ job' = NoRun
  /\ interrupted' = [s \in Schedules |-> interrupted[s] + (IF Unwritten(s) THEN 1 ELSE 0)]
  /\ UNCHANGED <<doc, environment, ripe, edits, fired, firedOn, again>>

Run == RunEnter \/ RunPass \/ RunBlocked \/ RunExecute \/ RunOutcome \/ RunLeave
Next == RunStart \/ Run \/ Edit \/ Replace \/ Time \/ Midnight \/ BackupChange \/ Restart

(* The interval timer keeps starting runs, and a run in mutate() goes on.   *)
Fairness == WF_vars(RunStart) /\ WF_vars(Run)
Spec == Init /\ [][Next]_vars /\ Fairness

----------------------------------------------------------------------------
(* Type correctness; a schedule marked running has a pending intent, which  *)
(* is how a restart tells an interrupted command from a finished one.       *)
Docs == [repeat : {"once", "daily"}, enabled : BOOLEAN, running : BOOLEAN,
         intent : {"none", "pending", "settled"}, attempted : 0..MaxDay]
Reads == [blocks : BOOLEAN, denied : BOOLEAN]
Jobs == [pc : {"idle", "next", "execute", "leave"}, i : 1..(N + 1),
         mem : [Schedules -> Docs], date : 0..MaxDay,
         time : [Schedules -> BOOLEAN], denied : BOOLEAN]
Consistent(docs) == \A s \in Schedules : docs[s].running <=> docs[s].intent = "pending"

TypeOK ==
  /\ doc \in [Schedules -> Docs] /\ Consistent(doc)
  /\ day \in 1..MaxDay /\ ripe \in [Schedules -> BOOLEAN]
  /\ blocks \in BOOLEAN
  /\ queued \in Seq(Reads) /\ Len(queued) <= MaxQueued
  /\ job \in Jobs /\ Consistent(job.mem)
  /\ fired \in [Schedules -> Nat] /\ firedOn \in [Schedules -> 0..MaxDay]
  /\ interrupted \in [Schedules -> Nat] /\ again \subseteq Schedules
  /\ crashes \in 0..MaxCrash /\ edits \in 0..MaxEdits

(* Nothing acts twice that should act once, whatever runs wait or overlap,  *)
(* whatever is edited, and whether other schedules of the same run are still *)
(* executing: a one-time schedule acts another time only for each stop of the *)
(* process that hit its command, and a daily schedule at most once a day,   *)
(* although a stop may lose everything the run has not written.             *)
ActsOnce ==
  [][/\ \A s \in Schedules : fired'[s] > fired[s] => fired[s] <= interrupted[s]
     /\ again' = {}]_vars

(* What is due is decided: a schedule whose time has come, or that was      *)
(* interrupted, is attempted or blocked, unless it is edited or Backup      *)
(* Preparation takes over, which leaves interrupted schedules as they are.  *)
Waiting(s) == /\ doc[s].enabled /\ ripe[s]
              /\ doc[s].running \/ IsDue(doc[s], TRUE, day)
DueIsDecided == \A s \in Schedules : Waiting(s) ~> ~Waiting(s) \/ blocks
============================================================================

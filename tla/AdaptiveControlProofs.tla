------------------------ MODULE AdaptiveControlProofs ------------------------
(***************************************************************************)
(* Adaptive Charging, for a clock of any length and whoever takes part:    *)
(* types, the timer of the charge, the pause and the owner of the charge.  *)
(*                                                                         *)
(* The argument is a tower.  Base: types, and who works while who else is. *)
(* Kept: what a writer has read and has in mind, and what is on record, in *)
(* spite of the writes in between.  On these two rest Armed (the timer),   *)
(* Pausing (the pause; it needs Armed for the deadlines) and Charging (the *)
(* charge); each is inductive once those below it are known.               *)
(***************************************************************************)
EXTENDS AdaptiveControl, TLAPS

-----------------------------------------------------------------------------
(* The calendar and the document.                                           *)

\* The documents that are written: the window of a slot ends within the calendar.
Docs == {d \in Doc : WindowEnd(d.slot) \in Moments}

LEMMA Calendar ==
  ASSUME NEW n \in 0..Horizon
  PROVE  /\ n \in Moments /\ 0 \in Moments
         /\ WindowEnd(n) \in Moments /\ Midnight(n) \in Moments /\ n < Midnight(n)
         /\ \A e \in SlotEnds(n) : e \in Moments /\ n < e /\ WindowEnd(e) \in Moments
  <1>1. Horizon \in Nat /\ n \in Nat /\ n % 3 \in 0..2 /\ n \div 3 \in Nat /\ n = 3 * (n \div 3) + (n % 3)
    BY HorizonAssumption
  <1>2. n \in Moments /\ 0 \in Moments /\ WindowEnd(n) \in Moments /\ Midnight(n) \in Moments /\ n < Midnight(n)
    BY <1>1 DEF Moments, WindowEnd, Midnight
  <1>3. ASSUME NEW e \in SlotEnds(n)
        PROVE  e \in Moments /\ n < e /\ WindowEnd(e) \in Moments
    <2>1. e \in (n + 1)..WindowEnd(n) /\ n % 3 < 2
      BY <1>3 DEF SlotEnds, InWindow
    <2>2. e \in Nat /\ n < e /\ e <= n - (n % 3) + 2
      BY <1>1, <2>1 DEF WindowEnd
    <2>3. e % 3 \in 0..2 /\ e \div 3 \in Nat /\ e = 3 * (e \div 3) + (e % 3)
      BY <2>2
    <2>4. e \div 3 = n \div 3
      BY <1>1, <2>2, <2>3
    <2>5. WindowEnd(e) = WindowEnd(n)
      BY <1>1, <2>3, <2>4 DEF WindowEnd
    <2> QED
      BY <1>1, <1>2, <2>2, <2>5 DEF Moments
  <1> QED
    BY <1>2, <1>3

LEMMA NoDocType ==
  NoDoc \in Docs /\ ~NoDoc.owner /\ NoDoc.slot = 0 /\ NoDoc.hold = 0 /\ NoDoc.paused = 0
  BY HorizonAssumption DEF NoDoc, Docs, Doc, Moments, WindowEnd

\* What the writers make of a document.
LEMMA HeldType ==
  ASSUME NEW d \in Docs, NEW n \in Moments
  PROVE  /\ Held(d, n) \in Docs /\ Held(d, n).hold = n
         /\ Held(d, n).owner = d.owner /\ Held(d, n).slot = d.slot /\ Held(d, n).paused = d.paused
  BY DEF Held, Docs, Doc

LEMMA PausedType ==
  ASSUME NEW d \in Docs, NEW n \in Moments
  PROVE  /\ Paused(d, n) \in Docs /\ Paused(d, n).paused = n
         /\ Paused(d, n).owner = d.owner /\ Paused(d, n).slot = d.slot /\ Paused(d, n).hold = d.hold
  BY DEF Paused, Docs, Doc

LEMMA ResizedType ==
  ASSUME NEW d \in Docs, NEW e \in Moments, WindowEnd(e) \in Moments
  PROVE  /\ Resized(d, e) \in Docs /\ Resized(d, e).slot = e
         /\ Resized(d, e).owner = d.owner /\ Resized(d, e).hold = d.hold /\ Resized(d, e).paused = d.paused
  BY DEF Resized, Docs, Doc

LEMMA OwnershipType ==
  ASSUME NEW d \in Docs, NEW o \in BOOLEAN, NEW s \in Moments, NEW h \in Moments
  PROVE  /\ [d EXCEPT !.owner = o, !.slot = s] \in Doc
         /\ [d EXCEPT !.owner = o, !.slot = s, !.hold = h] \in Doc
  BY DEF Docs, Doc

LEMMA ChargedType ==
  ASSUME NEW d \in Docs, NEW e \in Moments, WindowEnd(e) \in Moments
  PROVE  /\ Charged(d, e) \in Docs /\ Charged(d, e).owner /\ Charged(d, e).slot = e
         /\ Charged(d, e).hold = 0 /\ Charged(d, e).paused = d.paused
  <1> DEFINE c == Charged(d, e)
  <1>1. c.owner /\ c.slot = e /\ c.hold = 0 /\ c.paused = d.paused
    BY DEF Charged, Docs, Doc
  <1> DEFINE o == TRUE
             h == 0
  <1>2. o \in BOOLEAN /\ h \in Moments
    BY HorizonAssumption DEF Moments
  <1> HIDE DEF o, h
  <1>3. [d EXCEPT !.owner = o, !.slot = e, !.hold = h] \in Doc
    BY <1>2, OwnershipType
  <1>4. c \in Doc
    BY <1>3, Zenon DEF Charged, o, h
  <1> QED
    BY <1>1, <1>4 DEF Docs

LEMMA UnownedType ==
  ASSUME NEW d \in Docs
  PROVE  /\ Unowned(d) \in Docs /\ ~Unowned(d).owner /\ Unowned(d).slot = 0
         /\ Unowned(d).hold = d.hold /\ Unowned(d).paused = d.paused
  <1> DEFINE u == Unowned(d)
  <1>1. ~u.owner /\ u.slot = 0 /\ u.hold = d.hold /\ u.paused = d.paused
    BY DEF Unowned, Docs, Doc
  <1> DEFINE o == FALSE
             s == 0
  <1>2. o \in BOOLEAN /\ s \in Moments /\ WindowEnd(0) \in Moments
    BY HorizonAssumption DEF Moments, WindowEnd
  <1> HIDE DEF o, s
  <1>3. [d EXCEPT !.owner = o, !.slot = s] \in Doc
    BY <1>2, OwnershipType, HorizonAssumption DEF Moments
  <1>4. u \in Doc
    BY <1>3, Zenon DEF Unowned, o, s
  <1> QED
    BY <1>1, <1>2, <1>4 DEF Docs

LEMMA SuspendedType ==
  ASSUME NEW d \in Docs, NEW n \in Moments
  PROVE  /\ Suspended(d, n) \in Docs /\ ~Suspended(d, n).owner /\ Suspended(d, n).slot = 0
         /\ Suspended(d, n).hold = n /\ Suspended(d, n).paused = d.paused
  BY UnownedType, HeldType DEF Suspended

LEMMA ReleasedType ==
  ASSUME NEW d \in Docs
  PROVE  /\ Released(d) \in Docs /\ ~Released(d).owner /\ Released(d).slot = 0
         /\ Released(d).hold = 0 /\ Released(d).paused = d.paused
  <1>1. 0 \in Moments
    BY HorizonAssumption DEF Moments
  <1> QED
    BY <1>1, UnownedType, HeldType DEF Released

\* A merge takes each field from the document or from the writer, and what the writer
\* wrote under another pause is not taken.
LEMMA MergeType ==
  ASSUME NEW d \in Docs, NEW base \in Docs, NEW new \in Docs
  PROVE  /\ Merge(d, base, new) \in Docs
         /\ Merge(d, base, new).owner = IF new.owner # base.owner /\ d.owner = base.owner /\ d.paused = base.paused
                                        THEN new.owner ELSE d.owner
         /\ Merge(d, base, new).slot = IF new.slot # base.slot /\ d.slot = base.slot /\ d.paused = base.paused
                                       THEN new.slot ELSE d.slot
         /\ Merge(d, base, new).hold = IF new.hold # base.hold /\ d.hold = base.hold /\ d.paused = base.paused
                                       THEN new.hold ELSE d.hold
         /\ Merge(d, base, new).paused = IF new.paused # base.paused /\ d.paused = base.paused
                                         THEN new.paused ELSE d.paused
  <1> DEFINE m == Merge(d, base, new)
             owner == IF new.owner # base.owner /\ d.owner = base.owner /\ d.paused = base.paused THEN new.owner ELSE d.owner
             slot == IF new.slot # base.slot /\ d.slot = base.slot /\ d.paused = base.paused THEN new.slot ELSE d.slot
             hold == IF new.hold # base.hold /\ d.hold = base.hold /\ d.paused = base.paused THEN new.hold ELSE d.hold
             paused == IF new.paused # base.paused /\ d.paused = base.paused THEN new.paused ELSE d.paused
  <1>1. DOMAIN d = {"owner", "slot", "hold", "paused"}
    BY DEF Docs, Doc
  <1>2. m = [f \in {"owner", "slot", "hold", "paused"} |->
              IF new[f] # base[f] /\ d[f] = base[f] /\ (f = "paused" \/ d.paused = base.paused)
              THEN new[f] ELSE d[f]]
    BY <1>1 DEF Merge
  <1>3. m = [owner |-> m.owner, slot |-> m.slot, hold |-> m.hold, paused |-> m.paused]
    BY <1>2
  <1>4. m.owner = owner /\ m.slot = slot /\ m.hold = hold /\ m.paused = paused
    BY <1>2
  <1>5. /\ owner \in BOOLEAN /\ slot \in Moments /\ hold \in Moments /\ paused \in Moments
        /\ WindowEnd(slot) \in Moments
    BY DEF Docs, Doc
  <1> HIDE DEF m, owner, slot, hold, paused
  <1>6. m \in Docs
    BY <1>3, <1>4, <1>5 DEF Docs, Doc
  <1> QED
    BY <1>4, <1>6 DEF m, owner, slot, hold, paused

-----------------------------------------------------------------------------
(* Types, and who is at work while who else is.                             *)

\* What is remembered is a document, and no clock is ahead.
Typed ==
  /\ t \in 0..Horizon /\ doc \in Docs
  /\ device \in Modes
  /\ enabled \in BOOLEAN /\ guard \in BOOLEAN /\ backup \in BOOLEAN
  /\ timer \in Timers /\ stale \subseteq Moments
  /\ asked \in Asks /\ asked.now \in 0..t
  /\ job \in Jobs /\ job.mem \in Docs /\ job.base \in Docs /\ job.now \in 0..t
  /\ outside \in Outsiders /\ outside.mem \in Docs /\ outside.base \in Docs
  /\ manual \in BOOLEAN /\ lapsed \in BOOLEAN

\* The steps each workflow has; a pause waits for by whom it was asked.
Shape ==
  /\ job.kind = "none" => job = NoJob
  /\ job.kind = "evaluate" => job.pc \in Evaluating
  /\ job.kind = "deadline" => job.pc \in {"stop", "write"}
  /\ job.kind \in {"pause", "resume"} => job.pc \in {"free", "write"}
  /\ job.kind = "restore" => job.pc \in {"write", "evaluate"}
  /\ job.kind = "pause" <=> job.by # "none"
  /\ job.by = "settings" => outside.kind = "settings" /\ outside.pc = "pause"
  /\ outside.kind = "none" => outside = Nobody
  /\ outside.kind = "settings" => outside.pc \in {"release", "pause", "auto", "write"}
  /\ outside.kind = "backup" => outside.pc \in {"read", "release", "write"}

\* The automation lock: an evaluation sees neither a start of Backup Preparation nor a
\* turn of the guard.
Turns ==
  /\ outside.kind = "backup" => backup /\ asked = Never /\ job.kind \notin {"evaluate", "restore"}
  /\ backup /\ job.kind = "evaluate" => job.pc = "write" /\ ~job.mem.owner
  /\ guard /\ job.kind = "evaluate" => job.pc \in {"decide", "write"}
  /\ asked # Never => asked.kind # "none" /\ job.kind \notin {"evaluate", "restore"}

Base == Typed /\ Shape /\ Turns

LEMMA IdleType ==
  /\ NoJob \in Jobs /\ NoJob.kind = "none" /\ NoJob.pc = "idle" /\ NoJob.by = "none"
  /\ NoJob.mem = NoDoc /\ NoJob.base = NoDoc /\ NoJob.now = 0
  /\ Nobody \in Outsiders /\ Nobody.kind = "none" /\ Nobody.pc = "idle"
  /\ Nobody.mem = NoDoc /\ Nobody.base = NoDoc
  /\ NoTimer \in Timers /\ NoTimer.st = "off" /\ NoTimer.key = 0
  /\ Never \in Asks /\ Never.kind = "none" /\ Never.now = 0
  BY HorizonAssumption, NoDocType
  DEF NoJob, Jobs, Nobody, Outsiders, NoTimer, Timers, Never, Asks, Moments, Docs, Evaluating

LEMMA GotoType ==
  ASSUME job \in Jobs, NEW pc \in Evaluating \cup {"idle", "free", "evaluate"}, NEW m \in Docs, Goto(pc, m)
  PROVE  /\ job' \in Jobs /\ job'.pc = pc /\ job'.mem = m
         /\ job'.kind = job.kind /\ job'.base = job.base /\ job'.now = job.now /\ job'.by = job.by
  BY DEF Goto, Jobs, Docs

LEMMA HoldType ==
  ASSUME doc \in Docs, NEW kind \in {"evaluate", "deadline", "pause", "resume", "restore"},
         NEW pc \in Evaluating \cup {"idle", "free", "evaluate"}, NEW m \in Docs, NEW now \in Moments,
         NEW by \in {"none", "manual", "settings"}, Hold(kind, pc, m, now, by)
  PROVE  /\ job' \in Jobs /\ job'.pc = pc /\ job'.mem = m
         /\ job'.kind = kind /\ job'.base = doc /\ job'.now = now /\ job'.by = by
  BY DEF Hold, Jobs, Docs

LEMMA FirstStepType ==
  ASSUME doc \in Docs, NEW d \in Docs, NEW now \in Moments, FirstStep(d, now)
  PROVE  /\ job' \in Jobs /\ job'.kind = "evaluate" /\ job'.base = doc /\ job'.now = now /\ job'.by = "none"
         /\ \/ backup /\ job'.pc = "write" /\ job'.mem = Released(d)
            \/ ~backup /\ job'.pc = "expire" /\ job'.mem = d /\ d.hold # 0 /\ ~guard
            \/ ~backup /\ job'.pc = "decide" /\ job'.mem = d
  <1>1. Released(d) \in Docs
    BY ReleasedType
  <1>2. CASE backup
    <2>1. Hold("evaluate", "write", Released(d), now, "none")
      BY <1>2 DEF FirstStep
    <2> QED
      BY <1>1, <1>2, <2>1, HoldType DEF Evaluating
  <1>3. CASE ~backup
    <2> DEFINE pc == IF d.hold # 0 /\ d.hold <= now /\ ~guard THEN "expire" ELSE "decide"
    <2>1. Hold("evaluate", pc, d, now, "none")
      BY <1>3, Zenon DEF FirstStep
    <2>2. /\ pc \in Evaluating
          /\ \/ pc = "expire" /\ d.hold # 0 /\ ~guard
             \/ pc = "decide"
      BY DEF Evaluating
    <2> HIDE DEF pc
    <2>3. /\ job' \in Jobs /\ job'.pc = pc /\ job'.mem = d
          /\ job'.kind = "evaluate" /\ job'.base = doc /\ job'.now = now /\ job'.by = "none"
      BY <2>1, <2>2, HoldType DEF Evaluating
    <2> QED
      BY <1>3, <2>2, <2>3
  <1> QED
    BY <1>2, <1>3

LEMMA EnterType ==
  ASSUME doc \in Docs, NEW kind \in {"settings", "backup"},
         NEW pc \in {"release", "pause", "auto", "write", "read"}, NEW m \in Docs, Enter(kind, pc, m)
  PROVE  /\ outside' \in Outsiders /\ outside'.kind = kind /\ outside'.pc = pc
         /\ outside'.mem = m /\ outside'.base = doc
  BY DEF Enter, Outsiders, Docs

LEMMA ProceedType ==
  ASSUME outside \in Outsiders, NEW pc \in {"release", "pause", "auto", "write", "read"},
         NEW m \in Docs, Proceed(pc, m)
  PROVE  /\ outside' \in Outsiders /\ outside'.kind = outside.kind /\ outside'.pc = pc
         /\ outside'.mem = m /\ outside'.base = outside.base
  BY DEF Proceed, Outsiders, Docs

\* A command leaves the battery in some mode.
LEMMA SetsType ==
  ASSUME Typed, NEW by, NEW m \in Modes, NEW ok, Sets(by, m, ok)
  PROVE  device' \in Modes /\ lapsed' \in BOOLEAN
  BY DEF Sets, Command, Typed

\* A write keeps the types, and arms the timer that the document asks for.
LEMMA SyncDeadlineType ==
  ASSUME timer \in Timers, stale \subseteq Moments, NEW d \in Docs, SyncDeadline(d)
  PROVE  timer' \in Timers /\ stale' \subseteq Moments
  <1>1. SlotEndKey(d) \in Moments
    BY HorizonAssumption DEF SlotEndKey, Docs, Doc, Moments
  <1> DEFINE key == SlotEndKey(d)
  <1>2. timer' = NoTimer \/ timer' = timer \/ timer' = [st |-> "armed", key |-> key]
    BY DEF SyncDeadline
  <1>3. stale' \in {stale, stale \cup {timer.key}}
    BY DEF SyncDeadline
  <1> QED
    BY <1>1, <1>2, <1>3, IdleType DEF Timers

LEMMA CommitType ==
  ASSUME Typed, NEW base \in Docs, NEW new \in Docs, Commit(base, new)
  PROVE  doc' \in Docs /\ timer' \in Timers /\ stale' \subseteq Moments
  <1>1. doc' = Merge(doc, base, new) /\ doc' \in Docs /\ SyncDeadline(doc')
    BY MergeType DEF Commit, Typed
  <1> QED
    BY <1>1, SyncDeadlineType DEF Typed

-----------------------------------------------------------------------------
(* The steps of an evaluation.                                              *)

\* What a step makes of the document in mind, by where it is and where it goes.
Moves ==
  LET old == job.mem
      new == job'.mem
      from(pc) == job.pc = pc
      to(pc) == job'.pc = pc
      gone == ~new.owner /\ new.slot = 0
      kept == new.owner = old.owner /\ new.slot = old.slot
      free == old.paused <= job.now
  IN \/ from("expire") /\ to("decide") /\ kept /\ new.hold = 0
     \/ from("decide") /\ guard /\ to("write") /\ new = old
     \/ from("decide") /\ guard /\ to("write") /\ gone /\ new.hold = old.hold
     \/ from("decide") /\ ~guard /\ to("drop") /\ new = old /\ old.owner
     \/ from("decide") /\ ~guard /\ to("write") /\ new = old /\ ~old.owner
     \/ from("decide") /\ ~guard /\ to("standby") /\ new = old /\ ~old.owner /\ free
     \/ from("decide") /\ ~guard /\ to("refresh") /\ new = old /\ old.owner /\ free
     \/ from("decide") /\ ~guard /\ to("start") /\ new = old /\ ~old.owner /\ free
     \/ from("drop") /\ to("write") /\ gone /\ new.hold = 0
     \/ from("drop") /\ to("standby") /\ gone /\ new.hold = 0 /\ free
     \/ from("refresh") /\ to("stop") /\ new = old
     \/ from("refresh") /\ to("stop") /\ new.owner = old.owner /\ new.slot # 0 /\ new.hold = old.hold
     \/ from("stop") /\ to("start") /\ (new = old \/ gone)
     \/ from("stop") /\ to("write") /\ new = old
     \/ from("start") /\ to("start") /\ old.owner /\ gone /\ new.hold = 0
     \/ from("start") /\ to("write") /\ ~old.owner /\ new.owner /\ new.slot # 0 /\ new.hold = 0
     \/ from("start") /\ to("write") /\ new = old
     \/ from("start") /\ (to("undo") \/ to("solar") \/ to("standby")) /\ new = old /\ ~old.owner
     \/ from("solar") /\ to("write") /\ kept /\ new.hold = 0
     \/ from("undo") /\ to("write") /\ kept
     \/ from("standby") /\ to("write") /\ kept

\* A step ends the evaluation, or goes on with a document under the pause it knows.
Steps ==
  /\ job.kind = "evaluate"
  /\ \/ job' = NoJob
     \/ /\ job' \in Jobs /\ job'.mem \in Docs
        /\ job'.kind = job.kind /\ job'.base = job.base /\ job'.now = job.now /\ job'.by = job.by
        /\ job'.mem.paused = job.mem.paused
        /\ Moves

\* Every step but the last is one of these; Backup Preparation lets none begin.
LEMMA EvaluateSteps ==
  ASSUME Base, Evaluate, ~EvaluateWrite
  PROVE  /\ Steps /\ UNCHANGED Locked /\ ~backup
         /\ device' \in Modes /\ lapsed' \in BOOLEAN
  <1> DEFINE m == job.mem
             Pcs == Evaluating \cup {"idle", "free", "evaluate"}
  <1>1. /\ Typed /\ job \in Jobs /\ m \in Docs /\ job.now \in 0..Horizon /\ job.now \in Moments
        /\ m.owner \in BOOLEAN /\ m.slot \in Moments /\ m.hold \in Moments /\ m.paused \in Moments
        /\ 0 \in Moments /\ WindowEnd(job.now) \in Moments /\ WindowEnd(m.slot) \in Moments
        /\ \A e \in SlotEnds(job.now) : e \in Moments /\ e # 0 /\ WindowEnd(e) \in Moments
        /\ Modes = {"auto", "standby", "charge", "manual"}
    <2>1. Typed /\ job \in Jobs /\ m \in Docs /\ job.now \in 0..Horizon
      BY HorizonAssumption DEF Base, Typed
    <2> QED
      BY <2>1, Calendar DEF Docs, Doc, Modes
  <1>2. ASSUME NEW pc \in Pcs, NEW d \in Docs, Goto(pc, d)
        PROVE  /\ job' \in Jobs /\ job'.mem \in Docs /\ job'.pc = pc /\ job'.mem = d
               /\ job'.kind = job.kind /\ job'.base = job.base /\ job'.now = job.now /\ job'.by = job.by
    BY <1>1, <1>2, GotoType
  <1>3. /\ Held(m, 0) \in Docs /\ Held(m, 0).owner = m.owner /\ Held(m, 0).slot = m.slot
        /\ Held(m, 0).hold = 0 /\ Held(m, 0).paused = m.paused
    BY <1>1, HeldType
  <1>4. /\ Released(m) \in Docs /\ ~Released(m).owner /\ Released(m).slot = 0
        /\ Released(m).hold = 0 /\ Released(m).paused = m.paused
    BY <1>1, ReleasedType
  <1>5. LET h == Held(m, WindowEnd(job.now))
        IN h \in Docs /\ h.owner = m.owner /\ h.slot = m.slot /\ h.paused = m.paused
    BY <1>1, HeldType
  <1> USE DEF Steps, Moves, Working, Locked, facts, Evaluating
  <1>6. CASE EvaluateExpire
    BY <1>1, <1>2, <1>3, <1>6, SetsType DEF EvaluateExpire, End, Base, Turns
  <1>7. CASE EvaluateDecide
    <2>1. ~backup /\ job.kind = "evaluate" /\ job.pc = "decide" /\ UNCHANGED <<Locked, device, lapsed>>
      BY <1>7 DEF EvaluateDecide, Base, Turns
    <2>2. device' \in Modes /\ lapsed' \in BOOLEAN
      BY <1>1, <2>1 DEF Typed
    <2>3. \/ guard /\ Goto("write", m)
          \/ ~guard /\ m.owner /\ Goto("drop", m)
          \/ ~guard /\ ~m.owner /\ Goto("write", m)
          \/ ~guard /\ ~m.owner /\ m.paused <= job.now /\ Goto("standby", m)
          \/ guard /\ Goto("write", Unowned(m))
          \/ ~guard /\ m.paused <= job.now /\ m.owner /\ Goto("refresh", m)
          \/ ~guard /\ m.paused <= job.now /\ ~m.owner /\ Goto("start", m)
      <3>1. job.now \in Int /\ m.paused \in Int
        BY <1>1 DEF Moments
      <3>2. ASSUME NEW pc \in Unavailable(m, job.now)
            PROVE  \/ pc = "write"
                   \/ pc = "standby" /\ m.paused <= job.now
        BY <3>2 DEF Unavailable
      <3> QED
        BY <1>7, <3>1, <3>2 DEF EvaluateDecide
    <2>4. ASSUME NEW pc \in Pcs, Goto(pc, m)
          PROVE  /\ job' \in Jobs /\ job'.mem \in Docs /\ job'.mem = m /\ job'.pc = pc
                 /\ job'.kind = job.kind /\ job'.base = job.base /\ job'.now = job.now /\ job'.by = job.by
      BY <1>1, <1>2, <2>4
    <2>5. CASE guard /\ Goto("write", Unowned(m))
      <3>1. /\ Unowned(m) \in Docs /\ ~Unowned(m).owner /\ Unowned(m).slot = 0
            /\ Unowned(m).hold = m.hold /\ Unowned(m).paused = m.paused
        BY <1>1, UnownedType
      <3> QED
        BY <1>2, <2>1, <2>2, <2>5, <3>1
    <2> QED
      BY <2>1, <2>2, <2>3, <2>4, <2>5
  <1>8. CASE EvaluateDrop
    BY <1>1, <1>2, <1>4, <1>8, SetsType DEF EvaluateDrop, End, Base, Turns, Unavailable
  <1>9. CASE EvaluateRefresh
    <2>1. ~backup /\ job.kind = "evaluate" /\ job.pc = "refresh" /\ UNCHANGED Locked
      BY <1>9 DEF EvaluateRefresh, Base, Turns
    <2>2. device' \in Modes /\ lapsed' \in BOOLEAN
      BY <1>1, <1>9, SetsType DEF EvaluateRefresh, Typed
    <2>3. CASE job' = NoJob
      BY <2>1, <2>2, <2>3
    <2>4. CASE Goto("stop", m)
      BY <1>1, <1>2, <2>1, <2>2, <2>4
    <2>5. ASSUME NEW e \in SlotEnds(job.now), Goto("stop", Resized(m, e))
          PROVE  Steps
      <3>1. /\ Resized(m, e) \in Docs /\ Resized(m, e).slot # 0 /\ Resized(m, e).owner = m.owner
            /\ Resized(m, e).hold = m.hold /\ Resized(m, e).paused = m.paused
        BY <1>1, ResizedType
      <3> QED
        BY <1>2, <2>1, <2>5, <3>1
    <2> QED
      BY <1>9, <2>1, <2>2, <2>3, <2>4, <2>5 DEF EvaluateRefresh, End
  <1>10. CASE EvaluateStop
    <2>1. ~backup /\ job.kind = "evaluate" /\ job.pc = "stop" /\ UNCHANGED Locked
      BY <1>10 DEF EvaluateStop, Base, Turns
    <2> DEFINE end == WindowEnd(m.slot)
               hold == InWindow(job.now) /\ job.now < end
               stops == {<<"auto", Released(m)>>}
                 \cup (IF job.now < m.slot THEN {<<"standby", Suspended(m, 0)>>} ELSE {})
                 \cup (IF hold THEN {<<"standby", Suspended(m, end)>>} ELSE {})
    <2>2. /\ Suspended(m, 0) \in Docs /\ ~Suspended(m, 0).owner /\ Suspended(m, 0).slot = 0
          /\ Suspended(m, 0).paused = m.paused
          /\ Suspended(m, end) \in Docs /\ ~Suspended(m, end).owner /\ Suspended(m, end).slot = 0
          /\ Suspended(m, end).paused = m.paused
      BY <1>1, SuspendedType
    <2>3. ASSUME NEW s \in stops
          PROVE  /\ s[1] \in Modes /\ s[2] \in Docs
                 /\ ~s[2].owner /\ s[2].slot = 0 /\ s[2].paused = m.paused
      BY <1>1, <1>4, <2>2
    <2> HIDE DEF stops
    <2>4. CASE /\ Goto("start", m) /\ UNCHANGED <<device, lapsed>>
      BY <1>1, <1>2, <2>1, <2>4 DEF Typed
    <2>5. ASSUME NEW s \in stops, NEW ok \in BOOLEAN, Sets("adaptive", s[1], ok),
                 IF ok THEN Goto("start", s[2]) ELSE Goto("write", m)
          PROVE  Steps /\ device' \in Modes /\ lapsed' \in BOOLEAN
      <3>1. device' \in Modes /\ lapsed' \in BOOLEAN
        BY <1>1, <2>3, <2>5, SetsType
      <3>2. CASE Goto("start", s[2])
        BY <1>2, <2>1, <2>3, <3>1, <3>2
      <3>3. CASE Goto("write", m)
        BY <1>1, <1>2, <2>1, <3>1, <3>3
      <3> QED
        BY <2>5, <3>1, <3>2, <3>3
    <2>6. \/ /\ Goto("start", m) /\ UNCHANGED <<device, lapsed>>
          \/ \E s \in stops, ok \in BOOLEAN :
               /\ Sets("adaptive", s[1], ok)
               /\ IF ok THEN Goto("start", s[2]) ELSE Goto("write", m)
      BY <1>10 DEF EvaluateStop, stops
    <2> QED
      BY <2>1, <2>4, <2>5, <2>6
  <1>11. CASE EvaluateIdle
    BY <1>1, <1>2, <1>4, <1>11, SetsType DEF EvaluateIdle, End, Base, Turns
  <1>12. CASE EvaluateCharge
    <2>1. ~backup /\ job.kind = "evaluate" /\ job.pc = "start" /\ ~m.owner /\ UNCHANGED Locked
      BY <1>12 DEF EvaluateCharge, Base, Turns
    <2>2. PICK e \in SlotEnds(job.now), ok \in BOOLEAN :
            /\ Sets("adaptive", "charge", ok)
            /\ IF ok THEN Goto("write", Charged(m, e)) ELSE Goto("undo", m)
      BY <1>12 DEF EvaluateCharge
    <2>3. device' \in Modes /\ lapsed' \in BOOLEAN
      BY <1>1, <2>2, SetsType
    <2>4. /\ Charged(m, e) \in Docs /\ Charged(m, e).owner /\ Charged(m, e).slot # 0
          /\ Charged(m, e).hold = 0 /\ Charged(m, e).paused = m.paused
      BY <1>1, ChargedType
    <2>5. CASE Goto("write", Charged(m, e))
      BY <1>2, <2>1, <2>3, <2>4, <2>5
    <2>6. CASE Goto("undo", m)
      BY <1>1, <1>2, <2>1, <2>3, <2>6
    <2> QED
      BY <2>2, <2>5, <2>6
  <1>13. CASE EvaluateWait
    BY <1>1, <1>2, <1>13 DEF EvaluateWait, Base, Turns, Typed
  <1>14. CASE EvaluateSolar
    BY <1>1, <1>2, <1>3, <1>14, SetsType DEF EvaluateSolar, End, Base, Turns
  <1>15. CASE EvaluateUndo
    BY <1>1, <1>2, <1>5, <1>15 DEF EvaluateUndo, Base, Turns, Typed, Command
  <1>16. CASE EvaluateStandby
    BY <1>1, <1>2, <1>5, <1>16, SetsType DEF EvaluateStandby, Base, Turns, Typed
  <1> QED
    BY <1>6, <1>7, <1>8, <1>9, <1>10, <1>11, <1>12, <1>13, <1>14, <1>15, <1>16 DEF Evaluate

-----------------------------------------------------------------------------
(* Every step keeps the types and the turns.                                *)

LEMMA BaseInit ==
  ASSUME Init
  PROVE  Base
  <1>1. /\ 0 \in 0..Horizon /\ t = 0 /\ device \in Modes /\ stale \subseteq Moments
        /\ doc = NoDoc /\ timer = NoTimer /\ asked = Never /\ job = NoJob /\ outside = Nobody
    BY HorizonAssumption DEF Init, Modes
  <1>2. /\ enabled \in BOOLEAN /\ guard \in BOOLEAN /\ backup \in BOOLEAN
        /\ manual \in BOOLEAN /\ lapsed \in BOOLEAN
    BY DEF Init
  <1>3. Typed
    BY <1>1, <1>2, IdleType, NoDocType DEF Typed
  <1> QED
    BY <1>1, <1>3, IdleType DEF Base, Shape, Turns

LEMMA EvaluateBase ==
  ASSUME Base, Evaluate
  PROVE  Base'
  <1>1. CASE ~EvaluateWrite
    <2>1. Steps /\ UNCHANGED Locked /\ ~backup /\ device' \in Modes /\ lapsed' \in BOOLEAN
      BY <1>1, EvaluateSteps
    <2>2. Typed' /\ Shape'
      <3>1. /\ job' \in Jobs /\ job'.mem \in Docs /\ job'.base \in Docs /\ job'.now \in 0..t
            /\ \/ job' = NoJob
               \/ job'.kind = "evaluate" /\ job'.by = job.by /\ job'.pc \in Evaluating
        BY <2>1, IdleType, NoDocType DEF Base, Typed, Steps, Moves, Evaluating
      <3>2. Typed'
        BY <2>1, <3>1 DEF Base, Typed, Locked, facts
      <3>3. Shape'
        BY <2>1, <3>1, IdleType DEF Base, Shape, Locked, facts, Steps
      <3> QED
        BY <3>2, <3>3
    <2>3. Turns'
      BY <2>1, IdleType DEF Base, Turns, Steps, Moves, Locked, facts
    <2> QED
      BY <2>2, <2>3 DEF Base
  <1>2. CASE EvaluateWrite
    <2>1. job.kind = "evaluate" /\ job' = NoJob /\ Commit(job.base, job.mem)
          /\ UNCHANGED <<facts, device, asked, outside, manual, lapsed>>
      BY <1>2 DEF EvaluateWrite, End, Working
    <2>2. doc' \in Docs /\ timer' \in Timers /\ stale' \subseteq Moments
      BY <2>1, CommitType DEF Base, Typed
    <2> QED
      BY <2>1, <2>2, IdleType, NoDocType DEF Base, Typed, Shape, Turns, facts
  <1> QED
    BY <1>1, <1>2

LEMMA DeadlineBase ==
  ASSUME Base, TimerFires \/ DeadlineBegin \/ DeadlineStop \/ DeadlineWrite
  PROVE  Base'
  <1>1. CASE TimerFires
    <2>1. timer' \in Timers
      BY <1>1 DEF TimerFires, Base, Typed, Timers
    <2> QED
      BY <1>1, <2>1 DEF TimerFires, Base, Typed, Shape, Turns, facts
  <1>2. CASE DeadlineBegin
    <2>1. /\ job = NoJob /\ UNCHANGED <<facts, doc, device, asked, outside, manual, lapsed>>
          /\ \/ job' = job
             \/ ~guard /\ Hold("deadline", "stop", doc, t, "none")
      BY <1>2 DEF DeadlineBegin
    <2>2. timer' \in Timers /\ stale' \subseteq Moments
      <3>1. timer \in Timers /\ NoTimer \in Timers /\ stale \subseteq Moments
            /\ [timer EXCEPT !.st = "armed"] \in Timers /\ [timer EXCEPT !.st = "running"] \in Timers
        BY IdleType DEF Base, Typed, Timers
      <3> QED
        BY <1>2, <3>1 DEF DeadlineBegin
    <2>3. \/ job' = NoJob
          \/ /\ job' \in Jobs /\ job'.pc = "stop" /\ job'.mem = doc /\ job'.kind = "deadline"
             /\ job'.base = doc /\ job'.now = t /\ job'.by = "none"
      BY <2>1, HoldType, HorizonAssumption DEF Base, Typed, Evaluating, Moments
    <2> QED
      BY <2>1, <2>2, <2>3, IdleType, NoDocType DEF Base, Typed, Shape, Turns, facts
  <1>3. CASE DeadlineStop
    <2> DEFINE end == WindowEnd(job.mem.slot)
    <2>1. /\ job \in Jobs /\ job.mem \in Docs /\ end \in Moments
          /\ Released(job.mem) \in Docs /\ Suspended(job.mem, end) \in Docs
      BY ReleasedType, SuspendedType DEF Base, Typed, Docs
    <2>2. /\ job.kind = "deadline" /\ UNCHANGED Locked /\ device' \in Modes /\ lapsed' \in BOOLEAN
          /\ \E m \in Docs : Goto("write", m)
      BY <1>3, <2>1, SetsType DEF DeadlineStop, Working, Base, Modes
    <2>3. /\ job' \in Jobs /\ job'.mem \in Docs /\ job'.pc = "write" /\ job'.kind = "deadline"
          /\ job'.base = job.base /\ job'.now = job.now /\ job'.by = job.by
      BY <2>1, <2>2, GotoType DEF Evaluating
    <2> QED
      BY <2>2, <2>3, IdleType DEF Base, Typed, Shape, Turns, Locked, facts
  <1>4. CASE DeadlineWrite
    <2>1. /\ job.kind = "deadline" /\ job' = NoJob
          /\ UNCHANGED <<facts, device, asked, outside, manual, lapsed>>
          /\ doc' = Merge(doc, job.base, job.mem)
          /\ \/ timer' = [timer EXCEPT !.st = "armed"] /\ stale' = stale
             \/ SyncDeadline(doc')
      BY <1>4 DEF DeadlineWrite, End, Working
    <2>2. doc' \in Docs /\ timer' \in Timers /\ stale' \subseteq Moments
      <3>1. doc' \in Docs /\ [timer EXCEPT !.st = "armed"] \in Timers
        BY <2>1, MergeType DEF Base, Typed, Timers
      <3> QED
        BY <2>1, <3>1, SyncDeadlineType DEF Base, Typed
    <2> QED
      BY <2>1, <2>2, IdleType, NoDocType DEF Base, Typed, Shape, Turns, facts
  <1> QED
    BY <1>1, <1>2, <1>3, <1>4

\* The pause and the resume.
LEMMA PauseBase ==
  ASSUME Base, \/ PauseBegin \/ PauseFree \/ PauseWrite \/ ManualCommand
               \/ ResumeBegin \/ ResumeFree \/ ResumeWrite
  PROVE  Base'
  <1>1. /\ Typed /\ t \in Moments /\ 0 \in Moments /\ job \in Jobs /\ doc \in Docs
        /\ job.mem \in Docs /\ job.base \in Docs /\ outside \in Outsiders /\ outside.mem \in Docs
        /\ Midnight(job.now) \in Moments /\ "manual" \in Modes /\ "auto" \in Modes
    <2>1. t \in 0..Horizon /\ job.now \in 0..Horizon
      BY HorizonAssumption DEF Base, Typed
    <2> QED
      BY <2>1, Calendar DEF Base, Typed, Modes
  <1>2. CASE PauseBegin
    <2>1. PICK by \in {"manual", "settings"} :
            /\ by = "settings" => outside.kind = "settings" /\ outside.pc = "pause"
            /\ \/ /\ Hold("pause", IF doc.owner \/ doc.hold # 0 THEN "free" ELSE "write", doc, t, by)
                  /\ UNCHANGED <<outside, manual>>
               \/ /\ UNCHANGED job
                  /\ \/ manual' = TRUE /\ UNCHANGED outside
                     \/ by = "settings" /\ Proceed("auto", outside.mem) /\ UNCHANGED manual
      BY <1>2 DEF PauseBegin
    <2>2. job = NoJob /\ ~backup /\ UNCHANGED <<facts, doc, device, timer, stale, asked, lapsed>>
      BY <1>2 DEF PauseBegin
    <2> DEFINE pc == IF doc.owner \/ doc.hold # 0 THEN "free" ELSE "write"
    <2>3. CASE /\ Hold("pause", pc, doc, t, by) /\ UNCHANGED <<outside, manual>>
      <3>1. pc \in {"free", "write"}
        OBVIOUS
      <3> HIDE DEF pc
      <3>2. /\ job' \in Jobs /\ job'.pc \in {"free", "write"} /\ job'.mem = doc /\ job'.kind = "pause"
            /\ job'.base = doc /\ job'.now = t /\ job'.by = by
        BY <1>1, <2>3, <3>1, HoldType DEF Evaluating
      <3> QED
        BY <2>1, <2>2, <2>3, <3>2, IdleType DEF Base, Typed, Shape, Turns, facts
    <2>4. CASE UNCHANGED job /\ manual' = TRUE /\ UNCHANGED outside
      BY <2>2, <2>4 DEF Base, Typed, Shape, Turns, facts
    <2>5. CASE UNCHANGED <<job, manual>> /\ by = "settings" /\ Proceed("auto", outside.mem)
      <3>1. /\ outside' \in Outsiders /\ outside'.kind = "settings" /\ outside'.pc = "auto"
            /\ outside'.mem = outside.mem /\ outside'.base = outside.base
        BY <1>1, <2>1, <2>5, ProceedType
      <3> QED
        BY <2>2, <2>5, <3>1, IdleType DEF Base, Typed, Shape, Turns, facts
    <2> QED
      BY <2>1, <2>3, <2>4, <2>5
  <1>3. CASE PauseFree
    <2>1. /\ job.kind = "pause" /\ device' \in Modes /\ lapsed' \in BOOLEAN
          /\ UNCHANGED <<facts, doc, timer, stale, asked, manual>>
          /\ \/ Goto("write", Released(job.mem)) /\ outside' = outside
             \/ job' = NoJob /\ job.by = "settings" /\ outside' = Nobody
             \/ job' = NoJob /\ outside' = outside
      BY <1>1, <1>3, SetsType DEF PauseFree, Working, End
    <2>2. \/ job' = NoJob
          \/ /\ job' \in Jobs /\ job'.pc = "write" /\ job'.mem \in Docs /\ job'.kind = "pause"
             /\ job'.base = job.base /\ job'.now = job.now /\ job'.by = job.by /\ outside' = outside
      BY <1>1, <2>1, ReleasedType, GotoType DEF Evaluating
    <2> QED
      BY <2>1, <2>2, IdleType, NoDocType DEF Base, Typed, Shape, Turns, facts
  <1>4. CASE PauseWrite
    <2>1. /\ job.kind = "pause" /\ job' = NoJob /\ UNCHANGED <<facts, device, asked, lapsed>>
          /\ Commit(job.base, Paused(job.mem, Midnight(job.now)))
          /\ \/ manual' = TRUE /\ UNCHANGED outside
             \/ job.by = "settings" /\ Proceed("auto", outside.mem) /\ UNCHANGED manual
      BY <1>1, <1>4 DEF PauseWrite, Working, End, Base, Shape, Jobs
    <2>2. doc' \in Docs /\ timer' \in Timers /\ stale' \subseteq Moments
      BY <1>1, <2>1, PausedType, CommitType
    <2>3. \/ outside' = outside
          \/ /\ outside' \in Outsiders /\ outside'.kind = "settings" /\ outside'.pc = "auto"
             /\ outside'.mem = outside.mem /\ outside'.base = outside.base
      BY <1>1, <2>1, ProceedType DEF Base, Shape
    <2>4. manual' \in BOOLEAN
      BY <2>1 DEF Base, Typed
    <2> QED
      BY <2>1, <2>2, <2>3, <2>4, IdleType, NoDocType DEF Base, Typed, Shape, Turns, facts
  <1>5. CASE ManualCommand
    <2>1. /\ device' \in Modes /\ lapsed' \in BOOLEAN /\ manual' \in BOOLEAN
          /\ UNCHANGED <<facts, doc, timer, stale, asked, job, outside>>
      BY <1>1, <1>5, SetsType DEF ManualCommand
    <2> QED
      BY <2>1 DEF Base, Typed, Shape, Turns, facts
  <1>6. CASE ResumeBegin
    <2> DEFINE pc == IF doc.hold # 0 THEN "free" ELSE "write"
    <2>1. /\ Hold("resume", pc, doc, t, "none") /\ job = NoJob /\ ~backup
          /\ UNCHANGED <<facts, doc, device, timer, stale, asked, outside, manual, lapsed>>
      BY <1>6 DEF ResumeBegin
    <2>2. pc \in {"free", "write"}
      OBVIOUS
    <2> HIDE DEF pc
    <2>3. /\ job' \in Jobs /\ job'.pc \in {"free", "write"} /\ job'.mem = doc /\ job'.kind = "resume"
          /\ job'.base = doc /\ job'.now = t /\ job'.by = "none"
      BY <1>1, <2>1, <2>2, HoldType DEF Evaluating
    <2> QED
      BY <2>1, <2>3, IdleType DEF Base, Typed, Shape, Turns, facts
  <1>7. CASE ResumeFree
    <2>1. /\ job.kind = "resume" /\ device' \in Modes /\ lapsed' \in BOOLEAN /\ UNCHANGED Locked
          /\ job' = NoJob \/ Goto("write", Held(job.mem, 0))
      BY <1>1, <1>7, SetsType DEF ResumeFree, Working, End
    <2>2. \/ job' = NoJob
          \/ /\ job' \in Jobs /\ job'.pc = "write" /\ job'.mem \in Docs /\ job'.kind = "resume"
             /\ job'.base = job.base /\ job'.now = job.now /\ job'.by = job.by
      <3>1. job \in Jobs /\ job.mem \in Docs /\ 0 \in Moments
        BY <1>1
      <3>2. Held(job.mem, 0) \in Docs
        BY <3>1, HeldType
      <3>3. CASE Goto("write", Held(job.mem, 0))
        BY <2>1, <3>1, <3>2, <3>3, GotoType DEF Evaluating
      <3> QED
        BY <2>1, <3>3
    <2> QED
      BY <2>1, <2>2, IdleType, NoDocType DEF Base, Typed, Shape, Turns, Locked, facts
  <1>8. CASE ResumeWrite
    <2>1. /\ job.kind = "resume" /\ job' = NoJob /\ UNCHANGED <<facts, device, asked, outside, manual, lapsed>>
          /\ Commit(job.base, Paused(job.mem, 0))
      BY <1>8 DEF ResumeWrite, Working, End
    <2>2. doc' \in Docs /\ timer' \in Timers /\ stale' \subseteq Moments
      BY <1>1, <2>1, PausedType, CommitType
    <2> QED
      BY <2>1, <2>2, IdleType, NoDocType DEF Base, Typed, Shape, Turns, facts
  <1> QED
    BY <1>2, <1>3, <1>4, <1>5, <1>6, <1>7, <1>8

\* The automation lock changes hands.
LEMMA AutomationBase ==
  ASSUME Base, \/ EvaluateAsk \/ EvaluateBegin \/ GuardTurns \/ GuardRestore
               \/ RestoreBegin \/ RestoreWrite \/ RestoreEvaluate
  PROVE  Base'
  <1>1. /\ Typed /\ t \in Moments /\ t \in 0..Horizon /\ job \in Jobs /\ doc \in Docs
        /\ job.mem \in Docs /\ job.base \in Docs /\ asked.now \in Moments /\ asked.now \in 0..t
        /\ "standby" \in Modes /\ "auto" \in Modes
    BY HorizonAssumption DEF Base, Typed, Modes, Moments
  <1>2. CASE EvaluateAsk
    <2>1. /\ asked' \in Asks /\ asked'.now = t /\ asked'.kind = "evaluate"
          /\ job.kind \notin {"evaluate", "restore"} /\ outside.kind # "backup"
          /\ UNCHANGED <<facts, doc, device, timer, stale, job, outside, manual, lapsed>>
      BY <1>1, <1>2 DEF EvaluateAsk, Unattended, Asks
    <2> QED
      BY <1>1, <2>1 DEF Base, Typed, Shape, Turns, facts
  <1>3. CASE EvaluateBegin
    <2>1. /\ FirstStep(doc, asked.now) /\ asked' = Never /\ asked.kind = "evaluate"
          /\ UNCHANGED <<facts, doc, device, timer, stale, outside, manual, lapsed>>
      BY <1>3 DEF EvaluateBegin
    <2>2. /\ job' \in Jobs /\ job'.kind = "evaluate" /\ job'.base = doc /\ job'.now = asked.now /\ job'.by = "none"
          /\ \/ backup /\ job'.pc = "write" /\ job'.mem = Released(doc)
             \/ ~backup /\ job'.pc = "expire" /\ job'.mem = doc /\ ~guard
             \/ ~backup /\ job'.pc = "decide" /\ job'.mem = doc
      BY <1>1, <2>1, FirstStepType
    <2>3. asked # Never /\ outside.kind # "backup"
      BY <2>1, IdleType DEF Base, Turns
    <2>4. Typed'
      BY <1>1, <2>1, <2>2, ReleasedType, IdleType DEF Typed, facts
    <2>5. Shape'
      <3>1. job.by # "settings"
        BY <1>3, IdleType DEF EvaluateBegin
      <3> QED
        BY <2>1, <2>2, <3>1 DEF Base, Shape, Evaluating
    <2>6. Turns'
      BY <1>1, <2>1, <2>2, <2>3, ReleasedType DEF Base, Turns, facts
    <2> QED
      BY <2>4, <2>5, <2>6 DEF Base
  <1>4. CASE GuardTurns
    <2>1. /\ job.kind \notin {"evaluate", "restore"} /\ guard' \in BOOLEAN
          /\ device' \in Modes /\ lapsed' \in BOOLEAN
          /\ UNCHANGED <<t, enabled, backup, doc, timer, stale, asked, job, outside, manual>>
      BY <1>1, <1>4 DEF GuardTurns, Unattended, Typed
    <2> QED
      BY <2>1 DEF Base, Typed, Shape, Turns
  <1>5. CASE GuardRestore
    <2>1. /\ job.kind \notin {"evaluate", "restore"} /\ guard' \in BOOLEAN
          /\ device' \in Modes /\ lapsed' \in BOOLEAN /\ outside.kind # "backup"
          /\ asked' \in Asks /\ asked'.now = t /\ asked'.kind = "restore"
          /\ UNCHANGED <<t, enabled, backup, doc, timer, stale, job, outside, manual>>
      BY <1>1, <1>5 DEF GuardRestore, Unattended, Asks
    <2> QED
      BY <1>1, <2>1 DEF Base, Typed, Shape, Turns
  <1>6. CASE RestoreBegin
    <2>1. /\ job = NoJob /\ asked' = Never /\ asked # Never
          /\ UNCHANGED <<facts, doc, device, timer, stale, outside, manual, lapsed>>
          /\ job' = job \/ Hold("restore", "write", Released(doc), t, "none")
      BY <1>6, IdleType DEF RestoreBegin
    <2>2. \/ job' = NoJob
          \/ /\ job' \in Jobs /\ job'.kind = "restore" /\ job'.pc = "write" /\ job'.mem \in Docs
             /\ job'.base = doc /\ job'.now = t /\ job'.by = "none"
      BY <1>1, <2>1, ReleasedType, HoldType DEF Evaluating
    <2> QED
      BY <1>1, <2>1, <2>2, IdleType, NoDocType DEF Base, Typed, Shape, Turns, facts
  <1>7. CASE RestoreWrite
    <2>1. /\ job.kind = "restore" /\ Commit(job.base, job.mem) /\ Goto("evaluate", job.mem)
          /\ UNCHANGED <<facts, device, asked, outside, manual, lapsed>>
      BY <1>7 DEF RestoreWrite, Working
    <2>2. doc' \in Docs /\ timer' \in Timers /\ stale' \subseteq Moments
      BY <1>1, <2>1, CommitType
    <2>3. /\ job' \in Jobs /\ job'.pc = "evaluate" /\ job'.mem = job.mem /\ job'.kind = "restore"
          /\ job'.base = job.base /\ job'.now = job.now /\ job'.by = job.by
      BY <1>1, <2>1, GotoType
    <2> QED
      BY <2>1, <2>2, <2>3, IdleType DEF Base, Typed, Shape, Turns, facts
  <1>8. CASE RestoreEvaluate
    <2>1. /\ job.kind = "restore" /\ UNCHANGED <<Locked, device, lapsed>>
          /\ job' = NoJob \/ FirstStep(doc, t)
      BY <1>8 DEF RestoreEvaluate, Working, End
    <2>2. asked = Never /\ outside.kind # "backup" /\ job.by # "settings"
      BY <2>1 DEF Base, Shape, Turns
    <2>3. CASE job' = NoJob
      BY <2>1, <2>3, IdleType, NoDocType DEF Base, Typed, Shape, Turns, Locked, facts
    <2>4. CASE FirstStep(doc, t)
      <3>1. /\ job' \in Jobs /\ job'.kind = "evaluate" /\ job'.base = doc /\ job'.now = t /\ job'.by = "none"
            /\ \/ backup /\ job'.pc = "write" /\ job'.mem = Released(doc)
               \/ ~backup /\ job'.pc = "expire" /\ job'.mem = doc /\ ~guard
               \/ ~backup /\ job'.pc = "decide" /\ job'.mem = doc
        BY <1>1, <2>4, FirstStepType
      <3>2. Typed'
        BY <1>1, <2>1, <3>1, ReleasedType DEF Typed, Locked, facts
      <3>3. Shape'
        BY <2>1, <2>2, <3>1 DEF Base, Shape, Evaluating, Locked
      <3>4. Turns'
        BY <1>1, <2>1, <2>2, <3>1, ReleasedType DEF Base, Turns, Locked, facts
      <3> QED
        BY <3>2, <3>3, <3>4 DEF Base
    <2> QED
      BY <2>1, <2>3, <2>4
  <1> QED
    BY <1>2, <1>3, <1>4, <1>5, <1>6, <1>7, <1>8

\* A save of settings and Backup Preparation.
LEMMA WriterBase ==
  ASSUME Base, SettingsBegin \/ BackupStart \/ BackupEnd \/ Writer
  PROVE  Base'
  <1>1. /\ Typed /\ 0 \in Moments /\ doc \in Docs /\ outside \in Outsiders
        /\ outside.mem \in Docs /\ outside.base \in Docs /\ "auto" \in Modes
    BY HorizonAssumption DEF Base, Typed, Modes, Moments
  <1>2. /\ Released(doc) \in Docs /\ Released(outside.mem) \in Docs
        /\ Held(doc, 0) \in Docs /\ Held(outside.mem, 0) \in Docs
    BY <1>1, ReleasedType, HeldType
  <1>3. CASE SettingsBegin
    <2> DEFINE pc == IF doc.owner THEN "release" ELSE IF doc.hold # 0 THEN "pause" ELSE "write"
    <2>1. /\ outside = Nobody /\ UNCHANGED <<Free, device, lapsed>>
          /\ Enter("settings", "write", Released(doc)) \/ Enter("settings", pc, doc)
      BY <1>3 DEF SettingsBegin
    <2>2. pc \in {"release", "pause", "write"}
      OBVIOUS
    <2> HIDE DEF pc
    <2>3. /\ outside' \in Outsiders /\ outside'.kind = "settings" /\ outside'.pc \in {"release", "pause", "write"}
          /\ outside'.mem \in Docs /\ outside'.base \in Docs
      BY <1>1, <1>2, <2>1, <2>2, EnterType
    <2> QED
      BY <2>1, <2>3, IdleType DEF Base, Typed, Shape, Turns, Free, facts
  <1>4. CASE SettingsRelease
    <2>1. /\ outside.kind = "settings" /\ outside.pc = "release" /\ UNCHANGED Free
          /\ device' \in Modes /\ lapsed' \in BOOLEAN
          /\ Proceed("write", Released(outside.mem)) \/ outside' = Nobody
      BY <1>1, <1>4, SetsType DEF SettingsRelease, Outside, Leave
    <2>2. \/ outside' = Nobody
          \/ /\ outside' \in Outsiders /\ outside'.kind = "settings" /\ outside'.pc = "write"
             /\ outside'.mem \in Docs /\ outside'.base = outside.base
      BY <1>1, <1>2, <2>1, ProceedType
    <2> QED
      BY <2>1, <2>2, IdleType, NoDocType DEF Base, Typed, Shape, Turns, Free, facts
  <1>5. CASE SettingsAuto
    <2>1. /\ outside.kind = "settings" /\ outside.pc = "auto" /\ UNCHANGED Free
          /\ device' \in Modes /\ lapsed' \in BOOLEAN
          /\ Proceed("write", Held(outside.mem, 0)) \/ outside' = Nobody
      BY <1>1, <1>5, SetsType DEF SettingsAuto, Outside, Leave
    <2>2. \/ outside' = Nobody
          \/ /\ outside' \in Outsiders /\ outside'.kind = "settings" /\ outside'.pc = "write"
             /\ outside'.mem \in Docs /\ outside'.base = outside.base
      BY <1>1, <1>2, <2>1, ProceedType
    <2> QED
      BY <2>1, <2>2, IdleType, NoDocType DEF Base, Typed, Shape, Turns, Free, facts
  <1>6. CASE SettingsWrite
    <2>1. /\ outside.kind = "settings" /\ outside.pc = "write" /\ Commit(outside.base, outside.mem)
          /\ outside' = Nobody /\ enabled' \in BOOLEAN
          /\ UNCHANGED <<t, guard, backup, device, asked, job, manual, lapsed>>
      BY <1>6 DEF SettingsWrite, Outside, Leave
    <2>2. doc' \in Docs /\ timer' \in Timers /\ stale' \subseteq Moments
      BY <1>1, <2>1, CommitType
    <2> QED
      BY <2>1, <2>2, IdleType, NoDocType DEF Base, Typed, Shape, Turns
  <1>7. CASE BackupStart
    <2>1. /\ outside = Nobody /\ asked = Never /\ job.kind \notin {"evaluate", "restore"}
          /\ backup' = TRUE /\ guard' \in BOOLEAN /\ device' \in Modes /\ lapsed' \in BOOLEAN
          /\ outside' = [Nobody EXCEPT !.kind = "backup", !.pc = "read"]
          /\ UNCHANGED <<t, enabled, doc, timer, stale, asked, job, manual>>
      BY <1>1, <1>7 DEF BackupStart, Unattended, Typed
    <2>2. /\ outside' \in Outsiders /\ outside'.kind = "backup" /\ outside'.pc = "read"
          /\ outside'.mem \in Docs /\ outside'.base \in Docs
      BY <2>1, IdleType, NoDocType DEF Nobody, Outsiders, Docs
    <2>3. backup' \in BOOLEAN /\ outside.kind = "none"
      BY <2>1, IdleType
    <2> QED
      BY <2>1, <2>2, <2>3, IdleType DEF Base, Typed, Shape, Turns
  <1>8. CASE BackupRead
    <2> DEFINE pc == IF doc.owner \/ (doc.hold # 0 /\ ~guard) THEN "release" ELSE "write"
    <2>1. /\ outside.kind = "backup" /\ UNCHANGED <<Free, device, lapsed>>
          /\ Enter("backup", pc, Released(doc))
      BY <1>8 DEF BackupRead, Outside
    <2>2. pc \in {"release", "write"}
      OBVIOUS
    <2> HIDE DEF pc
    <2>3. /\ outside' \in Outsiders /\ outside'.kind = "backup" /\ outside'.pc \in {"release", "write"}
          /\ outside'.mem \in Docs /\ outside'.base \in Docs
      BY <1>1, <1>2, <2>1, <2>2, EnterType
    <2> QED
      BY <2>1, <2>3, IdleType DEF Base, Typed, Shape, Turns, Free, facts
  <1>9. CASE BackupRelease
    <2>1. /\ outside.kind = "backup" /\ device' \in Modes /\ lapsed' \in BOOLEAN
          /\ UNCHANGED <<t, enabled, guard, asked, job, manual>>
          /\ \/ Proceed("write", outside.mem) /\ UNCHANGED <<doc, timer, stale, backup>>
             \/ outside' = Nobody /\ backup' = FALSE /\ Commit(doc, Held(doc, 0))
      BY <1>1, <1>9, SetsType DEF BackupRelease, Outside, Leave
    <2>2. CASE Proceed("write", outside.mem) /\ UNCHANGED <<doc, timer, stale, backup>>
      <3>1. /\ outside' \in Outsiders /\ outside'.kind = "backup" /\ outside'.pc = "write"
            /\ outside'.mem \in Docs /\ outside'.base = outside.base
        BY <1>1, <2>1, <2>2, ProceedType
      <3> QED
        BY <2>1, <2>2, <3>1, IdleType DEF Base, Typed, Shape, Turns
    <2>3. CASE outside' = Nobody /\ backup' = FALSE /\ Commit(doc, Held(doc, 0))
      <3>1. doc' \in Docs /\ timer' \in Timers /\ stale' \subseteq Moments
        BY <1>1, <1>2, <2>3, CommitType
      <3>2. backup' \in BOOLEAN /\ ~backup' /\ job.kind \notin {"evaluate", "restore"}
        BY <2>1, <2>3 DEF Base, Turns
      <3> QED
        BY <2>1, <2>3, <3>1, <3>2, IdleType, NoDocType DEF Base, Typed, Shape, Turns
    <2> QED
      BY <2>1, <2>2, <2>3
  <1>10. CASE BackupWrite
    <2>1. /\ outside.kind = "backup" /\ outside' = Nobody /\ Commit(outside.base, outside.mem)
          /\ backup' \in BOOLEAN /\ device' \in Modes /\ lapsed' \in BOOLEAN
          /\ UNCHANGED <<t, enabled, guard, asked, job, manual>>
      BY <1>1, <1>10 DEF BackupWrite, Outside, Leave, Typed
    <2>2. doc' \in Docs /\ timer' \in Timers /\ stale' \subseteq Moments
      BY <1>1, <2>1, CommitType
    <2> QED
      BY <2>1, <2>2, IdleType, NoDocType DEF Base, Typed, Shape, Turns
  <1>11. CASE BackupEnd
    <2>1. /\ outside = Nobody /\ Commit(doc, Held(doc, 0)) /\ ~backup' /\ backup' \in BOOLEAN
          /\ device' \in Modes /\ lapsed' \in BOOLEAN
          /\ UNCHANGED <<t, enabled, guard, asked, job, outside, manual>>
      BY <1>1, <1>11 DEF BackupEnd, Typed
    <2>2. doc' \in Docs /\ timer' \in Timers /\ stale' \subseteq Moments
      BY <1>1, <1>2, <2>1, CommitType
    <2> QED
      BY <2>1, <2>2, IdleType DEF Base, Typed, Shape, Turns
  <1> QED
    BY <1>3, <1>4, <1>5, <1>6, <1>7, <1>8, <1>9, <1>10, <1>11 DEF Writer

LEMMA RestartBase ==
  ASSUME Base, Restart
  PROVE  Base'
  <1>1. /\ asked' = Never /\ job' = NoJob /\ outside' = Nobody /\ manual' = FALSE /\ stale' = {}
        /\ device' \in {"auto", device} /\ UNCHANGED facts
        /\ timer' = NoTimer \/ timer' = [st |-> "armed", key |-> SlotEndKey(doc)]
        /\ doc' = Released(doc) \/ doc' = doc
        /\ lapsed' \in BOOLEAN /\ manual' \in BOOLEAN
    BY DEF Restart
  <1>2. doc' \in Docs /\ SlotEndKey(doc) \in Moments
    BY <1>1, ReleasedType, HorizonAssumption DEF Base, Typed, SlotEndKey, Docs, Doc, Moments
  <1>3. timer' \in Timers /\ device' \in Modes /\ t \in 0..Horizon
    BY <1>1, <1>2, IdleType DEF Timers, Modes, Base, Typed
  <1> QED
    BY <1>1, <1>2, <1>3, IdleType, NoDocType DEF Base, Typed, Shape, Turns, facts

LEMMA BaseNext ==
  ASSUME Base, [Next]_vars
  PROVE  Base'
  <1>1. CASE Tick
    <2>1. t' \in 0..Horizon /\ \A n \in 0..t : n \in 0..t'
      BY <1>1, HorizonAssumption DEF Tick, Base, Typed
    <2> QED
      BY <1>1, <2>1 DEF Tick, Base, Typed, Shape, Turns
  <1>2. CASE UNCHANGED vars
    BY <1>2 DEF Base, Typed, Shape, Turns, vars
  <1> QED
    BY <1>1, <1>2, EvaluateBase, DeadlineBase, PauseBase, AutomationBase, WriterBase, RestartBase
    DEF Next, Job

-----------------------------------------------------------------------------
(* What a writer has in mind, what it has read, and what is on record.      *)

\* The job under way: it has created an owner only in the write of an evaluation, and what
\* it has released has no slot.
JobWork ==
  LET at(pcs) == job.kind = "evaluate" /\ job.pc \in pcs
  IN /\ job.mem.paused = job.base.paused
     /\ job.base.owner => job.base.slot # 0
     /\ job.mem.owner => job.mem.slot # 0
     /\ ~job.mem.owner => \/ job.mem.slot = 0
                          \/ job.mem.slot = job.base.slot /\ ~job.base.owner
     /\ job.mem.owner /\ ~job.base.owner => at({"write"})
     /\ job.mem.owner /\ job.kind # "evaluate" => job.mem.slot = job.base.slot
     /\ at({"drop", "refresh", "stop"}) => job.mem.owner
     /\ at({"solar", "undo", "standby"}) => ~job.mem.owner
     /\ at({"expire", "decide"}) => job.mem.owner = job.base.owner /\ job.mem.slot = job.base.slot
     /\ job.kind = "pause" /\ job.pc = "write" => ~job.mem.owner /\ job.mem.hold = 0
     /\ job.kind = "restore" => ~job.mem.owner
     /\ job.kind = "resume" => job.mem.owner = job.base.owner

\* The writer outside exclusive(): it may only release.
OutsideWork ==
  /\ outside.mem.paused = outside.base.paused
  /\ outside.base.owner => outside.base.slot # 0
  /\ outside.mem.owner => outside.base.owner /\ outside.mem.slot = outside.base.slot
  /\ ~outside.mem.owner => outside.mem.slot \in {0, outside.base.slot}
  /\ outside.mem.hold \in {0, outside.base.hold}
  /\ outside.base.owner /\ ~outside.mem.owner => outside.mem.slot = 0
  /\ ~outside.base.owner /\ outside.mem.slot # outside.base.slot => backup
  /\ outside.kind = "settings" /\ outside.pc = "release" => outside.base.owner

\* A job works on what it has read until it has written.
Active == job.kind # "none" /\ job.pc # "evaluate"

\* Since the job under way has read the document, at most one release was written; since
\* the writer outside has read it, a charge with another end may have taken its place.
Meanwhile ==
  /\ doc.owner => doc.slot # 0
  /\ Active => /\ doc.paused = job.base.paused
               /\ doc.owner => job.base.owner /\ doc.slot = job.base.slot
               /\ doc.hold \in {0, job.base.hold}
               /\ job.base.owner /\ ~doc.owner => ~outside.base.owner
  /\ job.kind = "evaluate" /\ ~job.base.owner =>
       \/ doc.slot = job.base.slot
       \/ doc.slot # 0
       \/ job.pc = "write" /\ ~job.mem.owner
  /\ ~outside.base.owner /\ outside.mem.slot # outside.base.slot => ~doc.owner
  /\ outside.base.owner /\ doc.slot = outside.base.slot => doc.owner

Kept == JobWork /\ OutsideWork /\ Meanwhile

\* What the write of the job under way leaves on record.
LEMMA JobCommit ==
  ASSUME Base, Kept, Active, NEW new \in Docs, new.owner = job.mem.owner, new.slot = job.mem.slot,
         doc' = Merge(doc, job.base, new)
  PROVE  /\ doc' \in Docs
         /\ doc'.owner => doc'.slot # 0
         /\ ~outside.base.owner /\ outside.mem.slot # outside.base.slot => ~doc'.owner
         /\ outside.base.owner /\ doc'.slot = outside.base.slot => doc'.owner
  <1>1. doc \in Docs /\ job.base \in Docs /\ job.mem \in Docs
    BY DEF Base, Typed
  <1>2. /\ doc' \in Docs /\ doc.paused = job.base.paused
        /\ doc'.owner = IF new.owner # job.base.owner /\ doc.owner = job.base.owner THEN new.owner ELSE doc.owner
        /\ doc'.slot = IF new.slot # job.base.slot /\ doc.slot = job.base.slot THEN new.slot ELSE doc.slot
    BY <1>1, MergeType DEF Kept, Meanwhile
  <1>3. /\ doc.owner \in BOOLEAN /\ job.base.owner \in BOOLEAN /\ new.owner \in BOOLEAN
        /\ outside.base.owner \in BOOLEAN
    BY <1>1 DEF Base, Typed, Docs, Doc
  <1>4. ~outside.base.owner /\ outside.mem.slot # outside.base.slot =>
          backup /\ ~doc.owner /\ (new.owner => job.base.owner)
    BY DEF Kept, JobWork, OutsideWork, Meanwhile, Base, Turns
  <1> QED
    BY <1>2, <1>3, <1>4 DEF Kept, JobWork, OutsideWork, Meanwhile

\* What the write of the writer outside leaves on record.
LEMMA OutsideCommit ==
  ASSUME Base, Kept, doc' = Merge(doc, outside.base, outside.mem)
  PROVE  /\ doc' \in Docs
         /\ doc'.paused = doc.paused /\ doc'.hold \in {0, doc.hold}
         /\ doc'.owner => doc.owner /\ doc'.slot = doc.slot
         /\ doc'.slot \in {0, doc.slot}
         /\ doc'.slot # doc.slot => backup \/ doc.owner
  <1>1. doc \in Docs /\ outside.base \in Docs /\ outside.mem \in Docs
    BY DEF Base, Typed
  <1>2. /\ doc' \in Docs
        /\ doc'.owner = IF outside.mem.owner # outside.base.owner /\ doc.owner = outside.base.owner /\ doc.paused = outside.base.paused
                        THEN outside.mem.owner ELSE doc.owner
        /\ doc'.slot = IF outside.mem.slot # outside.base.slot /\ doc.slot = outside.base.slot /\ doc.paused = outside.base.paused
                       THEN outside.mem.slot ELSE doc.slot
        /\ doc'.hold = IF outside.mem.hold # outside.base.hold /\ doc.hold = outside.base.hold /\ doc.paused = outside.base.paused
                       THEN outside.mem.hold ELSE doc.hold
        /\ doc'.paused = IF outside.mem.paused # outside.base.paused /\ doc.paused = outside.base.paused
                         THEN outside.mem.paused ELSE doc.paused
    BY <1>1, MergeType
  <1>3. doc.owner \in BOOLEAN /\ outside.base.owner \in BOOLEAN /\ outside.mem.owner \in BOOLEAN
    BY <1>1 DEF Docs, Doc
  <1> QED
    BY <1>2, <1>3 DEF Kept, OutsideWork, Meanwhile

\* A hold is forgotten in place.
LEMMA ForgetCommit ==
  ASSUME doc \in Docs, doc' = Merge(doc, doc, Held(doc, 0))
  PROVE  /\ doc' \in Docs /\ doc'.owner = doc.owner /\ doc'.slot = doc.slot
         /\ doc'.paused = doc.paused /\ doc'.hold = 0
  <1>1. 0 \in Moments
    BY HorizonAssumption DEF Moments
  <1> QED
    BY <1>1, HeldType, MergeType

LEMMA KeptInit ==
  ASSUME Init
  PROVE  Kept
  BY IdleType, NoDocType DEF Init, Kept, JobWork, OutsideWork, Meanwhile, Active

\* An evaluation writes once, at its end.
LEMMA EvaluateKept ==
  ASSUME Base, Kept, Evaluate
  PROVE  Kept'
  <1>1. CASE ~EvaluateWrite
    <2>1. Steps /\ UNCHANGED Locked
      BY <1>1, EvaluateSteps
    <2>2. OutsideWork'
      BY <2>1 DEF Kept, OutsideWork, Locked, facts
    <2>3. CASE job' = NoJob
      BY <2>1, <2>2, <2>3, IdleType, NoDocType DEF Kept, JobWork, Meanwhile, Active, Locked
    <2>4. CASE job' # NoJob
      <3>1. /\ job.kind = "evaluate" /\ Moves /\ job.mem \in Docs /\ job'.mem \in Docs
            /\ job'.kind = job.kind /\ job'.base = job.base /\ job'.mem.paused = job.mem.paused
            /\ job.pc \in Evaluating
        BY <2>1, <2>4 DEF Steps, Base, Typed, Shape
      <3>2. job.mem.owner \in BOOLEAN /\ job'.mem.owner \in BOOLEAN /\ job.base.owner \in BOOLEAN
        BY <3>1 DEF Docs, Doc, Base, Typed
      <3>3. JobWork'
        BY <3>1, <3>2 DEF Kept, JobWork, Moves
      <3>4. job.pc # "write" /\ Active /\ UNCHANGED <<doc, outside>>
        BY <2>1, <3>1 DEF Moves, Active, Evaluating, Locked
      <3>5. Meanwhile'
        BY <3>1, <3>2, <3>4 DEF Kept, Meanwhile
      <3> QED
        BY <2>2, <3>3, <3>5 DEF Kept
    <2> QED
      BY <2>3, <2>4
  <1>2. CASE EvaluateWrite
    <2>1. /\ Active /\ job' = NoJob /\ doc' = Merge(doc, job.base, job.mem) /\ job.mem \in Docs
          /\ UNCHANGED <<facts, outside>>
      BY <1>2 DEF EvaluateWrite, Working, Active, End, Commit, Base, Typed
    <2> QED
      BY <2>1, JobCommit, IdleType, NoDocType DEF Kept, JobWork, OutsideWork, Meanwhile, Active, facts
  <1> QED
    BY <1>1, <1>2

\* A job that begins has read what is on record.
LEMMA BeginKept ==
  ASSUME Base, Kept, UNCHANGED <<facts, doc, outside>>,
         job'.kind \in {"evaluate", "deadline", "pause", "resume", "restore"},
         job'.base = doc,
         \/ /\ job'.mem = doc
            /\ \/ job'.kind = "evaluate" /\ job'.pc \in {"expire", "decide"}
               \/ job'.kind \in {"deadline", "resume"}
               \/ job'.kind = "pause" /\ (job'.pc = "write" => ~doc.owner /\ doc.hold = 0)
         \/ job'.mem = Released(doc) /\ job'.kind \in {"evaluate", "restore"} /\ job'.pc = "write"
  PROVE  Kept'
  <1>1. /\ doc \in Docs /\ doc.owner \in BOOLEAN
        /\ Released(doc).paused = doc.paused /\ ~Released(doc).owner /\ Released(doc).slot = 0
    BY ReleasedType DEF Base, Typed, Docs, Doc
  <1>2. JobWork'
    <2>1. CASE job'.mem = doc
      BY <1>1, <2>1 DEF Kept, JobWork, Meanwhile
    <2>2. CASE job'.mem = Released(doc)
      BY <1>1, <2>2 DEF Kept, JobWork, Meanwhile
    <2> QED
      BY <2>1, <2>2
  <1>3. OutsideWork'
    BY DEF Kept, OutsideWork, facts
  <1>4. Meanwhile'
    BY <1>1 DEF Kept, Meanwhile
  <1> QED
    BY <1>2, <1>3, <1>4 DEF Kept

\* What does not touch what it relates.
LEMMA IdleKept ==
  ASSUME Kept, UNCHANGED <<backup, doc, outside>>, job' = job \/ job' = NoJob
  PROVE  Kept'
  BY IdleType, NoDocType DEF Kept, JobWork, OutsideWork, Meanwhile, Active

LEMMA DeadlineKept ==
  ASSUME Base, Kept, TimerFires \/ DeadlineBegin \/ DeadlineStop \/ DeadlineWrite
  PROVE  Kept'
  <1>1. CASE TimerFires
    BY <1>1, IdleKept DEF TimerFires, facts
  <1>2. CASE DeadlineBegin
    <2>1. /\ UNCHANGED <<facts, doc, outside>>
          /\ job' = job \/ Hold("deadline", "stop", doc, t, "none")
      BY <1>2 DEF DeadlineBegin
    <2>2. \/ job' = job
          \/ job'.kind = "deadline" /\ job'.mem = doc /\ job'.base = doc
      BY <2>1 DEF Hold
    <2>3. CASE job' = job
      BY <2>1, <2>3, IdleKept DEF facts
    <2>4. CASE job'.kind = "deadline" /\ job'.mem = doc /\ job'.base = doc
      BY <2>1, <2>4, BeginKept
    <2> QED
      BY <2>2, <2>3, <2>4
  <1>3. CASE DeadlineStop
    <2> DEFINE end == WindowEnd(job.mem.slot)
    <2>1. /\ job \in Jobs /\ job.mem \in Docs /\ job.base \in Docs /\ end \in Moments
      BY DEF Base, Typed, Docs
    <2>2. /\ job.kind = "deadline" /\ UNCHANGED Locked
          /\ \E m \in {job.mem, Released(job.mem), Suspended(job.mem, end)} : Goto("write", m)
      BY <1>3 DEF DeadlineStop, Working
    <2>3. /\ job'.kind = "deadline" /\ job'.pc = "write" /\ job'.base = job.base
          /\ job'.mem.paused = job.mem.paused /\ job'.mem.owner \in BOOLEAN
          /\ \/ job'.mem = job.mem
             \/ ~job'.mem.owner /\ job'.mem.slot = 0
      <3>1. /\ Released(job.mem) \in Docs /\ ~Released(job.mem).owner /\ Released(job.mem).slot = 0
            /\ Released(job.mem).paused = job.mem.paused
        BY <2>1, ReleasedType
      <3>2. /\ Suspended(job.mem, end) \in Docs /\ ~Suspended(job.mem, end).owner
            /\ Suspended(job.mem, end).slot = 0 /\ Suspended(job.mem, end).paused = job.mem.paused
        BY <2>1, SuspendedType
      <3>3. PICK m \in {job.mem, Released(job.mem), Suspended(job.mem, end)} : Goto("write", m)
        BY <2>2
      <3>4. m \in Docs /\ m.owner \in BOOLEAN
        BY <2>1, <3>1, <3>2 DEF Docs, Doc
      <3>5. job'.kind = "deadline" /\ job'.pc = "write" /\ job'.base = job.base /\ job'.mem = m
        BY <2>1, <2>2, <3>3, <3>4, GotoType DEF Evaluating
      <3> QED
        BY <3>1, <3>2, <3>4, <3>5
    <2>4. JobWork'
      BY <2>2, <2>3 DEF Kept, JobWork
    <2>5. OutsideWork' /\ Meanwhile'
      BY <2>2, <2>3 DEF Kept, OutsideWork, Meanwhile, Active, Locked, facts, Base, Shape
    <2> QED
      BY <2>4, <2>5 DEF Kept
  <1>4. CASE DeadlineWrite
    <2>1. /\ Active /\ job' = NoJob /\ doc' = Merge(doc, job.base, job.mem) /\ job.mem \in Docs
          /\ UNCHANGED <<facts, outside>>
      BY <1>4 DEF DeadlineWrite, Working, Active, End, Base, Typed
    <2> QED
      BY <2>1, JobCommit, IdleType, NoDocType DEF Kept, JobWork, OutsideWork, Meanwhile, Active, facts
  <1> QED
    BY <1>1, <1>2, <1>3, <1>4

\* The writer outside goes on, or it is gone.
LEMMA ProceedKept ==
  ASSUME Kept, UNCHANGED <<backup, doc>>, job' = job \/ job' = NoJob,
         outside'.mem = outside.mem, outside'.base = outside.base, outside'.pc # "release"
  PROVE  Kept'
  BY IdleType, NoDocType DEF Kept, JobWork, OutsideWork, Meanwhile, Active

LEMMA LeaveKept ==
  ASSUME Kept, UNCHANGED doc, job' = job \/ job' = NoJob, outside' = Nobody
  PROVE  Kept'
  BY IdleType, NoDocType DEF Kept, JobWork, OutsideWork, Meanwhile, Active

\* The writer outside, or Backup Preparation at its end, has written.
LEMMA ReleaseKept ==
  ASSUME Base, Kept, job' = job, outside' = Nobody,
         doc'.paused = doc.paused, doc'.hold \in {0, doc.hold},
         doc'.owner => doc.owner /\ doc'.slot = doc.slot,
         doc'.slot # doc.slot => backup \/ doc.owner
  PROVE  Kept'
  <1>1. JobWork' /\ OutsideWork'
    BY IdleType, NoDocType DEF Kept, JobWork, OutsideWork
  <1>2. Meanwhile'
    <2>1. job.kind = "evaluate" => Active
      BY DEF Base, Shape, Active, Evaluating
    <2> QED
      BY <2>1, IdleType, NoDocType DEF Kept, Meanwhile, Active, Base, Turns
  <1> QED
    BY <1>1, <1>2 DEF Kept

LEMMA PauseKept ==
  ASSUME Base, Kept, \/ PauseBegin \/ PauseFree \/ PauseWrite \/ ManualCommand
                     \/ ResumeBegin \/ ResumeFree \/ ResumeWrite
  PROVE  Kept'
  <1>1. /\ doc \in Docs /\ job \in Jobs /\ job.mem \in Docs /\ job.base \in Docs /\ 0 \in Moments
        /\ outside \in Outsiders /\ outside.mem \in Docs /\ Midnight(job.now) \in Moments
    <2>1. job.now \in 0..Horizon
      BY HorizonAssumption DEF Base, Typed
    <2> QED
      BY <2>1, Calendar DEF Base, Typed
  <1>2. CASE PauseBegin
    <2> DEFINE pc == IF doc.owner \/ doc.hold # 0 THEN "free" ELSE "write"
    <2>1. /\ UNCHANGED <<facts, doc>>
          /\ \/ /\ \E by \in {"manual", "settings"} : Hold("pause", pc, doc, t, by)
                /\ UNCHANGED outside
             \/ UNCHANGED <<job, outside>>
             \/ UNCHANGED job /\ Proceed("auto", outside.mem)
      BY <1>2 DEF PauseBegin
    <2>2. CASE /\ \E by \in {"manual", "settings"} : Hold("pause", pc, doc, t, by)
               /\ UNCHANGED outside
      <3>1. job'.kind = "pause" /\ job'.mem = doc /\ job'.base = doc /\ job'.pc = pc
        BY <2>2 DEF Hold
      <3>2. doc.owner \in BOOLEAN
        BY <1>1 DEF Docs, Doc
      <3>3. job'.pc = "write" => ~doc.owner /\ doc.hold = 0
        BY <3>1, <3>2
      <3> HIDE DEF pc
      <3> QED
        BY <2>1, <2>2, <3>1, <3>3, BeginKept
    <2>3. CASE UNCHANGED <<job, outside>>
      BY <2>1, <2>3, IdleKept DEF facts
    <2>4. CASE UNCHANGED job /\ Proceed("auto", outside.mem)
      BY <1>1, <2>1, <2>4, ProceedType, ProceedKept DEF facts
    <2> QED
      BY <2>1, <2>2, <2>3, <2>4
  <1>3. CASE PauseFree
    <2>1. /\ job.kind = "pause" /\ job.pc = "free" /\ UNCHANGED <<facts, doc>>
          /\ \/ Goto("write", Released(job.mem)) /\ outside' = outside
             \/ job' = NoJob /\ outside' = Nobody
             \/ job' = NoJob /\ outside' = outside
      BY <1>3 DEF PauseFree, Working, End
    <2>2. CASE Goto("write", Released(job.mem)) /\ outside' = outside
      <3>1. /\ Released(job.mem) \in Docs /\ ~Released(job.mem).owner /\ Released(job.mem).slot = 0
            /\ Released(job.mem).hold = 0 /\ Released(job.mem).paused = job.mem.paused
        BY <1>1, ReleasedType
      <3>2. /\ job'.pc = "write" /\ job'.mem = Released(job.mem) /\ job'.kind = "pause" /\ job'.base = job.base
        BY <1>1, <2>1, <2>2, <3>1, GotoType DEF Evaluating
      <3>3. JobWork'
        BY <2>1, <3>1, <3>2 DEF Kept, JobWork
      <3>4. OutsideWork' /\ Meanwhile'
        BY <2>1, <2>2, <3>2 DEF Kept, OutsideWork, Meanwhile, Active, facts
      <3> QED
        BY <3>3, <3>4 DEF Kept
    <2> QED
      BY <2>1, <2>2, LeaveKept, IdleKept DEF facts
  <1>4. CASE PauseWrite
    <2> DEFINE new == Paused(job.mem, Midnight(job.now))
    <2>1. /\ Active /\ job' = NoJob /\ doc' = Merge(doc, job.base, new) /\ UNCHANGED facts
          /\ outside' = outside \/ Proceed("auto", outside.mem)
      BY <1>4 DEF PauseWrite, Working, Active, End, Commit
    <2>2. new \in Docs /\ new.owner = job.mem.owner /\ new.slot = job.mem.slot
      BY <1>1, PausedType
    <2>3. /\ outside'.mem = outside.mem /\ outside'.base = outside.base
          /\ outside'.pc = "release" => outside' = outside
      BY <1>1, <2>1, ProceedType
    <2> HIDE DEF new
    <2> QED
      BY <2>1, <2>2, <2>3, JobCommit, IdleType, NoDocType
      DEF Kept, JobWork, OutsideWork, Meanwhile, Active, facts
  <1>5. CASE ManualCommand
    BY <1>5, IdleKept DEF ManualCommand, facts
  <1>6. CASE ResumeBegin
    <2>1. /\ UNCHANGED <<facts, doc, outside>>
          /\ job'.kind = "resume" /\ job'.mem = doc /\ job'.base = doc
      BY <1>6 DEF ResumeBegin, Hold
    <2> QED
      BY <2>1, BeginKept
  <1>7. CASE ResumeFree
    <2>1. /\ job.kind = "resume" /\ job.pc = "free" /\ UNCHANGED Locked
          /\ job' = NoJob \/ Goto("write", Held(job.mem, 0))
      BY <1>7 DEF ResumeFree, Working, End
    <2>2. CASE Goto("write", Held(job.mem, 0))
      <3>1. /\ Held(job.mem, 0) \in Docs /\ Held(job.mem, 0).owner = job.mem.owner
            /\ Held(job.mem, 0).slot = job.mem.slot /\ Held(job.mem, 0).paused = job.mem.paused
        BY <1>1, HeldType
      <3>2. /\ job'.pc = "write" /\ job'.mem = Held(job.mem, 0) /\ job'.kind = "resume" /\ job'.base = job.base
        BY <1>1, <2>1, <2>2, <3>1, GotoType DEF Evaluating
      <3>3. JobWork'
        BY <2>1, <3>1, <3>2 DEF Kept, JobWork
      <3>4. OutsideWork' /\ Meanwhile'
        BY <2>1, <3>2 DEF Kept, OutsideWork, Meanwhile, Active, Locked, facts
      <3> QED
        BY <3>3, <3>4 DEF Kept
    <2> QED
      BY <2>1, <2>2, IdleKept DEF Locked, facts
  <1>8. CASE ResumeWrite
    <2> DEFINE new == Paused(job.mem, 0)
    <2>1. /\ Active /\ job' = NoJob /\ doc' = Merge(doc, job.base, new) /\ UNCHANGED <<facts, outside>>
      BY <1>8 DEF ResumeWrite, Working, Active, End, Commit
    <2>2. new \in Docs /\ new.owner = job.mem.owner /\ new.slot = job.mem.slot
      BY <1>1, PausedType
    <2> HIDE DEF new
    <2> QED
      BY <2>1, <2>2, JobCommit, IdleType, NoDocType
      DEF Kept, JobWork, OutsideWork, Meanwhile, Active, facts
  <1> QED
    BY <1>2, <1>3, <1>4, <1>5, <1>6, <1>7, <1>8

LEMMA AutomationKept ==
  ASSUME Base, Kept, \/ EvaluateAsk \/ EvaluateBegin \/ GuardTurns \/ GuardRestore
                     \/ RestoreBegin \/ RestoreWrite \/ RestoreEvaluate
  PROVE  Kept'
  <1>1. /\ doc \in Docs /\ job \in Jobs /\ job.mem \in Docs /\ asked.now \in Moments /\ t \in Moments
    BY HorizonAssumption DEF Base, Typed, Moments
  <1>2. ASSUME NEW now \in Moments, FirstStep(doc, now), UNCHANGED <<facts, doc, outside>>
        PROVE  Kept'
    <2>1. /\ job'.kind = "evaluate" /\ job'.base = doc
          /\ \/ job'.pc = "write" /\ job'.mem = Released(doc)
             \/ job'.pc \in {"expire", "decide"} /\ job'.mem = doc
      BY <1>1, <1>2, FirstStepType
    <2> QED
      BY <1>2, <2>1, BeginKept
  <1>3. CASE EvaluateAsk
    BY <1>3, IdleKept DEF EvaluateAsk, facts
  <1>4. CASE EvaluateBegin
    BY <1>1, <1>2, <1>4 DEF EvaluateBegin
  <1>5. CASE GuardTurns \/ GuardRestore
    BY <1>5, IdleKept DEF GuardTurns, GuardRestore
  <1>6. CASE RestoreBegin
    <2>1. /\ UNCHANGED <<facts, doc, outside>>
          /\ \/ job' = job
             \/ job'.kind = "restore" /\ job'.mem = Released(doc) /\ job'.base = doc /\ job'.pc = "write"
      BY <1>6 DEF RestoreBegin, Hold
    <2> QED
      BY <2>1, IdleKept, BeginKept DEF facts
  <1>7. CASE RestoreWrite
    <2>1. /\ Active /\ doc' = Merge(doc, job.base, job.mem) /\ UNCHANGED <<facts, outside>>
          /\ Goto("evaluate", job.mem) /\ job.kind = "restore"
      BY <1>7 DEF RestoreWrite, Working, Active, Commit
    <2>2. job'.pc = "evaluate" /\ job'.mem = job.mem /\ job'.kind = "restore" /\ job'.base = job.base
      BY <1>1, <2>1, GotoType
    <2> QED
      BY <1>1, <2>1, <2>2, JobCommit DEF Kept, JobWork, OutsideWork, Meanwhile, Active, facts
  <1>8. CASE RestoreEvaluate
    <2>1. /\ UNCHANGED <<facts, doc, outside>>
          /\ job' = NoJob \/ FirstStep(doc, t)
      BY <1>8 DEF RestoreEvaluate, End, Locked
    <2> QED
      BY <1>1, <1>2, <2>1, IdleKept DEF facts
  <1> QED
    BY <1>3, <1>4, <1>5, <1>6, <1>7, <1>8

LEMMA WriterKept ==
  ASSUME Base, Kept, SettingsBegin \/ BackupStart \/ BackupEnd \/ Writer
  PROVE  Kept'
  <1>1. /\ doc \in Docs /\ outside \in Outsiders /\ outside.mem \in Docs /\ 0 \in Moments
        /\ doc.owner \in BOOLEAN /\ outside.base.owner \in BOOLEAN
    BY HorizonAssumption DEF Base, Typed, Moments, Docs, Doc
  <1>2. /\ Released(doc) \in Docs /\ ~Released(doc).owner /\ Released(doc).slot = 0
        /\ Released(doc).hold = 0 /\ Released(doc).paused = doc.paused
    BY <1>1, ReleasedType
  \* A writer that begins has read what is on record.
  <1>3. ASSUME UNCHANGED <<backup, doc, job>>, outside'.base = doc,
               \/ outside'.mem = doc /\ (outside'.pc = "release" => doc.owner)
               \/ outside'.mem = Released(doc) /\ backup /\ outside'.kind = "backup"
               \/ outside'.mem = Released(doc) /\ backup /\ outside'.pc = "write"
        PROVE  Kept'
    <2>1. JobWork'
      BY <1>3 DEF Kept, JobWork
    <2>2. OutsideWork'
      <3>1. CASE outside'.mem = doc /\ (outside'.pc = "release" => doc.owner)
        BY <1>1, <1>3, <3>1 DEF Kept, OutsideWork, Meanwhile
      <3>2. CASE outside'.mem = Released(doc) /\ backup /\ (outside'.kind = "backup" \/ outside'.pc = "write")
        BY <1>1, <1>2, <1>3, <3>2 DEF Kept, OutsideWork, Meanwhile
      <3> QED
        BY <1>3, <3>1, <3>2
    <2>3. Meanwhile'
      <3>1. outside'.mem.slot # outside'.base.slot \/ outside'.base.owner => outside'.base = doc
        BY <1>3
      <3>2. doc.owner => doc.slot # 0
        BY DEF Kept, Meanwhile
      <3>3. /\ ~outside'.base.owner /\ outside'.mem.slot # outside'.base.slot => ~doc.owner
            /\ outside'.base.owner /\ doc.slot = outside'.base.slot => doc.owner
        BY <1>3
      <3> QED
        BY <1>1, <1>3, <3>3 DEF Kept, Meanwhile, Active
    <2> QED
      BY <2>1, <2>2, <2>3 DEF Kept
  <1>4. CASE SettingsBegin
    <2> DEFINE pc == IF doc.owner THEN "release" ELSE IF doc.hold # 0 THEN "pause" ELSE "write"
    <2>1. /\ UNCHANGED <<backup, doc, job>>
          /\ \/ backup /\ Enter("settings", "write", Released(doc))
             \/ Enter("settings", pc, doc)
      BY <1>4 DEF SettingsBegin, Free, facts
    <2>2. pc = "release" => doc.owner
      OBVIOUS
    <2> HIDE DEF pc
    <2>3. /\ outside'.base = doc
          /\ \/ outside'.mem = Released(doc) /\ backup /\ outside'.pc = "write"
             \/ outside'.mem = doc /\ outside'.pc = pc
      BY <2>1 DEF Enter
    <2> QED
      BY <1>3, <2>1, <2>2, <2>3
  <1>5. CASE SettingsRelease
    <2>1. /\ outside.kind = "settings" /\ outside.pc = "release" /\ UNCHANGED <<backup, doc, job>>
          /\ Proceed("write", Released(outside.mem)) \/ outside' = Nobody
      BY <1>5 DEF SettingsRelease, Outside, Leave, Free, facts
    <2>2. CASE Proceed("write", Released(outside.mem))
      <3>1. /\ Released(outside.mem) \in Docs /\ ~Released(outside.mem).owner /\ Released(outside.mem).slot = 0
            /\ Released(outside.mem).hold = 0 /\ Released(outside.mem).paused = outside.mem.paused
        BY <1>1, ReleasedType
      <3>2. /\ outside'.mem = Released(outside.mem) /\ outside'.base = outside.base /\ outside'.pc = "write"
            /\ outside'.kind = "settings"
        BY <1>1, <2>1, <2>2, <3>1, ProceedType
      <3>3. JobWork'
        BY <2>1 DEF Kept, JobWork
      <3>4. OutsideWork' /\ Meanwhile'
        BY <2>1, <3>1, <3>2 DEF Kept, OutsideWork, Meanwhile, Active
      <3> QED
        BY <3>3, <3>4 DEF Kept
    <2> QED
      BY <2>1, <2>2, LeaveKept
  <1>6. CASE SettingsAuto
    <2>1. /\ outside.kind = "settings" /\ outside.pc = "auto" /\ UNCHANGED <<backup, doc, job>>
          /\ Proceed("write", Held(outside.mem, 0)) \/ outside' = Nobody
      BY <1>6 DEF SettingsAuto, Outside, Leave, Free, facts
    <2>2. CASE Proceed("write", Held(outside.mem, 0))
      <3>1. /\ Held(outside.mem, 0) \in Docs /\ Held(outside.mem, 0).owner = outside.mem.owner
            /\ Held(outside.mem, 0).slot = outside.mem.slot /\ Held(outside.mem, 0).hold = 0
            /\ Held(outside.mem, 0).paused = outside.mem.paused
        BY <1>1, HeldType
      <3>2. /\ outside'.mem = Held(outside.mem, 0) /\ outside'.base = outside.base /\ outside'.pc = "write"
        BY <1>1, <2>1, <2>2, <3>1, ProceedType
      <3>3. JobWork'
        BY <2>1 DEF Kept, JobWork
      <3>4. OutsideWork' /\ Meanwhile'
        BY <2>1, <3>1, <3>2 DEF Kept, OutsideWork, Meanwhile, Active
      <3> QED
        BY <3>3, <3>4 DEF Kept
    <2> QED
      BY <2>1, <2>2, LeaveKept
  <1>7. CASE SettingsWrite \/ BackupWrite
    <2>1. /\ outside' = Nobody /\ job' = job /\ doc' = Merge(doc, outside.base, outside.mem)
      BY <1>7 DEF SettingsWrite, BackupWrite, Leave, Commit
    <2> QED
      BY <2>1, OutsideCommit, ReleaseKept
  <1>8. CASE BackupStart
    <2>1. /\ outside'.mem = NoDoc /\ outside'.base = NoDoc /\ outside'.kind = "backup"
          /\ job.kind # "evaluate" /\ UNCHANGED <<doc, job>>
      BY <1>8 DEF BackupStart, Unattended, Nobody
    <2>2. JobWork' /\ OutsideWork'
      BY <2>1, NoDocType DEF Kept, JobWork, OutsideWork
    <2>3. Meanwhile'
      BY <2>1, NoDocType DEF Kept, Meanwhile, Active
    <2> QED
      BY <2>2, <2>3 DEF Kept
  <1>9. CASE BackupRead
    <2>1. /\ UNCHANGED <<backup, doc, job>> /\ backup
          /\ outside'.mem = Released(doc) /\ outside'.base = doc /\ outside'.kind = "backup"
      BY <1>9 DEF BackupRead, Outside, Enter, Free, facts, Base, Turns
    <2> QED
      BY <1>3, <2>1
  <1>10. CASE BackupRelease
    <2>1. /\ job' = job
          /\ \/ Proceed("write", outside.mem) /\ UNCHANGED <<backup, doc>>
             \/ outside' = Nobody /\ doc' = Merge(doc, doc, Held(doc, 0))
      BY <1>10 DEF BackupRelease, Leave, Commit
    <2>2. CASE Proceed("write", outside.mem) /\ UNCHANGED <<backup, doc>>
      BY <1>1, <2>1, <2>2, ProceedType, ProceedKept
    <2>3. CASE outside' = Nobody /\ doc' = Merge(doc, doc, Held(doc, 0))
      BY <1>1, <2>1, <2>3, ForgetCommit, ReleaseKept
    <2> QED
      BY <2>1, <2>2, <2>3
  <1>11. CASE BackupEnd
    <2>1. job' = job /\ outside' = Nobody /\ doc' = Merge(doc, doc, Held(doc, 0))
      BY <1>11 DEF BackupEnd, Commit
    <2> QED
      BY <1>1, <2>1, ForgetCommit, ReleaseKept
  <1> QED
    BY <1>4, <1>5, <1>6, <1>7, <1>8, <1>9, <1>10, <1>11 DEF Writer

LEMMA RestartKept ==
  ASSUME Base, Kept, Restart
  PROVE  Kept'
  <1>1. /\ job' = NoJob /\ outside' = Nobody
        /\ doc' = Released(doc) \/ doc' = doc
    BY DEF Restart
  <1>2. ~Released(doc).owner
    BY ReleasedType DEF Base, Typed
  <1> QED
    BY <1>1, <1>2, IdleType, NoDocType DEF Kept, JobWork, OutsideWork, Meanwhile, Active

LEMMA KeptNext ==
  ASSUME Base, Kept, [Next]_vars
  PROVE  Kept'
  <1>1. CASE Tick \/ UNCHANGED vars
    BY <1>1, IdleKept DEF Tick, vars
  <1> QED
    BY <1>1, EvaluateKept, DeadlineKept, PauseKept, AutomationKept, WriterKept, RestartKept
    DEF Next, Job

LEMMA Invariance == Spec => [](Base /\ Kept)
  <1>1. Init => Base /\ Kept
    BY BaseInit, KeptInit
  <1>2. Base /\ Kept /\ [Next]_vars => (Base /\ Kept)'
    BY BaseNext, KeptNext
  <1> QED
    BY <1>1, <1>2, PTL DEF Spec

\* Every variable has its type, an owner has a slot and whoever works has a step to do:
\* for every Horizon, whoever takes part.
THEOREM TypeCorrect == Spec => []TypeOK
  <1>1. Base /\ Kept => TypeOK
    <2> SUFFICES ASSUME Base, Kept PROVE TypeOK
      OBVIOUS
    <2>1. /\ t \in Moments /\ doc \in Doc /\ stale \subseteq Moments
          /\ device \in Modes /\ timer \in Timers /\ asked \in Asks /\ job \in Jobs /\ outside \in Outsiders
      BY HorizonAssumption DEF Base, Typed, Docs, Moments
    <2>2. /\ enabled \in BOOLEAN /\ guard \in BOOLEAN /\ backup \in BOOLEAN
          /\ manual \in BOOLEAN /\ lapsed \in BOOLEAN
      BY DEF Base, Typed
    <2>3. doc.owner => doc.slot # 0
      BY DEF Kept, Meanwhile
    <2>4. /\ (job.kind = "none") = (job.pc = "idle")
          /\ (outside.kind = "none") = (outside.pc = "idle")
      BY <2>1, IdleType DEF Base, Shape, Jobs, Outsiders, Evaluating
    <2> QED
      BY <2>1, <2>2, <2>3, <2>4 DEF TypeOK
  <1> QED
    BY <1>1, Invariance, PTL

-----------------------------------------------------------------------------
(* Every charge has a timer.                                                *)

\* A timer that has fired is due, and no deadline is null.
Due ==
  /\ timer.st = "fired" => timer.key <= t
  /\ timer.st # "off" => timer.key # 0
  /\ 0 \notin stale

Armed == Due /\ DeadlineArmed

LEMMA SyncDeadlineArms ==
  ASSUME Base, Armed, doc' \in Docs, doc'.owner => doc'.slot # 0, t' = t, SyncDeadline(doc')
  PROVE  Armed'
  <1> DEFINE key == SlotEndKey(doc')
             keep == timer.st # "off" /\ timer.key = key
             new == [st |-> "armed", key |-> key]
  <1>1. key = IF doc'.owner THEN doc'.slot ELSE 0
    BY DEF SlotEndKey
  <1>2. /\ timer' = IF key = 0 THEN NoTimer ELSE IF keep THEN timer ELSE new
        /\ stale' = IF timer.st = "fired" /\ ~keep THEN stale \cup {timer.key} ELSE stale
    BY DEF SyncDeadline
  <1>3. new.st = "armed" /\ new.key = key
    OBVIOUS
  <1> HIDE DEF key, new
  <1>4. Due'
    BY <1>2, <1>3, IdleType DEF Armed, Due
  <1>5. DeadlineArmed'
    BY <1>1, <1>2, <1>3, IdleType DEF DeadlineArmed
  <1> QED
    BY <1>4, <1>5 DEF Armed

LEMMA StillArmed ==
  ASSUME Armed, UNCHANGED <<doc, timer, stale>>, t' = t, backup' = backup \/ backup'
  PROVE  Armed'
  BY DEF Armed, Due, DeadlineArmed

LEMMA ArmedNext ==
  ASSUME Base, Base', Kept', Armed, [Next]_vars
  PROVE  Armed'
  <1>1. doc' \in Docs /\ (doc'.owner => doc'.slot # 0)
    BY DEF Base, Typed, Kept, Meanwhile
  <1>2. ASSUME t' = t, SyncDeadline(doc')
        PROVE  Armed'
    BY <1>1, <1>2, SyncDeadlineArms
  <1>3. CASE Evaluate
    <2>1. CASE EvaluateWrite
      BY <1>2, <2>1 DEF EvaluateWrite, Commit, facts
    <2>2. CASE ~EvaluateWrite
      BY <1>3, <2>2, EvaluateSteps, StillArmed DEF Locked, facts
    <2> QED
      BY <2>1, <2>2
  <1>4. CASE DeadlineStop \/ PauseFree \/ ResumeFree \/ RestoreEvaluate
    BY <1>4, StillArmed DEF DeadlineStop, PauseFree, ResumeFree, RestoreEvaluate, Locked, facts
  <1>5. CASE DeadlineWrite
    <2>1. CASE timer.st = "running" /\ SlotEndKey(doc') = timer.key
      <3>1. timer' = [timer EXCEPT !.st = "armed"] /\ UNCHANGED <<stale, t, backup>>
        BY <1>5, <2>1 DEF DeadlineWrite, facts
      <3>2. timer'.st = "armed" /\ timer'.key = timer.key
        BY <3>1 DEF Base, Typed, Timers
      <3> QED
        BY <1>1, <2>1, <3>1, <3>2 DEF Armed, Due, DeadlineArmed, SlotEndKey
    <2>2. CASE ~(timer.st = "running" /\ SlotEndKey(doc') = timer.key)
      BY <1>2, <1>5, <2>2 DEF DeadlineWrite, facts
    <2> QED
      BY <2>1, <2>2
  <1>6. CASE PauseWrite \/ ResumeWrite \/ RestoreWrite
    BY <1>2, <1>6 DEF PauseWrite, ResumeWrite, RestoreWrite, Commit, facts
  <1>7. CASE Writer
    <2>1. CASE SettingsRelease \/ SettingsAuto \/ BackupRead
      BY <2>1, StillArmed DEF SettingsRelease, SettingsAuto, BackupRead, Free, facts
    <2>2. CASE SettingsWrite \/ BackupWrite
      BY <1>2, <2>2 DEF SettingsWrite, BackupWrite, Commit
    <2>3. CASE BackupRelease
      BY <1>2, <2>3, StillArmed DEF BackupRelease, Commit
    <2> QED
      BY <1>7, <2>1, <2>2, <2>3 DEF Writer
  <1>8. CASE EvaluateAsk \/ EvaluateBegin \/ PauseBegin \/ ManualCommand \/ ResumeBegin
    BY <1>8, StillArmed DEF EvaluateAsk, EvaluateBegin, PauseBegin, ManualCommand, ResumeBegin, facts
  <1>9. CASE GuardTurns \/ GuardRestore \/ RestoreBegin \/ SettingsBegin \/ BackupStart
    BY <1>9, StillArmed DEF GuardTurns, GuardRestore, RestoreBegin, SettingsBegin, BackupStart, Free, facts
  <1>10. CASE TimerFires
    <2>1. timer.st = "armed" /\ t >= timer.key /\ timer' = [timer EXCEPT !.st = "fired"]
          /\ UNCHANGED <<t, backup, doc, stale>>
      BY <1>10 DEF TimerFires, facts
    <2>2. timer'.st = "fired" /\ timer'.key = timer.key /\ t \in Int /\ timer.key \in Int
      BY <2>1, HorizonAssumption DEF Base, Typed, Timers, Moments
    <2> QED
      BY <2>1, <2>2 DEF Armed, Due, DeadlineArmed
  <1>11. CASE DeadlineBegin
    <2>1. PICK key \in stale \cup (IF timer.st = "fired" THEN {timer.key} ELSE {}) :
            LET current == timer.st = "fired" /\ timer.key = key
                due == SlotEndKey(doc) = key /\ t >= key
            IN /\ stale' = IF current THEN stale ELSE stale \ {key}
               /\ timer' = IF ~current THEN timer
                           ELSE IF ~due THEN NoTimer
                           ELSE [timer EXCEPT !.st = IF guard THEN "armed" ELSE "running"]
      BY <1>11 DEF DeadlineBegin
    <2>2. UNCHANGED <<t, backup, doc>>
      BY <1>11 DEF DeadlineBegin, facts
    <2>3. stale' \subseteq stale
      BY <2>1
    <2>4. CASE timer.st = "fired" /\ timer.key = key
      <3>1. CASE SlotEndKey(doc) = key /\ t >= key
        <4> DEFINE st == IF guard THEN "armed" ELSE "running"
        <4>1. timer' = [timer EXCEPT !.st = st]
          BY <2>1, <2>4, <3>1
        <4>2. timer'.st \in {"armed", "running"} /\ timer'.key = timer.key
          BY <4>1 DEF Base, Typed, Timers
        <4> QED
          BY <2>2, <2>3, <2>4, <4>2 DEF Armed, Due, DeadlineArmed
      <3>2. CASE ~(SlotEndKey(doc) = key /\ t >= key)
        <4>1. timer' = NoTimer
          BY <2>1, <2>4, <3>2
        <4>2. key <= t /\ key \in Int /\ t \in Int
          BY <2>4, HorizonAssumption DEF Armed, Due, Base, Typed, Timers, Moments
        <4>3. ~(doc.owner /\ ~backup)
          BY <2>4, <3>2, <4>2 DEF Armed, DeadlineArmed, SlotEndKey
        <4> QED
          BY <2>2, <2>3, <4>1, <4>3, IdleType DEF Armed, Due, DeadlineArmed
      <3> QED
        BY <3>1, <3>2
    <2>5. CASE ~(timer.st = "fired" /\ timer.key = key)
      BY <2>1, <2>2, <2>3, <2>5 DEF Armed, Due, DeadlineArmed
    <2> QED
      BY <2>4, <2>5
  <1>12. CASE BackupEnd
    BY <1>2, <1>12 DEF BackupEnd, Commit
  <1>13. CASE Tick
    <2>1. UNCHANGED <<doc, backup, timer, stale>> /\ t' = t + 1
      BY <1>13 DEF Tick
    <2>2. t \in Int /\ timer.key \in Int
      BY HorizonAssumption DEF Base, Typed, Timers, Moments
    <2> QED
      BY <2>1, <2>2 DEF Armed, Due, DeadlineArmed
  <1>14. CASE Restart
    <2> DEFINE key == SlotEndKey(doc)
               new == [st |-> "armed", key |-> key]
    <2>1. /\ stale' = {} /\ UNCHANGED <<t, backup>>
          /\ doc' = doc \/ (backup /\ doc' = Released(doc))
          /\ timer' = IF backup \/ key = 0 THEN NoTimer ELSE new
      BY <1>14 DEF Restart, facts
    <2>2. new.st = "armed" /\ new.key = key /\ (doc.owner => key = doc.slot)
      BY DEF SlotEndKey
    <2> HIDE DEF key, new
    <2> QED
      BY <1>1, <2>1, <2>2, IdleType DEF Armed, Due, DeadlineArmed
  <1>15. CASE UNCHANGED vars
    BY <1>15, StillArmed DEF vars
  <1> QED
    BY <1>3, <1>4, <1>5, <1>6, <1>7, <1>8, <1>9, <1>10, <1>11, <1>12, <1>13, <1>14, <1>15
    DEF Next, Job

\* Whoever writes, whatever fails and however the timers of older slots fire: the end of
\* the charge on record is the deadline of the timer.
THEOREM ChargeHasTimer == Spec => []DeadlineArmed
  <1>1. Init => Armed
    BY IdleType, NoDocType DEF Init, Armed, Due, DeadlineArmed
  <1>2. Armed => DeadlineArmed
    BY DEF Armed
  <1>3. Base /\ Base' /\ Kept' /\ Armed /\ [Next]_vars => Armed'
    BY ArmedNext
  <1>4. Spec => [](Base /\ Kept)
    BY Invariance
  <1> QED
    BY <1>1, <1>2, <1>3, <1>4, PTL DEF Spec

-----------------------------------------------------------------------------
(* A pause holds.                                                           *)

\* An evaluation goes beyond its decision only if it knows of no pause, and a job that
\* began under a pause has found nothing to release; a deadline has found a charge.
Pausing ==
  LET at(pcs) == job.kind = "evaluate" /\ job.pc \in pcs
      kept == job.mem.hold \in {0, job.base.hold}
  IN /\ Active /\ job.base.paused > t => ~job.base.owner /\ job.base.hold = 0
     /\ at({"refresh", "stop", "start", "solar", "undo", "standby"}) => job.mem.paused <= job.now
     /\ at({"write"}) => \/ job.mem.paused <= job.now
                         \/ kept /\ (job.mem.owner => job.base.owner)
     /\ at({"expire", "decide", "drop"}) => kept
     /\ at({"expire"}) => job.base.hold # 0
     /\ job.kind \in {"pause", "resume", "restore"} => kept
     /\ job.kind = "deadline" => job.base.owner
     /\ PausedOwnsNothing

\* Times are numbers.
LEMMA Times ==
  ASSUME Base
  PROVE  /\ t \in Nat /\ job.now \in Nat /\ job.now <= t
         /\ doc.paused \in Nat /\ job.mem.paused \in Nat /\ job.base.paused \in Nat
         /\ doc.owner \in BOOLEAN /\ job.mem.owner \in BOOLEAN /\ job.base.owner \in BOOLEAN
         /\ Midnight(job.now) \in Nat
  <1>1. /\ t \in Nat /\ job.now \in 0..t /\ doc \in Doc /\ job.mem \in Doc /\ job.base \in Doc
        /\ job.now \in 0..Horizon
    BY HorizonAssumption DEF Base, Typed, Docs
  <1>2. Midnight(job.now) \in Moments
    BY <1>1, Calendar
  <1> QED
    BY <1>1, <1>2, HorizonAssumption DEF Doc, Moments

\* A pause keeps what it finds unowned, so a job that reads it has nothing in hand.
LEMMA StillPausing ==
  ASSUME Base, Base', Pausing, UNCHANGED doc, t' = t \/ t' = t + 1, job' = job \/ job' = NoJob
  PROVE  Pausing'
  BY Times, IdleType, NoDocType DEF Pausing, PausedOwnsNothing, Active

\* A write outside takes nothing that a pause forbids.
LEMMA ReleasePausing ==
  ASSUME Base, Pausing, t' = t, job' = job,
         doc'.paused = doc.paused, doc'.hold \in {0, doc.hold}, doc'.owner => doc.owner
  PROVE  Pausing'
  BY Times DEF Pausing, PausedOwnsNothing, Active

\* A job that begins has read what is on record.
LEMMA BeginPausing ==
  ASSUME Base, Pausing, UNCHANGED <<t, doc>>,
         job'.kind \in {"evaluate", "deadline", "pause", "resume", "restore"}, job'.base = doc,
         job'.mem = doc \/ (job'.mem = Released(doc) /\ job'.pc = "write"),
         job'.kind = "evaluate" => job'.pc \in {"expire", "decide", "write"},
         job'.kind = "evaluate" /\ job'.pc = "write" => job'.mem = Released(doc),
         job'.kind = "evaluate" /\ job'.pc = "expire" => doc.hold # 0,
         job'.kind = "deadline" => doc.owner
  PROVE  Pausing'
  <1>1. ~Released(doc).owner /\ Released(doc).hold = 0
    BY ReleasedType DEF Base, Typed
  <1> QED
    BY <1>1, Times DEF Pausing, PausedOwnsNothing, Active

\* What the write of the job under way leaves on record.
LEMMA JobPausing ==
  ASSUME Base, Kept, Pausing, Active, NEW new \in Docs, t' = t,
         doc' = Merge(doc, job.base, new), job' = NoJob \/ ~Active',
         new.owner = job.mem.owner, new.hold = job.mem.hold,
         \/ new.paused = job.mem.paused
         \/ job.kind = "pause" /\ job.pc = "write"
         \/ new.paused = 0
  PROVE  PausedOwnsNothing'
  <1>1. /\ doc \in Docs /\ job.base \in Docs /\ job.mem \in Docs
        /\ new.owner \in BOOLEAN
    BY DEF Base, Typed, Docs, Doc
  <1>2. /\ doc'.owner = IF new.owner # job.base.owner /\ doc.owner = job.base.owner /\ doc.paused = job.base.paused
                        THEN new.owner ELSE doc.owner
        /\ doc'.hold = IF new.hold # job.base.hold /\ doc.hold = job.base.hold /\ doc.paused = job.base.paused
                       THEN new.hold ELSE doc.hold
        /\ doc'.paused = IF new.paused # job.base.paused /\ doc.paused = job.base.paused
                         THEN new.paused ELSE doc.paused
    BY <1>1, MergeType
  <1>3. /\ doc.paused = job.base.paused /\ job.mem.paused = job.base.paused
        /\ doc.owner => job.base.owner
        /\ doc.hold \in {0, job.base.hold}
    BY DEF Kept, JobWork, Meanwhile
  <1>4. CASE new.paused = 0
    BY <1>2, <1>3, <1>4, Times DEF PausedOwnsNothing
  <1>5. CASE job.kind = "pause" /\ job.pc = "write"
    <2>1. ~new.owner /\ new.hold = 0
      BY <1>5 DEF Kept, JobWork
    <2> QED
      BY <1>1, <1>2, <1>3, <2>1, Times DEF PausedOwnsNothing
  <1>6. CASE new.paused = job.mem.paused
    <2>1. doc'.paused = doc.paused
      BY <1>2, <1>3, <1>6
    <2>2. SUFFICES ASSUME doc.paused > t
                   PROVE  ~doc'.owner /\ doc'.hold = 0
      BY <2>1 DEF PausedOwnsNothing
    <2>3. ~doc.owner /\ doc.hold = 0 /\ ~job.base.owner /\ job.base.hold = 0
      BY <1>3, <2>2 DEF Pausing, PausedOwnsNothing
    <2>4. ~new.owner /\ new.hold = 0
      <3>1. ~(job.mem.paused <= job.now)
        BY <1>3, <2>2, Times
      <3>2. job.kind \in {"evaluate", "pause", "resume", "restore"} /\ (job.kind = "evaluate" => job.pc \in Evaluating)
        BY <2>3 DEF Pausing, Active, Base, Typed, Shape, Jobs
      <3>3. job.mem.hold \in {0, job.base.hold} /\ (job.mem.owner => job.base.owner)
        <4>1. CASE job.kind # "evaluate"
          BY <3>2, <4>1 DEF Pausing, Kept, JobWork
        <4>2. CASE job.kind = "evaluate"
          BY <3>1, <3>2, <4>2 DEF Pausing, Kept, JobWork, Evaluating
        <4> QED
          BY <4>1, <4>2
      <3> QED
        BY <2>3, <3>3
    <2> QED
      BY <1>2, <2>3, <2>4
  <1> QED
    BY <1>4, <1>5, <1>6

LEMMA EvaluatePausing ==
  ASSUME Base, Kept, Pausing, Evaluate
  PROVE  Pausing'
  <1>1. CASE ~EvaluateWrite
    <2>1. Steps /\ UNCHANGED <<t, doc, guard>>
      BY <1>1, EvaluateSteps DEF Locked, facts
    <2>2. CASE job' = NoJob
      BY <2>1, <2>2, IdleType, NoDocType DEF Pausing, PausedOwnsNothing, Active
    <2>3. CASE job' # NoJob
      <3>1. /\ job.kind = "evaluate" /\ Moves /\ job.pc \in Evaluating
            /\ job'.kind = job.kind /\ job'.base = job.base /\ job'.now = job.now
            /\ job'.mem.paused = job.mem.paused
        BY <2>1, <2>3 DEF Steps, Base, Shape
      <3>2. Active /\ (job'.base.paused > t' => ~job'.base.owner /\ job'.base.hold = 0) /\ PausedOwnsNothing'
        BY <2>1, <3>1 DEF Pausing, PausedOwnsNothing, Active, Evaluating
      <3>3. job.mem.owner /\ job.pc # "write" => job.base.owner
        BY DEF Kept, JobWork
      <3>4. job.pc # "write" /\ job'.pc # "expire"
        BY <3>1 DEF Moves
      <3>5. job'.pc \in {"refresh", "stop", "start", "solar", "undo", "standby"} => job'.mem.paused <= job'.now
        BY <3>1 DEF Pausing, Moves
      <3>6. job'.pc \in {"expire", "decide", "drop"} => job'.mem.hold \in {0, job'.base.hold}
        BY <3>1 DEF Pausing, Moves
      <3>7. job'.pc = "write" => \/ job'.mem.paused <= job'.now
                                 \/ /\ job'.mem.hold \in {0, job'.base.hold}
                                    /\ job'.mem.owner => job'.base.owner
        BY <3>1, <3>3 DEF Pausing, Moves
      <3> QED
        BY <3>1, <3>2, <3>4, <3>5, <3>6, <3>7 DEF Pausing, Active
    <2> QED
      BY <2>2, <2>3
  <1>2. CASE EvaluateWrite
    <2>1. /\ Active /\ job' = NoJob /\ doc' = Merge(doc, job.base, job.mem) /\ job.mem \in Docs /\ t' = t
      BY <1>2 DEF EvaluateWrite, Working, Active, End, Commit, facts, Base, Typed
    <2> QED
      BY <2>1, JobPausing, IdleType, NoDocType DEF Pausing, Active
  <1> QED
    BY <1>1, <1>2

LEMMA DeadlinePausing ==
  ASSUME Base, Kept, Armed, Base', Pausing, TimerFires \/ DeadlineBegin \/ DeadlineStop \/ DeadlineWrite
  PROVE  Pausing'
  <1>1. CASE TimerFires
    BY <1>1, StillPausing DEF TimerFires, facts
  <1>2. CASE DeadlineBegin
    <2>1. /\ UNCHANGED <<t, doc>>
          /\ \/ job' = job
             \/ /\ job'.kind = "deadline" /\ job'.mem = doc /\ job'.base = doc
                /\ \E key \in stale \cup (IF timer.st = "fired" THEN {timer.key} ELSE {}) : SlotEndKey(doc) = key
      BY <1>2 DEF DeadlineBegin, Hold, facts
    <2>2. \A key \in stale \cup (IF timer.st = "fired" THEN {timer.key} ELSE {}) : key # 0
      BY DEF Armed, Due
    <2>3. CASE job' = job
      BY <2>1, <2>3, StillPausing
    <2>4. CASE job' # job
      <3>1. doc.owner
        BY <2>1, <2>2, <2>4 DEF SlotEndKey
      <3> QED
        BY <2>1, <2>4, <3>1, BeginPausing
    <2> QED
      BY <2>3, <2>4
  <1>3. CASE DeadlineStop
    <2>1. /\ job.kind = "deadline" /\ UNCHANGED <<t, doc>>
          /\ job'.kind = "deadline" /\ job'.pc = "write" /\ job'.base = job.base
      BY <1>3 DEF DeadlineStop, Working, Locked, facts, Goto, Base, Typed, Jobs
    <2> QED
      BY <2>1 DEF Pausing, PausedOwnsNothing, Active, Base, Shape
  <1>4. CASE DeadlineWrite
    <2>1. /\ Active /\ job' = NoJob /\ doc' = Merge(doc, job.base, job.mem) /\ job.mem \in Docs /\ t' = t
      BY <1>4 DEF DeadlineWrite, Working, Active, End, facts, Base, Typed
    <2> QED
      BY <2>1, JobPausing, IdleType, NoDocType DEF Pausing, Active
  <1> QED
    BY <1>1, <1>2, <1>3, <1>4

LEMMA PausePausing ==
  ASSUME Base, Kept, Base', Pausing,
         \/ PauseBegin \/ PauseFree \/ PauseWrite \/ ManualCommand
         \/ ResumeBegin \/ ResumeFree \/ ResumeWrite
  PROVE  Pausing'
  <1>1. /\ doc \in Docs /\ job \in Jobs /\ job.mem \in Docs /\ 0 \in Moments /\ Midnight(job.now) \in Moments
    <2>1. job.now \in 0..Horizon
      BY HorizonAssumption DEF Base, Typed
    <2> QED
      BY <2>1, Calendar DEF Base, Typed
  <1>2. CASE PauseBegin \/ ResumeBegin
    <2>1. /\ UNCHANGED <<t, doc>>
          /\ \/ job' = job
             \/ job'.kind \in {"pause", "resume"} /\ job'.mem = doc /\ job'.base = doc
      BY <1>2 DEF PauseBegin, ResumeBegin, Hold, facts
    <2>2. CASE job' = job
      BY <2>1, <2>2, StillPausing
    <2>3. CASE job' # job
      BY <2>1, <2>3, BeginPausing
    <2> QED
      BY <2>2, <2>3
  <1>3. CASE PauseFree \/ ResumeFree
    <2>1. /\ job.kind \in {"pause", "resume"} /\ UNCHANGED <<t, doc>> /\ job.pc = "free"
          /\ \/ job' = NoJob
             \/ Goto("write", Released(job.mem)) \/ Goto("write", Held(job.mem, 0))
      BY <1>3 DEF PauseFree, ResumeFree, Working, End, Locked, facts
    <2>2. CASE job' = NoJob
      BY <2>1, <2>2, StillPausing
    <2>3. CASE Goto("write", Released(job.mem)) \/ Goto("write", Held(job.mem, 0))
      <3>1. /\ Released(job.mem) \in Docs /\ Released(job.mem).hold = 0
            /\ Held(job.mem, 0) \in Docs /\ Held(job.mem, 0).hold = 0
        BY <1>1, ReleasedType, HeldType
      <3>2. /\ job'.pc = "write" /\ job'.mem.hold = 0 /\ job'.kind = job.kind /\ job'.base = job.base
        BY <1>1, <2>3, <3>1, GotoType DEF Evaluating
      <3> QED
        BY <2>1, <3>2 DEF Pausing, PausedOwnsNothing, Active
    <2> QED
      BY <2>1, <2>2, <2>3
  <1>4. CASE PauseWrite \/ ResumeWrite
    <2>1. PICK n \in {0, Midnight(job.now)} :
            /\ Active /\ job' = NoJob /\ doc' = Merge(doc, job.base, Paused(job.mem, n)) /\ t' = t
            /\ (job.kind = "pause" /\ job.pc = "write") \/ n = 0
      BY <1>4 DEF PauseWrite, ResumeWrite, Working, Active, End, Commit, facts
    <2> DEFINE new == Paused(job.mem, n)
    <2>2. new \in Docs /\ new.owner = job.mem.owner /\ new.hold = job.mem.hold /\ new.paused = n
      BY <1>1, <2>1, PausedType
    <2> HIDE DEF new
    <2>3. doc' = Merge(doc, job.base, new)
      BY <2>1 DEF new
    <2> QED
      BY <2>1, <2>2, <2>3, JobPausing, IdleType, NoDocType DEF Pausing, Active
  <1>5. CASE ManualCommand
    BY <1>5, StillPausing DEF ManualCommand, facts
  <1> QED
    BY <1>2, <1>3, <1>4, <1>5

LEMMA AutomationPausing ==
  ASSUME Base, Kept, Base', Pausing,
         \/ EvaluateAsk \/ EvaluateBegin \/ GuardTurns \/ GuardRestore
         \/ RestoreBegin \/ RestoreWrite \/ RestoreEvaluate
  PROVE  Pausing'
  <1>1. /\ doc \in Docs /\ job \in Jobs /\ job.mem \in Docs /\ asked.now \in Moments /\ t \in Moments
    BY HorizonAssumption DEF Base, Typed, Moments
  <1>2. ASSUME NEW now \in Moments, FirstStep(doc, now), UNCHANGED <<t, doc>>
        PROVE  Pausing'
    <2>1. /\ job'.kind = "evaluate" /\ job'.base = doc
          /\ \/ job'.pc = "write" /\ job'.mem = Released(doc)
             \/ job'.pc = "expire" /\ job'.mem = doc /\ doc.hold # 0
             \/ job'.pc = "decide" /\ job'.mem = doc
      BY <1>1, <1>2, FirstStepType
    <2> QED
      BY <1>2, <2>1, BeginPausing
  <1>3. CASE EvaluateAsk \/ GuardTurns \/ GuardRestore
    BY <1>3, StillPausing DEF EvaluateAsk, GuardTurns, GuardRestore, facts
  <1>4. CASE EvaluateBegin
    BY <1>1, <1>2, <1>4 DEF EvaluateBegin, facts
  <1>5. CASE RestoreBegin
    <2>1. /\ UNCHANGED <<t, doc>>
          /\ \/ job' = job
             \/ job'.kind = "restore" /\ job'.mem = Released(doc) /\ job'.base = doc /\ job'.pc = "write"
      BY <1>5 DEF RestoreBegin, Hold, facts
    <2>2. CASE job' = job
      BY <2>1, <2>2, StillPausing
    <2>3. CASE job' # job
      BY <2>1, <2>3, BeginPausing
    <2> QED
      BY <2>2, <2>3
  <1>6. CASE RestoreWrite
    <2>1. /\ Active /\ doc' = Merge(doc, job.base, job.mem) /\ t' = t
          /\ Goto("evaluate", job.mem) /\ job.kind = "restore"
      BY <1>6 DEF RestoreWrite, Working, Active, Commit, facts
    <2>2. job'.pc = "evaluate" /\ job'.mem = job.mem /\ job'.kind = "restore" /\ job'.base = job.base
      BY <1>1, <2>1, GotoType
    <2> QED
      BY <1>1, <2>1, <2>2, JobPausing DEF Pausing, Active
  <1>7. CASE RestoreEvaluate
    <2>1. /\ UNCHANGED <<t, doc>>
          /\ job' = NoJob \/ FirstStep(doc, t)
      BY <1>7 DEF RestoreEvaluate, End, Locked, facts
    <2>2. CASE job' = NoJob
      BY <2>1, <2>2, StillPausing
    <2> QED
      BY <1>1, <1>2, <2>1, <2>2
  <1> QED
    BY <1>3, <1>4, <1>5, <1>6, <1>7

LEMMA WriterPausing ==
  ASSUME Base, Kept, Base', Pausing, SettingsBegin \/ BackupStart \/ BackupEnd \/ Writer
  PROVE  Pausing'
  <1>1. CASE SettingsBegin \/ SettingsRelease \/ SettingsAuto \/ BackupStart \/ BackupRead
    BY <1>1, StillPausing DEF SettingsBegin, SettingsRelease, SettingsAuto, BackupStart, BackupRead, Free, facts
  <1>2. CASE SettingsWrite \/ BackupWrite
    <2>1. doc' = Merge(doc, outside.base, outside.mem) /\ job' = job /\ t' = t
      BY <1>2 DEF SettingsWrite, BackupWrite, Commit
    <2> QED
      BY <2>1, OutsideCommit, ReleasePausing
  <1>3. CASE BackupRelease \/ BackupEnd
    <2>1. /\ job' = job /\ t' = t
          /\ doc' = doc \/ doc' = Merge(doc, doc, Held(doc, 0))
      BY <1>3 DEF BackupRelease, BackupEnd, Commit
    <2>2. doc \in Docs
      BY DEF Base, Typed
    <2> QED
      BY <2>1, <2>2, ForgetCommit, ReleasePausing, StillPausing
  <1> QED
    BY <1>1, <1>2, <1>3 DEF Writer

LEMMA PausingNext ==
  ASSUME Base, Kept, Armed, Base', Pausing, [Next]_vars
  PROVE  Pausing'
  <1>1. CASE Tick \/ UNCHANGED vars
    BY <1>1, StillPausing DEF Tick, vars
  <1>2. CASE Restart
    <2>1. /\ job' = NoJob /\ t' = t
          /\ doc' = Released(doc) \/ doc' = doc
      BY <1>2 DEF Restart, facts
    <2>2. ~Released(doc).owner /\ Released(doc).hold = 0
      BY ReleasedType DEF Base, Typed
    <2> QED
      BY <2>1, <2>2, IdleType, NoDocType DEF Pausing, PausedOwnsNothing, Active
  <1> QED
    BY <1>1, <1>2, EvaluatePausing, DeadlinePausing, PausePausing, AutomationPausing, WriterPausing
    DEF Next, Job

LEMMA PauseInvariance == Spec => [](Base /\ Kept /\ Armed /\ Pausing)
  <1>1. Init => Armed /\ Pausing
    BY IdleType, NoDocType DEF Init, Armed, Due, DeadlineArmed, Pausing, PausedOwnsNothing, Active
  <1>2. Base /\ Base' /\ Kept' /\ Armed /\ [Next]_vars => Armed'
    BY ArmedNext
  <1>3. Base /\ Kept /\ Armed /\ Base' /\ Pausing /\ [Next]_vars => Pausing'
    BY PausingNext
  <1>4. Spec => [](Base /\ Kept)
    BY Invariance
  <1> QED
    BY <1>1, <1>2, <1>3, <1>4, PTL DEF Spec

\* No write that began before a pause brings a charge or a hold back after it.
THEOREM PauseIsKept == Spec => []PausedOwnsNothing
  <1>1. Pausing => PausedOwnsNothing
    BY DEF Pausing
  <1> QED
    BY <1>1, PauseInvariance, PTL

\* No step of an evaluation and no deadline commands the battery while the pause on record
\* is in force, whenever they began.
THEOREM PausedIsQuiet == Spec => PauseHolds
  <1> DEFINE Quiet == (Evaluate \/ DeadlineStop) /\ doc.paused > t => UNCHANGED device
  <1>1. Base /\ Kept /\ Pausing => Quiet
    <2> SUFFICES ASSUME Base, Kept, Pausing, Evaluate \/ DeadlineStop, doc.paused > t
                 PROVE  UNCHANGED device
      OBVIOUS
    <2>1. ~doc.owner /\ doc.hold = 0
      BY DEF Pausing, PausedOwnsNothing
    <2>2. ASSUME Active
          PROVE  /\ job.mem.paused = doc.paused /\ ~(job.mem.paused <= job.now)
                 /\ ~job.base.owner /\ job.base.hold = 0
      <3>1. job.mem.paused = doc.paused /\ job.base.paused = doc.paused
        BY <2>2 DEF Kept, JobWork, Meanwhile
      <3> QED
        BY <2>2, <3>1, Times DEF Pausing
    <2>3. CASE DeadlineStop
      BY <2>2, <2>3 DEF DeadlineStop, Working, Active, Pausing
    <2>4. CASE Evaluate
      <3>1. job.kind = "evaluate" /\ job.pc \in Evaluating /\ Active
        <4>1. job.kind = "evaluate"
          BY <2>4 DEF Evaluate, EvaluateExpire, EvaluateDecide, EvaluateDrop, EvaluateRefresh, EvaluateStop,
                      EvaluateIdle, EvaluateCharge, EvaluateWait, EvaluateSolar, EvaluateUndo,
                      EvaluateStandby, EvaluateWrite, Working
        <4> QED
          BY <4>1 DEF Base, Shape, Active, Evaluating
      <3>2. job.pc \notin {"expire", "refresh", "stop", "start", "solar", "undo", "standby"}
        BY <2>2, <3>1 DEF Pausing
      <3>3. job.pc # "drop"
        BY <2>2, <3>1 DEF Kept, JobWork
      <3>4. EvaluateDecide \/ EvaluateWrite
        BY <2>4, <3>2, <3>3
        DEF Evaluate, EvaluateExpire, EvaluateDrop, EvaluateRefresh, EvaluateStop, EvaluateIdle,
            EvaluateCharge, EvaluateWait, EvaluateSolar, EvaluateUndo, EvaluateStandby, Working
      <3> QED
        BY <3>4 DEF EvaluateDecide, EvaluateWrite
    <2> QED
      BY <2>3, <2>4
  <1>2. Quiet => [(Evaluate \/ DeadlineStop) /\ doc.paused > t => UNCHANGED device]_vars
    BY DEF Quiet
  <1> QED
    BY <1>1, <1>2, PauseInvariance, PTL DEF PauseHolds

-----------------------------------------------------------------------------
(* A charge has an owner.                                                   *)

\* The guard's Standby and a manual restore leave no charge.  While the battery charges and
\* no lapse is known: a start of Backup Preparation is still to release it, a save of
\* settings, a deadline or a pause has not released it, and an evaluation knows that it goes.
Charging ==
  /\ guard => device # "charge"
  /\ asked.kind = "restore" \/ job.kind = "restore" => device # "charge"
  /\ outside.kind = "settings" /\ outside.base.owner /\ ~outside.mem.owner => outside.pc = "write"
  /\ device = "charge" /\ ~lapsed =>
       /\ outside.kind = "backup" => doc.owner /\ outside.pc # "write"
       /\ outside.kind = "settings" /\ outside.base.owner /\ ~outside.mem.owner => backup
       /\ job.kind \in {"deadline", "pause"} /\ job.base.owner => job.mem.owner
       /\ job.kind = "evaluate" /\ ~backup /\ job.pc # "undo" =>
            job.mem.owner /\ (job.base.owner => doc.owner)
  /\ ChargeIsOwned

\* The battery charges after a command, and no lapse is known.
Charges == device' = "charge" /\ ~lapsed'

LEMMA SetsCharge ==
  ASSUME NEW by, NEW m, NEW ok \in BOOLEAN, Sets(by, m, ok), Charges
  PROVE  /\ ~lapsed
         /\ \/ m = "charge" /\ ~ReleasedMeanwhile
            \/ m # "charge" /\ device = "charge" /\ ~ok
  BY DEF Sets, Command, Charges

\* After a step of an evaluation the battery charges only if the charge is owned on record
\* or will be when the evaluation writes.
LEMMA EvaluateCharges ==
  ASSUME Base, Kept, Charging, Evaluate, ~EvaluateWrite, Charges
  PROVE  /\ ~lapsed
         /\ device = "charge" \/ (~guard /\ ~ReleasedMeanwhile)
         /\ \/ job' = NoJob /\ doc.owner
            \/ /\ job'.kind = "evaluate" /\ job'.base = job.base
               /\ job'.pc # "undo" => job'.mem.owner /\ (job.base.owner => doc.owner)
  <1> DEFINE m == job.mem
  <1>1. Steps /\ ~backup /\ job.kind = "evaluate" /\ job \in Jobs /\ m \in Docs
    BY EvaluateSteps DEF Steps, Base, Typed
  <1>2. /\ job' = NoJob \/ (job'.kind = "evaluate" /\ job'.base = job.base)
        /\ m.owner /\ job.pc # "write" => job.base.owner
        /\ m.owner \in BOOLEAN /\ doc.owner \in BOOLEAN /\ job.base.owner \in BOOLEAN
        /\ guard => job.pc \in {"decide", "write"}
    BY <1>1, Times DEF Steps, Kept, JobWork, Base, Turns
  <1>3. device = "charge" /\ ~lapsed /\ job.pc # "undo" => m.owner /\ (job.base.owner => doc.owner)
    BY <1>1 DEF Charging
  <1>4. job.base.owner /\ ~ReleasedMeanwhile => doc.owner
    BY DEF ReleasedMeanwhile
  \* A command that ends a charge has failed.
  <1>5. ASSUME NEW mode, mode # "charge", NEW ok \in BOOLEAN, Sets("adaptive", mode, ok)
        PROVE  ~ok /\ ~lapsed /\ device = "charge"
    BY <1>5, SetsCharge
  <1>6. ASSUME NEW pc \in Evaluating, Goto(pc, m)
        PROVE  job'.pc = pc /\ job'.mem = m /\ job'.kind = "evaluate" /\ job'.base = job.base
    BY <1>1, <1>6, GotoType
  <1>7. UNCHANGED <<device, lapsed>> => device = "charge" /\ ~lapsed
    BY DEF Charges
  <1>8. CASE EvaluateExpire
    <2>1. job.pc = "expire" /\ (m.owner <=> job.base.owner)
      BY <1>1, <1>8 DEF EvaluateExpire, Working, Kept, JobWork
    <2>2. PICK ok \in BOOLEAN : /\ Sets("adaptive", "auto", ok)
                                /\ ~ok => End
      BY <1>8 DEF EvaluateExpire
    <2>3. ~ok /\ ~lapsed /\ device = "charge"
      BY <1>5, <2>2
    <2> QED
      BY <1>2, <1>3, <2>1, <2>2, <2>3 DEF End
  <1>9. CASE EvaluateDecide
    <2>1. job.pc = "decide" /\ device = "charge" /\ ~lapsed /\ ~guard
      BY <1>7, <1>9 DEF EvaluateDecide, Working, Charging
    <2>2. m.owner /\ (job.base.owner => doc.owner)
      BY <1>3, <2>1
    <2>3. Goto("drop", m) \/ Goto("refresh", m)
      BY <1>9, <2>1, <2>2 DEF EvaluateDecide
    <2>4. job'.kind = "evaluate" /\ job'.base = job.base /\ job'.mem = m
      BY <1>6, <2>3 DEF Evaluating
    <2> QED
      BY <2>1, <2>2, <2>4
  <1>10. CASE EvaluateDrop
    <2>1. job.pc = "drop" /\ m.owner
      BY <1>1, <1>10 DEF EvaluateDrop, Working, Kept, JobWork
    <2>2. PICK ok \in BOOLEAN : /\ Sets("adaptive", "auto", ok)
                                /\ ~ok => End
      BY <1>10 DEF EvaluateDrop
    <2>3. ~ok /\ ~lapsed /\ device = "charge"
      BY <1>5, <2>2
    <2> QED
      BY <1>2, <1>3, <2>1, <2>2, <2>3 DEF End
  <1>11. CASE EvaluateRefresh
    <2>1. job.pc = "refresh" /\ m.owner /\ job.base.owner /\ ~guard
      BY <1>1, <1>2, <1>11 DEF EvaluateRefresh, Working, Kept, JobWork
    <2>2. \/ UNCHANGED <<device, lapsed>>
          \/ \E ok \in BOOLEAN : Sets("adaptive", "charge", ok)
      BY <1>11 DEF EvaluateRefresh
    <2>3. ~lapsed /\ doc.owner /\ (device = "charge" \/ ~ReleasedMeanwhile)
      BY <1>3, <1>4, <1>7, <2>1, <2>2, SetsCharge
    <2>4. job' = NoJob \/ job'.mem.owner
      BY <1>1, <1>2, <2>1 DEF Steps, Moves
    <2> QED
      BY <1>2, <2>1, <2>3, <2>4
  <1>12. CASE EvaluateStop
    <2>1. job.pc = "stop"
      BY <1>12 DEF EvaluateStop, Working
    <2>2. /\ ~lapsed /\ device = "charge"
          /\ Goto("start", m) \/ Goto("write", m)
      <3>1. CASE Goto("start", m) /\ UNCHANGED <<device, lapsed>>
        BY <1>7, <3>1
      <3>2. CASE \E mode \in {"auto", "standby"}, ok \in BOOLEAN :
                   /\ Sets("adaptive", mode, ok)
                   /\ ok \/ Goto("write", m)
        BY <1>5, <3>2
      <3>3. \/ Goto("start", m) /\ UNCHANGED <<device, lapsed>>
            \/ \E mode \in {"auto", "standby"}, ok \in BOOLEAN :
                 /\ Sets("adaptive", mode, ok)
                 /\ ok \/ Goto("write", m)
        <4> DEFINE end == WindowEnd(m.slot)
                   hold == InWindow(job.now) /\ job.now < end
                   stops == {<<"auto", Released(m)>>}
                     \cup (IF job.now < m.slot THEN {<<"standby", Suspended(m, 0)>>} ELSE {})
                     \cup (IF hold THEN {<<"standby", Suspended(m, end)>>} ELSE {})
        <4>1. \A s \in stops : s[1] \in {"auto", "standby"}
          OBVIOUS
        <4>2. \/ Goto("start", m) /\ UNCHANGED <<device, lapsed>>
              \/ \E s \in stops, ok \in BOOLEAN :
                   /\ Sets("adaptive", s[1], ok)
                   /\ IF ok THEN Goto("start", s[2]) ELSE Goto("write", m)
          BY <1>12 DEF EvaluateStop
        <4> HIDE DEF stops
        <4> QED
          BY <4>1, <4>2
      <3> QED
        BY <3>1, <3>2, <3>3
    <2>3. job'.kind = "evaluate" /\ job'.base = job.base /\ job'.mem = m
      BY <1>6, <2>2 DEF Evaluating
    <2> QED
      BY <1>3, <2>1, <2>2, <2>3
  <1>13. CASE EvaluateIdle
    <2>1. job.pc = "start" /\ m.owner
      BY <1>13 DEF EvaluateIdle, Working
    <2>2. PICK ok \in BOOLEAN : /\ Sets("adaptive", "auto", ok)
                                /\ ~ok => End
      BY <1>13 DEF EvaluateIdle
    <2>3. ~ok /\ ~lapsed /\ device = "charge"
      BY <1>5, <2>2
    <2> QED
      BY <1>2, <1>3, <2>1, <2>2, <2>3 DEF End
  <1>14. CASE EvaluateCharge
    <2>1. job.pc = "start" /\ ~m.owner /\ ~guard
      BY <1>2, <1>14 DEF EvaluateCharge, Working
    <2>2. PICK e \in SlotEnds(job.now), ok \in BOOLEAN :
            /\ Sets("adaptive", "charge", ok)
            /\ IF ok THEN Goto("write", Charged(m, e)) ELSE Goto("undo", m)
      BY <1>14 DEF EvaluateCharge
    <2>3. ~lapsed /\ ~ReleasedMeanwhile
      BY <2>2, SetsCharge
    <2>4. CASE ok
      <3>1. e \in Moments /\ WindowEnd(e) \in Moments
        BY Calendar, HorizonAssumption DEF Base, Typed
      <3>2. Charged(m, e) \in Docs /\ Charged(m, e).owner
        BY <1>1, <3>1, ChargedType
      <3>3. /\ job'.kind = "evaluate" /\ job'.base = job.base /\ job'.mem = Charged(m, e)
        BY <1>1, <2>2, <2>4, <3>2, GotoType DEF Evaluating
      <3> QED
        BY <1>4, <2>1, <2>3, <3>2, <3>3
    <2>5. CASE ~ok
      <3>1. job'.kind = "evaluate" /\ job'.base = job.base /\ job'.pc = "undo"
        BY <1>6, <2>2, <2>5 DEF Evaluating
      <3> QED
        BY <2>1, <2>3, <3>1
    <2> QED
      BY <2>4, <2>5
  <1>15. CASE EvaluateWait
    <2>1. job.pc = "start" /\ device = "charge" /\ ~lapsed
      BY <1>7, <1>15 DEF EvaluateWait, Working
    <2>2. m.owner /\ (job.base.owner => doc.owner)
      BY <1>3, <2>1
    <2>3. Goto("write", m)
      BY <1>15, <2>2 DEF EvaluateWait
    <2> QED
      BY <1>6, <2>1, <2>2, <2>3 DEF Evaluating
  <1>16. CASE EvaluateSolar \/ EvaluateStandby
    <2>1. job.pc \in {"solar", "standby"} /\ ~m.owner
      BY <1>1, <1>16 DEF EvaluateSolar, EvaluateStandby, Working, Kept, JobWork
    <2>2. \/ UNCHANGED <<device, lapsed>>
          \/ \E mode \in {"auto", "standby"}, ok \in BOOLEAN : Sets("adaptive", mode, ok)
      BY <1>16 DEF EvaluateSolar, EvaluateStandby
    <2>3. device = "charge" /\ ~lapsed
      BY <1>5, <1>7, <2>2
    <2> QED
      BY <1>3, <2>1, <2>3
  <1>17. CASE EvaluateUndo
    BY <1>17 DEF EvaluateUndo, Charges
  <1> QED
    BY <1>8, <1>9, <1>10, <1>11, <1>12, <1>13, <1>14, <1>15, <1>16, <1>17 DEF Evaluate

LEMMA EvaluateCharging ==
  ASSUME Base, Kept, Charging, Evaluate
  PROVE  Charging'
  <1>1. CASE ~EvaluateWrite
    <2>1. /\ UNCHANGED Locked /\ ~backup /\ job.kind = "evaluate"
          /\ job' = NoJob \/ job'.kind = "evaluate"
      BY <1>1, EvaluateSteps DEF Steps
    <2>2. /\ asked.kind # "restore" /\ outside.kind # "backup"
          /\ NoJob.kind = "none"
      BY <2>1, IdleType DEF Base, Turns
    <2>3. Charges => /\ ~lapsed
                     /\ device = "charge" \/ (~guard /\ ~ReleasedMeanwhile)
                     /\ \/ job' = NoJob /\ doc.owner
                        \/ /\ job'.kind = "evaluate" /\ job'.base = job.base
                           /\ job'.pc # "undo" => job'.mem.owner /\ (job.base.owner => doc.owner)
      BY <1>1, EvaluateCharges
    <2>4. Charges => ~guard
      BY <2>3 DEF Charging
    <2>5. guard => device' # "charge"
      <3>1. SUFFICES ASSUME guard, device' = "charge"
                     PROVE  FALSE
        OBVIOUS
      <3>2. EvaluateDecide \/ EvaluateWrite
        <4>1. job.pc \in {"decide", "write"}
          BY <2>1, <3>1 DEF Base, Turns
        <4> QED
          BY <4>1
          DEF Evaluate, EvaluateExpire, EvaluateDrop, EvaluateRefresh, EvaluateStop, EvaluateIdle,
              EvaluateCharge, EvaluateWait, EvaluateSolar, EvaluateUndo, EvaluateStandby, Working
      <3>3. device' = device
        BY <3>2 DEF EvaluateDecide, EvaluateWrite
      <3> QED
        BY <3>1, <3>3 DEF Charging
    <2>6. Charges => /\ outside.kind = "settings" /\ outside.base.owner /\ ~outside.mem.owner => backup
      BY <2>1, <2>3 DEF Charging, ReleasedMeanwhile
    <2> QED
      BY <2>1, <2>2, <2>3, <2>4, <2>5, <2>6 DEF Charging, ChargeIsOwned, Charges, Locked, facts
  <1>2. CASE EvaluateWrite
    <2>1. /\ Active /\ job' = NoJob /\ doc' = Merge(doc, job.base, job.mem) /\ job.kind = "evaluate"
          /\ job.pc = "write" /\ UNCHANGED <<facts, device, asked, outside, lapsed>>
      BY <1>2 DEF EvaluateWrite, Working, Active, End, Commit
    <2>2. outside.kind # "backup" /\ NoJob.kind = "none"
      BY <2>1, IdleType DEF Base, Turns
    <2>3. /\ doc.paused = job.base.paused
          /\ doc.owner => job.base.owner
          /\ doc.owner \in BOOLEAN /\ job.mem.owner \in BOOLEAN /\ job.base.owner \in BOOLEAN
      BY <2>1, Times DEF Kept, Meanwhile
    <2>4. doc'.owner = IF job.mem.owner # job.base.owner /\ doc.owner = job.base.owner
                       THEN job.mem.owner ELSE doc.owner
      BY <2>1, <2>3, MergeType DEF Base, Typed
    <2> QED
      BY <2>1, <2>2, <2>3, <2>4 DEF Charging, ChargeIsOwned, facts
  <1> QED
    BY <1>1, <1>2

\* A step that commands nothing, or whose command has failed, and leaves the record alone.
LEMMA StillCharging ==
  ASSUME Charging, Charges => device = "charge" /\ ~lapsed, UNCHANGED <<doc, asked, backup, guard>>,
         device' = "charge" => device = "charge" \/ (~guard /\ asked.kind # "restore" /\ job.kind # "restore"),
         outside' = outside \/ outside' = Nobody,
         job' = job \/ job' = NoJob, job' = NoJob => job.kind # "evaluate" \/ job' = job
  PROVE  Charging'
  BY IdleType DEF Charging, ChargeIsOwned, Charges

\* A command that ends a charge leaves one only if it has failed.
LEMMA Ends ==
  ASSUME NEW by, NEW m, m # "charge", NEW ok \in BOOLEAN, Sets(by, m, ok)
  PROVE  /\ device' = "charge" => device = "charge"
         /\ Charges => device = "charge" /\ ~lapsed /\ ~ok
  <1>1. device' = "charge" => device = "charge"
    BY DEF Sets, Command
  <1> QED
    BY <1>1, SetsCharge

LEMMA DeadlineCharging ==
  ASSUME Base, Kept, Charging, TimerFires \/ DeadlineBegin \/ DeadlineStop \/ DeadlineWrite
  PROVE  Charging'
  <1>1. CASE TimerFires
    BY <1>1, StillCharging DEF TimerFires, facts, Charges
  <1>2. CASE DeadlineBegin
    <2>1. /\ UNCHANGED <<facts, doc, device, asked, outside, lapsed>> /\ job = NoJob
          /\ \/ job' = job
             \/ job'.kind = "deadline" /\ job'.mem = doc /\ job'.base = doc
      BY <1>2 DEF DeadlineBegin, Hold
    <2> QED
      BY <2>1, IdleType DEF Charging, ChargeIsOwned, facts
  <1>3. CASE DeadlineStop
    <2>1. /\ job.kind = "deadline" /\ UNCHANGED Locked
          /\ \E mode \in {"auto", "standby"}, ok \in BOOLEAN :
               /\ Sets("adaptive", mode, ok)
               /\ ~ok => Goto("write", job.mem)
          /\ \E n \in Docs : Goto("write", n)
      <3>1. /\ job.mem \in Docs /\ Released(job.mem) \in Docs
            /\ Suspended(job.mem, WindowEnd(job.mem.slot)) \in Docs
        <4>1. job.mem \in Docs /\ WindowEnd(job.mem.slot) \in Moments
          BY DEF Base, Typed, Docs
        <4> QED
          BY <4>1, ReleasedType, SuspendedType
      <3> QED
        BY <1>3, <3>1 DEF DeadlineStop, Working
    <2>2. job'.kind = "deadline"
      BY <2>1 DEF Goto, Base, Typed, Jobs
    <2>3. PICK mode \in {"auto", "standby"}, ok \in BOOLEAN :
            /\ Sets("adaptive", mode, ok)
            /\ ~ok => Goto("write", job.mem)
      BY <2>1
    <2>4. /\ device' = "charge" => device = "charge"
          /\ Charges => device = "charge" /\ ~lapsed /\ ~ok
      BY <2>3, Ends
    <2>5. Charges => job'.mem = job.mem /\ job'.base = job.base
      BY <2>3, <2>4 DEF Goto, Base, Typed, Jobs
    <2> QED
      BY <2>1, <2>2, <2>4, <2>5 DEF Charging, ChargeIsOwned, Charges, Locked, facts
  <1>4. CASE DeadlineWrite
    <2>1. /\ Active /\ job' = NoJob /\ doc' = Merge(doc, job.base, job.mem) /\ job.kind = "deadline"
          /\ UNCHANGED <<facts, device, asked, outside, lapsed>>
      BY <1>4 DEF DeadlineWrite, Working, Active, End
    <2>2. /\ doc.owner => job.base.owner
          /\ doc.owner \in BOOLEAN /\ job.mem.owner \in BOOLEAN /\ job.base.owner \in BOOLEAN
      BY <2>1, Times DEF Kept, Meanwhile
    <2>3. doc.owner /\ job.mem.owner => doc'.owner
      BY <2>1, <2>2, MergeType DEF Base, Typed
    <2> QED
      BY <2>1, <2>2, <2>3, IdleType DEF Charging, ChargeIsOwned, facts
  <1> QED
    BY <1>1, <1>2, <1>3, <1>4

LEMMA PauseCharging ==
  ASSUME Base, Kept, Charging,
         \/ PauseBegin \/ PauseFree \/ PauseWrite \/ ManualCommand
         \/ ResumeBegin \/ ResumeFree \/ ResumeWrite
  PROVE  Charging'
  <1>1. /\ job \in Jobs /\ job.mem \in Docs /\ doc \in Docs /\ 0 \in Moments /\ Midnight(job.now) \in Moments
        /\ outside \in Outsiders /\ outside.mem \in Docs
    <2>1. job.now \in 0..Horizon
      BY HorizonAssumption DEF Base, Typed
    <2> QED
      BY <2>1, Calendar DEF Base, Typed
  <1>2. CASE PauseBegin \/ ResumeBegin
    <2>1. /\ UNCHANGED <<facts, doc, device, asked, lapsed>> /\ job = NoJob
          /\ \/ job' = job
             \/ job'.kind \in {"pause", "resume"} /\ job'.mem = doc /\ job'.base = doc
          /\ \/ outside' = outside
             \/ outside.kind = "settings" /\ outside.pc = "pause" /\ Proceed("auto", outside.mem)
      BY <1>2 DEF PauseBegin, ResumeBegin, Hold
    <2>2. \/ outside' = outside
          \/ /\ outside.kind = "settings" /\ outside.pc = "pause" /\ outside'.kind = "settings"
             /\ outside'.mem = outside.mem /\ outside'.base = outside.base
      BY <1>1, <2>1, ProceedType
    <2> QED
      BY <2>1, <2>2, IdleType DEF Charging, ChargeIsOwned, facts
  <1>3. CASE PauseFree \/ ResumeFree
    <2>1. /\ job.kind \in {"pause", "resume"} /\ UNCHANGED <<facts, doc, asked>>
          /\ \E n \in {Released(job.mem), Held(job.mem, 0)} : job' = NoJob \/ Goto("write", n)
          /\ outside' = outside \/ outside' = Nobody
          /\ \E ok \in BOOLEAN : Sets("adaptive", "auto", ok) /\ (~ok => End)
      BY <1>3 DEF PauseFree, ResumeFree, Working, End, Locked
    <2>2. PICK ok \in BOOLEAN : Sets("adaptive", "auto", ok) /\ (~ok => End)
      BY <2>1
    <2>3. /\ device' = "charge" => device = "charge"
          /\ Charges => device = "charge" /\ ~lapsed /\ ~ok
      BY <2>2, Ends
    <2>4. job' = NoJob \/ job'.kind \in {"pause", "resume"}
      BY <2>1 DEF Goto, Base, Typed, Jobs
    <2>5. Charges => job' = NoJob
      BY <2>2, <2>3 DEF End
    <2> QED
      BY <2>1, <2>3, <2>4, <2>5, IdleType DEF Charging, ChargeIsOwned, Charges, facts
  <1>4. CASE PauseWrite \/ ResumeWrite
    <2>1. PICK n \in {0, Midnight(job.now)} :
            /\ Active /\ job' = NoJob /\ doc' = Merge(doc, job.base, Paused(job.mem, n))
            /\ UNCHANGED <<facts, device, asked, lapsed>>
            /\ \/ job.kind = "pause" /\ job.pc = "write"
               \/ job.kind = "resume"
            /\ \/ outside' = outside
               \/ job.by = "settings" /\ Proceed("auto", outside.mem)
      BY <1>4 DEF PauseWrite, ResumeWrite, Working, Active, End, Commit, Base, Typed, Shape, Jobs
    <2>2. \/ outside' = outside
          \/ /\ outside.kind = "settings" /\ outside.pc = "pause" /\ outside'.kind = "settings"
             /\ outside'.mem = outside.mem /\ outside'.base = outside.base
      BY <1>1, <2>1, ProceedType DEF Base, Shape
    <2>3. Paused(job.mem, n) \in Docs /\ Paused(job.mem, n).owner = job.mem.owner
      BY <1>1, <2>1, PausedType
    <2>4. /\ doc.owner => job.base.owner
          /\ doc.owner \in BOOLEAN /\ job.mem.owner \in BOOLEAN /\ job.base.owner \in BOOLEAN
          /\ job.kind = "resume" => job.mem.owner = job.base.owner
          /\ job.kind = "pause" => ~job.mem.owner
      BY <2>1, Times DEF Kept, Meanwhile, JobWork
    <2>5. doc.owner /\ job.mem.owner => doc'.owner
      BY <2>1, <2>3, <2>4, MergeType DEF Base, Typed
    <2> QED
      BY <2>1, <2>2, <2>4, <2>5, IdleType DEF Charging, ChargeIsOwned, facts
  <1>5. CASE ManualCommand
    <2>1. /\ UNCHANGED <<facts, doc, asked, job, outside>>
          /\ \E ok \in BOOLEAN : Sets("manual", "manual", ok)
      BY <1>5 DEF ManualCommand
    <2> QED
      BY <2>1, Ends, StillCharging DEF facts
  <1> QED
    BY <1>2, <1>3, <1>4, <1>5

LEMMA AutomationCharging ==
  ASSUME Base, Kept, Charging,
         \/ EvaluateAsk \/ EvaluateBegin \/ GuardTurns \/ GuardRestore
         \/ RestoreBegin \/ RestoreWrite \/ RestoreEvaluate
  PROVE  Charging'
  <1>1. /\ doc \in Docs /\ job \in Jobs /\ job.mem \in Docs /\ asked.now \in Moments /\ t \in Moments
    BY HorizonAssumption DEF Base, Typed, Moments
  <1>2. ASSUME NEW now \in Moments, FirstStep(doc, now)
        PROVE  /\ job'.kind = "evaluate" /\ job'.base = doc
               /\ ~backup => job'.mem = doc
    BY <1>1, <1>2, FirstStepType
  <1>3. CASE EvaluateAsk
    <2>1. UNCHANGED <<facts, doc, device, job, outside, lapsed>> /\ asked'.kind = "evaluate"
      BY <1>3 DEF EvaluateAsk
    <2> QED
      BY <2>1 DEF Charging, ChargeIsOwned, facts
  <1>4. CASE EvaluateBegin
    <2>1. /\ job = NoJob /\ UNCHANGED <<facts, doc, device, outside, lapsed>> /\ asked' = Never
          /\ job'.kind = "evaluate" /\ job'.base = doc
          /\ ~backup => job'.mem = doc
      BY <1>1, <1>2, <1>4 DEF EvaluateBegin
    <2> QED
      BY <2>1, IdleType DEF Charging, ChargeIsOwned, facts
  <1>5. CASE GuardTurns
    <2>1. /\ UNCHANGED <<backup, doc, asked, job, outside>> /\ guard' \in BOOLEAN /\ guard \in BOOLEAN
          /\ guard' # guard
          /\ \/ guard' /\ device' = "standby"
             \/ ~guard' /\ device' \in {"auto", device}
      BY <1>5 DEF GuardTurns, Base, Typed
    <2>2. device' # "charge"
      BY <2>1 DEF Charging
    <2> QED
      BY <2>1, <2>2 DEF Charging, ChargeIsOwned
  <1>6. CASE GuardRestore
    BY <1>6 DEF GuardRestore, Charging, ChargeIsOwned
  <1>7. CASE RestoreBegin
    <2>1. /\ UNCHANGED <<facts, doc, device, outside, lapsed>> /\ asked' = Never
          /\ job' = job \/ job'.kind = "restore"
          /\ device # "charge"
      BY <1>7 DEF RestoreBegin, Hold, Charging
    <2> QED
      BY <2>1, IdleType DEF Charging, ChargeIsOwned, facts
  <1>8. CASE RestoreWrite \/ RestoreEvaluate
    <2>1. UNCHANGED <<device, outside>> /\ device # "charge"
      BY <1>8 DEF RestoreWrite, RestoreEvaluate, Locked, Working, Charging
    <2> QED
      BY <2>1 DEF Charging, ChargeIsOwned
  <1> QED
    BY <1>3, <1>4, <1>5, <1>6, <1>7, <1>8

LEMMA WriterCharging ==
  ASSUME Base, Kept, Charging, SettingsBegin \/ BackupStart \/ BackupEnd \/ Writer
  PROVE  Charging'
  <1>1. /\ doc \in Docs /\ outside \in Outsiders /\ outside.mem \in Docs /\ outside.base \in Docs
        /\ doc.owner \in BOOLEAN /\ outside.mem.owner \in BOOLEAN /\ outside.base.owner \in BOOLEAN
        /\ Nobody.kind = "none"
    BY IdleType DEF Base, Typed, Docs, Doc
  <1>2. CASE SettingsBegin
    <2>1. /\ UNCHANGED <<facts, doc, device, asked, job, lapsed>>
          /\ outside'.kind = "settings" /\ outside'.base = doc
          /\ \/ outside'.mem = doc
             \/ outside'.mem = Released(doc) /\ backup /\ outside'.pc = "write"
      BY <1>2 DEF SettingsBegin, Enter, Free
    <2> QED
      BY <2>1 DEF Charging, ChargeIsOwned, facts
  <1>3. CASE SettingsRelease \/ SettingsAuto
    <2>1. /\ UNCHANGED <<facts, doc, asked, job>>
          /\ \E by \in {"adaptive", "manual"}, ok \in BOOLEAN :
               /\ Sets(by, "auto", ok)
               /\ ~ok => outside' = Nobody
          /\ outside.kind = "settings"
          /\ \/ outside' = Nobody
             \/ \E n \in {Released(outside.mem), Held(outside.mem, 0)} : Proceed("write", n)
      BY <1>3 DEF SettingsRelease, SettingsAuto, Outside, Leave, Free
    <2>2. /\ device' = "charge" => device = "charge"
          /\ Charges => device = "charge" /\ ~lapsed /\ outside' = Nobody
      BY <2>1, Ends
    <2>3. outside' = Nobody \/ (outside'.kind = "settings" /\ outside'.pc = "write")
      BY <1>1, <2>1 DEF Proceed, Outsiders
    <2> QED
      BY <1>1, <2>1, <2>2, <2>3 DEF Charging, ChargeIsOwned, Charges, facts
  <1>4. CASE SettingsWrite
    <2>1. /\ outside.kind = "settings" /\ doc' = Merge(doc, outside.base, outside.mem)
          /\ outside' = Nobody /\ UNCHANGED <<t, guard, backup, device, asked, job, lapsed>>
      BY <1>4 DEF SettingsWrite, Outside, Commit, Leave
    <2>2. outside.mem.owner => outside.base.owner
      BY DEF Kept, OutsideWork
    <2>3. doc.owner /\ (outside.base.owner => outside.mem.owner) => doc'.owner
      BY <1>1, <2>1, <2>2, MergeType
    <2> QED
      BY <1>1, <2>1, <2>3 DEF Charging, ChargeIsOwned
  <1>5. CASE BackupStart
    <2>1. /\ job.kind # "evaluate" /\ ~backup /\ backup' = TRUE /\ guard' \in {guard, FALSE}
          /\ device' = IF guard' = guard THEN device ELSE "auto"
          /\ lapsed' = (lapsed /\ device' = "charge")
          /\ outside' = [Nobody EXCEPT !.kind = "backup", !.pc = "read"]
          /\ UNCHANGED <<doc, asked, job>>
      BY <1>5 DEF BackupStart, Unattended
    <2>2. outside'.kind = "backup" /\ outside'.pc = "read"
      BY <2>1 DEF Nobody
    <2>3. /\ device' = "charge" => device = "charge" /\ guard' = guard
          /\ Charges => ~lapsed
      BY <2>1 DEF Charges
    <2> QED
      BY <2>1, <2>2, <2>3 DEF Charging, ChargeIsOwned, Charges
  <1>6. CASE BackupRead
    <2>1. /\ UNCHANGED <<facts, doc, device, asked, job, lapsed>>
          /\ outside.kind = "backup" /\ outside'.kind = "backup"
          /\ doc.owner => outside'.pc # "write"
      BY <1>6 DEF BackupRead, Outside, Enter, Free
    <2> QED
      BY <2>1 DEF Charging, ChargeIsOwned, facts
  <1>7. CASE BackupRelease
    <2>1. PICK ok \in BOOLEAN :
            /\ Sets("backup", "auto", ok)
            /\ ok => Proceed("write", outside.mem) /\ UNCHANGED <<doc, backup>>
            /\ ~ok => outside' = Nobody /\ doc' = Merge(doc, doc, Held(doc, 0))
      BY <1>7 DEF BackupRelease, Leave, Commit
    <2>2. /\ outside.kind = "backup" /\ UNCHANGED <<guard, asked, job>>
          /\ job.kind \notin {"evaluate", "restore"}
      BY <1>7 DEF BackupRelease, Outside, Base, Turns
    <2>3. /\ device' = "charge" => device = "charge"
          /\ Charges => device = "charge" /\ ~lapsed /\ ~ok
      BY <2>1, Ends
    <2>4. \/ outside' = Nobody
          \/ outside'.kind = "backup"
      BY <1>1, <2>1, <2>2 DEF Proceed, Outsiders
    <2>5. Charges => outside' = Nobody /\ doc'.owner = doc.owner
      BY <1>1, <2>1, <2>3, ForgetCommit
    <2> QED
      BY <1>1, <2>2, <2>3, <2>4, <2>5 DEF Charging, ChargeIsOwned, Charges
  <1>8. CASE BackupWrite
    <2>1. /\ outside.kind = "backup" /\ outside.pc = "write" /\ outside' = Nobody
          /\ device' \in {device, "auto"} /\ lapsed' = (lapsed /\ device' = "charge")
          /\ UNCHANGED <<guard, asked, job>>
      BY <1>8 DEF BackupWrite, Outside, Leave
    <2>2. ~Charges
      BY <2>1 DEF Charging, Charges
    <2> QED
      BY <1>1, <2>1, <2>2 DEF Charging, ChargeIsOwned, Charges
  <1>9. CASE BackupEnd
    <2>1. /\ outside' = outside /\ outside = Nobody /\ UNCHANGED <<guard, asked, job>>
          /\ device' = IF guard THEN device ELSE "auto"
      BY <1>9 DEF BackupEnd
    <2>2. device' # "charge"
      BY <2>1 DEF Charging
    <2> QED
      BY <1>1, <2>1, <2>2 DEF Charging, ChargeIsOwned
  <1> QED
    BY <1>2, <1>3, <1>4, <1>5, <1>6, <1>7, <1>8, <1>9 DEF Writer

LEMMA ChargingNext ==
  ASSUME Base, Kept, Charging, [Next]_vars
  PROVE  Charging'
  <1>1. CASE Tick \/ UNCHANGED vars
    BY <1>1, StillCharging DEF Tick, vars, Charges
  <1>2. CASE Restart
    <2>1. /\ job' = NoJob /\ outside' = Nobody /\ asked' = Never /\ UNCHANGED facts
          /\ device' = "charge" => device = "charge"
          /\ lapsed' = (device' = "charge" /\ (lapsed \/ ~doc'.owner))
      BY <1>2 DEF Restart
    <2>2. device' = "charge" /\ ~lapsed' => doc'.owner
      BY <2>1
    <2> QED
      BY <2>1, <2>2, IdleType DEF Charging, ChargeIsOwned, facts
  <1> QED
    BY <1>1, <1>2, EvaluateCharging, DeadlineCharging, PauseCharging, AutomationCharging, WriterCharging
    DEF Next, Job

\* Outside an evaluation, no command, failure, write or restart leaves a charge that nobody
\* will stop, but for Backup Preparation and the lapses that the ghost names.
THEOREM ChargeHasOwner == Spec => []ChargeIsOwned
  <1>1. Init => Charging
    BY IdleType, NoDocType DEF Init, Charging, ChargeIsOwned
  <1>2. Base /\ Kept /\ Charging /\ [Next]_vars => Charging'
    BY ChargingNext
  <1>3. Charging => ChargeIsOwned
    BY DEF Charging
  <1> QED
    BY <1>1, <1>2, <1>3, Invariance, PTL DEF Spec
=============================================================================

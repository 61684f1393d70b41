------------------------ MODULE ScheduleRunnerProofs ------------------------
(* Nothing that should act once acts twice: ActsOnce for any number of schedules, *)
(* days, edits, waiting runs and stops of the process.                       *)
EXTENDS ScheduleRunner, TLAPS

-----------------------------------------------------------------------------
(* The inductive invariant.                                                   *)

\* The copy of a run as far as the document knows it, and what its place means.
Copy ==
  /\ job.pc \in {"next", "execute"} => job.i <= N
  /\ job.pc = "execute" => /\ job.mem[job.i].running /\ job.mem[job.i].attempted = job.date
                           /\ doc = job.mem
  /\ job.pc # "idle" =>
       /\ 1 <= job.date /\ job.date <= day
       /\ \A s \in Schedules :
            /\ job.mem[s].repeat = doc[s].repeat
            /\ doc[s].attempted <= job.mem[s].attempted
            /\ job.mem[s].attempted <= job.date
            /\ doc[s].repeat = "once" /\ doc[s].intent = "settled" => job.mem[s].intent = "settled"

\* A daily schedule changed the battery last on a day the document knows it was attempted.
Dates ==
  /\ again = {}
  /\ \A s \in Schedules : firedOn[s] <= doc[s].attempted /\ doc[s].attempted <= day
  /\ job.pc = "execute" /\ doc[job.i].repeat = "daily" => firedOn[job.i] < job.date

\* One change of the battery more than stops only where the schedule is settled, in the
\* document or, while the document says it is running, in the copy.
Counts ==
  \A s \in Schedules :
    /\ fired[s] > 0 => doc[s].repeat = "once"
    /\ fired[s] <= interrupted[s] + 1
    /\ fired[s] > interrupted[s] =>
         \/ doc[s].intent = "settled"
         \/ job.pc # "idle" /\ doc[s].running /\ job.mem[s].intent = "settled"

IInv == TypeOK /\ Copy /\ Dates /\ Counts

-----------------------------------------------------------------------------
(* What the operators on documents and runs return.                           *)

\* A schedule never attempted is one of the documents, and no run is a run.
LEMMA FreshTypes ==
  /\ \A r \in {"once", "daily"} : [Fresh EXCEPT !.repeat = r] \in Docs
  /\ NoRun \in Jobs /\ Consistent(NoRun.mem)
  <1>1. Fresh \in Docs /\ ~Fresh.running /\ Fresh.intent = "none"
    BY BoundsAssumption DEF Fresh, Docs
  <1>2. ASSUME NEW r \in {"once", "daily"} PROVE [Fresh EXCEPT !.repeat = r] \in Docs
    BY <1>1 DEF Docs
  <1>3. NoRun.mem \in [Schedules -> Docs] /\ Consistent(NoRun.mem)
    BY <1>1 DEF NoRun, Consistent
  <1>4. NoRun \in Jobs
    BY <1>1, NAssumption, BoundsAssumption DEF NoRun, Jobs
  <1> QED
    BY <1>2, <1>3, <1>4

\* A settled schedule.
LEMMA SettledDoc ==
  ASSUME NEW d \in Docs, NEW date \in 0..MaxDay
  PROVE  /\ Settled(d, date) \in Docs
         /\ Settled(d, date).repeat = d.repeat
         /\ Settled(d, date).attempted = date
         /\ Settled(d, date).intent = "settled"
         /\ Settled(d, date).running = FALSE
  BY DEF Settled, Docs

\* The move on to the next schedule.
LEMMA SkipJob ==
  ASSUME job \in Jobs, job.i \in Schedules, NEW d \in Docs
  PROVE  /\ Skip(d) \in Jobs
         /\ Skip(d).mem = [job.mem EXCEPT ![job.i] = d]
         /\ Skip(d).pc \in {"next", "leave"}
         /\ Skip(d).pc = "next" => Skip(d).i <= N
         /\ Skip(d).date = job.date
  <1> DEFINE m == [job.mem EXCEPT ![job.i] = d]
             t == [job.time EXCEPT ![job.i] = FALSE]
             p == IF job.i = N THEN "leave" ELSE "next"
  <1>1. job.i + 1 \in 1..(N + 1) /\ (job.i # N => job.i + 1 <= N)
    BY NAssumption DEF Schedules
  <1>2. m \in [Schedules -> Docs] /\ t \in [Schedules -> BOOLEAN]
    BY DEF Jobs
  <1>3. p \in {"idle", "next", "execute", "leave"}
    OBVIOUS
  <1>4. Skip(d) = [job EXCEPT !.mem = m, !.time = t, !.i = job.i + 1, !.pc = p]
    BY DEF Skip
  <1> HIDE DEF m, t, p
  <1>5. Skip(d) \in Jobs
    BY <1>1, <1>2, <1>3, <1>4 DEF Jobs
  <1>6. /\ Skip(d).mem = m /\ Skip(d).i = job.i + 1
        /\ Skip(d).pc = p /\ Skip(d).date = job.date
    BY <1>4 DEF Jobs
  <1> QED
    BY <1>1, <1>5, <1>6 DEF m, p

\* The attempt of a schedule.
LEMMA AttemptJob ==
  ASSUME job \in Jobs, job.i \in Schedules
  PROVE  LET d == [Current EXCEPT !.attempted = job.date, !.intent = "pending", !.running = TRUE]
         IN  /\ Attempt \in Jobs
             /\ Attempt.mem = [job.mem EXCEPT ![job.i] = d]
             /\ Attempt.pc = "execute" /\ Attempt.i = job.i /\ Attempt.date = job.date
             /\ d \in Docs
  <1> DEFINE d == [Current EXCEPT !.attempted = job.date, !.intent = "pending", !.running = TRUE]
  <1>1. Current \in Docs /\ job.date \in 0..MaxDay
    BY DEF Current, Jobs
  <1>2. d \in Docs
    BY <1>1 DEF Docs
  <1> DEFINE m == [job.mem EXCEPT ![job.i] = d]
  <1>3. m \in [Schedules -> Docs] /\ Attempt = [job EXCEPT !.pc = "execute", !.mem = m]
    BY <1>2 DEF Jobs, Attempt
  <1> HIDE DEF d, m
  <1>4. Attempt \in Jobs
    BY <1>3 DEF Jobs
  <1>5. Attempt.mem = m /\ Attempt.pc = "execute" /\ Attempt.i = job.i /\ Attempt.date = job.date
    BY <1>3 DEF Jobs
  <1> QED
    BY <1>2, <1>4, <1>5 DEF m, d

\* Stale runs are cleared, and nothing else about a schedule.
LEMMA Cleared ==
  ASSUME NEW docs \in [Schedules -> Docs], Consistent(docs)
  PROVE  /\ ClearStale(docs) \in [Schedules -> Docs] /\ Consistent(ClearStale(docs))
         /\ \A s \in Schedules :
              /\ ClearStale(docs)[s].repeat = docs[s].repeat
              /\ ClearStale(docs)[s].attempted = docs[s].attempted
              /\ docs[s].intent = "settled" <=> ClearStale(docs)[s].intent = "settled"
  BY DEF ClearStale, Docs, Consistent
\* What is left of a queue.
LEMMA Dequeued ==
  ASSUME NEW S, NEW q \in Seq(S), q # <<>>
  PROVE  Head(q) \in S /\ Tail(q) \in Seq(S) /\ Len(Tail(q)) + 1 = Len(q) /\ Len(Tail(q)) \in Nat
  OBVIOUS

-----------------------------------------------------------------------------
(* The actions.                                                               *)

\* The first state.
LEMMA Initially == Init => IInv
  <1> SUFFICES ASSUME Init PROVE IInv
    OBVIOUS
  <1>1. \A s \in Schedules : /\ doc[s].attempted = 0 /\ ~doc[s].running
                             /\ doc[s].intent = "none"
    BY DEF Init, Fresh
  <1>2. TypeOK
    <2>1. doc \in [Schedules -> Docs] /\ Consistent(doc)
      BY <1>1, FreshTypes DEF Init, Consistent
    <2>2. queued \in Seq(Reads) /\ Len(queued) <= MaxQueued
      BY BoundsAssumption DEF Init
    <2>3. job \in Jobs /\ Consistent(job.mem)
      BY FreshTypes DEF Init
    <2>4. day \in 1..MaxDay
      BY BoundsAssumption DEF Init
    <2>5. ripe \in [Schedules -> BOOLEAN] /\ blocks \in BOOLEAN
      BY Zenon DEF Init
    <2>6. /\ fired \in [Schedules -> Nat] /\ firedOn \in [Schedules -> 0..MaxDay]
          /\ interrupted \in [Schedules -> Nat] /\ again \subseteq Schedules
      BY BoundsAssumption DEF Init
    <2>7. crashes \in 0..MaxCrash /\ edits \in 0..MaxEdits
      BY BoundsAssumption DEF Init
    <2> QED
      BY <2>1, <2>2, <2>3, <2>4, <2>5, <2>6, <2>7 DEF TypeOK
  <1>3. Copy /\ Dates /\ Counts
    BY <1>1 DEF Init, Copy, Dates, Counts, NoRun
  <1> QED
    BY <1>2, <1>3 DEF IInv

\* A run enters mutate() with the document, stale runs cleared or not.
LEMMA EnterStep == ASSUME IInv, RunEnter PROVE IInv'
  <1> DEFINE mem == job'.mem
  <1>1. doc \in [Schedules -> Docs] /\ Consistent(doc)
    BY DEF IInv, TypeOK
  <1>2. Head(queued) \in Reads /\ Tail(queued) \in Seq(Reads) /\ Len(Tail(queued)) <= MaxQueued
    <2>1. queued \in Seq(Reads) /\ Len(queued) <= MaxQueued /\ queued # <<>>
      BY DEF IInv, TypeOK, RunEnter
    <2> QED
      BY <2>1, Dequeued, BoundsAssumption
  <1>3. /\ mem \in [Schedules -> Docs] /\ Consistent(mem)
        /\ \A s \in Schedules : /\ mem[s].repeat = doc[s].repeat
                                /\ mem[s].attempted = doc[s].attempted
                                /\ doc[s].intent = "settled" <=> mem[s].intent = "settled"
    <2>1. mem = doc \/ mem = ClearStale(doc)
      BY DEF RunEnter
    <2> QED
      BY <1>1, <2>1, Cleared
  <1>4. /\ job'.pc = "next" /\ job'.i = 1 /\ job'.date = day
        /\ UNCHANGED <<doc, day, ripe, blocks, crashes, edits, fired, firedOn, again, interrupted>>
    BY DEF RunEnter, environment, counters, ghosts
  <1>5. job' \in Jobs
    BY <1>2, <1>3, <1>4, NAssumption DEF RunEnter, IInv, TypeOK, Jobs, Reads
  <1> HIDE DEF mem
  <1>6. TypeOK'
    BY <1>2, <1>3, <1>4, <1>5 DEF IInv, TypeOK, RunEnter, mem, Consistent
  <1>7. Copy'
    BY <1>1, <1>3, <1>4, NAssumption DEF IInv, TypeOK, Copy, Dates, mem, Docs
  <1>8. Dates'
    BY <1>4 DEF IInv, Dates
  <1>9. Counts'
    BY <1>4 DEF IInv, Counts, RunEnter
  <1> QED
    BY <1>6, <1>7, <1>8, <1>9 DEF IInv

\* The run that is inside is at a schedule, with its copy of it.
LEMMA AtSchedule ==
  ASSUME IInv, job.pc \in {"next", "execute"}
  PROVE  /\ job \in Jobs /\ Consistent(job.mem) /\ job.i \in Schedules /\ job.date \in 0..MaxDay
         /\ job.mem \in [Schedules -> Docs] /\ Current \in Docs
  <1>1. /\ job \in Jobs /\ Consistent(job.mem) /\ job.i \in 1..(N + 1) /\ job.date \in 0..MaxDay
        /\ job.mem \in [Schedules -> Docs]
    BY DEF IInv, TypeOK, Jobs
  <1>2. job.i <= N
    BY DEF IInv, Copy
  <1>3. job.i \in Schedules
    BY <1>1, <1>2, NAssumption DEF Schedules
  <1> QED
    BY <1>1, <1>3 DEF Current

\* A run passes, blocks or finishes a schedule: only its copy of that schedule changes, to
\* one that is not running and, if it changes, is settled.
LEMMA SkipStep ==
  ASSUME IInv, job.pc \in {"next", "execute"}, NEW d \in Docs, job' = Skip(d),
         \/ d = Current /\ job.pc = "next"
         \/ d = Settled(Current, job.date)
  PROVE  /\ job' \in Jobs /\ Consistent(job'.mem)
         /\ job'.pc \in {"next", "leave"} /\ (job'.pc = "next" => job'.i <= N)
         /\ job'.date = job.date
         /\ \A s \in Schedules :
              /\ job'.mem[s].repeat = job.mem[s].repeat
              /\ job.mem[s].attempted <= job'.mem[s].attempted
              /\ job'.mem[s].attempted <= job.date
              /\ job.mem[s].intent = "settled" => job'.mem[s].intent = "settled"
              /\ s # job.i => job'.mem[s] = job.mem[s]
         /\ job'.mem[job.i] = d
  <1>1. /\ job \in Jobs /\ Consistent(job.mem) /\ job.i \in Schedules /\ job.date \in 0..MaxDay
        /\ job.mem \in [Schedules -> Docs] /\ Current \in Docs
    BY AtSchedule
  <1>2. /\ job' \in Jobs /\ job'.mem = [job.mem EXCEPT ![job.i] = d]
        /\ job'.pc \in {"next", "leave"} /\ (job'.pc = "next" => job'.i <= N)
        /\ job'.date = job.date
    BY <1>1, SkipJob
  <1>3. \A s \in Schedules : job'.mem[s] = IF s = job.i THEN d ELSE job.mem[s]
    BY <1>1, <1>2
  <1>4. \A s \in Schedules : job.mem[s].attempted \in Nat /\ job.mem[s].attempted <= job.date
    BY <1>1, BoundsAssumption DEF IInv, Copy, Docs
  <1>5. /\ d.repeat = Current.repeat
        /\ Current.attempted <= d.attempted /\ d.attempted <= job.date
        /\ Current.intent = "settled" => d.intent = "settled"
        /\ d.running <=> d.intent = "pending"
    <2>1. CASE d = Current
      BY <1>1, <1>4, <2>1 DEF Current, Consistent
    <2>2. CASE d = Settled(Current, job.date)
      <3>1. /\ d.repeat = Current.repeat /\ d.attempted = job.date
            /\ d.intent = "settled" /\ d.running = FALSE
        BY <1>1, <2>2, SettledDoc
      <3>2. Current.attempted <= job.date
        BY <1>1, <1>4 DEF Current
      <3> QED
        BY <1>1, <3>1, <3>2
    <2> QED
      BY <2>1, <2>2
  <1> QED
    BY <1>1, <1>2, <1>3, <1>4, <1>5 DEF Consistent, Current

\* A schedule is passed or blocked.
LEMMA PassStep == ASSUME IInv, RunPass \/ RunBlocked PROVE IInv'
  <1>1. /\ job.pc = "next"
        /\ UNCHANGED <<doc, environment, ripe, queued, counters, ghosts>>
    BY DEF RunPass, RunBlocked
  <1>2. Current \in Docs /\ Settled(Current, job.date) \in Docs
    <2>1. Current \in Docs /\ job.date \in 0..MaxDay
      BY <1>1, AtSchedule
    <2> QED
      BY <2>1, SettledDoc
  <1>3. PICK e \in Docs : job' = Skip(e) /\ (e = Current \/ e = Settled(Current, job.date))
    BY <1>2 DEF RunPass, RunBlocked
  <1>4. /\ job' \in Jobs /\ Consistent(job'.mem)
        /\ job'.pc \in {"next", "leave"} /\ (job'.pc = "next" => job'.i <= N)
        /\ job'.date = job.date
        /\ \A s \in Schedules :
             /\ job'.mem[s].repeat = job.mem[s].repeat
             /\ job.mem[s].attempted <= job'.mem[s].attempted
             /\ job'.mem[s].attempted <= job.date
             /\ job.mem[s].intent = "settled" => job'.mem[s].intent = "settled"
    BY <1>1, <1>3, SkipStep
  <1>5. TypeOK'
    BY <1>1, <1>4 DEF IInv, TypeOK, environment, counters, ghosts, Consistent
  <1>6. \A s \in Schedules : /\ doc[s].attempted \in Nat /\ job.mem[s].attempted \in Nat
                             /\ job'.mem[s].attempted \in Nat
    BY <1>4, BoundsAssumption DEF IInv, TypeOK, Jobs, Docs
  <1>7. Copy'
    BY <1>1, <1>4, <1>6 DEF IInv, Copy, environment
  <1>8. Dates' /\ Counts'
    BY <1>1, <1>4 DEF IInv, Dates, Counts, environment, ghosts
  <1> QED
    BY <1>5, <1>7, <1>8 DEF IInv

\* The attempt reaches the document before the command.
LEMMA ExecuteStep == ASSUME IInv, RunExecute PROVE IInv'
  <1>1. /\ job.pc = "next" /\ Due /\ job' = Attempt /\ doc' = job'.mem
        /\ UNCHANGED <<environment, ripe, queued, counters, ghosts>>
    BY DEF RunExecute
  <1>2. /\ job \in Jobs /\ Consistent(job.mem) /\ job.i \in Schedules /\ job.date \in 0..MaxDay
        /\ job.mem \in [Schedules -> Docs] /\ Current \in Docs
    BY <1>1, AtSchedule
  <1> DEFINE d == [Current EXCEPT !.attempted = job.date, !.intent = "pending", !.running = TRUE]
  <1>3. /\ job' \in Jobs /\ job'.mem = [job.mem EXCEPT ![job.i] = d]
        /\ job'.pc = "execute" /\ job'.i = job.i /\ job'.date = job.date /\ d \in Docs
    BY <1>1, <1>2, AttemptJob
  <1>4. d.attempted = job.date /\ d.intent = "pending" /\ d.running /\ d.repeat = Current.repeat
    BY <1>2 DEF Docs
  <1> HIDE DEF d
  <1>5. \A s \in Schedules : doc'[s] = IF s = job.i THEN d ELSE job.mem[s]
    BY <1>1, <1>2, <1>3
  <1>6. doc' \in [Schedules -> Docs] /\ Consistent(doc')
    BY <1>1, <1>2, <1>3, <1>4, <1>5 DEF Consistent, Jobs
  <1>7. TypeOK'
    BY <1>1, <1>3, <1>6 DEF IInv, TypeOK, environment, counters, ghosts, Consistent
  <1>8. \A s \in Schedules : /\ doc[s].attempted \in Nat /\ job.mem[s].attempted \in Nat
                             /\ doc'[s].attempted \in Nat /\ firedOn[s] \in Nat
    BY <1>6, BoundsAssumption DEF IInv, TypeOK, Jobs, Docs
  <1>9. Copy'
    BY <1>1, <1>2, <1>3, <1>4, <1>5, <1>8, BoundsAssumption
       DEF IInv, Copy, environment, TypeOK, Current, Schedules
  <1>10. Dates'
    <2>1. \A s \in Schedules : /\ firedOn[s] <= doc[s].attempted
                               /\ doc[s].attempted <= job.mem[s].attempted
                               /\ job.mem[s].attempted <= job.date /\ job.date <= day
      BY <1>1 DEF IInv, Copy, Dates
    <2>2. job.date \in Nat /\ day \in Nat
      BY <1>2, BoundsAssumption DEF IInv, TypeOK
    <2>3. \A s \in Schedules : firedOn[s] <= doc'[s].attempted /\ doc'[s].attempted <= day
      BY <1>4, <1>5, <1>8, <2>1, <2>2
    <2>4. doc'[job.i].repeat = "daily" => firedOn[job.i] < job.date
      <3>1. doc'[job.i].repeat = Current.repeat
        BY <1>2, <1>4, <1>5
      <3>2. Current.repeat = "daily" => Current.attempted # job.date
        BY <1>1 DEF Due, IsDue
      <3> QED
        BY <1>2, <1>8, <2>1, <2>2, <3>1, <3>2 DEF Current
    <2> QED
      BY <1>1, <1>3, <2>3, <2>4 DEF IInv, Dates, environment, ghosts
  <1>11. Counts'
    <2>1. ASSUME NEW s \in Schedules, fired[s] > interrupted[s]
          PROVE  doc[s].repeat = "once" /\ job.mem[s].intent = "settled" /\ s # job.i
      <3>1. fired[s] > 0 /\ doc[s].repeat = "once"
        BY <2>1 DEF IInv, TypeOK, Counts
      <3>2. job.mem[s].intent = "settled" /\ job.mem[s].repeat = "once"
        BY <1>1, <2>1, <3>1 DEF IInv, Copy, Counts
      <3> QED
        BY <1>1, <3>1, <3>2 DEF Due, IsDue, Current
    <2>2. \A s \in Schedules : doc'[s].repeat = doc[s].repeat
      BY <1>1, <1>2, <1>4, <1>5 DEF IInv, Copy, Current
    <2> QED
      BY <1>1, <1>5, <2>1, <2>2 DEF IInv, Counts, ghosts
  <1> QED
    BY <1>7, <1>9, <1>10, <1>11 DEF IInv

\* The command had its outcome; the change it may have made is the first since the last
\* stop that hit it, or the first of the attempt date.
LEMMA OutcomeStep ==
  ASSUME IInv, RunOutcome
  PROVE  /\ IInv'
         /\ \A s \in Schedules : fired'[s] > fired[s] => fired[s] <= interrupted[s]
         /\ again' = {}
  <1>1. PICK took \in BOOLEAN :
          LET once == Current.repeat = "once"
          IN  /\ fired' = IF took /\ once THEN [fired EXCEPT ![job.i] = @ + 1] ELSE fired
              /\ again' = IF took /\ ~once /\ firedOn[job.i] = job.date
                            THEN again \cup {job.i} ELSE again
              /\ firedOn' = IF took /\ ~once THEN [firedOn EXCEPT ![job.i] = job.date] ELSE firedOn
    BY DEF RunOutcome
  <1>2. /\ job.pc = "execute" /\ job' = Skip(Settled(Current, job.date))
        /\ UNCHANGED <<doc, environment, ripe, queued, counters, interrupted>>
    BY DEF RunOutcome
  <1>3. /\ job \in Jobs /\ job.i \in Schedules /\ job.date \in 0..MaxDay
        /\ job.mem \in [Schedules -> Docs] /\ Current \in Docs /\ doc = job.mem
        /\ Consistent(job.mem) /\ Current.running /\ Current.attempted = job.date
    <2>1. Current.running /\ Current.attempted = job.date /\ doc = job.mem
      BY <1>2 DEF IInv, Copy, Current
    <2> QED BY <1>2, <2>1, AtSchedule
  <1>4. Current.intent = "pending" /\ Current.repeat \in {"once", "daily"}
    BY <1>3 DEF Consistent, Current, Docs
  <1>5. Settled(Current, job.date) \in Docs /\ Settled(Current, job.date).intent = "settled"
    BY <1>3, SettledDoc
  <1>6. /\ job' \in Jobs /\ Consistent(job'.mem)
        /\ job'.pc \in {"next", "leave"} /\ (job'.pc = "next" => job'.i <= N)
        /\ job'.date = job.date
        /\ \A s \in Schedules :
             /\ job'.mem[s].repeat = job.mem[s].repeat
             /\ job.mem[s].attempted <= job'.mem[s].attempted
             /\ job'.mem[s].attempted <= job.date
             /\ job.mem[s].intent = "settled" => job'.mem[s].intent = "settled"
        /\ job'.mem[job.i].intent = "settled"
    BY <1>2, <1>5, SkipStep
  <1>7. /\ fired \in [Schedules -> Nat] /\ interrupted \in [Schedules -> Nat]
        /\ firedOn \in [Schedules -> 0..MaxDay]
    BY DEF IInv, TypeOK
  <1>8. fired[job.i] <= interrupted[job.i]
    BY <1>2, <1>3, <1>4, <1>7 DEF IInv, Counts, Current
  <1>9. again' = {}
    BY <1>1, <1>2, <1>3, <1>4 DEF IInv, Dates, Current
  <1>10. \A s \in Schedules :
           /\ fired'[s] \in Nat
           /\ fired'[s] # fired[s] => s = job.i /\ Current.repeat = "once" /\ fired'[s] = fired[s] + 1
    BY <1>1, <1>3, <1>7
  <1>11. \A s \in Schedules :
           firedOn'[s] # firedOn[s] => s = job.i /\ firedOn'[s] = job.date
    BY <1>1, <1>3, <1>7
  <1>12. /\ fired' \in [Schedules -> Nat] /\ firedOn' \in [Schedules -> 0..MaxDay]
    BY <1>1, <1>3, <1>7
  <1>13. TypeOK'
    BY <1>2, <1>6, <1>9, <1>12 DEF IInv, TypeOK, environment, counters, Consistent
  <1>14. Copy'
    <2>1. \A s \in Schedules : /\ doc[s].attempted \in Nat /\ job.mem[s].attempted \in Nat
                               /\ job'.mem[s].attempted \in Nat
      BY <1>6, BoundsAssumption DEF IInv, TypeOK, Jobs, Docs
    <2> QED
      BY <1>2, <1>6, <2>1 DEF IInv, Copy, environment
  <1>15. Dates'
    <2>1. doc' = doc /\ day' = day /\ job'.pc # "execute" /\ doc[job.i].attempted = job.date
      BY <1>2, <1>3, <1>6 DEF environment, Current
    <2>2. \A s \in Schedules : firedOn[s] <= doc[s].attempted /\ doc[s].attempted <= day
      BY DEF IInv, Dates
    <2>3. ASSUME NEW s \in Schedules PROVE firedOn'[s] <= doc[s].attempted
      <3>1. doc[s].attempted \in Nat
        BY BoundsAssumption DEF IInv, TypeOK, Docs
      <3> QED
        BY <1>11, <2>1, <2>2, <3>1
    <2> QED
      BY <1>9, <2>1, <2>2, <2>3 DEF Dates
  <1>16. Counts'
    <2>1. ASSUME NEW s \in Schedules
          PROVE  /\ fired'[s] > 0 => doc[s].repeat = "once"
                 /\ fired'[s] <= interrupted[s] + 1
                 /\ fired'[s] > interrupted[s] =>
                      \/ doc[s].intent = "settled"
                      \/ doc[s].running /\ job'.mem[s].intent = "settled"
      <3>1. CASE fired'[s] = fired[s]
        BY <1>2, <1>6, <2>1, <3>1 DEF IInv, Counts
      <3>2. CASE fired'[s] # fired[s]
        BY <1>3, <1>6, <1>7, <1>8, <1>10, <2>1, <3>2 DEF Current
      <3> QED
        BY <3>1, <3>2
    <2> QED
      BY <1>2, <1>6, <2>1 DEF Counts
  <1>17. \A s \in Schedules : fired'[s] > fired[s] => fired[s] <= interrupted[s]
    BY <1>7, <1>8, <1>10
  <1> QED
    BY <1>9, <1>13, <1>14, <1>15, <1>16, <1>17 DEF IInv

\* The copy of a run reaches the document.
LEMMA LeaveStep == ASSUME IInv, RunLeave PROVE IInv'
  <1>1. /\ job.pc = "leave" /\ doc' = job.mem /\ job' = NoRun /\ job'.pc = "idle"
        /\ UNCHANGED <<environment, ripe, queued, counters, ghosts>>
    BY DEF RunLeave, NoRun
  <1>2. TypeOK'
    BY <1>1, FreshTypes DEF IInv, TypeOK, Jobs, environment, counters, ghosts, Consistent
  <1>3. \A s \in Schedules : /\ doc[s].attempted \in Nat /\ job.mem[s].attempted \in Nat
                             /\ firedOn[s] \in Nat /\ job.date \in Nat /\ day \in Nat
    BY BoundsAssumption DEF IInv, TypeOK, Jobs, Docs
  <1>4. Copy' /\ Dates'
    BY <1>1, <1>3 DEF IInv, Copy, Dates, environment, ghosts
  <1>5. Counts'
    <2>1. ASSUME NEW s \in Schedules, fired[s] > interrupted[s]
          PROVE  job.mem[s].intent = "settled"
      <3>1. fired[s] > 0 /\ doc[s].repeat = "once"
        BY <2>1 DEF IInv, TypeOK, Counts
      <3> QED
        BY <1>1, <2>1, <3>1 DEF IInv, Copy, Counts
    <2> QED
      BY <1>1, <2>1 DEF IInv, Copy, Counts, ghosts
  <1> QED
    BY <1>2, <1>4, <1>5 DEF IInv

\* An edit; the changes of the battery are counted for a schedule as it now repeats.
LEMMA EditStep == ASSUME IInv, Edit PROVE IInv' /\ again' = again
                        /\ \A s \in Schedules : fired'[s] <= fired[s]
  <1>1. /\ job.pc = "idle" /\ edits < MaxEdits /\ edits' = edits + 1
        /\ UNCHANGED <<environment, queued, job, crashes, firedOn, again>>
    BY DEF Edit
  <1>2. PICK s \in Schedules, e \in BOOLEAN, r \in {"once", "daily"}, t \in BOOLEAN :
          /\ doc' = [doc EXCEPT ![s].enabled = e, ![s].repeat = r]
          /\ ripe' = [ripe EXCEPT ![s] = t]
          /\ IF r = doc[s].repeat THEN UNCHANGED <<fired, interrupted>>
             ELSE /\ fired' = [fired EXCEPT ![s] = 0]
                  /\ interrupted' = [interrupted EXCEPT ![s] = 0]
    BY DEF Edit
  <1>3. /\ doc \in [Schedules -> Docs] /\ Consistent(doc) /\ ripe \in [Schedules -> BOOLEAN]
        /\ fired \in [Schedules -> Nat] /\ interrupted \in [Schedules -> Nat]
    BY DEF IInv, TypeOK
  <1> DEFINE d == [doc[s] EXCEPT !.enabled = e, !.repeat = r]
  <1>4. /\ d \in Docs /\ d.repeat = r /\ d.attempted = doc[s].attempted
        /\ d.intent = doc[s].intent /\ d.running = doc[s].running
    BY <1>3 DEF Docs
  <1>5. doc' = [doc EXCEPT ![s] = d]
    BY <1>2, <1>3
  <1> HIDE DEF d
  <1>6. \A x \in Schedules : /\ doc'[x].attempted = doc[x].attempted
                             /\ doc'[x].intent = doc[x].intent
                             /\ doc'[x].running = doc[x].running
                             /\ doc'[x].repeat = IF x = s THEN r ELSE doc[x].repeat
    BY <1>3, <1>4, <1>5
  <1>7. doc' \in [Schedules -> Docs] /\ Consistent(doc') /\ ripe' \in [Schedules -> BOOLEAN]
    <2>1. doc' \in [Schedules -> Docs]
      BY <1>3, <1>4, <1>5
    <2>2. Consistent(doc')
      BY <1>3, <1>6 DEF Consistent
    <2>3. ripe' \in [Schedules -> BOOLEAN]
      BY <1>2, <1>3
    <2> QED
      BY <2>1, <2>2, <2>3
  <1>8. \A x \in Schedules :
          IF x = s /\ r # doc[s].repeat THEN fired'[x] = 0 /\ interrupted'[x] = 0
          ELSE fired'[x] = fired[x] /\ interrupted'[x] = interrupted[x]
    BY <1>2, <1>3
  <1>9. fired' \in [Schedules -> Nat] /\ interrupted' \in [Schedules -> Nat]
    BY <1>2, <1>3
  <1>10. TypeOK'
    BY <1>1, <1>7, <1>9, BoundsAssumption DEF IInv, TypeOK, environment, Consistent
  <1>11. Copy' /\ Dates'
    BY <1>1, <1>6 DEF IInv, Copy, Dates, environment
  <1>12. Counts'
    BY <1>1, <1>3, <1>6, <1>8 DEF IInv, Counts
  <1> QED
    BY <1>1, <1>3, <1>8, <1>10, <1>11, <1>12 DEF IInv

\* A new schedule in the place of another.
LEMMA ReplaceStep == ASSUME IInv, Replace PROVE IInv' /\ again' = again
                        /\ \A s \in Schedules : fired'[s] <= fired[s]
  <1>1. /\ job.pc = "idle" /\ edits < MaxEdits /\ edits' = edits + 1
        /\ UNCHANGED <<environment, queued, job, crashes, again>>
    BY DEF Replace
  <1>2. PICK s \in Schedules, r \in {"once", "daily"} :
          /\ doc' = [doc EXCEPT ![s] = [Fresh EXCEPT !.repeat = r]]
          /\ ripe' = [ripe EXCEPT ![s] = FALSE]
          /\ fired' = [fired EXCEPT ![s] = 0]
          /\ firedOn' = [firedOn EXCEPT ![s] = 0]
          /\ interrupted' = [interrupted EXCEPT ![s] = 0]
    BY DEF Replace
  <1>3. /\ doc \in [Schedules -> Docs] /\ Consistent(doc) /\ ripe \in [Schedules -> BOOLEAN]
        /\ fired \in [Schedules -> Nat] /\ interrupted \in [Schedules -> Nat]
        /\ firedOn \in [Schedules -> 0..MaxDay] /\ day \in Nat
    BY BoundsAssumption DEF IInv, TypeOK
  <1> DEFINE d == [Fresh EXCEPT !.repeat = r]
  <1>4. d \in Docs /\ d.attempted = 0 /\ d.intent = "none" /\ d.running = FALSE
    BY FreshTypes DEF Fresh
  <1>5. doc' = [doc EXCEPT ![s] = d]
    BY <1>2
  <1> HIDE DEF d
  <1>6. \A x \in Schedules : doc'[x] = IF x = s THEN d ELSE doc[x]
    BY <1>3, <1>5
  <1>7. \A x \in Schedules : /\ fired'[x] = IF x = s THEN 0 ELSE fired[x]
                             /\ firedOn'[x] = IF x = s THEN 0 ELSE firedOn[x]
                             /\ interrupted'[x] = IF x = s THEN 0 ELSE interrupted[x]
    BY <1>2, <1>3
  <1>8. TypeOK'
    <2>1. doc' \in [Schedules -> Docs]
      BY <1>3, <1>4, <1>5
    <2>2. Consistent(doc')
      BY <1>3, <1>4, <1>6 DEF Consistent
    <2>3. ripe' \in [Schedules -> BOOLEAN]
      BY <1>2, <1>3
    <2>4. /\ fired' \in [Schedules -> Nat] /\ interrupted' \in [Schedules -> Nat]
          /\ firedOn' \in [Schedules -> 0..MaxDay]
      BY <1>2, <1>3, BoundsAssumption
    <2> QED
      BY <1>1, <2>1, <2>2, <2>3, <2>4, BoundsAssumption DEF IInv, TypeOK, environment, Consistent
  <1>9. Copy' /\ Dates'
    BY <1>1, <1>3, <1>4, <1>6, <1>7 DEF IInv, Copy, Dates, environment
  <1>10. Counts'
    BY <1>1, <1>3, <1>6, <1>7 DEF IInv, Counts
  <1> QED
    BY <1>1, <1>3, <1>7, <1>8, <1>9, <1>10 DEF IInv

\* A stop of the process is counted where it hits the command of a one-time schedule.
LEMMA RestartStep == ASSUME IInv, Restart PROVE IInv'
  <1>1. /\ crashes < MaxCrash /\ crashes' = crashes + 1
        /\ queued' = <<>> /\ job' = NoRun /\ job'.pc = "idle"
        /\ interrupted' = [s \in Schedules |-> interrupted[s] + (IF Unwritten(s) THEN 1 ELSE 0)]
        /\ UNCHANGED <<doc, environment, ripe, edits, fired, firedOn, again>>
    BY DEF Restart, NoRun
  <1>2. interrupted \in [Schedules -> Nat] /\ fired \in [Schedules -> Nat]
    BY DEF IInv, TypeOK
  <1>3. \A s \in Schedules : /\ interrupted'[s] \in Nat
                             /\ interrupted'[s] = interrupted[s] + (IF Unwritten(s) THEN 1 ELSE 0)
    BY <1>1, <1>2
  <1>4. interrupted' \in [Schedules -> Nat]
    BY <1>1, <1>2
  <1>5. TypeOK'
    BY <1>1, <1>4, FreshTypes, BoundsAssumption DEF IInv, TypeOK, environment, Consistent
  <1>6. Copy' /\ Dates'
    BY <1>1 DEF IInv, Copy, Dates, environment
  <1>7. Counts'
    BY <1>1, <1>2, <1>3 DEF IInv, Counts, Unwritten
  <1> QED
    BY <1>5, <1>6, <1>7 DEF IInv

\* What the clock, the waiting runs and Backup Preparation do.
LEMMA QuietStep ==
  ASSUME IInv, RunStart \/ Time \/ Midnight \/ BackupChange
  PROVE  IInv' /\ UNCHANGED <<fired, again>>
  <1>1. UNCHANGED <<doc, job, crashes, fired, firedOn, again, interrupted>>
    BY DEF RunStart, Time, Midnight, BackupChange, environment, counters, ghosts
  <1>2. /\ day' \in 1..MaxDay /\ day <= day' /\ blocks' \in BOOLEAN /\ edits' \in 0..MaxEdits
    <2>1. day \in 1..MaxDay /\ blocks \in BOOLEAN /\ edits \in 0..MaxEdits
      BY DEF IInv, TypeOK
    <2>2. CASE RunStart \/ Time
      BY <2>1, <2>2, BoundsAssumption DEF RunStart, Time, environment, counters
    <2>3. CASE Midnight
      BY <2>1, <2>3, BoundsAssumption DEF Midnight, counters
    <2>4. CASE BackupChange
      <3>1. blocks' \in BOOLEAN
        BY <2>4, Zenon DEF BackupChange
      <3> QED
        BY <2>1, <2>4, <3>1, BoundsAssumption DEF BackupChange
    <2> QED
      BY <2>2, <2>3, <2>4
  <1>3. ripe' \in [Schedules -> BOOLEAN]
    <2>1. ripe \in [Schedules -> BOOLEAN]
      BY DEF IInv, TypeOK
    <2>2. CASE Time
      BY <2>1, <2>2 DEF Time
    <2>3. CASE Midnight
      BY <2>1, <2>3 DEF Midnight
    <2>4. CASE RunStart \/ BackupChange
      BY <2>1, <2>4 DEF RunStart, BackupChange
    <2> QED
      BY <2>2, <2>3, <2>4
  <1>4. queued' \in Seq(Reads) /\ Len(queued') <= MaxQueued
    <2>1. queued \in Seq(Reads) /\ Len(queued) <= MaxQueued
      BY DEF IInv, TypeOK
    <2>2. CASE RunStart
      <3>1. PICK guard \in BOOLEAN :
              queued' = Append(queued, [blocks |-> blocks, denied |-> blocks \/ guard])
        BY <2>2 DEF RunStart
      <3>2. [blocks |-> blocks, denied |-> blocks \/ guard] \in Reads
        BY DEF Reads, IInv, TypeOK
      <3> QED
        BY <2>1, <2>2, <3>1, <3>2, BoundsAssumption DEF RunStart
    <2>3. CASE Time \/ Midnight \/ BackupChange
      BY <2>1, <2>3 DEF Time, Midnight, BackupChange
    <2> QED
      BY <2>2, <2>3
  <1>5. TypeOK'
    BY <1>1, <1>2, <1>3, <1>4 DEF IInv, TypeOK, Consistent
  <1>6. \A s \in Schedules : doc[s].attempted \in Nat /\ day \in Nat /\ job.date \in Nat
    BY BoundsAssumption DEF IInv, TypeOK, Docs, Jobs
  <1>7. Copy' /\ Dates'
    <2>1. Copy /\ Dates /\ day \in Nat /\ day' \in Nat
      BY <1>1, <1>2, BoundsAssumption DEF IInv, TypeOK
    <2>2. Copy'
      <3>1. job.date \in Nat
        BY BoundsAssumption DEF IInv, TypeOK, Jobs
      <3>2. job.pc # "idle" => 1 <= job.date /\ job.date <= day'
        <4>1. job.pc # "idle" => 1 <= job.date /\ job.date <= day
          BY <2>1 DEF Copy
        <4> QED
          BY <1>2, <2>1, <3>1, <4>1
      <3> QED
        BY <1>1, <2>1, <3>2 DEF Copy
    <2>3. Dates'
      <3>1. \A s \in Schedules : doc[s].attempted <= day'
        BY <1>2, <1>6, <2>1 DEF Dates
      <3> QED
        BY <1>1, <2>1, <3>1 DEF Dates
    <2> QED
      BY <2>2, <2>3
  <1>8. Counts'
    BY <1>1 DEF IInv, Counts
  <1> QED
    BY <1>1, <1>5, <1>7, <1>8 DEF IInv

-----------------------------------------------------------------------------
(* Each step keeps the invariant and acts once.                               *)
Once ==
  /\ \A s \in Schedules : fired'[s] > fired[s] => fired[s] <= interrupted[s]
  /\ again' = {}

LEMMA EachStep == ASSUME IInv, [Next]_vars PROVE IInv' /\ Once
  <1>1. fired \in [Schedules -> Nat] /\ again = {}
    BY DEF IInv, TypeOK, Dates
  <1>2. CASE RunOutcome
    BY <1>2, OutcomeStep DEF Once
  <1>3. CASE RunEnter \/ RunPass \/ RunBlocked \/ RunExecute \/ RunLeave \/ Restart
    <2>1. IInv'
      BY <1>3, EnterStep, PassStep, ExecuteStep, LeaveStep, RestartStep
    <2>2. UNCHANGED <<fired, again>>
      BY <1>3 DEF RunEnter, RunPass, RunBlocked, RunExecute, RunLeave, Restart, ghosts
    <2> QED
      BY <1>1, <2>1, <2>2 DEF Once
  <1>4. CASE Edit \/ Replace
    <2>1. IInv' /\ again' = again /\ \A s \in Schedules : fired'[s] <= fired[s]
      BY <1>4, EditStep, ReplaceStep
    <2>2. fired' \in [Schedules -> Nat]
      BY <2>1 DEF IInv, TypeOK
    <2> QED
      BY <1>1, <2>1, <2>2 DEF Once
  <1>5. CASE RunStart \/ Time \/ Midnight \/ BackupChange
    BY <1>1, <1>5, QuietStep DEF Once
  <1>6. CASE UNCHANGED vars
    BY <1>1, <1>6 DEF vars, environment, counters, ghosts, Once,
                      IInv, TypeOK, Copy, Dates, Counts, Consistent
  <1> QED
    BY <1>2, <1>3, <1>4, <1>5, <1>6 DEF Next, Run

(* Type correctness, with the link of a running schedule to its pending intent that *)
(* a restart of the process relies on.                                        *)
THEOREM TypeCorrect == Spec => []TypeOK
  <1>1. IInv /\ [Next]_vars => IInv'
    BY EachStep
  <1>2. IInv => TypeOK
    BY DEF IInv
  <1> QED
    BY Initially, <1>1, <1>2, PTL DEF Spec

(* ActsOnce, for any number of schedules, edits, waiting runs and stops: a one-time *)
(* schedule changes the battery once more only for each stop that hit its command, *)
(* a daily one once on each attempt date.                                     *)
THEOREM SchedulesActOnce == Spec => ActsOnce
  <1>1. IInv /\ [Next]_vars => IInv'
    BY EachStep
  <1>2. IInv /\ [Next]_vars => [Once]_vars
    BY EachStep
  <1> QED
    BY Initially, <1>1, <1>2, PTL DEF Spec, ActsOnce, Once
=============================================================================

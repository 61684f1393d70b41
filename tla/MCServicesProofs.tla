--------------------------- MODULE MCServicesProofs ---------------------------
(* The services stay in states of their types: every part of them by its own    *)
(* inductive invariant.  Those of the commands, the restore, the history and    *)
(* the search are in ServicesProofs; that of the notifications is here, for     *)
(* any conditions and any rules.                                                *)
EXTENDS MCServices, ServicesProofs

-----------------------------------------------------------------------------
(* The notifications.                                                         *)

\* It takes at least one observation to change a condition.
Countable(observers, rules) ==
  /\ DOMAIN observers \subseteq Nat
  /\ \A c \in Reporting(observers, rules)!Conditions :
       /\ rules[c].activateAfter \in Nat \ {0} /\ rules[c].recoverAfter \in Nat \ {0}
       /\ rules[c].recovers \in BOOLEAN

\* As it is observed, a condition has counted fewer than it takes to change it, and
\* nothing yet towards the side it is on.
Counting(rule, o) ==
  /\ o \in [active : BOOLEAN, activeCount : Nat, recoveryCount : Nat, notified : BOOLEAN]
  /\ o.activeCount <= rule.activateAfter /\ o.recoveryCount <= rule.recoverAfter
  /\ ~o.active => o.activeCount < rule.activateAfter
  /\ o.active => o.recoveryCount < rule.recoverAfter

\* An observation of the other side is counted, and turns the condition when there are
\* enough of them in a row.
LEMMA CountingOn ==
  ASSUME NEW rule, rule.activateAfter \in Nat \ {0}, rule.recoverAfter \in Nat \ {0},
         NEW old, Counting(rule, old), NEW active \in BOOLEAN, active # old.active, NEW said \in BOOLEAN,
         NEW up \in 1..rule.activateAfter, NEW down \in 1..rule.recoverAfter
  PROVE  LET next == IF active THEN [old EXCEPT !.activeCount = @ + 1, !.recoveryCount = 0]
                     ELSE [old EXCEPT !.recoveryCount = @ + 1, !.activeCount = 0]
         IN IF (IF active THEN next.activeCount >= up ELSE next.recoveryCount >= down)
              THEN Counting(rule, [next EXCEPT !.active = active, !.notified = said])
              ELSE Counting(rule, next)
<1>1. /\ old \in [active : BOOLEAN, activeCount : Nat, recoveryCount : Nat, notified : BOOLEAN]
      /\ ~old.active => old.activeCount < rule.activateAfter
      /\ old.active => old.recoveryCount < rule.recoverAfter
  BY DEF Counting
<1>2. old.activeCount + 1 \in Nat /\ old.recoveryCount + 1 \in Nat
  BY <1>1
<1>3. CASE active
  <2> DEFINE next == [old EXCEPT !.activeCount = @ + 1, !.recoveryCount = 0]
             turned == [next EXCEPT !.active = active, !.notified = said]
  <2>1. ~old.active
    BY <1>1, <1>3
  <2>2. /\ next \in [active : BOOLEAN, activeCount : Nat, recoveryCount : Nat, notified : BOOLEAN]
        /\ ~next.active /\ next.activeCount = old.activeCount + 1 /\ next.recoveryCount = 0
    BY <1>2, <1>1, <2>1
  <2>3. /\ turned \in [active : BOOLEAN, activeCount : Nat, recoveryCount : Nat, notified : BOOLEAN]
        /\ turned.active /\ turned.activeCount = old.activeCount + 1 /\ turned.recoveryCount = 0
    <3> HIDE DEF next
    <3> QED BY <2>2, <1>3
  <2> HIDE DEF next, turned
  <2>4. Counting(rule, turned)
    BY <1>1, <2>1, <2>3 DEF Counting
  <2>5. ~(next.activeCount >= up) => Counting(rule, next)
    BY <1>1, <2>2 DEF Counting
  <2> QED BY <1>3, <2>4, <2>5 DEF next, turned
<1>4. CASE ~active
  <2> DEFINE next == [old EXCEPT !.recoveryCount = @ + 1, !.activeCount = 0]
             turned == [next EXCEPT !.active = active, !.notified = said]
  <2>1. old.active
    BY <1>1, <1>4
  <2>2. /\ next \in [active : BOOLEAN, activeCount : Nat, recoveryCount : Nat, notified : BOOLEAN]
        /\ next.active /\ next.recoveryCount = old.recoveryCount + 1 /\ next.activeCount = 0
    BY <1>2, <1>1, <2>1
  <2>3. /\ turned \in [active : BOOLEAN, activeCount : Nat, recoveryCount : Nat, notified : BOOLEAN]
        /\ ~turned.active /\ turned.recoveryCount = old.recoveryCount + 1 /\ turned.activeCount = 0
    <3> HIDE DEF next
    <3> QED BY <2>2, <1>4
  <2> HIDE DEF next, turned
  <2>4. Counting(rule, turned)
    BY <1>1, <2>1, <2>3 DEF Counting
  <2>5. ~(next.recoveryCount >= down) => Counting(rule, next)
    BY <1>1, <2>2 DEF Counting
  <2> QED BY <1>4, <2>4, <2>5 DEF next, turned
<1> QED BY <1>3, <1>4

\* What counted towards an activation is forgotten.
LEMMA CountsAgain ==
  ASSUME NEW rule, rule.activateAfter \in Nat \ {0}, rule.recoverAfter \in Nat \ {0},
         NEW old, Counting(rule, old)
  PROVE  Counting(rule, IF old.active \/ old.activeCount = 0 THEN old
                        ELSE [old EXCEPT !.activeCount = 0, !.recoveryCount = 0])
<1>1. CASE old.active \/ old.activeCount = 0
  BY <1>1
<1>2. CASE ~(old.active \/ old.activeCount = 0)
  <2> DEFINE next == [old EXCEPT !.activeCount = 0, !.recoveryCount = 0]
  <2>1. /\ next \in [active : BOOLEAN, activeCount : Nat, recoveryCount : Nat, notified : BOOLEAN]
        /\ next.activeCount = 0 /\ next.recoveryCount = 0
    BY DEF Counting
  <2>2. Counting(rule, next)
    <3> HIDE DEF next
    <3> QED BY <2>1 DEF Counting
  <2> QED BY <1>2, <2>2
<1> QED BY <1>1, <1>2

NotesInv(observers, rules) ==
  /\ seen \in [Reporting(observers, rules)!Conditions -> {TRUE, FALSE, Undecided}]
  /\ \A c \in Reporting(observers, rules)!Conditions : rules[c].recovers => seen[c] # Undecided
  /\ settings \subseteq Reporting(observers, rules)!Switches
  /\ DOMAIN observations = Reporting(observers, rules)!Conditions
  /\ \A c \in Reporting(observers, rules)!Conditions : Counting(rules[c], observations[c])
  /\ queued \in Seq(Reporting(observers, rules)!Tasks)
  /\ step \in {"idle", "deliver", "send", "mark"} /\ (step # "idle" => queued # <<>>)

\* What a poll observes of a condition it can decide is a task of the queue.
LEMMA ObservationTyped ==
  ASSUME NEW observers, NEW rules, Countable(observers, rules), NotesInv(observers, rules),
         NEW c \in Reporting(observers, rules)!Conditions,
         seen[c] # Undecided \/ "enabled" \notin settings
  PROVE  Reporting(observers, rules)!Observation(c) \in Reporting(observers, rules)!Tasks
<1> DEFINE o == Reporting(observers, rules)!Observation(c)
<1>1. /\ {1, rules[c].activateAfter} \subseteq 1..rules[c].activateAfter
      /\ {1, rules[c].recoverAfter} \subseteq 1..rules[c].recoverAfter
  BY DEF Countable
<1>2. ASSUME NEW a \in BOOLEAN, NEW e \in BOOLEAN,
             NEW u \in 1..rules[c].activateAfter, NEW d \in 1..rules[c].recoverAfter
      PROVE  [kind |-> "observe", of |-> c, active |-> a, events |-> e, up |-> u, down |-> d]
               \in Reporting(observers, rules)!Tasks
  BY DEF Reporting!Tasks, Countable
<1>3. CASE "enabled" \in settings \/ rules[c].recovers
  <2>1. o = [kind |-> "observe", of |-> c, active |-> seen[c], events |-> TRUE,
             up |-> rules[c].activateAfter, down |-> rules[c].recoverAfter]
    BY <1>3 DEF Reporting!Observation
  <2>2. seen[c] \in BOOLEAN
    BY <1>3 DEF NotesInv
  <2> QED BY <1>1, <1>2, <2>1, <2>2
<1>4. CASE ~("enabled" \in settings \/ rules[c].recovers)
  <2>1. o = [kind |-> "observe", of |-> c, active |-> FALSE, events |-> FALSE, up |-> 1, down |-> 1]
    BY <1>4 DEF Reporting!Observation
  <2> QED BY <1>1, <1>2, <2>1
<1> QED BY <1>3, <1>4

\* The start of the notifications.
LEMMA NotesBegin ==
  ASSUME NEW observers, NEW rules, Countable(observers, rules),
         Reporting(observers, rules)!NotificationInit
  PROVE  NotesInv(observers, rules)
<1>1. ASSUME NEW c \in Reporting(observers, rules)!Conditions
      PROVE  Counting(rules[c], observations[c])
  <2>1. observations[c] = [active |-> FALSE, activeCount |-> 0, recoveryCount |-> 0, notified |-> TRUE]
    BY DEF Reporting!NotificationInit, Reporting!Unobserved
  <2> QED BY <2>1 DEF Counting, Countable
<1>2. /\ seen \in [Reporting(observers, rules)!Conditions -> {FALSE}]
      /\ settings = Reporting(observers, rules)!Switches
      /\ DOMAIN observations = Reporting(observers, rules)!Conditions
      /\ queued = <<>> /\ step = "idle"
  BY DEF Reporting!NotificationInit
<1>3. queued \in Seq(Reporting(observers, rules)!Tasks)
  BY <1>2
<1> QED BY <1>1, <1>2, <1>3, ServicesAssumption DEF NotesInv

\* An observation that is written back as the rules count it.
LEMMA ObservationKept ==
  ASSUME NEW observers, NEW rules, NotesInv(observers, rules), NEW task \in Reporting(observers, rules)!Tasks,
         NEW o, task.of \in Reporting(observers, rules)!Conditions => Counting(rules[task.of], o),
         observations' = [observations EXCEPT ![task.of] = o]
  PROVE  /\ DOMAIN observations' = Reporting(observers, rules)!Conditions
         /\ \A c \in Reporting(observers, rules)!Conditions : Counting(rules[c], observations'[c])
<1>1. DOMAIN observations = Reporting(observers, rules)!Conditions
  BY DEF NotesInv
<1>2. ASSUME NEW c \in Reporting(observers, rules)!Conditions PROVE Counting(rules[c], observations'[c])
  <2>1. CASE c = task.of
    <3>1. observations'[c] = o
      BY <1>1, <2>1
    <3> QED BY <2>1, <3>1
  <2>2. CASE c # task.of
    <3>1. observations'[c] = observations[c]
      BY <1>1, <2>2
    <3> QED BY <3>1 DEF NotesInv
  <2> QED BY <2>1, <2>2
<1>3. DOMAIN observations' = DOMAIN observations
  OBVIOUS
<1> QED BY <1>1, <1>2, <1>3

\* What a task of an observation is of.
LEMMA ObserveTasks ==
  ASSUME NEW observers, NEW rules, Countable(observers, rules),
         NEW task \in Reporting(observers, rules)!Tasks, task.kind = "observe"
  PROVE  /\ task.of \in Reporting(observers, rules)!Conditions
         /\ task.active \in BOOLEAN
         /\ task.up \in 1..rules[task.of].activateAfter /\ task.down \in 1..rules[task.of].recoverAfter
<1>1. task # Reporting(observers, rules)!Shortfall /\ task # Reporting(observers, rules)!Test
  BY DEF Reporting!Shortfall, Reporting!Test
<1> QED BY <1>1 DEF Reporting!Tasks

\* What happens around the queue: the devices and the settings change, a poll and the
\* user bring tasks, a cooldown passes, the process stops.
LEMMA AroundNotes ==
  ASSUME NEW observers, NEW rules, Countable(observers, rules), NotesInv(observers, rules),
         \/ \E c \in Reporting(observers, rules)!Conditions : Reporting(observers, rules)!Sees(c)
         \/ \E s \in Reporting(observers, rules)!Switches : Reporting(observers, rules)!Sets(s)
         \/ Reporting(observers, rules)!Poll
         \/ Reporting(observers, rules)!Evaluates \/ Reporting(observers, rules)!SendsTest
         \/ \E k \in cooling : Reporting(observers, rules)!Cools(k)
         \/ Reporting(observers, rules)!Restart
  PROVE  NotesInv(observers, rules)'
<1>1. ASSUME NEW c \in Reporting(observers, rules)!Conditions, Reporting(observers, rules)!Sees(c)
      PROVE  NotesInv(observers, rules)'
  <2>1. PICK s \in {TRUE, FALSE, Undecided} :
               (s = Undecided => ~rules[c].recovers) /\ seen' = [seen EXCEPT ![c] = s]
    BY <1>1 DEF Reporting!Sees
  <2>2. /\ seen' \in [Reporting(observers, rules)!Conditions -> {TRUE, FALSE, Undecided}]
        /\ \A d \in Reporting(observers, rules)!Conditions : rules[d].recovers => seen'[d] # Undecided
    BY <2>1 DEF NotesInv
  <2>3. UNCHANGED <<settings, observations, queued, step>>
    BY <1>1 DEF Reporting!Sees
  <2> QED BY <2>2, <2>3 DEF NotesInv
<1>2. ASSUME NEW s \in Reporting(observers, rules)!Switches, Reporting(observers, rules)!Sets(s)
      PROVE  NotesInv(observers, rules)'
  <2>1. settings' \subseteq Reporting(observers, rules)!Switches
    BY <1>2 DEF Reporting!Sets, NotesInv
  <2>2. UNCHANGED <<seen, observations, queued, step>>
    BY <1>2 DEF Reporting!Sets
  <2> QED BY <2>1, <2>2 DEF NotesInv
<1>3. ASSUME NEW tasks \in Seq(Reporting(observers, rules)!Tasks), Reporting(observers, rules)!Enqueue(tasks)
      PROVE  NotesInv(observers, rules)'
  <2>1. queued' = queued \o tasks /\ queued \in Seq(Reporting(observers, rules)!Tasks)
    BY <1>3 DEF Reporting!Enqueue, NotesInv
  <2>2. queued' \in Seq(Reporting(observers, rules)!Tasks) /\ (queued # <<>> => queued' # <<>>)
    BY <2>1
  <2>3. UNCHANGED <<seen, settings, observations, step>>
    BY <1>3 DEF Reporting!Enqueue
  <2> QED BY <2>2, <2>3 DEF NotesInv
<1>4. CASE Reporting(observers, rules)!Poll
  <2> DEFINE decided == {i \in DOMAIN observers : seen[observers[i]] # Undecided \/ "enabled" \notin settings}
  <2>1. PICK n \in DOMAIN observers : \E turn \in [1..n -> decided] :
          /\ \A i, j \in 1..n : i < j => turn[i] < turn[j]
          /\ decided = {turn[i] : i \in 1..n}
          /\ Reporting(observers, rules)!Enqueue(
               [i \in 1..n |-> Reporting(observers, rules)!Observation(observers[turn[i]])])
    BY <1>4, Zenon DEF Reporting!Poll
  <2>2. PICK turn \in [1..n -> decided] :
          Reporting(observers, rules)!Enqueue(
            [i \in 1..n |-> Reporting(observers, rules)!Observation(observers[turn[i]])])
    BY <2>1, Zenon
  <2>3. ASSUME NEW i \in 1..n
        PROVE  Reporting(observers, rules)!Observation(observers[turn[i]]) \in Reporting(observers, rules)!Tasks
    <3>1. turn[i] \in decided
      OBVIOUS
    <3>2. observers[turn[i]] \in Reporting(observers, rules)!Conditions
      BY <3>1 DEF Reporting!Conditions
    <3> QED BY <3>1, <3>2, ObservationTyped
  <2>4. [i \in 1..n |-> Reporting(observers, rules)!Observation(observers[turn[i]])]
          \in Seq(Reporting(observers, rules)!Tasks)
    <3>1. n \in Nat
      BY DEF Countable
    <3> HIDE DEF decided
    <3> QED BY <2>3, <3>1
  <2> QED BY <1>3, <2>2, <2>4
<1>5. CASE Reporting(observers, rules)!Evaluates \/ Reporting(observers, rules)!SendsTest
  <2>1. PICK t \in {Reporting(observers, rules)!Shortfall, Reporting(observers, rules)!Test} :
               Reporting(observers, rules)!Enqueue(<<t>>)
    BY <1>5 DEF Reporting!Evaluates, Reporting!SendsTest
  <2>2. t \in Reporting(observers, rules)!Tasks
    BY DEF Reporting!Tasks
  <2>3. <<t>> \in Seq(Reporting(observers, rules)!Tasks)
    BY <2>2
  <2> QED BY <1>3, <2>1, <2>3
<1>6. CASE \E k \in cooling : Reporting(observers, rules)!Cools(k)
  <2>1. UNCHANGED <<seen, settings, observations, queued, step>>
    BY <1>6 DEF Reporting!Cools
  <2> QED BY <2>1 DEF NotesInv
<1>7. CASE Reporting(observers, rules)!Restart
  <2>1. UNCHANGED <<seen, settings, observations>> /\ queued' = <<>> /\ step' = "idle"
    BY <1>7 DEF Reporting!Restart
  <2>2. queued' \in Seq(Reporting(observers, rules)!Tasks)
    BY <2>1
  <2> QED BY <2>1, <2>2 DEF NotesInv
<1> QED BY <1>1, <1>2, <1>4, <1>5, <1>6, <1>7

\* The first task of the queue goes on: it is counted, or delivered, and ends.
LEMMA TaskNotes ==
  ASSUME NEW observers, NEW rules, Countable(observers, rules), NotesInv(observers, rules),
         Reporting(observers, rules)!TaskStep
  PROVE  NotesInv(observers, rules)'
<1> DEFINE task == Reporting(observers, rules)!Task
           old == observations[task.of]
<1>1. queued # <<>>
  BY DEF NotesInv, Reporting!TaskStep, Reporting!Forget, Reporting!Suppress, Reporting!Repeat, Reporting!Count,
         Reporting!Observes, Reporting!Begin, Reporting!Skip, Reporting!Sends, Reporting!Mark, Reporting!Attempted
<1>2. task \in Reporting(observers, rules)!Tasks /\ Tail(queued) \in Seq(Reporting(observers, rules)!Tasks)
  BY <1>1 DEF NotesInv, Reporting!Task
<1>3. UNCHANGED <<seen, settings>>
  BY DEF Reporting!TaskStep, Reporting!Forget, Reporting!Suppress, Reporting!Repeat, Reporting!Count,
         Reporting!Observes, Reporting!Begin, Reporting!Skip, Reporting!Sends, Reporting!Mark, Reporting!Attempted
<1>4. /\ queued' \in Seq(Reporting(observers, rules)!Tasks)
      /\ step' \in {"idle", "deliver", "send", "mark"} /\ (step' # "idle" => queued' # <<>>)
  <2>1. \/ queued' = Tail(queued) /\ step' = "idle"
        \/ queued' = queued /\ step' \in {"deliver", "send", "mark"}
    BY DEF Reporting!TaskStep, Reporting!Forget, Reporting!Suppress, Reporting!Repeat, Reporting!Count,
           Reporting!Begin, Reporting!Skip, Reporting!Sends, Reporting!Mark, Reporting!Attempted,
           Reporting!End, Reporting!Deliver
  <2> QED BY <1>1, <1>2, <2>1 DEF NotesInv
<1>5. \/ observations' = observations
      \/ \E o : /\ task.of \in Reporting(observers, rules)!Conditions => Counting(rules[task.of], o)
                /\ observations' = [observations EXCEPT ![task.of] = o]
  <2>1. CASE \/ Reporting(observers, rules)!Begin \/ Reporting(observers, rules)!Skip
             \/ Reporting(observers, rules)!Sends
             \/ \E ok, recorded \in BOOLEAN : Reporting(observers, rules)!Attempted(ok, recorded)
    BY <2>1 DEF Reporting!Begin, Reporting!Skip, Reporting!Sends, Reporting!Attempted
  <2>2. ASSUME task.of \in Reporting(observers, rules)!Conditions
        PROVE  /\ Counting(rules[task.of], old)
               /\ rules[task.of].activateAfter \in Nat \ {0} /\ rules[task.of].recoverAfter \in Nat \ {0}
    BY <2>2 DEF NotesInv, Countable
  <2>3. CASE Reporting(observers, rules)!Forget
    <3>1. observations' = [observations EXCEPT ![task.of] = Reporting(observers, rules)!Unobserved]
      BY <2>3 DEF Reporting!Forget, Reporting!Keep
    <3>2. ASSUME task.of \in Reporting(observers, rules)!Conditions
          PROVE  Counting(rules[task.of], Reporting(observers, rules)!Unobserved)
      BY <2>2, <3>2 DEF Counting, Reporting!Unobserved
    <3> QED BY <3>1, <3>2
  <2>4. CASE Reporting(observers, rules)!Suppress
    <3> DEFINE o == [old EXCEPT !.activeCount = 0]
    <3>1. observations' = [observations EXCEPT ![task.of] = o]
      BY <2>4 DEF Reporting!Suppress, Reporting!Keep, Reporting!Seen
    <3>2. ASSUME task.of \in Reporting(observers, rules)!Conditions PROVE Counting(rules[task.of], o)
      BY <2>2, <3>2 DEF Counting
    <3> QED BY <3>1, <3>2
  <2>5. CASE Reporting(observers, rules)!Repeat
    <3> DEFINE o == IF old.active \/ old.activeCount = 0 THEN old
                    ELSE [old EXCEPT !.activeCount = 0, !.recoveryCount = 0]
    <3>1. observations' = [observations EXCEPT ![task.of] = o]
      BY <2>5 DEF Reporting!Repeat, Reporting!Keep, Reporting!Seen
    <3>2. ASSUME task.of \in Reporting(observers, rules)!Conditions PROVE Counting(rules[task.of], o)
      BY <2>2, <3>2, CountsAgain
    <3> QED BY <3>1, <3>2
  <2>6. CASE Reporting(observers, rules)!Mark
    <3> DEFINE o == [old EXCEPT !.notified = TRUE]
    <3>1. observations' = [observations EXCEPT ![task.of] = o]
      BY <2>6 DEF Reporting!Mark, Reporting!Keep, Reporting!Seen
    <3>2. ASSUME task.of \in Reporting(observers, rules)!Conditions PROVE Counting(rules[task.of], o)
      BY <2>2, <3>2 DEF Counting
    <3> QED BY <3>1, <3>2
  <2>7. CASE Reporting(observers, rules)!Count
    <3>1. /\ task.of \in Reporting(observers, rules)!Conditions /\ task.active \in BOOLEAN /\ task.active # old.active
          /\ task.up \in 1..rules[task.of].activateAfter /\ task.down \in 1..rules[task.of].recoverAfter
      BY <1>2, <2>7, ObserveTasks DEF Reporting!Count, Reporting!Observes, Reporting!Seen
    <3> DEFINE next == IF task.active THEN [old EXCEPT !.activeCount = @ + 1, !.recoveryCount = 0]
                       ELSE [old EXCEPT !.recoveryCount = @ + 1, !.activeCount = 0]
               turns == IF task.active THEN next.activeCount >= task.up ELSE next.recoveryCount >= task.down
               turned == [next EXCEPT !.active = task.active, !.notified = ~Reporting(observers, rules)!Reports]
    <3>2. \/ turns /\ observations' = [observations EXCEPT ![task.of] = turned]
          \/ ~turns /\ observations' = [observations EXCEPT ![task.of] = next]
      BY <2>7 DEF Reporting!Count, Reporting!Keep, Reporting!Seen
    <3>3. IF turns THEN Counting(rules[task.of], turned) ELSE Counting(rules[task.of], next)
      <4> DEFINE said == ~Reporting(observers, rules)!Reports
      <4>1. said \in BOOLEAN
        OBVIOUS
      <4> HIDE DEF said
      <4> QED BY <2>2, <3>1, <4>1, CountingOn DEF said
    <3> QED BY <3>2, <3>3
  <2> QED BY <2>1, <2>3, <2>4, <2>5, <2>6, <2>7 DEF Reporting!TaskStep
<1>6. /\ DOMAIN observations' = Reporting(observers, rules)!Conditions
      /\ \A c \in Reporting(observers, rules)!Conditions : Counting(rules[c], observations'[c])
  <2>1. CASE observations' = observations
    BY <2>1 DEF NotesInv
  <2>2. CASE observations' # observations
    <3>1. PICK o : /\ task.of \in Reporting(observers, rules)!Conditions => Counting(rules[task.of], o)
                   /\ observations' = [observations EXCEPT ![task.of] = o]
      BY <1>5, <2>2
    <3> QED BY <1>2, <3>1, ObservationKept
  <2> QED BY <2>1, <2>2
<1> QED BY <1>3, <1>4, <1>6 DEF NotesInv

\* Every step of the notifications keeps their invariant.
LEMMA NotesSteps ==
  ASSUME NEW observers, NEW rules, Countable(observers, rules), NotesInv(observers, rules),
         [Reporting(observers, rules)!NotificationNext]_notificationVars
  PROVE  NotesInv(observers, rules)'
<1>1. CASE UNCHANGED notificationVars
  BY <1>1 DEF notificationVars, NotesInv
<1> QED BY <1>1, AroundNotes, TaskNotes DEF Reporting!NotificationNext

\* What the steps keep is the type invariant of the notifications.
LEMMA NotesTyped ==
  ASSUME NEW observers, NEW rules, Countable(observers, rules), NotesInv(observers, rules)
  PROVE  Reporting(observers, rules)!NotificationTypeOK
<1>1. ASSUME NEW c \in Reporting(observers, rules)!Conditions
      PROVE  /\ observations[c].activeCount \in 0..rules[c].activateAfter
             /\ observations[c].recoveryCount \in 0..rules[c].recoverAfter
  BY DEF NotesInv, Counting, Countable
<1> QED BY <1>1 DEF NotesInv, Reporting!NotificationTypeOK

-----------------------------------------------------------------------------
(* The services together.                                                     *)

\* The part that moves keeps its own invariant.
ServicesInv ==
  /\ part \in Parts
  /\ part \in CommandParts => CommandInv /\ StatusTyped
  /\ part = "recovering" => NotesInv(<<"devices">>, Recovering)
  /\ part = "silent" => NotesInv(<<"charge">>, Silent)
  /\ part = "restore" => DatabaseTypeOK
  /\ part = "history" => HistoryInv
  /\ part = "search" => SearchInv

\* Both conditions change after two observations.
LEMMA BothCountable == Countable(<<"devices">>, Recovering) /\ Countable(<<"charge">>, Silent)
<1>1. \A c \in Reporting(<<"devices">>, Recovering)!Conditions : c = "devices"
  BY DEF Reporting!Conditions
<1>2. \A c \in Reporting(<<"charge">>, Silent)!Conditions : c = "charge"
  BY DEF Reporting!Conditions
<1>3. Countable(<<"devices">>, Recovering)
  <2>1. DOMAIN <<"devices">> \subseteq Nat
    OBVIOUS
  <2>2. Recovering["devices"] = [activateAfter |-> 2, recoverAfter |-> 2, recovers |-> TRUE]
    BY DEF Recovering
  <2>3. /\ Recovering["devices"].activateAfter \in Nat \ {0} /\ Recovering["devices"].recoverAfter \in Nat \ {0}
        /\ Recovering["devices"].recovers \in BOOLEAN
    BY <2>2
  <2> QED BY <1>1, <2>1, <2>3 DEF Countable
<1>4. Countable(<<"charge">>, Silent)
  <2>1. DOMAIN <<"charge">> \subseteq Nat
    OBVIOUS
  <2>2. Silent["charge"] = [activateAfter |-> 2, recoverAfter |-> 2, recovers |-> FALSE]
    BY DEF Silent
  <2>3. /\ Silent["charge"].activateAfter \in Nat \ {0} /\ Silent["charge"].recoverAfter \in Nat \ {0}
        /\ Silent["charge"].recovers \in BOOLEAN
    BY <2>2
  <2> QED BY <1>2, <2>1, <2>3 DEF Countable
<1> QED BY <1>3, <1>4

\* A step is one of the part that moves; what moves stays the same.
LEMMA PartMoves ==
  ASSUME [ServicesNext]_servicesVars, part \in Parts
  PROVE  /\ part' = part
         /\ part \in CommandParts => [CommandsNext]_allVars
         /\ part = "recovering" => [Reporting(<<"devices">>, Recovering)!NotificationNext]_notificationVars
         /\ part = "silent" => [Reporting(<<"charge">>, Silent)!NotificationNext]_notificationVars
         /\ part = "restore" => [DatabaseNext]_databaseVars
         /\ part = "history" => [HistoryNext]_historyVars
         /\ part = "search" => [DiscoveryNext]_discoveryVars
<1>1. CASE UNCHANGED servicesVars
  BY <1>1 DEF servicesVars
<1>2. CASE ServicesNext
  BY <1>2 DEF ServicesNext, Rest
<1> QED BY <1>1, <1>2

(* TypeOK: the part that moves is in a state of its types, for any commands and   *)
(* attempts, any number of polls, changes and faults, any samples and any number   *)
(* of hosts and jobs.                                                            *)
THEOREM TypeCorrect == ServicesSpec => []TypeOK
<1>1. ServicesInit => ServicesInv
  <2> SUFFICES ASSUME ServicesInit PROVE ServicesInv
    OBVIOUS
  <2>1. CommandInv /\ StatusTyped /\ HistoryInv /\ SearchInv /\ part \in Parts
    BY CommandsBeginTyped, Starts, SampleAssumption, SearchTyped DEF ServicesInit
  <2>4. DatabaseTypeOK
    BY DEF ServicesInit, DatabaseInit, DatabaseTypeOK, Starting, Forward, Rollback, Reopen, FinalAttempt
  <2>2. part = "recovering" => NotesInv(<<"devices">>, Recovering)
    BY NotesBegin, BothCountable DEF ServicesInit
  <2>3. part = "silent" => NotesInv(<<"charge">>, Silent)
    BY NotesBegin, BothCountable DEF ServicesInit
  <2> QED BY <2>1, <2>2, <2>3, <2>4 DEF ServicesInv
<1>2. ServicesInv /\ [ServicesNext]_servicesVars => ServicesInv'
  <2> SUFFICES ASSUME ServicesInv, [ServicesNext]_servicesVars PROVE ServicesInv'
    OBVIOUS
  <2>1. part' = part /\ part \in Parts
    BY PartMoves DEF ServicesInv
  <2>2. part \in CommandParts => CommandInv' /\ StatusTyped'
    BY <2>1, PartMoves, CommandsTyped DEF ServicesInv
  <2>3. part = "recovering" => NotesInv(<<"devices">>, Recovering)'
    BY <2>1, PartMoves, NotesSteps, BothCountable DEF ServicesInv
  <2>4. part = "silent" => NotesInv(<<"charge">>, Silent)'
    BY <2>1, PartMoves, NotesSteps, BothCountable DEF ServicesInv
  <2>5. part = "restore" => DatabaseTypeOK'
    BY <2>1, PartMoves, DatabaseTyped DEF ServicesInv
  <2>6. part = "history" => HistoryInv'
    BY <2>1, PartMoves, HistorySteps, SampleAssumption DEF ServicesInv
  <2>7. part = "search" => SearchInv'
    BY <2>1, PartMoves, SearchTyped DEF ServicesInv
  <2> QED BY <2>1, <2>2, <2>3, <2>4, <2>5, <2>6, <2>7 DEF ServicesInv
<1>3. ServicesInv => TypeOK
  <2> SUFFICES ASSUME ServicesInv PROVE TypeOK
    OBVIOUS
  <2>1. HistoryInv => HistoryTypeOK
    BY DEF HistoryInv
  <2>2. part = "recovering" => Reporting(<<"devices">>, Recovering)!NotificationTypeOK
    BY NotesTyped, BothCountable DEF ServicesInv
  <2>3. part = "silent" => Reporting(<<"charge">>, Silent)!NotificationTypeOK
    BY NotesTyped, BothCountable DEF ServicesInv
  <2> QED BY <2>1, <2>2, <2>3, CommandTypes, SearchTyped DEF ServicesInv, TypeOK
<1> HIDE DEF ServicesInit, ServicesInv, ServicesNext, servicesVars, TypeOK
<1> QED BY <1>1, <1>2, <1>3, PTL DEF ServicesSpec

=============================================================================

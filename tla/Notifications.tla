---------------------------- MODULE Notifications ----------------------------
(* Observed conditions and their reports: src/lib/notifications.ts, with the    *)
(* observers of src/lib/services/status-collection-service.ts that feed it.     *)
(* One promise queue runs the tasks: an observation counts towards a change of  *)
(* a condition, is written, and only then reported; a report that could not be  *)
(* delivered is tried again by a later observation, after its cooldown.  The    *)
(* document survives a stop of the process, the queue does not.                *)
EXTENDS Integers, Sequences

CONSTANTS
  Observers,    \* the conditions a poll observes, in their order
  Rules,        \* condition -> the counts after which it changes, and whether it reports recovery
  Undecided,    \* what a poll sees when it says nothing of a condition
  MaxQueued,    \* bound: tasks waiting
  MaxChanges,   \* bound: changes of the settings
  MaxFaults     \* bound: deliveries rejected or left unrecorded, and stops of the process

VARIABLES
  seen,         \* condition -> TRUE, FALSE or Undecided, as a poll reads it
  settings,     \* enabled, trigger and channel of the configuration
  observations, \* durable: condition -> its observation
  cooling,      \* durable: the <<condition, phase>> tried less than a cooldown ago (triggerAttempts)
  sentOnce,     \* durable: the event of a window went out (sentOnceKeys)
  queued,       \* the tasks of the promise queue, the first one running
  step,         \* how far the first task is
  faults,
  changes       \* how often the settings changed

notificationVars == <<seen, settings, observations, cooling, sentOnce, queued, step, faults, changes>>

Conditions == {Observers[i] : i \in DOMAIN Observers}
Switches == {"enabled", "trigger", "channel"}
Unobserved ==
  [active |-> FALSE, activeCount |-> 0, recoveryCount |-> 0, notified |-> TRUE]

\* The task of an observation.  With notifications disabled, observeBattery and
\* observeFuelCell say "inactive" without counts and events.
Observation(c) ==
  IF "enabled" \in settings \/ Rules[c].recovers
    THEN [kind |-> "observe", of |-> c, active |-> seen[c], events |-> TRUE,
          up |-> Rules[c].activateAfter, down |-> Rules[c].recoverAfter]
    ELSE [kind |-> "observe", of |-> c, active |-> FALSE, events |-> FALSE, up |-> 1, down |-> 1]
Shortfall == [kind |-> "event", of |-> "window", active |-> TRUE, events |-> TRUE, up |-> 1, down |-> 1]
Test == [kind |-> "test", of |-> "test", active |-> TRUE, events |-> TRUE, up |-> 1, down |-> 1]
Tasks ==
  {t \in [kind : {"observe"}, of : Conditions, active : BOOLEAN, events : BOOLEAN, up : Nat, down : Nat] :
     t.up \in 1..Rules[t.of].activateAfter /\ t.down \in 1..Rules[t.of].recoverAfter}
    \cup {Shortfall, Test}

NotificationTypeOK ==
  /\ settings \subseteq Switches
  /\ \A c \in Conditions :
       /\ observations[c].activeCount \in 0 .. Rules[c].activateAfter
       /\ observations[c].recoveryCount \in 0 .. Rules[c].recoverAfter
  /\ step \in {"idle", "deliver", "send", "mark"}
  /\ step # "idle" => queued # <<>>
  /\ \A i \in DOMAIN queued : queued[i] \in Tasks

NotificationInit ==
  /\ seen \in [Conditions -> {FALSE}]
  /\ settings = Switches
  /\ observations = [c \in Conditions |-> Unobserved]
  /\ cooling = {}
  /\ sentOnce = FALSE
  /\ queued = <<>>
  /\ step = "idle"
  /\ faults = 0
  /\ changes = 0

-----------------------------------------------------------------------------
(* What happens around the queue.                                            *)

\* The devices change; a charge between the threshold and five above is undecided.
Sees(c) ==
  /\ \E s \in {TRUE, FALSE, Undecided} \ {seen[c]} :
       /\ s = Undecided => ~Rules[c].recovers
       /\ seen' = [seen EXCEPT ![c] = s]
  /\ UNCHANGED <<settings, observations, cooling, sentOnce, queued, step, faults, changes>>

Sets(s) ==
  /\ changes < MaxChanges
  /\ changes' = changes + 1
  /\ settings' = IF s \in settings THEN settings \ {s} ELSE settings \cup {s}
  /\ UNCHANGED <<seen, observations, cooling, sentOnce, queued, step, faults>>

Enqueue(tasks) ==
  /\ Len(queued) + Len(tasks) <= MaxQueued
  /\ queued' = queued \o tasks
  /\ UNCHANGED <<seen, settings, observations, cooling, sentOnce, step, faults, changes>>

\* A background poll observes the conditions it can decide, in their order.
Poll ==
  LET decided == {i \in DOMAIN Observers : seen[Observers[i]] # Undecided \/ "enabled" \notin settings}
  IN \E n \in DOMAIN Observers : \E turn \in [1..n -> decided] :
       /\ \A i, j \in 1..n : i < j => turn[i] < turn[j]
       /\ decided = {turn[i] : i \in 1..n}
       /\ Enqueue([i \in 1..n |-> Observation(Observers[turn[i]])])

\* Each evaluation enqueues the shortfall of the last window again (once).
Evaluates == queued = <<>> /\ Enqueue(<<Shortfall>>)

\* The user sends a test message.
SendsTest == queued = <<>> /\ Enqueue(<<Test>>)

Cools(k) ==
  /\ k \in cooling
  /\ cooling' = cooling \ {k}
  /\ UNCHANGED <<seen, settings, observations, sentOnce, queued, step, faults, changes>>

-----------------------------------------------------------------------------
(* One task.                                                                 *)

Task == Head(queued)
Seen == observations[Task.of]
Phase == IF Task.kind = "observe" THEN <<Task.of, Task.active>> ELSE <<Task.of, TRUE>>

\* The condition reports the change to where it now is.
Reports == Task.events /\ (Task.active \/ Rules[Task.of].recovers)

Keep(o) == observations' = [observations EXCEPT ![Task.of] = o]
End == queued' = Tail(queued) /\ step' = "idle"
Deliver == queued' = queued /\ step' = "deliver"

Observes ==
  /\ queued # <<>> /\ step = "idle" /\ Task.kind = "observe"
  /\ UNCHANGED <<seen, settings, cooling, sentOnce, faults, changes>>

\* Notifications are off: the observation is forgotten.
Forget ==
  /\ Observes
  /\ "enabled" \notin settings
  /\ Keep(Unobserved) /\ End

\* The trigger is off: an activation does not begin to count.
Suppressed == Task.active /\ ~Seen.active /\ Task.events /\ "trigger" \notin settings

Suppress ==
  /\ Observes
  /\ "enabled" \in settings /\ Suppressed
  /\ Keep([Seen EXCEPT !.activeCount = 0]) /\ End

RepeatOnce ==
  /\ Observes
  /\ "enabled" \in settings
  /\ Task.active = Seen.active
  /\ Keep(IF Seen.active \/ Seen.activeCount = 0 THEN Seen
          ELSE [Seen EXCEPT !.activeCount = 0, !.recoveryCount = 0])
  /\ End

\* Nothing changed: counts towards an activation start again, and a report that
\* was not delivered is tried again.
Repeat ==
  /\ Observes
  /\ "enabled" \in settings
  /\ Task.active = Seen.active
  /\ Keep(IF Seen.active \/ Seen.activeCount = 0 THEN Seen
          ELSE [Seen EXCEPT !.activeCount = 0, !.recoveryCount = 0])
  /\ IF ~Seen.notified /\ Reports THEN Deliver ELSE End

\* One more observation of the other side, which changes the condition when
\* enough have been seen in a row.
Count ==
  /\ Observes
  /\ "enabled" \in settings
  /\ Task.active # Seen.active /\ ~Suppressed
  /\ LET next == IF Task.active
                   THEN [Seen EXCEPT !.activeCount = @ + 1, !.recoveryCount = 0]
                   ELSE [Seen EXCEPT !.recoveryCount = @ + 1, !.activeCount = 0]
         turns == IF Task.active THEN next.activeCount >= Task.up
                                   ELSE next.recoveryCount >= Task.down
     IN IF turns
          THEN /\ Keep([next EXCEPT !.active = Task.active, !.notified = ~Reports])
               /\ IF Reports THEN Deliver ELSE End
          ELSE Keep(next) /\ End

\* An event or a test goes straight to its delivery.
Begin ==
  /\ queued # <<>> /\ step = "idle" /\ Task.kind # "observe"
  /\ Deliver
  /\ UNCHANGED <<seen, settings, observations, cooling, sentOnce, faults, changes>>

\* deliver: not enabled, already sent, cooling down, or no channel to send to.
Skips ==
  \/ Task.kind # "test" /\ {"enabled", "trigger"} \ settings # {}
  \/ Task.kind = "event" /\ sentOnce
  \/ Task.kind # "test" /\ Phase \in cooling
  \/ "channel" \notin settings

Skip ==
  /\ step = "deliver" /\ Skips /\ End
  /\ UNCHANGED <<seen, settings, observations, cooling, sentOnce, faults, changes>>

Sends ==
  /\ step = "deliver" /\ ~Skips
  /\ step' = "send"
  /\ UNCHANGED <<seen, settings, observations, cooling, sentOnce, queued, faults, changes>>

\* The provider answered; the attempt is written, whatever came of it, and then
\* recorded as an event.
Attempted(ok, recorded) ==
  /\ step = "send"
  /\ (ok /\ recorded) \/ faults < MaxFaults
  /\ cooling' = IF Task.kind = "test" THEN cooling ELSE cooling \cup {Phase}
  /\ sentOnce' = (sentOnce \/ (ok /\ Task.kind = "event"))
  /\ faults' = IF ok /\ recorded THEN faults ELSE faults + 1
  /\ IF ok /\ recorded /\ Task.kind = "observe"
       THEN queued' = queued /\ step' = "mark"
       ELSE End
  /\ UNCHANGED <<seen, settings, observations, changes>>

\* The observation is read again and marked as reported.
Mark ==
  /\ step = "mark"
  /\ Keep([Seen EXCEPT !.notified = TRUE])
  /\ End
  /\ UNCHANGED <<seen, settings, cooling, sentOnce, faults, changes>>

\* A stop of the process: queued tasks are gone, a message under way may be out.
Restart ==
  /\ faults < MaxFaults
  /\ queued # <<>>
  /\ faults' = faults + 1
  /\ queued' = <<>> /\ step' = "idle"
  /\ UNCHANGED <<seen, settings, observations, cooling, sentOnce, changes>>

TaskStep ==
  \/ Forget \/ Suppress \/ Repeat \/ Count \/ Begin \/ Skip \/ Sends \/ Mark
  \/ \E ok, recorded \in BOOLEAN : Attempted(ok, recorded)

NotificationNext ==
  \/ \E c \in Conditions : Sees(c)
  \/ Poll
  \/ \E s \in Switches : Sets(s)
  \/ Evaluates \/ SendsTest \/ (\E k \in cooling : Cools(k)) \/ TaskStep \/ Restart

\* The recorder polls for ever (only the bound on the queue holds a poll back),
\* the queue goes on, a cooldown passes.
NotificationFairness ==
  /\ SF_notificationVars(Poll)
  /\ WF_notificationVars(TaskStep)
  /\ \A c \in Conditions, a \in BOOLEAN :
       WF_notificationVars(Cools(<<c, a>>))

NotificationSpec == NotificationInit /\ [][NotificationNext]_notificationVars /\ NotificationFairness

-----------------------------------------------------------------------------
(* A change of a condition that is still to be reported is reported, however    *)
(* often a delivery fails or the process stops, unless the devices or the       *)
(* settings change meanwhile (observeCondition and its retries).               *)
Due(c) ==
  /\ settings = Switches
  /\ ~observations[c].notified
  /\ seen[c] = observations[c].active

EachChangeReported == \A c \in Conditions : Due(c) ~> ~Due(c)
=============================================================================

--------------------------- MODULE CommandLifecycle ---------------------------
(* Commands to the battery and their receipts: src/lib/services/              *)
(* device-command-service.ts with command-verification.ts and                *)
(* command-receipt-service.ts.  A command is admitted, recorded, checked       *)
(* against the policy, sent, acknowledged and read back until the battery      *)
(* shows what was asked or the attempts run out; each stage is an event of     *)
(* the history, and the receipt is what the events of a command add up to.     *)
(* Several commands, and the battery itself, change the same settings.        *)
EXTENDS Integers, Sequences

CONSTANTS
  Commands,      \* the identifiers of the commands
  Requests,      \* [Commands -> what each may ask for: an action, a value, start or execute]
  Values,        \* the values of a charge target or of a setting
  MaxAttempts,   \* reads of one verification (operationModeVerifyAttempts)
  None

VARIABLES
  cmd,      \* [Commands -> record]: where each command is
  log,      \* [Commands -> Seq(event type)]: its events in the history
  device,   \* the settings of the battery
  late,     \* a write that was not answered in time and may still be applied
  history,  \* whether the history database is open, and has been closed before
  backedUp  \* [Commands -> Seq(event type)]: the events in the backup that a restore takes

vars == <<cmd, log, device, late, history, backedUp>>

Kinds == {"set-mode", "charge", "discharge", "setting"}
Modes == {"standby", "charging", "discharging"}
Final == {"succeeded", "failed", "timed-out", "mismatched"}
Stages == {"none", "admission", "sending", "mode", "setting", "target", "done"}

(* What can be asked for: a charge or a discharge with a target or without, a   *)
(* mode, a value of any other setting; in the background (start) or for a       *)
(* caller that waits (execute).                                              *)
Legal(q) ==
  /\ q.action \in Kinds /\ q.background \in BOOLEAN
  /\ q.action = "set-mode" => q.want \in Modes
  /\ q.action \in {"charge", "discharge"} => q.want \in Values \cup {None}
  /\ q.action = "setting" => q.want \in Values

ASSUME RequestsAssumption == \A c \in Commands : \A q \in Requests[c] : Legal(q)
ASSUME AttemptsAssumption == MaxAttempts \in Nat \ {0}

ModeWanted(c) ==
  CASE cmd[c].action = "set-mode" -> cmd[c].want
    [] cmd[c].action = "charge" -> "charging"
    [] cmd[c].action = "discharge" -> "discharging"

(* The settings a command writes, in order.                                  *)
WritesOf(c) ==
  CASE cmd[c].action = "setting" -> <<<<"setting", cmd[c].want>>>>
    [] cmd[c].action = "set-mode" -> <<<<"mode", ModeWanted(c)>>>>
    [] OTHER -> (IF cmd[c].want = None THEN <<>> ELSE <<<<"target", cmd[c].want>>>>)
                   \o <<<<"mode", ModeWanted(c)>>>>

\* Each setting is as the last write to it leaves it.
Apply(settings, writes) ==
  [s \in DOMAIN settings |->
     LET to == {i \in DOMAIN writes : writes[i][1] = s}
     IN IF to = {} THEN settings[s] ELSE writes[CHOOSE i \in to : \A j \in to : j <= i][2]]

Idle == [stage |-> "none", action |-> None, want |-> None, background |-> FALSE,
         attempt |-> 0, readable |-> FALSE]

CommandTypeOK ==
  /\ cmd \in [Commands -> [stage : Stages, action : Kinds \cup {None},
                           want : Modes \cup Values \cup {None}, background : BOOLEAN,
                           attempt : 0..(MaxAttempts - 1), readable : BOOLEAN]]
  /\ \A c \in Commands : Len(log[c]) <= 5 /\ Len(backedUp[c]) <= 5
  /\ device.mode \in Modes /\ {device.target, device.setting} \subseteq Values \cup {None}
  /\ history \in {"open", "closed", "reopened"}

NoEvents == [c \in Commands |-> <<>>]

Init ==
  /\ cmd = [c \in Commands |-> Idle]
  /\ log = NoEvents
  /\ device = [mode |-> "standby", target |-> None, setting |-> None]
  /\ late = {}
  /\ history = "open"
  /\ backedUp = NoEvents

-----------------------------------------------------------------------------
(* The history.  An event is keyed by its command and its type, and one whose  *)
(* key exists is ignored; nothing is recorded while the history is closed.     *)

Recorded(events, type) ==
  IF history # "closed" /\ \A i \in DOMAIN events : events[i] # type
  THEN Append(events, type) ELSE events

Record(c, type) == log' = [log EXCEPT ![c] = Recorded(@, type)]

(* receiptFromEvents: the last event is the state of the receipt.             *)
StateOf(events) == IF events = <<>> THEN "none" ELSE events[Len(events)]
ReceiptState(c) == StateOf(log[c])

-----------------------------------------------------------------------------
(* Steps of a command.                                                      *)

(* start records the request, answers, and goes on behind; the caller of        *)
(* execute waits, and its request is recorded later.                          *)
Ask(c, q) ==
  /\ cmd[c].stage = "none"
  /\ cmd' = [cmd EXCEPT ![c] = [Idle EXCEPT !.stage = "admission", !.action = q.action,
                                            !.want = q.want, !.background = q.background]]
  /\ IF q.background THEN Record(c, "requested") ELSE UNCHANGED log
  /\ UNCHANGED <<device, late, history, backedUp>>

(* withActionMutation or the read of the configuration throws before the      *)
(* lifecycle is recorded: the receipt, if any, stays "requested".             *)
Refused(c) ==
  /\ cmd[c].stage = "admission"
  /\ cmd' = [cmd EXCEPT ![c].stage = "done"]
  /\ UNCHANGED <<log, device, late, history, backedUp>>

Admitted(c) ==
  /\ cmd[c].stage = "admission"
  /\ cmd' = [cmd EXCEPT ![c].stage = "sending"]
  /\ log' = [log EXCEPT ![c] =
                 Recorded(IF cmd[c].background THEN @ ELSE Recorded(@, "requested"), "sending")]
  /\ UNCHANGED <<device, late, history, backedUp>>

End(c, type) ==
  /\ cmd' = [cmd EXCEPT ![c].stage = "done"]
  /\ Record(c, type)

(* executeCore's checks fail: the overrides, the pause of Adaptive Charging,    *)
(* the configuration or the arguments.                                       *)
Forbidden(c) ==
  /\ cmd[c].stage = "sending"
  /\ End(c, "failed")
  /\ UNCHANGED <<device, late, history, backedUp>>

(* The battery applies every write and acknowledges it.                      *)
Acknowledged(c) ==
  /\ cmd[c].stage = "sending"
  /\ device' = Apply(device, WritesOf(c))
  /\ cmd' = [cmd EXCEPT ![c].stage = IF cmd[c].action = "setting" THEN "setting" ELSE "mode"]
  /\ log' = [log EXCEPT ![c] = Recorded(Recorded(@, "acknowledged"), "verifying")]
  /\ UNCHANGED <<late, history, backedUp>>

(* A write is rejected: the ones before it stand.                            *)
Rejected(c) ==
  /\ cmd[c].stage = "sending"
  /\ \E n \in 0..(Len(WritesOf(c)) - 1) : device' = Apply(device, SubSeq(WritesOf(c), 1, n))
  /\ End(c, "failed")
  /\ UNCHANGED <<late, history, backedUp>>

(* A write is not answered in time: the battery may still apply it.            *)
Unanswered(c) ==
  /\ cmd[c].stage = "sending"
  /\ \E n \in 1..Len(WritesOf(c)) :
       /\ device' = Apply(device, SubSeq(WritesOf(c), 1, n - 1))
       /\ late' \in {late, {WritesOf(c)[n]}}
  /\ End(c, "timed-out")
  /\ UNCHANGED <<history, backedUp>>

-----------------------------------------------------------------------------
(* Verification.                                                            *)

Concluded(c) == End(c, "succeeded") /\ UNCHANGED <<device, late, history, backedUp>>
Disproved(c, type) == End(c, type) /\ UNCHANGED <<device, late, history, backedUp>>
Again(c, readable) ==
  /\ cmd' = [cmd EXCEPT ![c].attempt = @ + 1, ![c].readable = @ \/ readable]
  /\ UNCHANGED <<log, device, late, history, backedUp>>

LastAttemptLate(c) == cmd[c].attempt = MaxAttempts
LastAttempt(c) == cmd[c].attempt = MaxAttempts - 1

(* verifyBatteryOperationMode: the mode, or a code without a name.  With a     *)
(* target still to check the command goes on to it.                          *)
ModeSeen(c) ==
  /\ cmd[c].stage = "mode"
  /\ device.mode = ModeWanted(c)
  /\ IF cmd[c].action = "set-mode" \/ cmd[c].want = None THEN Concluded(c)
     ELSE /\ cmd' = [cmd EXCEPT ![c].stage = "target", ![c].attempt = 0]
          /\ UNCHANGED <<log, device, late, history, backedUp>>

ModeOther(c) ==
  /\ cmd[c].stage = "mode"
  /\ device.mode # ModeWanted(c)
  /\ IF LastAttempt(c) THEN Disproved(c, "mismatched") ELSE Again(c, FALSE)

ModeUnknownTrusted(c) ==
  /\ cmd[c].stage = "mode"
  /\ IF LastAttempt(c) THEN Concluded(c) ELSE Again(c, FALSE)

(* A readback without a mode is not a mismatch, and a read that fails ends     *)
(* the attempts.                                                            *)
ModeUnknown(c) ==
  /\ cmd[c].stage = "mode"
  /\ IF LastAttempt(c) THEN Disproved(c, "failed") ELSE Again(c, FALSE)

ModeUnread(c) ==
  /\ cmd[c].stage = "mode"
  /\ \E type \in {"failed", "timed-out"} : Disproved(c, type)

(* verifyBatterySetting: a read that fails is one attempt of them.            *)
SettingSeen(c) ==
  /\ cmd[c].stage = "setting"
  /\ device.setting = cmd[c].want
  /\ Concluded(c)

SettingOther(c) ==
  /\ cmd[c].stage = "setting"
  /\ device.setting # cmd[c].want
  /\ IF LastAttempt(c) THEN Disproved(c, "mismatched") ELSE Again(c, FALSE)

Unread(c) ==
  /\ cmd[c].stage \in {"setting", "target"}
  /\ IF LastAttempt(c) THEN \E type \in {"failed", "timed-out"} : Disproved(c, type)
     ELSE Again(c, FALSE)

(* verifyChargeTarget: a battery that never shows a target is taken at its     *)
(* mode.                                                                    *)
TargetSeen(c) ==
  /\ cmd[c].stage = "target"
  /\ device.target = cmd[c].want
  /\ Concluded(c)

TargetOther(c) ==
  /\ cmd[c].stage = "target"
  /\ device.target # cmd[c].want
  /\ IF LastAttempt(c) THEN Disproved(c, "mismatched") ELSE Again(c, TRUE)

TargetHidden(c) ==
  /\ cmd[c].stage = "target"
  /\ IF ~LastAttempt(c) THEN Again(c, FALSE)
     ELSE IF cmd[c].readable THEN Disproved(c, "mismatched") ELSE Concluded(c)

Verify(c) ==
  \/ ModeSeen(c) \/ ModeOther(c) \/ ModeUnknown(c) \/ ModeUnread(c)
  \/ SettingSeen(c) \/ SettingOther(c) \/ Unread(c)
  \/ TargetSeen(c) \/ TargetOther(c) \/ TargetHidden(c)

-----------------------------------------------------------------------------
(* The surroundings.                                                        *)

(* A write that timed out reaches the battery after all.                      *)
Lands ==
  /\ \E w \in late : device' = Apply(device, <<w>>) /\ late' = late \ {w}
  /\ UNCHANGED <<cmd, log, history, backedUp>>

(* manualDatabaseBackup: the events of one moment.  The backup that is restored  *)
(* may also be of before any of these commands.                               *)
BackUp ==
  /\ history = "open"
  /\ backedUp' = log
  /\ UNCHANGED <<cmd, log, device, late, history>>

(* A restore of the database closes the history for a while (once here).  It    *)
(* waits until no command of start is at work and the device queue is empty, not *)
(* for a command of another service that waits between two requests.            *)
Resting(c) == cmd[c].stage \in {"none", "done"} \/ (~cmd[c].background /\ cmd[c].stage # "sending")

Closes ==
  /\ history = "open" /\ \A c \in Commands : Resting(c)
  /\ history' = "closed"
  /\ UNCHANGED <<cmd, log, device, late, backedUp>>

(* The history opens again: with the events of the backup, with its own when the *)
(* restore failed and was undone, or, when the original was set aside and nothing  *)
(* put in its place, with none.                                              *)
Reopened ==
  /\ history' = "reopened"
  /\ log' \in {log, backedUp, NoEvents}

Opens ==
  /\ history = "closed"
  /\ Reopened
  /\ UNCHANGED <<cmd, device, late, backedUp>>

(* The process stops: what is at work ends where it is; a write just sent may  *)
(* still be applied; and the start opens a history that a restore had closed.  *)
Crash ==
  /\ \E c \in Commands : cmd[c].stage \notin {"none", "done"}
  /\ cmd' = [c \in Commands |-> IF cmd[c].stage = "none" THEN cmd[c]
                                ELSE [cmd[c] EXCEPT !.stage = "done"]]
  /\ late' \in {late} \cup {{WritesOf(c)[1]} : c \in {d \in Commands : cmd[d].stage = "sending"}}
  /\ IF history = "closed" THEN Reopened ELSE UNCHANGED <<log, history>>
  /\ UNCHANGED <<device, backedUp>>

(* Everything but an acknowledgement, which also drops the cached status.      *)
Unacknowledged ==
  \/ \E c \in Commands :
       \/ (\E q \in Requests[c] : Ask(c, q)) \/ Refused(c) \/ Admitted(c) \/ Forbidden(c)
       \/ Rejected(c) \/ Unanswered(c) \/ Verify(c)
  \/ Lands \/ BackUp \/ Closes \/ Opens

Work(c) ==
  \/ Refused(c) \/ Admitted(c) \/ Forbidden(c)
  \/ Rejected(c) \/ Unanswered(c) \/ Verify(c)
=============================================================================

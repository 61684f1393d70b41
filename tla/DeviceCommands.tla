---------------------------- MODULE DeviceCommands ----------------------------
(* The commands of CommandLifecycle and the status of StatusCollection over the *)
(* same battery: the acknowledgement of a command drops the cached status       *)
(* (invalidateStatus), which a refresh then in flight fills again with what it  *)
(* read before.                                                             *)
EXTENDS CommandLifecycle, StatusCollection

VARIABLE shown   \* the commands whose mode or setting the battery showed to a read of theirs

allVars == <<vars, version, statusVars, shown>>

CommandsTypeOK == CommandTypeOK /\ StatusTypeOK /\ shown \subseteq Commands

CommandsInit == Init /\ StatusInit /\ shown = {}

Matches(c) ==
  \/ cmd[c].stage = "mode" /\ device.mode = ModeWanted(c)
  \/ cmd[c].stage = "setting" /\ device.setting = cmd[c].want

Shown == shown' = shown \cup {c \in Commands : cmd'[c] # cmd[c] /\ Matches(c)}

Acknowledge(c) == Acknowledged(c) /\ Invalidate

Stop == Crash /\ StatusCrash /\ UNCHANGED shown

CommandsNext ==
  \/ \E c \in Commands : Acknowledge(c) /\ Shown
  \/ Unacknowledged /\ Shown /\ UNCHANGED <<version, statusVars>>
  \/ StatusStep /\ UNCHANGED <<vars, shown>>
  \/ Stop

(* Every request of the device queue is answered or times out, so that commands  *)
(* go on (each has a bounded number of steps) and a refresh does.               *)
GoesOn == (\E c \in Commands : (Work(c) /\ UNCHANGED <<version, statusVars>>) \/ Acknowledge(c)) /\ Shown
RefreshGoesOn == RefreshStep /\ UNCHANGED <<vars, shown>>

CommandsFairness == WF_allVars(GoesOn) /\ WF_allVars(RefreshGoesOn)

CommandsSpec == CommandsInit /\ [][CommandsNext]_allVars /\ CommandsFairness

-----------------------------------------------------------------------------
(* The status is not older than the last command the battery acknowledged,     *)
(* unless it comes from a refresh that the command fell into: the snapshot is   *)
(* dropped with the acknowledgement (invalidateStatus) and whatever replaces it *)
(* was begun after it, but for that one refresh.                              *)
StaleOnlyWhenCrossed ==
  snapshot # Missing => snapshot.crossed \/ snapshot.begun = version

(* A command that was asked for ends, in an outcome or with the process, and     *)
(* whoever waits for the status is answered: executeVerified and refresh leave   *)
(* nothing in flight.                                                       *)
InFlight == (\E c \in Commands : cmd[c].stage \notin {"none", "done"}) \/ waiting # {}

CommandsEnd == InFlight ~> ~InFlight

(* The receipts implement CommandReceipt: they go forward, a final one stays,    *)
(* and success is said only of a command that the battery has shown to a read;    *)
(* only a restore of the database takes them back, all of them together, to what   *)
(* they were when its backup was taken, or to none.                           *)
Receipts ==
  INSTANCE CommandReceipt WITH
    state <- [c \in Commands |-> ReceiptState(c)],
    readBack <- shown,
    backup <- [c \in Commands |-> StateOf(backedUp[c])],
    closed <- (history = "closed")

ReceiptsForward == Receipts!Spec
=============================================================================

------------------------------ MODULE MCServices ------------------------------
(* One instance of each service: two commands to the battery, with a caller of  *)
(* the status or with a restore of the database, which only takes their receipts *)
(* back; the reports of one condition; the restore itself; the store of the      *)
(* history; a search for devices; and a question to the calculations.  A         *)
(* behaviour is of one of them: `part` says which, and the others rest.        *)
EXTENDS DeviceCommands, DatabaseRestore, HistoryStore, Discovery, TLC

CONSTANTS
  c1, c2, v1, v2,
  Undecided, MaxQueued, MaxChanges, MaxFaults,
  Lost, Thrown

VARIABLES
  part,
  seen, settings, observations, cooling, sentOnce, queued, step, faults, changes,
  question

\* A poll that says nothing of a condition says neither yes nor no.
ASSUME ServicesAssumption == Undecided \notin BOOLEAN

-----------------------------------------------------------------------------
(* The instances.                                                           *)

\* The first command comes from the page and runs in the background, the second
\* from another service or the page.
Request(action, want, inBackground) ==
  [action |-> action, want |-> want, background |-> inBackground]

MCRequests ==
  c1 :> {Request("charge", v1, TRUE)} @@
  c2 :> {Request("setting", v2, FALSE), Request("set-mode", "standby", FALSE)}

\* The condition that reports its recovery, and the one of the battery that does
\* not (a low charge).
Reporting(observers, rules) == INSTANCE Notifications WITH Observers <- observers, Rules <- rules

Recovering == [c \in {"devices"} |-> [activateAfter |-> 2, recoverAfter |-> 2, recovers |-> TRUE]]
Silent == [c \in {"charge"} |-> [activateAfter |-> 2, recoverAfter |-> 2, recovers |-> FALSE]]

Charges == INSTANCE ChargeQuestions WITH Nothing <- None

Accounts == INSTANCE AccountQuestions WITH Nothing <- None, m1 <- v1, m2 <- v2

Forecasting == INSTANCE ForecastQuestions WITH Nothing <- None

notificationVars == <<seen, settings, observations, cooling, sentOnce, queued, step, faults, changes>>
servicesVars == <<part, allVars, notificationVars, databaseVars, historyVars, discoveryVars, question>>

\* Three readings two minutes apart, of which the second may lack its counter, or its
\* power too, and the last its counter, and one a day later.
MCReadings ==
  ({26, 28, 30, 1480} \X {130} \X {600})
    \cup {<<28, None, 600>>, <<28, None, None>>, <<30, None, 600>>}

MCSamples ==
  {SampleFromStatus(Accounts!Status(r[1], r[2], r[3], 600), Accounts!Config(v1), None) : r \in MCReadings}

MCPolicy == [k \in {"grid", "circuit", "fuelCellKwh", "fuelCellGasM3"} |-> Accounts!Counting]

CommandParts == {"commands", "receipts"}
Parts == CommandParts \cup {"recovering", "silent", "restore", "history", "search", "calculation"}

ServicesInit ==
  /\ part \in Parts
  /\ CommandsInit
  /\ IF part = "silent" THEN Reporting(<<"charge">>, Silent)!NotificationInit
                       ELSE Reporting(<<"devices">>, Recovering)!NotificationInit
  /\ DatabaseInit
  /\ part # "restore" => fits
  /\ HistoryInit
  /\ DiscoveryInit
  /\ IF part = "calculation"
     THEN question \in [kind : {"topic"}, of : Charges!Topics \cup Accounts!Topics \cup Forecasting!Topics]
     ELSE question = None

-----------------------------------------------------------------------------
Rest(changed) ==
  /\ UNCHANGED part
  /\ changed # "commands" => UNCHANGED allVars
  /\ changed # "notifications" => UNCHANGED notificationVars
  /\ changed # "restore" => UNCHANGED databaseVars
  /\ changed # "history" => UNCHANGED historyVars
  /\ changed # "search" => UNCHANGED discoveryVars
  /\ changed # "calculation" => UNCHANGED question

ServicesNext ==
  \/ part = "commands" /\ CommandsNext /\ UNCHANGED <<history, backedUp>> /\ Rest("commands")
  \/ part = "receipts" /\ CommandsNext /\ waiting' = {} /\ Rest("commands")
  \/ part = "recovering" /\ Reporting(<<"devices">>, Recovering)!NotificationNext /\ Rest("notifications")
  \/ part = "silent" /\ Reporting(<<"charge">>, Silent)!NotificationNext /\ Rest("notifications")
  \/ part = "restore" /\ DatabaseNext /\ Rest("restore")
  \/ part = "history" /\ HistoryNext /\ Rest("history")
  \/ part = "search" /\ DiscoveryNext /\ Rest("search")
  \/ part = "calculation" /\ (Charges!Ask \/ Accounts!Ask \/ Forecasting!Ask) /\ Rest("calculation")

NotificationPart(A, B) == (part = "recovering" /\ A) \/ (part = "silent" /\ B)

\* What the modules assume of each part while it is the one that moves.
ServicesSpec ==
  /\ ServicesInit /\ [][ServicesNext]_servicesVars
  /\ WF_allVars(part \in CommandParts /\ GoesOn) /\ WF_allVars(part \in CommandParts /\ RefreshGoesOn)
  /\ WF_notificationVars(NotificationPart(Reporting(<<"devices">>, Recovering)!TaskStep,
                                          Reporting(<<"charge">>, Silent)!TaskStep))
  /\ SF_notificationVars(NotificationPart(Reporting(<<"devices">>, Recovering)!Poll,
                                          Reporting(<<"charge">>, Silent)!Poll))
  /\ \A phase \in BOOLEAN :
       WF_cooling(NotificationPart(Reporting(<<"devices">>, Recovering)!Cools(<<"devices", phase>>),
                                   Reporting(<<"charge">>, Silent)!Cools(<<"charge", phase>>)))
  /\ WF_databaseVars(part = "restore" /\ Proceeds)
  /\ WF_discoveryVars(part = "search" /\ RunStep)

-----------------------------------------------------------------------------
(* The part that moves is in a state of its types.                               *)
TypeOK ==
  /\ part \in Parts
  /\ part \in CommandParts => CommandsTypeOK
  /\ part = "recovering" => Reporting(<<"devices">>, Recovering)!NotificationTypeOK
  /\ part = "silent" => Reporting(<<"charge">>, Silent)!NotificationTypeOK
  /\ part = "restore" => DatabaseTypeOK
  /\ part = "history" => HistoryTypeOK
  /\ part = "search" => DiscoveryTypeOK

(* Whatever a service began ends: a command and a wait for the status, a restore  *)
(* (withDatabaseOperation), a run of the search (withDiscoveryRun), which holds   *)
(* the background polls off while it lasts.                                   *)
UnderWay == InFlight \/ operation = "busy" \/ context # Nobody

EverythingEnds == UnderWay ~> ~UnderWay

(* A change of either condition that is still to be reported is reported.       *)
Due ==
  \/ part = "recovering" /\ Reporting(<<"devices">>, Recovering)!Due("devices")
  \/ part = "silent" /\ Reporting(<<"charge">>, Silent)!Due("charge")

EachChangeReported == Due ~> ~Due

(* The answers of the calculations agree with each other.                        *)
ChargesAccounted == Charges!ChargesAccounted
ForecastsAgree == Forecasting!ForecastsAgree
ReadsBack == Accounts!ReadsBack
=============================================================================

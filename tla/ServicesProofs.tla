----------------------------- MODULE ServicesProofs -----------------------------
(* The services, each for itself and for every value of its constants: what the *)
(* callers of the device commands may rely on; that a restore of the database   *)
(* is all or nothing; that what the history tells of energies counts once; and  *)
(* the states that the commands, the restore, the history and the search for    *)
(* devices stay in.                                                             *)
EXTENDS DeviceCommands, DatabaseRestore, HistoryStore, Discovery,
        FiniteSetTheorems, WellFoundedInduction, TLAPS

\* A set of numbers has a least one: the order of the numbers is well-founded.
LEMMA LeastExists ==
  ASSUME NEW T, T \subseteq Nat, T # {}
  PROVE  \E x \in T : \A y \in T : x <= y
<1>1. PICK R : IsWellFoundedOn(R, Nat) /\ \A x, y \in Nat : <<y, x>> \in R <=> y < x
  <2>1. \A x, y \in Nat : <<y, x>> \in OpToRel(<, Nat) <=> y < x
    BY DEF OpToRel
  <2> QED BY <2>1, NatLessThanWellFounded, Zenon
<1>2. PICK x \in T : \A y \in T : ~ (<<y, x>> \in R)
  BY <1>1, WFMin
<1>3. ASSUME NEW y \in T PROVE x <= y
  <2>1. x \in Nat /\ y \in Nat /\ ~(<<y, x>> \in R)
    BY <1>2
  <2>2. <<y, x>> \in R <=> y < x
    BY <1>1, <2>1
  <2> QED BY <2>1, <2>2
<1> QED BY <1>3

-----------------------------------------------------------------------------
(* The status.  A refresh in flight that no command fell into was begun after    *)
(* the last one.                                                             *)
RefreshInv ==
  /\ refresh = NoRefresh \/ refresh.at = "reading"
  /\ refresh \in [at : {"none", "reading"}, begun : Int, crossed : BOOLEAN]
  /\ version \in Int
  /\ refresh.at = "reading" => refresh.crossed \/ refresh.begun = version

StatusInv == RefreshInv /\ StaleOnlyWhenCrossed

\* A read of the status, its end or failure, a write that makes it stale and a stop
\* of the process keep the status.
LEMMA StatusSteps ==
  ASSUME StatusInv,
         \/ StatusStep
         \/ Invalidate
         \/ StatusCrash
         \/ UNCHANGED <<version, statusVars>>
  PROVE  StatusInv'
  <1> USE DEF StatusInv, RefreshInv, StaleOnlyWhenCrossed, NoRefresh
  <1>1. ASSUME NEW r \in Callers, Get(r) PROVE StatusInv'
    BY <1>1 DEF Get
  <1>2. CASE Finish
    BY <1>2 DEF Finish
  <1>3. CASE FailRefresh
    BY <1>3 DEF FailRefresh
  <1>4. CASE Invalidate
    <2>1. CASE refresh.at = "none"
      BY <1>4, <2>1 DEF Invalidate
    <2>2. CASE refresh.at # "none"
      <3>1. refresh' = [refresh EXCEPT !.crossed = TRUE] /\ version' = version + 1 /\ snapshot' = Missing
        BY <1>4, <2>2 DEF Invalidate
      <3>2. refresh' = [at |-> refresh.at, begun |-> refresh.begun, crossed |-> TRUE]
        BY <3>1
      <3>3. refresh'.at = "reading"
        BY <2>2, <3>2
      <3>4. refresh' \in [at : {"none", "reading"}, begun : Int, crossed : BOOLEAN]
        BY <3>2, <3>3
      <3>5. refresh'.crossed
        BY <3>2
      <3>6. StaleOnlyWhenCrossed'
        BY <3>1
      <3> QED
        BY <3>1, <3>3, <3>4, <3>5, <3>6
    <2> QED
      BY <2>1, <2>2
  <1>5. CASE StatusCrash
    BY <1>5 DEF StatusCrash
  <1>6. CASE UNCHANGED <<version, statusVars>>
    BY <1>6 DEF statusVars
  <1> QED
    BY <1>1, <1>2, <1>3, <1>4, <1>5, <1>6 DEF StatusStep, RefreshStep

\* The cached status is as old as the last acknowledged command at most, unless the
\* command was acknowledged during the refresh it comes from (invalidate while
\* refreshPromise is pending).
THEOREM StatusFollowsCommands == CommandsSpec => []StaleOnlyWhenCrossed
  <1>1. CommandsInit => StatusInv
    BY DEF CommandsInit, StatusInit, StatusInv, RefreshInv, StaleOnlyWhenCrossed, NoRefresh
  <1>2. StatusInv /\ [CommandsNext]_allVars => StatusInv'
    <2> SUFFICES ASSUME StatusInv, [CommandsNext]_allVars PROVE StatusInv'
      OBVIOUS
    <2>1. ASSUME NEW c \in Commands, Acknowledge(c) PROVE StatusInv'
      BY <2>1, StatusSteps DEF Acknowledge
    <2>2. CASE Stop
      BY <2>2, StatusSteps DEF Stop
    <2>3. CASE StatusStep
      BY <2>3, StatusSteps
    <2>4. CASE UNCHANGED <<version, statusVars>>
      BY <2>4, StatusSteps
    <2> QED
      BY <2>1, <2>2, <2>3, <2>4 DEF CommandsNext, allVars
  <1>3. StatusInv => StaleOnlyWhenCrossed
    BY DEF StatusInv
  <1> QED
    BY <1>1, <1>2, <1>3, PTL DEF CommandsSpec

-----------------------------------------------------------------------------
(* The receipts.  Each stage of a command bounds how far its receipt has come,    *)
(* so that whatever is recorded next is further; and a command that checks its    *)
(* target has shown its mode.                                                *)
CommandRecord ==
  [stage : Stages, action : Kinds \cup {None}, want : Modes \cup Values \cup {None},
   background : BOOLEAN, attempt : Int, readable : BOOLEAN]

Early == {"none", "requested"}
Halfway == {"none", "requested", "sending", "acknowledged", "verifying"}

Within(command, events) ==
  /\ command.stage = "none" => StateOf(events) = "none"
  /\ command.stage = "admission" => StateOf(events) \in Early
  /\ command.stage = "sending" => StateOf(events) \in Early \cup {"sending"}
  /\ command.stage \in {"mode", "setting", "target"} => StateOf(events) \in Halfway
  /\ StateOf(events) \in Receipts!States

ReceiptInv ==
  /\ cmd \in [Commands -> CommandRecord]
  /\ log \in [Commands -> Seq(Receipts!States)]
  /\ backedUp \in [Commands -> Seq(Receipts!States)]
  /\ \A c \in Commands : Within(cmd[c], log[c])
  /\ \A c \in Commands : Within(cmd[c], backedUp[c])
  /\ \A c \in Commands : cmd[c].stage = "target" => c \in shown

\* How far each state of a receipt is.
LEMMA Ranks ==
  /\ Receipts!Rank("none") = 0
  /\ Receipts!Rank("requested") = 1
  /\ Receipts!Rank("sending") = 2
  /\ Receipts!Rank("acknowledged") = 3
  /\ Receipts!Rank("verifying") = 4
  /\ \A s \in Final : Receipts!Rank(s) = 5
  BY DEF Receipts!Rank, Receipts!Final, Final

\* An event that is recorded is the last one, or was there before, or is dropped.
LEMMA RecordedState ==
  ASSUME NEW S, NEW events \in Seq(S), NEW type \in S
  PROVE  /\ Recorded(events, type) \in Seq(S)
         /\ \/ Recorded(events, type) = events
            \/ StateOf(Recorded(events, type)) = type
  <1>1. Append(events, type) \in Seq(S)
    OBVIOUS
  <1>2. StateOf(Append(events, type)) = type
    <2>1. Len(Append(events, type)) = Len(events) + 1 /\ Len(events) \in Nat
      OBVIOUS
    <2>3. Append(events, type) # <<>>
      <3>1. Len(<< >>) = 0
        OBVIOUS
      <3> QED
        BY <2>1, <3>1
    <2>2. Append(events, type)[Len(events) + 1] = type
      OBVIOUS
    <2> QED
      BY <2>1, <2>2, <2>3 DEF StateOf
  <1> QED
    BY <1>1, <1>2 DEF Recorded

-----------------------------------------------------------------------------
(* A step of a command c: it alone changes, its receipt stays or goes on, and what  *)
(* a restore could make of it is no further than the command is.                *)
StepOf(c) ==
  /\ cmd' \in [Commands -> CommandRecord]
  /\ log' \in [Commands -> Seq(Receipts!States)]
  /\ \A d \in Commands \ {c} : cmd'[d] = cmd[d] /\ log'[d] = log[d]
  /\ Within(cmd'[c], log'[c]) /\ Within(cmd'[c], backedUp[c])
  /\ cmd'[c].stage = "target" => cmd[c].stage = "target" \/ (cmd[c].stage = "mode" /\ Matches(c) /\ cmd'[c] # cmd[c])
  /\ \/ StateOf(log'[c]) = StateOf(log[c])
     \/ Receipts!Rank(StateOf(log'[c])) > Receipts!Rank(StateOf(log[c]))
  /\ StateOf(log'[c]) = "succeeded" /\ StateOf(log[c]) # "succeeded" =>
       cmd[c].stage = "target" \/ (Matches(c) /\ cmd'[c] # cmd[c])

\* An event is recorded of a command whose receipt is not as far yet.
LEMMA RecordedStep ==
  ASSUME NEW events \in Seq(Receipts!States), NEW type \in Receipts!States
  PROVE  /\ Recorded(events, type) \in Seq(Receipts!States)
         /\ StateOf(Recorded(events, type)) \in {StateOf(events), type}
  BY RecordedState

\* A command that only goes to another stage.
LEMMA StagedStep ==
  ASSUME NEW c \in Commands, cmd \in [Commands -> CommandRecord], NEW reached \in Stages,
         cmd' = [cmd EXCEPT ![c].stage = reached]
  PROVE  /\ cmd' \in [Commands -> CommandRecord] /\ cmd'[c].stage = reached
         /\ \A d \in Commands \ {c} : cmd'[d] = cmd[d]
  <1> DEFINE moved == [cmd[c] EXCEPT !.stage = reached]
  <1>1. moved \in CommandRecord /\ moved.stage = reached
    BY DEF CommandRecord
  <1>2. cmd' = [cmd EXCEPT ![c] = moved]
    OBVIOUS
  <1> HIDE DEF moved
  <1> QED BY <1>1, <1>2

\* A command that ends is done, with the outcome recorded unless the history is closed.
LEMMA EndStep ==
  ASSUME ReceiptInv, NEW c \in Commands, NEW type \in Final,
         cmd[c].stage \in {"sending", "mode", "setting", "target"},
         End(c, type),
         type = "succeeded" => cmd[c].stage = "target" \/ Matches(c)
  PROVE  StepOf(c)
  <1>1. type \in Receipts!States /\ StateOf(log[c]) \in Halfway
    BY DEF ReceiptInv, Within, Receipts!States, Receipts!Final, Final, Early, Halfway
  <1>2. log[c] \in Seq(Receipts!States)
    BY DEF ReceiptInv
  <1>3. /\ log' = [log EXCEPT ![c] = Recorded(log[c], type)]
        /\ cmd' = [cmd EXCEPT ![c].stage = "done"]
    BY DEF End, Record
  <1>4. /\ Recorded(log[c], type) \in Seq(Receipts!States)
        /\ StateOf(Recorded(log[c], type)) \in {StateOf(log[c]), type}
    BY <1>1, <1>2, RecordedStep
  <1>5. /\ log' \in [Commands -> Seq(Receipts!States)] /\ log'[c] = Recorded(log[c], type)
        /\ \A d \in Commands \ {c} : log'[d] = log[d]
    BY <1>3, <1>4 DEF ReceiptInv
  <1>6. /\ cmd' \in [Commands -> CommandRecord] /\ cmd'[c].stage = "done"
        /\ \A d \in Commands \ {c} : cmd'[d] = cmd[d]
    BY <1>3, StagedStep DEF ReceiptInv, Stages
  <1>7. Receipts!Rank(type) = 5 /\ Receipts!Rank(StateOf(log[c])) < 5
    BY <1>1, Ranks DEF Halfway
  <1>8. Within(cmd'[c], log'[c]) /\ Within(cmd'[c], backedUp[c])
    BY <1>1, <1>4, <1>5, <1>6 DEF Within, ReceiptInv
  <1> QED
    BY <1>4, <1>5, <1>6, <1>7, <1>8 DEF StepOf

\* Counting an attempt and noting a readable target leave a command one.
LEMMA AttemptCounted ==
  ASSUME cmd \in [Commands -> CommandRecord], NEW c \in Commands, NEW n \in Int, NEW r \in BOOLEAN,
         cmd' = [cmd EXCEPT ![c].attempt = n, ![c].readable = r]
  PROVE  /\ cmd' \in [Commands -> CommandRecord] /\ cmd'[c].stage = cmd[c].stage
         /\ \A d \in Commands \ {c} : cmd'[d] = cmd[d]
  <1> DEFINE x == [cmd[c] EXCEPT !.attempt = n, !.readable = r]
  <1>1. cmd[c] \in CommandRecord
    OBVIOUS
  <1>2. x \in CommandRecord /\ x.stage = cmd[c].stage
    BY <1>1 DEF CommandRecord
  <1>3. cmd' = [cmd EXCEPT ![c] = x]
    OBVIOUS
  <1> HIDE DEF x
  <1> QED
    BY <1>2, <1>3

\* So does going on to another stage, with the attempts counted anew.
LEMMA Moved ==
  ASSUME cmd \in [Commands -> CommandRecord], NEW c \in Commands, NEW n \in Int, NEW reached \in Stages,
         cmd' = [cmd EXCEPT ![c].stage = reached, ![c].attempt = n]
  PROVE  /\ cmd' \in [Commands -> CommandRecord] /\ cmd'[c].stage = reached
         /\ \A d \in Commands \ {c} : cmd'[d] = cmd[d]
  <1> DEFINE x == [cmd[c] EXCEPT !.stage = reached, !.attempt = n]
  <1>1. cmd[c] \in CommandRecord
    OBVIOUS
  <1>2. x \in CommandRecord /\ x.stage = reached
    BY <1>1 DEF CommandRecord
  <1>3. cmd' = [cmd EXCEPT ![c] = x]
    OBVIOUS
  <1> HIDE DEF x
  <1> QED
    BY <1>2, <1>3

\* A read that decides nothing: the command is where it was.
LEMMA AgainStep ==
  ASSUME ReceiptInv, NEW c \in Commands, NEW readable \in BOOLEAN, Again(c, readable),
         cmd[c].stage \in {"mode", "setting", "target"}
  PROVE  StepOf(c)
  <1>1. log' = log
    BY DEF Again
  <1>2. cmd' = [cmd EXCEPT ![c].attempt = cmd[c].attempt + 1, ![c].readable = cmd[c].readable \/ readable]
    BY DEF Again
  <1>3. PICK r \in BOOLEAN : r = (cmd[c].readable \/ readable)
    OBVIOUS
  <1>4. PICK n \in Int : n = cmd[c].attempt + 1
    BY DEF ReceiptInv, CommandRecord
  <1>5. cmd' = [cmd EXCEPT ![c].attempt = n, ![c].readable = r]
    BY <1>2, <1>3, <1>4
  <1>6. /\ cmd' \in [Commands -> CommandRecord] /\ cmd'[c].stage = cmd[c].stage
        /\ \A d \in Commands \ {c} : cmd'[d] = cmd[d]
    BY <1>5, AttemptCounted DEF ReceiptInv
  <1> QED
    BY <1>1, <1>6 DEF StepOf, ReceiptInv, Within

\* What is read back after the mode was written.
LEMMA ModeSteps ==
  ASSUME ReceiptInv, NEW c \in Commands,
         ModeSeen(c) \/ ModeOther(c) \/ ModeUnknown(c) \/ ModeUnread(c)
  PROVE  StepOf(c)
  <1>1. cmd[c].stage = "mode"
    BY DEF ModeSeen, ModeOther, ModeUnknown, ModeUnread
  <1>2. CASE ModeSeen(c)
    <2>1. Matches(c)
      BY <1>1, <1>2 DEF ModeSeen, Matches
    <2>2. CASE End(c, "succeeded")
      BY <1>1, <2>1, <2>2, EndStep DEF Final
    <2>3. CASE /\ cmd' = [cmd EXCEPT ![c].stage = "target", ![c].attempt = 0]
               /\ log' = log
      <3>1. /\ cmd' \in [Commands -> CommandRecord] /\ cmd'[c].stage = "target"
            /\ \A d \in Commands \ {c} : cmd'[d] = cmd[d]
        <4>1. "target" \in Stages /\ 0 \in Int /\ cmd \in [Commands -> CommandRecord]
          BY DEF Stages, ReceiptInv
        <4>2. cmd' = [cmd EXCEPT ![c].stage = "target", ![c].attempt = 0]
          BY <2>3
        <4> QED
          BY <4>1, <4>2, Moved
      <3>2. cmd'[c] # cmd[c]
        BY <1>1, <3>1
      <3>3. /\ log' \in [Commands -> Seq(Receipts!States)]
            /\ \A d \in Commands : log'[d] = log[d]
        BY <2>3 DEF ReceiptInv
      <3>4. Within(cmd'[c], log'[c]) /\ Within(cmd'[c], backedUp[c])
        BY <1>1, <3>1, <3>3 DEF ReceiptInv, Within
      <3> QED
        BY <1>1, <2>1, <3>1, <3>2, <3>3, <3>4 DEF StepOf
    <2> QED
      BY <1>2, <2>2, <2>3 DEF ModeSeen, Concluded
  <1>3. CASE ModeOther(c)
    <2>1. Again(c, FALSE) \/ End(c, "mismatched")
      BY <1>3 DEF ModeOther, Disproved
    <2> QED
      BY <1>1, <2>1, EndStep, AgainStep DEF Final
  <1>4. CASE ModeUnknown(c)
    <2>1. Again(c, FALSE) \/ End(c, "failed")
      BY <1>4 DEF ModeUnknown, Disproved
    <2> QED
      BY <1>1, <2>1, EndStep, AgainStep DEF Final
  <1>5. CASE ModeUnread(c)
    <2>1. End(c, "failed") \/ End(c, "timed-out")
      BY <1>5 DEF ModeUnread, Disproved
    <2> QED
      BY <1>1, <2>1, EndStep DEF Final
  <1> QED
    BY <1>2, <1>3, <1>4, <1>5

\* What is read back after a setting or a target was written.
LEMMA SettingSteps ==
  ASSUME ReceiptInv, NEW c \in Commands,
         \/ SettingSeen(c) \/ SettingOther(c) \/ Unread(c)
         \/ TargetSeen(c) \/ TargetOther(c) \/ TargetHidden(c)
  PROVE  StepOf(c)
  <1>1. cmd[c].stage \in {"setting", "target"}
    BY DEF SettingSeen, SettingOther, Unread, TargetSeen, TargetOther, TargetHidden
  <1>2. CASE SettingSeen(c)
    <2>1. Matches(c) /\ End(c, "succeeded")
      BY <1>2 DEF SettingSeen, Matches, Concluded
    <2> QED
      BY <1>1, <2>1, EndStep DEF Final
  <1>3. CASE SettingOther(c) \/ TargetOther(c)
    <2>1. Again(c, FALSE) \/ Again(c, TRUE) \/ End(c, "mismatched")
      BY <1>3 DEF SettingOther, TargetOther, Disproved
    <2> QED
      BY <1>1, <2>1, EndStep, AgainStep DEF Final
  <1>4. CASE Unread(c)
    <2>1. Again(c, FALSE) \/ End(c, "failed") \/ End(c, "timed-out")
      BY <1>4 DEF Unread, Disproved
    <2> QED
      BY <1>1, <2>1, EndStep, AgainStep DEF Final
  <1>5. CASE TargetSeen(c)
    <2>1. cmd[c].stage = "target" /\ End(c, "succeeded")
      BY <1>5 DEF TargetSeen, Concluded
    <2> QED
      BY <2>1, EndStep DEF Final
  <1>6. CASE TargetHidden(c)
    <2>1. cmd[c].stage = "target"
      BY <1>6 DEF TargetHidden
    <2>2. Again(c, FALSE) \/ End(c, "mismatched") \/ End(c, "succeeded")
      BY <1>6 DEF TargetHidden, Disproved, Concluded
    <2> QED
      BY <2>1, <2>2, EndStep, AgainStep DEF Final
  <1> QED
    BY <1>2, <1>3, <1>4, <1>5, <1>6

\* A command is asked for, is refused, or is admitted to the queue of the battery.
LEMMA RequestSteps ==
  ASSUME ReceiptInv, NEW c \in Commands, (\E q \in Requests[c] : Ask(c, q)) \/ Refused(c) \/ Admitted(c)
  PROVE  StepOf(c)
  <1>1. CASE \E q \in Requests[c] : Ask(c, q)
    <2>1. PICK q \in Requests[c] : Ask(c, q)
      BY <1>1
    <2>2. /\ q.action \in Kinds /\ q.background \in BOOLEAN
          /\ q.want \in Modes \cup Values \cup {None}
      BY RequestsAssumption DEF Legal, Kinds
    <2>3. /\ cmd' \in [Commands -> CommandRecord] /\ cmd'[c].stage = "admission"
          /\ \A d \in Commands \ {c} : cmd'[d] = cmd[d]
      <3> DEFINE x == [Idle EXCEPT !.stage = "admission", !.action = q.action,
                                   !.want = q.want, !.background = q.background]
      <3>1. Idle \in CommandRecord
        BY DEF Idle, CommandRecord, Stages
      <3>2. x \in CommandRecord /\ x.stage = "admission"
        BY <2>2, <3>1 DEF CommandRecord, Stages
      <3>3. cmd' = [cmd EXCEPT ![c] = x]
        BY <2>1 DEF Ask
      <3> HIDE DEF x
      <3> QED
        BY <3>2, <3>3 DEF ReceiptInv
    <2>4. cmd[c].stage = "none" /\ StateOf(log[c]) = "none" /\ log[c] \in Seq(Receipts!States)
      BY <2>1 DEF Ask, ReceiptInv, Within
    <2>5. "requested" \in Receipts!States
      BY DEF Receipts!States
    <2>6. /\ Recorded(log[c], "requested") \in Seq(Receipts!States)
          /\ StateOf(Recorded(log[c], "requested")) \in {"none", "requested"}
      BY <2>4, <2>5, RecordedStep
    <2>7. /\ log' \in [Commands -> Seq(Receipts!States)]
          /\ \A d \in Commands \ {c} : log'[d] = log[d]
          /\ StateOf(log'[c]) \in {"none", "requested"}
      BY <2>1, <2>4, <2>6 DEF Ask, Record, ReceiptInv
    <2>8. Within(cmd'[c], log'[c]) /\ Within(cmd'[c], backedUp[c])
      <3>1. StateOf(backedUp[c]) = "none"
        BY <2>1 DEF Ask, ReceiptInv, Within
      <3> QED BY <2>3, <2>5, <2>7, <3>1 DEF Within, Early, Receipts!States
    <2> QED
      BY <2>3, <2>4, <2>7, <2>8, Ranks DEF StepOf
  <1>2. CASE Refused(c)
    <2>1. /\ cmd' \in [Commands -> CommandRecord] /\ cmd'[c].stage = "done"
          /\ \A d \in Commands \ {c} : cmd'[d] = cmd[d]
      BY <1>2, StagedStep DEF Refused, ReceiptInv, Stages
    <2>2. log' = log
      BY <1>2 DEF Refused
    <2> QED
      BY <2>1, <2>2 DEF StepOf, ReceiptInv, Within
  <1>3. CASE Admitted(c)
    <2>1. /\ cmd' \in [Commands -> CommandRecord] /\ cmd'[c].stage = "sending"
          /\ \A d \in Commands \ {c} : cmd'[d] = cmd[d]
      BY <1>3, StagedStep DEF Admitted, ReceiptInv, Stages
    <2>2. StateOf(log[c]) \in Early /\ log[c] \in Seq(Receipts!States)
      BY <1>3 DEF Admitted, ReceiptInv, Within
    <2>3. {"requested", "sending"} \subseteq Receipts!States
      BY DEF Receipts!States
    <2> DEFINE events == IF cmd[c].background THEN log[c] ELSE Recorded(log[c], "requested")
    <2>4. events \in Seq(Receipts!States) /\ StateOf(events) \in Early
      BY <2>2, <2>3, RecordedStep DEF Early
    <2>5. log' = [log EXCEPT ![c] = Recorded(events, "sending")]
      BY <1>3 DEF Admitted
    <2> HIDE DEF events
    <2>6. /\ Recorded(events, "sending") \in Seq(Receipts!States)
          /\ StateOf(Recorded(events, "sending")) \in {StateOf(events), "sending"}
      BY <2>3, <2>4, RecordedStep
    <2>7. /\ log' \in [Commands -> Seq(Receipts!States)] /\ log'[c] = Recorded(events, "sending")
          /\ \A d \in Commands \ {c} : log'[d] = log[d]
      BY <2>5, <2>6 DEF ReceiptInv
    <2>8. /\ StateOf(log'[c]) \in Early \cup {"sending"}
          /\ StateOf(log'[c]) \in Receipts!States
      BY <2>4, <2>6, <2>7 DEF Early, Receipts!States
    <2>9. \/ StateOf(log'[c]) = StateOf(log[c])
          \/ Receipts!Rank(StateOf(log'[c])) > Receipts!Rank(StateOf(log[c]))
      <3>1. CASE cmd[c].background
        BY <2>2, <2>6, <2>7, <3>1, Ranks DEF Early, events
      <3>2. CASE ~cmd[c].background
        <4>1. StateOf(events) \in {StateOf(log[c]), "requested"}
          BY <2>2, <2>3, <3>2, RecordedStep DEF events
        <4> QED
          BY <2>2, <2>6, <2>7, <4>1, Ranks DEF Early
      <3> QED
        BY <3>1, <3>2
    <2>10. StateOf(backedUp[c]) \in Early /\ StateOf(backedUp[c]) \in Receipts!States
      BY <1>3 DEF Admitted, ReceiptInv, Within
    <2> QED
      BY <2>1, <2>7, <2>8, <2>9, <2>10 DEF StepOf, Within, Early
  <1> QED
    BY <1>1, <1>2, <1>3

\* The battery answers a write, or does not.
LEMMA SendingSteps ==
  ASSUME ReceiptInv, NEW c \in Commands,
         Forbidden(c) \/ Acknowledged(c) \/ Rejected(c) \/ Unanswered(c)
  PROVE  StepOf(c)
  <1>1. cmd[c].stage = "sending"
    BY DEF Forbidden, Acknowledged, Rejected, Unanswered
  <1>2. CASE Forbidden(c) \/ Rejected(c) \/ Unanswered(c)
    <2>1. End(c, "failed") \/ End(c, "timed-out")
      BY <1>2 DEF Forbidden, Rejected, Unanswered
    <2> QED
      BY <1>1, <2>1, EndStep DEF Final
  <1>3. CASE Acknowledged(c)
    <2>1. PICK reached \in {"setting", "mode"} : cmd' = [cmd EXCEPT ![c].stage = reached]
      BY <1>3 DEF Acknowledged
    <2>2. /\ cmd' \in [Commands -> CommandRecord] /\ cmd'[c].stage = reached
          /\ \A d \in Commands \ {c} : cmd'[d] = cmd[d]
      <3>1. cmd \in [Commands -> CommandRecord] /\ c \in Commands
        BY DEF ReceiptInv
      <3>2. [cmd[c] EXCEPT !.stage = reached] \in CommandRecord
        BY <3>1 DEF CommandRecord, Stages
      <3> QED
        BY <2>1, <3>1, <3>2 DEF CommandRecord
    <2>3. StateOf(log[c]) \in Early \cup {"sending"} /\ log[c] \in Seq(Receipts!States)
      BY <1>1 DEF ReceiptInv, Within
    <2>4. {"acknowledged", "verifying"} \subseteq Receipts!States
      BY DEF Receipts!States
    <2> DEFINE first == Recorded(log[c], "acknowledged")
    <2>5. first \in Seq(Receipts!States) /\ StateOf(first) \in {StateOf(log[c]), "acknowledged"}
      BY <2>3, <2>4, RecordedStep
    <2>6. log' = [log EXCEPT ![c] = Recorded(first, "verifying")]
      BY <1>3 DEF Acknowledged
    <2> HIDE DEF first
    <2>7. /\ Recorded(first, "verifying") \in Seq(Receipts!States)
          /\ StateOf(Recorded(first, "verifying")) \in {StateOf(first), "verifying"}
      BY <2>4, <2>5, RecordedStep
    <2>8. /\ log' \in [Commands -> Seq(Receipts!States)]
          /\ \A d \in Commands \ {c} : log'[d] = log[d]
          /\ StateOf(log'[c]) \in {StateOf(log[c]), "acknowledged", "verifying"}
      BY <2>5, <2>6, <2>7 DEF ReceiptInv
    <2>9. StateOf(log'[c]) \in Halfway /\ StateOf(log'[c]) \in Receipts!States
      BY <2>3, <2>8 DEF Early, Halfway, Receipts!States
    <2>10. Within(cmd'[c], log'[c]) /\ Within(cmd'[c], backedUp[c])
      <3>1. StateOf(backedUp[c]) \in Halfway /\ StateOf(backedUp[c]) \in Receipts!States
        BY <1>1 DEF ReceiptInv, Within, Early, Halfway
      <3> QED BY <2>1, <2>2, <2>9, <3>1 DEF Within
    <2>11. \/ StateOf(log'[c]) = StateOf(log[c])
           \/ Receipts!Rank(StateOf(log'[c])) > Receipts!Rank(StateOf(log[c]))
      BY <2>3, <2>8, Ranks DEF Early
    <2> QED
      BY <2>1, <2>2, <2>8, <2>9, <2>10, <2>11 DEF StepOf, Halfway
  <1> QED
    BY <1>2, <1>3

-----------------------------------------------------------------------------
(* The refinement.                                                           *)
ReceiptStates == [c \in Commands |-> ReceiptState(c)]
BackedUpStates == [c \in Commands |-> StateOf(backedUp[c])]
ReceiptVars == <<ReceiptStates, shown, BackedUpStates, history = "closed">>

\* A step of a command leaves the history open or closed, and what was backed up; of a
\* closed history nothing changes.
Keeps == UNCHANGED <<history, backedUp>> /\ (history = "closed" => log' = log)

LEMMA CommandKeeps ==
  ASSUME ReceiptInv, NEW c \in Commands,
         \/ (\E q \in Requests[c] : Ask(c, q)) \/ Refused(c) \/ Admitted(c)
         \/ Forbidden(c) \/ Acknowledged(c) \/ Rejected(c) \/ Unanswered(c) \/ Verify(c)
  PROVE  Keeps
  <1>1. log = [log EXCEPT ![c] = log[c]]
    BY DEF ReceiptInv
  <1>2. \A events, type : history = "closed" => Recorded(events, type) = events
    BY DEF Recorded
  <1>3. ASSUME NEW type, End(c, type), UNCHANGED <<history, backedUp>> PROVE Keeps
    BY <1>1, <1>2, <1>3 DEF End, Record, Keeps
  <1>4. ASSUME NEW readable, Again(c, readable) PROVE Keeps
    BY <1>4 DEF Again, Keeps
  <1>5. CASE (\E q \in Requests[c] : Ask(c, q)) \/ Refused(c) \/ Admitted(c) \/ Acknowledged(c)
    <2>1. ASSUME NEW q \in Requests[c], Ask(c, q) PROVE Keeps
      BY <1>1, <1>2, <2>1 DEF Ask, Record, Keeps
    <2>2. CASE Refused(c)
      BY <2>2 DEF Refused, Keeps
    <2>3. CASE Admitted(c)
      BY <1>1, <1>2, <2>3 DEF Admitted, Keeps
    <2>4. CASE Acknowledged(c)
      BY <1>1, <1>2, <2>4 DEF Acknowledged, Keeps
    <2> QED BY <1>5, <2>1, <2>2, <2>3, <2>4
  <1>6. CASE Forbidden(c) \/ Rejected(c) \/ Unanswered(c)
    BY <1>3, <1>6 DEF Forbidden, Rejected, Unanswered
  <1>7. CASE Verify(c)
    <2>1. CASE ModeSeen(c) \/ ModeOther(c) \/ ModeUnknown(c) \/ ModeUnread(c)
      <3>1. CASE ModeSeen(c)
        BY <1>3, <3>1 DEF ModeSeen, Concluded, Keeps
      <3>2. CASE ModeOther(c) \/ ModeUnknown(c) \/ ModeUnread(c)
        BY <1>3, <1>4, <3>2 DEF ModeOther, ModeUnknown, ModeUnread, Disproved
      <3> QED BY <2>1, <3>1, <3>2
    <2>2. CASE SettingSeen(c) \/ SettingOther(c) \/ Unread(c)
      BY <1>3, <1>4, <2>2 DEF SettingSeen, SettingOther, Unread, Concluded, Disproved
    <2>3. CASE TargetSeen(c) \/ TargetOther(c) \/ TargetHidden(c)
      BY <1>3, <1>4, <2>3 DEF TargetSeen, TargetOther, TargetHidden, Concluded, Disproved
    <2> QED BY <1>7, <2>1, <2>2, <2>3 DEF Verify
  <1> QED
    BY <1>5, <1>6, <1>7

\* A step of one command is a step of its receipt, or leaves it as it is.
LEMMA StepRefines ==
  ASSUME ReceiptInv, NEW c \in Commands, StepOf(c), Keeps, Shown
  PROVE  ReceiptInv' /\ [Receipts!Next]_ReceiptVars
  <1>1. /\ shown' \in {shown, shown \cup {c}}
        /\ cmd'[c] # cmd[c] /\ Matches(c) => c \in shown'
        /\ shown \subseteq shown'
    BY DEF Shown, StepOf
  <1>2. \A d \in Commands : ReceiptState(d) = StateOf(log[d]) /\ ReceiptState(d)' = StateOf(log'[d])
    BY DEF ReceiptState, StateOf
  <1>3. ReceiptInv'
    <2>1. \A d \in Commands : Within(cmd'[d], log'[d]) /\ Within(cmd'[d], backedUp'[d])
      BY DEF StepOf, ReceiptInv, Keeps
    <2>2. \A d \in Commands : cmd'[d].stage = "target" => d \in shown'
      BY <1>1 DEF StepOf, ReceiptInv
    <2>3. (\A d \in Commands : Within(cmd[d], log[d]) /\ Within(cmd[d], backedUp[d]))'
      BY <2>1 DEF Within, StateOf
    <2> QED
      BY <2>2, <2>3 DEF ReceiptInv, StepOf, Keeps
  <1>4. ReceiptStates' = [ReceiptStates EXCEPT ![c] = StateOf(log'[c])]
    BY <1>2 DEF ReceiptStates, StepOf
  <1>5. BackedUpStates' = BackedUpStates /\ (history = "closed")' = (history = "closed")
    BY DEF Keeps, BackedUpStates, StateOf
  <1>6. CASE StateOf(log'[c]) = StateOf(log[c])
    <2>1. ReceiptStates' = ReceiptStates
      BY <1>2, <1>4, <1>6 DEF ReceiptStates
    <2> QED
      BY <1>1, <1>3, <1>5, <2>1 DEF Receipts!Next, Receipts!ReadBack, ReceiptStates, BackedUpStates
  <1>7. CASE Receipts!Rank(StateOf(log'[c])) > Receipts!Rank(StateOf(log[c]))
    <2>1. StateOf(log'[c]) \in Receipts!States
      BY DEF StepOf, Within
    <2>2. StateOf(log'[c]) = "succeeded" => c \in shown'
      BY <1>1, <1>7, Ranks DEF StepOf, ReceiptInv, Final
    <2>3. ReceiptStates[c] = StateOf(log[c])
      BY <1>2 DEF ReceiptStates
    <2>4. history # "closed"
      <3>1. CASE history = "closed"
        <4>1. log' = log
          BY <3>1 DEF Keeps
        <4>2. StateOf(log[c]) \in Receipts!States
          BY DEF ReceiptInv, Within
        <4>3. Receipts!Rank(StateOf(log[c])) \in Int
          BY <4>2, Ranks DEF Receipts!States, Receipts!Final, Final
        <4>4. StateOf(log'[c]) = StateOf(log[c])
          BY <4>1
        <4> QED BY <1>7, <4>3, <4>4
      <3> QED BY <3>1
    <2>5. Receipts!Advance(c)
      BY <1>1, <1>4, <1>7, <2>1, <2>2, <2>3, <2>4 DEF Receipts!Advance, Receipts!ReadBack, ReceiptStates
    <2> QED
      BY <1>3, <1>5, <2>5 DEF Receipts!Next, BackedUpStates
  <1> QED
    BY <1>6, <1>7 DEF StepOf

\* Of what surrounds the commands, only a restore of the database changes the receipts:
\* it closes the history, and opens it with the backup, with what it was, or with none.
LEMMA OtherSteps ==
  ASSUME ReceiptInv,
         \/ (Lands \/ BackUp \/ Closes \/ Opens) /\ Shown
         \/ UNCHANGED <<vars, shown>>
         \/ Stop
  PROVE  ReceiptInv' /\ [Receipts!Next]_ReceiptVars
  <1>1. /\ cmd' \in [Commands -> CommandRecord]
        /\ \A c \in Commands : cmd'[c].stage \in {cmd[c].stage, "done"}
    <2>1. CASE cmd' = cmd
      BY <2>1 DEF ReceiptInv
    <2>2. CASE cmd' = [c \in Commands |-> IF cmd[c].stage = "none" THEN cmd[c]
                                          ELSE [cmd[c] EXCEPT !.stage = "done"]]
      <3>1. ASSUME NEW c \in Commands
            PROVE  /\ [cmd[c] EXCEPT !.stage = "done"] \in CommandRecord
                   /\ [cmd[c] EXCEPT !.stage = "done"].stage = "done"
        <4>1. cmd[c] \in CommandRecord
          BY DEF ReceiptInv
        <4> QED
          BY <4>1 DEF CommandRecord, Stages
      <3> QED
        BY <2>2, <3>1 DEF ReceiptInv
    <2> QED
      BY <2>1, <2>2 DEF Lands, BackUp, Closes, Opens, vars, Stop, Crash
  <1>2. shown' = shown
    <2>1. CASE (Lands \/ BackUp \/ Closes \/ Opens) /\ Shown
      <3>1. cmd' = cmd
        BY <2>1 DEF Lands, BackUp, Closes, Opens
      <3> QED
        BY <2>1, <3>1 DEF Shown
    <2> QED
      BY <2>1 DEF Stop
  <1>3. \/ UNCHANGED <<log, backedUp, history>>
        \/ BackUp
        \/ history' = "closed" /\ history # "closed" /\ UNCHANGED <<log, backedUp>>
        \/ history = "closed" /\ Reopened /\ backedUp' = backedUp
    BY DEF Lands, Closes, Opens, vars, Stop, Crash
  <1>4. /\ log' \in {log, backedUp, NoEvents}
        /\ backedUp' \in {log, backedUp}
    BY <1>3 DEF BackUp, Reopened
  <1>5. /\ NoEvents \in [Commands -> Seq(Receipts!States)]
        /\ \A c \in Commands : StateOf(NoEvents[c]) = "none"
    BY DEF NoEvents, StateOf
  <1>6. /\ log' \in [Commands -> Seq(Receipts!States)]
        /\ backedUp' \in [Commands -> Seq(Receipts!States)]
    BY <1>4, <1>5 DEF ReceiptInv
  <1>7. \A c \in Commands : Within(cmd'[c], log[c]) /\ Within(cmd'[c], backedUp[c]) /\ Within(cmd'[c], NoEvents[c])
    BY <1>1, <1>5 DEF ReceiptInv, Within, Early, Halfway, Receipts!States
  <1>8. ReceiptInv'
    <2>1. (\A c \in Commands : Within(cmd[c], log[c]) /\ Within(cmd[c], backedUp[c]))'
      BY <1>4, <1>7 DEF Within, StateOf
    <2>2. (\A c \in Commands : cmd[c].stage = "target" => c \in shown)'
      BY <1>1, <1>2 DEF ReceiptInv
    <2> QED
      BY <1>1, <1>6, <2>1, <2>2 DEF ReceiptInv
  <1>9. /\ ReceiptStates = [c \in Commands |-> StateOf(log[c])]
        /\ ReceiptStates' = [c \in Commands |-> StateOf(log'[c])]
        /\ BackedUpStates' = [c \in Commands |-> StateOf(backedUp'[c])]
    BY DEF ReceiptStates, ReceiptState, BackedUpStates, StateOf
  <1>10. [c \in Commands |-> StateOf(NoEvents[c])] = Receipts!NoReceipts
    BY <1>5 DEF Receipts!NoReceipts
  <1>11. CASE UNCHANGED <<log, backedUp, history>>
    BY <1>2, <1>8, <1>9, <1>11 DEF ReceiptVars, BackedUpStates
  <1>12. CASE BackUp
    <2>1. history = "open" /\ history' = "open" /\ backedUp' = log /\ log' = log
      BY <1>12 DEF BackUp
    <2>2. Receipts!BackUp
      BY <1>2, <1>9, <2>1 DEF Receipts!BackUp, ReceiptStates, BackedUpStates
    <2> QED
      BY <1>8, <2>2 DEF Receipts!Next
  <1>13. CASE history' = "closed" /\ history # "closed" /\ UNCHANGED <<log, backedUp>>
    <2>1. Receipts!Close
      BY <1>2, <1>9, <1>13 DEF Receipts!Close, ReceiptStates, BackedUpStates
    <2> QED
      BY <1>8, <2>1 DEF Receipts!Next
  <1>14. CASE history = "closed" /\ Reopened /\ backedUp' = backedUp
    <2>1. history' = "reopened" /\ log' \in {log, backedUp, NoEvents}
      BY <1>14 DEF Reopened
    <2>2. ReceiptStates' \in {ReceiptStates, BackedUpStates, Receipts!NoReceipts}
      BY <1>9, <1>10, <2>1 DEF BackedUpStates
    <2>3. Receipts!Reopen
      BY <1>2, <1>9, <1>14, <2>1, <2>2 DEF Receipts!Reopen, ReceiptStates, BackedUpStates
    <2> QED
      BY <1>8, <2>3 DEF Receipts!Next
  <1> QED
    BY <1>3, <1>11, <1>12, <1>13, <1>14

\* The receipts only go forward, a final one stays, and success is said only of a
\* command that the battery has shown to a read (executeVerified, receiptFromEvents),
\* except that a restore of the database takes all of them back together, to what they
\* were when its backup was taken or to none (restoreDatabaseBackup).
THEOREM ReceiptsImplement == CommandsSpec => ReceiptsForward
  <1>1. CommandsInit => ReceiptInv /\ Receipts!Init
    <2> SUFFICES ASSUME CommandsInit PROVE ReceiptInv /\ Receipts!Init
      OBVIOUS
    <2> USE DEF CommandsInit, Init, NoEvents
    <2>1. Idle \in CommandRecord /\ Idle.stage = "none"
      BY DEF Idle, CommandRecord, Stages
    <2>2. \A c \in Commands : cmd[c] = Idle /\ log[c] = <<>> /\ backedUp[c] = <<>>
      OBVIOUS
    <2>3. StateOf(<<>>) = "none" /\ "none" \in Receipts!States
      BY DEF StateOf, Receipts!States
    <2>4. \A c \in Commands : Within(cmd[c], log[c]) /\ Within(cmd[c], backedUp[c])
      BY <2>1, <2>2, <2>3 DEF Within
    <2>5. log \in [Commands -> Seq(Receipts!States)] /\ backedUp \in [Commands -> Seq(Receipts!States)]
      OBVIOUS
    <2>6. ReceiptInv
      BY <2>1, <2>2, <2>4, <2>5 DEF ReceiptInv
    <2>7. Receipts!Init
      BY <2>2, <2>3 DEF Receipts!Init, Receipts!NoReceipts, ReceiptState
    <2> QED
      BY <2>6, <2>7
  <1>2. ReceiptInv /\ [CommandsNext]_allVars => ReceiptInv' /\ [Receipts!Next]_ReceiptVars
    <2> SUFFICES ASSUME ReceiptInv, [CommandsNext]_allVars
                 PROVE  ReceiptInv' /\ [Receipts!Next]_ReceiptVars
      OBVIOUS
    <2>1. ASSUME NEW c \in Commands, Acknowledge(c) /\ Shown
          PROVE  ReceiptInv' /\ [Receipts!Next]_ReceiptVars
      BY <2>1, SendingSteps, CommandKeeps, StepRefines DEF Acknowledge
    <2>2. ASSUME NEW c \in Commands, Shown,
                 \/ (\E q \in Requests[c] : Ask(c, q)) \/ Refused(c) \/ Admitted(c)
                 \/ Forbidden(c) \/ Rejected(c) \/ Unanswered(c) \/ Verify(c)
          PROVE  ReceiptInv' /\ [Receipts!Next]_ReceiptVars
      <3>1. StepOf(c)
        BY <2>2, RequestSteps, SendingSteps, ModeSteps, SettingSteps DEF Verify
      <3>2. Keeps
        BY <2>2, CommandKeeps
      <3> QED
        BY <2>2, <3>1, <3>2, StepRefines
    <2>3. CASE (Lands \/ BackUp \/ Closes \/ Opens) /\ Shown
      BY <2>3, OtherSteps
    <2>4. CASE UNCHANGED <<vars, shown>> \/ Stop
      BY <2>4, OtherSteps
    <2> QED
      BY <2>1, <2>2, <2>3, <2>4 DEF CommandsNext, Unacknowledged, allVars
  <1> QED
    BY <1>1, <1>2, PTL DEF CommandsSpec, ReceiptsForward, Receipts!Spec, ReceiptVars, ReceiptStates, BackedUpStates

-----------------------------------------------------------------------------
(* The types of the commands.  A command asks for what is legal, every setting it  *)
(* writes is one the battery may show, and its events are bounded by how far it is.  *)
Writes == ({"mode"} \X Modes) \cup ({"target", "setting"} \X Values)
DeviceTyped == device \in [mode : Modes, target : Values \cup {None}, setting : Values \cup {None}]

EventsBy == [none |-> 0, admission |-> 1, sending |-> 2, mode |-> 4, setting |-> 4, target |-> 4, done |-> 5]

\* One that was only asked for has no event yet, unless it runs in the background.
Bounded(command, events) ==
  /\ Len(events) <= EventsBy[command.stage]
  /\ command.stage = "admission" /\ ~command.background => Len(events) = 0

\* A command as its steps leave it.
Admissible(command) ==
  /\ command \in CommandRecord /\ command.attempt \in 0..(MaxAttempts - 1)
  /\ command.stage # "none" => Legal(command)

CommandInv ==
  /\ cmd \in [Commands -> CommandRecord] /\ log \in [Commands -> Seq(Receipts!States)]
  /\ backedUp \in [Commands -> Seq(Receipts!States)]
  /\ \A c \in Commands : Admissible(cmd[c]) /\ Bounded(cmd[c], log[c])
  /\ \A c \in Commands : Bounded(cmd[c], backedUp[c])
  /\ DeviceTyped /\ late \subseteq Writes
  /\ history \in {"open", "closed", "reopened"}
  /\ shown \subseteq Commands

\* A command that has been asked for writes settings the battery has.
LEMMA WritesTyped ==
  ASSUME NEW c \in Commands, Legal(cmd[c])
  PROVE  /\ WritesOf(c) \in Seq(Writes) /\ Len(WritesOf(c)) \in 1..2
         /\ cmd[c].action # "setting" => ModeWanted(c) \in Modes
  <1>1. cmd[c].action \in Kinds
    BY DEF Legal
  <1>2. CASE cmd[c].action = "setting"
    <2>1. <<"setting", cmd[c].want>> \in Writes
      BY <1>2 DEF Writes, Legal
    <2>2. WritesOf(c) = <<<<"setting", cmd[c].want>>>>
      BY <1>2 DEF WritesOf
    <2> QED BY <1>2, <2>1, <2>2
  <1>3. CASE cmd[c].action # "setting"
    <2>1. ModeWanted(c) \in Modes
      BY <1>1, <1>3 DEF ModeWanted, Legal, Kinds, Modes
    <2>2. <<"mode", ModeWanted(c)>> \in Writes
      BY <2>1 DEF Writes
    <2> DEFINE mode == <<"mode", ModeWanted(c)>>
               target == <<"target", cmd[c].want>>
    <2>3. CASE cmd[c].action = "set-mode"
      <3>1. WritesOf(c) = <<mode>>
        BY <2>3 DEF WritesOf
      <3> QED BY <2>1, <2>2, <3>1
    <2>4. CASE cmd[c].action # "set-mode" /\ cmd[c].want = None
      <3>1. WritesOf(c) = <<>> \o <<mode>>
        BY <1>3, <2>4 DEF WritesOf
      <3>2. <<>> \o <<mode>> = <<mode>>
        OBVIOUS
      <3> QED BY <2>1, <2>2, <3>1, <3>2
    <2>5. CASE cmd[c].action # "set-mode" /\ cmd[c].want # None
      <3>1. WritesOf(c) = <<target>> \o <<mode>>
        BY <1>3, <2>5 DEF WritesOf
      <3>2. target \in Writes
        BY <1>1, <1>3, <2>5 DEF Writes, Legal, Kinds
      <3>3. /\ <<target>> \o <<mode>> \in Seq(Writes)
            /\ Len(<<target>> \o <<mode>>) = 2
        BY <2>2, <3>2
      <3> QED BY <2>1, <3>1, <3>3
    <2> QED BY <2>3, <2>4, <2>5
  <1> QED BY <1>2, <1>3

\* Whatever of them the battery applies, its settings are of their types.
LEMMA AppliedTyped ==
  ASSUME DeviceTyped, NEW writes \in Seq(Writes)
  PROVE  Apply(device, writes) \in [mode : Modes, target : Values \cup {None}, setting : Values \cup {None}]
  <1> DEFINE to(s) == {i \in DOMAIN writes : writes[i][1] = s}
             last(s) == CHOOSE i \in to(s) : \A j \in to(s) : j <= i
             value(s) == IF to(s) = {} THEN device[s] ELSE writes[last(s)][2]
  <1>1. DOMAIN device = {"mode", "target", "setting"}
    BY DEF DeviceTyped
  <1>2. Apply(device, writes) = [s \in {"mode", "target", "setting"} |-> value(s)]
    BY <1>1 DEF Apply
  <1>3. ASSUME NEW s, to(s) # {}
        PROVE  last(s) \in to(s)
    <2> DEFINE ages == {Len(writes) - i : i \in to(s)}
    <2>1. to(s) \subseteq 1..Len(writes) /\ Len(writes) \in Nat
      OBVIOUS
    <2> HIDE DEF to
    <2>2. ages \subseteq Nat /\ ages # {}
      BY <1>3, <2>1
    <2>3. PICK age \in ages : \A other \in ages : age <= other
      <3> HIDE DEF ages
      <3> QED BY <2>2, LeastExists
    <2>4. PICK i \in to(s) : age = Len(writes) - i
      BY <2>3
    <2>5. ASSUME NEW k \in to(s) PROVE k <= i
      <3>1. Len(writes) - i <= Len(writes) - k
        BY <2>3, <2>4
      <3> QED BY <2>1, <3>1
    <2> QED BY <2>5
  <1>4. ASSUME NEW s, to(s) # {}
        PROVE  writes[last(s)] \in Writes /\ writes[last(s)][1] = s
    <2>1. last(s) \in to(s)
      BY <1>3, <1>4
    <2>2. last(s) \in DOMAIN writes /\ writes[last(s)][1] = s
      <3> HIDE DEF last
      <3> QED BY <2>1
    <2> QED BY <2>2
  <1> HIDE DEF to, last
  <1>5. value("mode") \in Modes
    BY <1>4 DEF Writes, DeviceTyped
  <1>6. value("target") \in Values \cup {None} /\ value("setting") \in Values \cup {None}
    BY <1>4 DEF Writes, DeviceTyped
  <1> HIDE DEF value
  <1> QED BY <1>2, <1>5, <1>6

\* An event adds at most one to a log.
LEMMA RecordedLength ==
  ASSUME NEW events \in Seq(Receipts!States), NEW type \in Receipts!States
  PROVE  /\ Recorded(events, type) \in Seq(Receipts!States)
         /\ Len(Recorded(events, type)) \in 0..(Len(events) + 1)
  BY DEF Recorded

\* A command that comes as far or further may have as many events, so that those of a
\* backup taken before stay in its bounds.
GoesFrom(from, command) ==
  /\ EventsBy[from.stage] <= EventsBy[command.stage]
  /\ command.stage = "admission" => from.stage = "none"

LEMMA BoundedOn ==
  ASSUME NEW from, NEW command, from.stage \in Stages, command.stage \in Stages,
         GoesFrom(from, command), NEW events \in Seq(Receipts!States), Bounded(from, events)
  PROVE  Bounded(command, events)
  <1>1. EventsBy[from.stage] \in Int /\ EventsBy[command.stage] \in Int /\ Len(events) \in Nat
    BY DEF EventsBy, Stages
  <1>2. Len(events) <= EventsBy[command.stage]
    BY <1>1 DEF Bounded, GoesFrom
  <1>3. command.stage = "admission" => Len(events) = 0
    BY <1>1 DEF Bounded, GoesFrom, EventsBy
  <1> QED BY <1>2, <1>3 DEF Bounded

\* A step that leaves a command as it may be, and its log in its bounds.
LEMMA CommandChanged ==
  ASSUME CommandInv, NEW c \in Commands,
         NEW command, cmd' = [cmd EXCEPT ![c] = command], Admissible(command), GoesFrom(cmd[c], command),
         NEW events \in Seq(Receipts!States), log' = [log EXCEPT ![c] = events],
         Bounded(command, events),
         DeviceTyped', late' \subseteq Writes, UNCHANGED <<history, backedUp>>, Shown
  PROVE  CommandInv'
  <1>1. /\ cmd' \in [Commands -> CommandRecord] /\ cmd'[c] = command
        /\ \A d \in Commands \ {c} : cmd'[d] = cmd[d]
    BY DEF CommandInv, Admissible
  <1>2. /\ log' \in [Commands -> Seq(Receipts!States)] /\ log'[c] = events
        /\ \A d \in Commands \ {c} : log'[d] = log[d]
    BY DEF CommandInv
  <1>3. \A d \in Commands : Admissible(cmd'[d]) /\ Bounded(cmd'[d], log'[d])
    BY <1>1, <1>2 DEF CommandInv
  <1>4. shown' \subseteq Commands
    BY DEF CommandInv, Shown
  <1>5. \A d \in Commands : Bounded(cmd'[d], backedUp[d])
    <2>1. Bounded(command, backedUp[c])
      <3>1. cmd[c].stage \in Stages /\ command.stage \in Stages /\ Bounded(cmd[c], backedUp[c])
            /\ backedUp[c] \in Seq(Receipts!States)
        BY DEF CommandInv, Admissible, CommandRecord
      <3> QED BY <3>1, BoundedOn
    <2> QED BY <1>1, <2>1 DEF CommandInv
  <1> QED BY <1>1, <1>2, <1>3, <1>4, <1>5 DEF CommandInv, Bounded

\* A command that goes on to another stage.
LEMMA CommandStaged ==
  ASSUME NEW c \in Commands, CommandInv, cmd[c].stage # "none", NEW reached \in Stages \ {"none"},
         NEW moved, moved = [cmd[c] EXCEPT !.stage = reached]
  PROVE  Admissible(moved) /\ moved.stage = reached
  <1>1. cmd[c] \in CommandRecord /\ Legal(cmd[c]) /\ cmd[c].attempt \in 0..(MaxAttempts - 1)
    BY DEF CommandInv, Admissible
  <1>2. moved \in CommandRecord
    BY <1>1 DEF CommandRecord
  <1>3. /\ moved.stage = reached /\ moved.attempt = cmd[c].attempt /\ moved.action = cmd[c].action
        /\ moved.want = cmd[c].want /\ moved.background = cmd[c].background
    BY <1>1 DEF CommandRecord
  <1>4. Admissible(moved)
    BY <1>1, <1>2, <1>3 DEF Admissible, Legal
  <1> QED BY <1>3, <1>4

\* A command ends, with its outcome recorded.
LEMMA CommandEnds ==
  ASSUME CommandInv, NEW c \in Commands, NEW type \in Final, End(c, type), Shown,
         cmd[c].stage \in {"sending", "mode", "setting", "target"},
         DeviceTyped', late' \subseteq Writes, UNCHANGED <<history, backedUp>>
  PROVE  CommandInv'
  <1> DEFINE ended == [cmd[c] EXCEPT !.stage = "done"]
             events == Recorded(log[c], type)
  <1>3. Admissible(ended) /\ ended.stage = "done"
    BY CommandStaged DEF Stages
  <1>4. log[c] \in Seq(Receipts!States) /\ Len(log[c]) <= 4 /\ Len(log[c]) \in Nat
    <2>1. log[c] \in Seq(Receipts!States) /\ Len(log[c]) <= EventsBy[cmd[c].stage]
      BY DEF CommandInv, Bounded
    <2>2. EventsBy[cmd[c].stage] \in 0..4
      BY DEF EventsBy, Stages
    <2> QED BY <2>1, <2>2
  <1>5. events \in Seq(Receipts!States) /\ Len(events) <= 5
    <2>1. type \in Receipts!States
      BY DEF Receipts!States, Receipts!Final, Final
    <2>2. events \in Seq(Receipts!States) /\ Len(events) \in 0..(Len(log[c]) + 1)
      BY <1>4, <2>1, RecordedLength
    <2> HIDE DEF events
    <2> QED BY <1>4, <2>2
  <1>6. cmd' = [cmd EXCEPT ![c] = ended] /\ log' = [log EXCEPT ![c] = events]
    BY DEF End, Record
  <1> HIDE DEF ended, events
  <1>7. Bounded(ended, events)
    BY <1>3, <1>5 DEF EventsBy, Bounded
  <1>8. GoesFrom(cmd[c], ended)
    BY <1>3 DEF EventsBy, GoesFrom
  <1> QED BY <1>3, <1>5, <1>6, <1>7, <1>8, CommandChanged

\* What is requested, refused or admitted.
LEMMA RequestTyped ==
  ASSUME CommandInv, NEW c \in Commands, Shown,
         (\E q \in Requests[c] : Ask(c, q)) \/ Refused(c) \/ Admitted(c)
  PROVE  CommandInv'
  <1>0. "requested" \in Receipts!States /\ "sending" \in Receipts!States /\ log[c] \in Seq(Receipts!States)
    BY DEF Receipts!States, CommandInv
  <1>1. CASE \E q \in Requests[c] : Ask(c, q)
    <2>1. PICK q \in Requests[c] : Ask(c, q)
      BY <1>1
    <2> DEFINE asked == [Idle EXCEPT !.stage = "admission", !.action = q.action,
                                     !.want = q.want, !.background = q.background]
               events == IF q.background THEN Recorded(log[c], "requested") ELSE log[c]
    <2>2. Legal(q)
      BY RequestsAssumption
    <2>3. Admissible(asked) /\ asked.stage = "admission" /\ asked.background = q.background
      <3>1. /\ asked.stage = "admission" /\ asked.action = q.action /\ asked.want = q.want
            /\ asked.background = q.background /\ asked.attempt = 0
        BY DEF Idle
      <3>2. q.action \in Kinds /\ q.background \in BOOLEAN /\ q.want \in Modes \cup Values \cup {None}
        BY <2>2 DEF Legal, Kinds
      <3>4. Idle \in CommandRecord
        BY DEF Idle, CommandRecord, Stages
      <3>3. asked \in CommandRecord
        BY <3>2, <3>4 DEF CommandRecord, Stages
      <3> HIDE DEF asked
      <3> QED BY <2>2, <3>1, <3>3, AttemptsAssumption DEF Admissible, Legal
    <2>4. cmd[c].stage = "none" /\ cmd' = [cmd EXCEPT ![c] = asked] /\ UNCHANGED <<device, late, history, backedUp>>
      BY <2>1 DEF Ask
    <2>5. Len(log[c]) <= 0 /\ Len(log[c]) \in Nat
      BY <1>0, <2>4 DEF CommandInv, EventsBy, Bounded
    <2>6. log' = [log EXCEPT ![c] = events]
      BY <2>1 DEF Ask, Record, CommandInv
    <2>7. /\ events \in Seq(Receipts!States) /\ Len(events) <= 1 /\ Len(events) \in Nat
          /\ ~q.background => Len(events) = 0
      <3>1. CASE q.background
        <4>1. events = Recorded(log[c], "requested")
          BY <3>1, Zenon
        <4> HIDE DEF events
        <4> QED BY <1>0, <2>5, <3>1, <4>1, RecordedLength
      <3>2. CASE ~q.background
        <4>1. events = log[c]
          BY <3>2, Zenon
        <4> HIDE DEF events
        <4> QED BY <1>0, <2>5, <4>1
      <3> QED BY <3>1, <3>2
    <2> HIDE DEF asked, events
    <2>8. Bounded(asked, events)
      BY <2>3, <2>7 DEF EventsBy, Bounded
    <2>9. DeviceTyped' /\ late' \subseteq Writes
      BY <2>4 DEF CommandInv, DeviceTyped, Writes
    <2>10. GoesFrom(cmd[c], asked)
      BY <2>3, <2>4 DEF EventsBy, GoesFrom
    <2> QED BY <2>3, <2>4, <2>6, <2>7, <2>8, <2>9, <2>10, CommandChanged
  <1>2. CASE Refused(c)
    <2> DEFINE moved == [cmd[c] EXCEPT !.stage = "done"]
    <2>1. /\ cmd[c].stage = "admission" /\ cmd' = [cmd EXCEPT ![c].stage = "done"]
          /\ UNCHANGED <<log, device, late, history, backedUp>>
      BY <1>2 DEF Refused
    <2>3. Admissible(moved) /\ moved.stage = "done"
      BY <2>1, CommandStaged DEF Stages
    <2>4. cmd' = [cmd EXCEPT ![c] = moved]
      BY <2>1
    <2> HIDE DEF moved
    <2>5. Bounded(moved, log[c]) /\ log' = [log EXCEPT ![c] = log[c]]
      BY <1>0, <2>1, <2>3 DEF CommandInv, EventsBy, Bounded
    <2>6. DeviceTyped' /\ late' \subseteq Writes
      BY <2>1 DEF CommandInv, DeviceTyped, Writes
    <2>7. GoesFrom(cmd[c], moved)
      BY <2>1, <2>3 DEF EventsBy, GoesFrom
    <2> QED BY <1>0, <2>1, <2>3, <2>4, <2>5, <2>6, <2>7, CommandChanged
  <1>3. CASE Admitted(c)
    <2> DEFINE moved == [cmd[c] EXCEPT !.stage = "sending"]
               asked == IF cmd[c].background THEN log[c] ELSE Recorded(log[c], "requested")
               events == Recorded(asked, "sending")
    <2>1. /\ cmd[c].stage = "admission" /\ cmd' = [cmd EXCEPT ![c].stage = "sending"]
          /\ log' = [log EXCEPT ![c] = events]
          /\ UNCHANGED <<device, late, history, backedUp>>
      BY <1>3 DEF Admitted
    <2>3. Admissible(moved) /\ moved.stage = "sending"
      BY <2>1, CommandStaged DEF Stages
    <2>4. cmd' = [cmd EXCEPT ![c] = moved]
      BY <2>1
    <2> HIDE DEF moved
    <2>5. Len(log[c]) <= 1 /\ Len(log[c]) \in Nat /\ (~cmd[c].background => Len(log[c]) = 0)
      <3>1. Bounded(cmd[c], log[c])
        BY DEF CommandInv
      <3> QED BY <1>0, <2>1, <3>1 DEF EventsBy, Bounded
    <2>6. asked \in Seq(Receipts!States) /\ Len(asked) <= 1 /\ Len(asked) \in Nat
      <3>1. CASE cmd[c].background
        <4>1. asked = log[c]
          BY <3>1, Zenon
        <4> HIDE DEF asked
        <4> QED BY <1>0, <2>5, <4>1
      <3>2. CASE ~cmd[c].background
        <4>1. asked = Recorded(log[c], "requested")
          BY <3>2, Zenon
        <4> HIDE DEF asked
        <4> QED BY <1>0, <2>5, <3>2, <4>1, RecordedLength
      <3> QED BY <3>1, <3>2
    <2> HIDE DEF asked
    <2>9. events \in Seq(Receipts!States) /\ Len(events) <= 2 /\ Len(events) \in Nat
      BY <1>0, <2>6, RecordedLength
    <2> HIDE DEF events
    <2>7. events \in Seq(Receipts!States) /\ Bounded(moved, events)
      BY <2>3, <2>9 DEF EventsBy, Bounded
    <2>8. DeviceTyped' /\ late' \subseteq Writes
      BY <2>1 DEF CommandInv, DeviceTyped, Writes
    <2>10. GoesFrom(cmd[c], moved)
      BY <2>1, <2>3 DEF EventsBy, GoesFrom
    <2> QED BY <2>1, <2>3, <2>4, <2>7, <2>8, <2>10, CommandChanged
  <1> QED BY <1>1, <1>2, <1>3

\* A read that decides nothing, or the first of two that are checked.
LEMMA CommandGoesOn ==
  ASSUME CommandInv, NEW c \in Commands, Shown, cmd[c].stage \in {"mode", "setting", "target"},
         \/ \E readable \in BOOLEAN : Again(c, readable) /\ ~LastAttempt(c)
         \/ cmd' = [cmd EXCEPT ![c].stage = "target", ![c].attempt = 0] /\ UNCHANGED <<log, device, late, history, backedUp>>
  PROVE  CommandInv'
  <1>1. log' = log /\ UNCHANGED <<device, late, history, backedUp>>
    BY DEF Again
  <1>2. cmd[c] \in CommandRecord /\ cmd[c].attempt \in 0..(MaxAttempts - 1) /\ MaxAttempts \in Nat
    BY AttemptsAssumption DEF CommandInv, Admissible
  <1>3. PICK reached \in {cmd[c].stage, "target"}, n \in 0..(MaxAttempts - 1), r \in BOOLEAN :
               cmd' = [cmd EXCEPT ![c] = [cmd[c] EXCEPT !.stage = reached, !.attempt = n, !.readable = r]]
    <2>1. CASE \E readable \in BOOLEAN : Again(c, readable) /\ ~LastAttempt(c)
      <3>1. PICK readable \in BOOLEAN : Again(c, readable) /\ ~LastAttempt(c)
        BY <2>1
      <3>2. cmd[c].attempt + 1 \in 0..(MaxAttempts - 1)
        BY <1>2, <3>1 DEF LastAttempt
      <3>3. PICK r \in BOOLEAN : r = (cmd[c].readable \/ readable)
        OBVIOUS
      <3>4. cmd' = [cmd EXCEPT ![c] = [cmd[c] EXCEPT !.attempt = cmd[c].attempt + 1, !.readable = r]]
        BY <3>1, <3>3 DEF Again
      <3>5. [cmd[c] EXCEPT !.attempt = cmd[c].attempt + 1, !.readable = r]
              = [cmd[c] EXCEPT !.stage = cmd[c].stage, !.attempt = cmd[c].attempt + 1, !.readable = r]
        BY <1>2 DEF CommandRecord
      <3> QED BY <3>2, <3>4, <3>5
    <2>2. CASE cmd' = [cmd EXCEPT ![c].stage = "target", ![c].attempt = 0]
      <3>1. PICK r \in BOOLEAN : r = cmd[c].readable
        BY <1>2 DEF CommandRecord
      <3>2. cmd' = [cmd EXCEPT ![c] = [cmd[c] EXCEPT !.stage = "target", !.attempt = 0]]
        BY <2>2
      <3>3. [cmd[c] EXCEPT !.stage = "target", !.attempt = 0]
              = [cmd[c] EXCEPT !.stage = "target", !.attempt = 0, !.readable = r]
        BY <1>2, <3>1 DEF CommandRecord
      <3>4. 0 \in 0..(MaxAttempts - 1)
        BY AttemptsAssumption
      <3> QED BY <3>2, <3>3, <3>4
    <2> QED BY <2>1, <2>2
  <1> DEFINE moved == [cmd[c] EXCEPT !.stage = reached, !.attempt = n, !.readable = r]
  <1>4. reached \in Stages \ {"none"} /\ reached \in {"mode", "setting", "target"}
    BY DEF Stages
  <1>5. Admissible(moved) /\ moved.stage = reached
    <2>1. cmd[c] \in CommandRecord /\ Legal(cmd[c]) /\ n \in Int
      BY <1>2 DEF CommandInv, Admissible
    <2>2. moved \in CommandRecord
      BY <1>4, <2>1 DEF CommandRecord
    <2>3. /\ moved.stage = reached /\ moved.attempt = n /\ moved.action = cmd[c].action
          /\ moved.want = cmd[c].want /\ moved.background = cmd[c].background
      BY <2>1 DEF CommandRecord
    <2> HIDE DEF moved
    <2> QED BY <1>4, <2>1, <2>2, <2>3 DEF Admissible, Legal
  <1>6. cmd' = [cmd EXCEPT ![c] = moved]
    BY <1>3
  <1> HIDE DEF moved
  <1>7. log[c] \in Seq(Receipts!States) /\ Bounded(moved, log[c]) /\ log' = [log EXCEPT ![c] = log[c]]
    BY <1>1, <1>4, <1>5 DEF CommandInv, EventsBy, Bounded
  <1>8. DeviceTyped' /\ late' \subseteq Writes /\ UNCHANGED <<history, backedUp>>
    BY <1>1 DEF CommandInv, DeviceTyped, Writes
  <1>9. GoesFrom(cmd[c], moved)
    BY <1>4, <1>5 DEF EventsBy, GoesFrom
  <1> QED BY <1>1, <1>5, <1>6, <1>7, <1>8, <1>9, CommandChanged

\* The checks of a command that was acknowledged.
LEMMA VerifyTyped ==
  ASSUME CommandInv, NEW c \in Commands, Shown, Verify(c)
  PROVE  CommandInv'
  <1>1. cmd[c].stage \in {"mode", "setting", "target"}
    BY DEF Verify, ModeSeen, ModeOther, ModeUnknown, ModeUnread, SettingSeen, SettingOther, Unread,
           TargetSeen, TargetOther, TargetHidden
  <1>2. \/ \E type \in Final : End(c, type) /\ UNCHANGED <<device, late, history, backedUp>>
        \/ \E readable \in BOOLEAN : Again(c, readable) /\ ~LastAttempt(c)
        \/ cmd' = [cmd EXCEPT ![c].stage = "target", ![c].attempt = 0] /\ UNCHANGED <<log, device, late, history, backedUp>>
    <2>1. CASE ModeSeen(c) \/ ModeOther(c) \/ ModeUnknown(c) \/ ModeUnread(c)
      BY <2>1 DEF ModeSeen, ModeOther, ModeUnknown, ModeUnread, Concluded, Disproved, Final
    <2>2. CASE SettingSeen(c) \/ SettingOther(c) \/ Unread(c)
      BY <2>2 DEF SettingSeen, SettingOther, Unread, Concluded, Disproved, Final
    <2>3. CASE TargetSeen(c) \/ TargetOther(c) \/ TargetHidden(c)
      BY <2>3 DEF TargetSeen, TargetOther, TargetHidden, Concluded, Disproved, Final
    <2> QED BY <2>1, <2>2, <2>3 DEF Verify
  <1>3. CASE \E type \in Final : End(c, type) /\ UNCHANGED <<device, late, history, backedUp>>
    <2>1. DeviceTyped' /\ late' \subseteq Writes /\ UNCHANGED <<history, backedUp>>
      BY <1>3 DEF CommandInv, DeviceTyped, Writes
    <2> QED BY <1>1, <1>3, <2>1, CommandEnds
  <1> QED BY <1>1, <1>2, <1>3, CommandGoesOn

\* What is sent, or is not.
LEMMA SendingTyped ==
  ASSUME CommandInv, NEW c \in Commands, Shown,
         Forbidden(c) \/ Acknowledged(c) \/ Rejected(c) \/ Unanswered(c)
  PROVE  CommandInv'
  <1>1. cmd[c].stage = "sending"
    BY DEF Forbidden, Acknowledged, Rejected, Unanswered
  <1>2. Legal(cmd[c]) /\ DeviceTyped /\ late \subseteq Writes
    BY <1>1 DEF CommandInv, Admissible
  <1>3. WritesOf(c) \in Seq(Writes) /\ Len(WritesOf(c)) \in 1..2
    BY <1>2, WritesTyped
  <1> DEFINE first(n) == SubSeq(WritesOf(c), 1, n)
  <1>4. ASSUME NEW n \in 0..Len(WritesOf(c)) PROVE first(n) \in Seq(Writes)
    BY <1>3
  <1>5. ASSUME NEW writes \in Seq(Writes), device' = Apply(device, writes) PROVE DeviceTyped'
    BY <1>2, <1>5, AppliedTyped DEF DeviceTyped
  <1> HIDE DEF first
  <1>6. CASE Forbidden(c)
    <2>1. DeviceTyped' /\ late' \subseteq Writes /\ UNCHANGED <<history, backedUp>> /\ End(c, "failed")
      BY <1>6 DEF Forbidden, CommandInv, DeviceTyped, Writes
    <2> QED BY <1>1, <2>1, CommandEnds DEF Final
  <1>7. CASE Rejected(c)
    <2>1. PICK n \in 0..(Len(WritesOf(c)) - 1) : device' = Apply(device, first(n))
      BY <1>7 DEF Rejected, first
    <2>4. n \in 0..Len(WritesOf(c))
      BY <1>3
    <2>2. DeviceTyped'
      BY <1>4, <1>5, <2>1, <2>4
    <2>3. late' \subseteq Writes /\ UNCHANGED <<history, backedUp>> /\ End(c, "failed")
      BY <1>7 DEF Rejected, CommandInv, Writes
    <2> QED BY <1>1, <2>2, <2>3, CommandEnds DEF Final
  <1>8. CASE Unanswered(c)
    <2>1. PICK n \in 1..Len(WritesOf(c)) : /\ device' = Apply(device, first(n - 1))
                                           /\ late' \in {late, {WritesOf(c)[n]}}
      BY <1>8 DEF Unanswered, first
    <2>5. n - 1 \in 0..Len(WritesOf(c))
      BY <1>3
    <2>2. DeviceTyped'
      BY <1>4, <1>5, <2>1, <2>5
    <2>3. WritesOf(c)[n] \in Writes
      BY <1>3
    <2>4. late' \subseteq Writes /\ UNCHANGED <<history, backedUp>> /\ End(c, "timed-out")
      BY <1>2, <1>8, <2>1, <2>3 DEF Unanswered
    <2> QED BY <1>1, <2>2, <2>4, CommandEnds DEF Final
  <1>9. CASE Acknowledged(c)
    <2> DEFINE reached == IF cmd[c].action = "setting" THEN "setting" ELSE "mode"
               moved == [cmd[c] EXCEPT !.stage = reached]
               once == Recorded(log[c], "acknowledged")
               events == Recorded(once, "verifying")
    <2>1. /\ cmd' = [cmd EXCEPT ![c] = moved] /\ log' = [log EXCEPT ![c] = events]
          /\ device' = Apply(device, WritesOf(c)) /\ UNCHANGED <<late, history, backedUp>>
      BY <1>9 DEF Acknowledged
    <2>2. reached \in Stages \ {"none"} /\ reached \in {"mode", "setting"}
      BY DEF Stages
    <2>3. Admissible(moved) /\ moved.stage = reached
      <3> HIDE DEF reached
      <3> QED BY <1>1, <2>2, CommandStaged
    <2>4. DeviceTyped' /\ late' \subseteq Writes
      BY <1>2, <1>3, <1>5, <2>1 DEF Writes
    <2>5. log[c] \in Seq(Receipts!States) /\ Len(log[c]) <= 2 /\ Len(log[c]) \in Nat
      <3>1. log[c] \in Seq(Receipts!States) /\ Bounded(cmd[c], log[c])
        BY DEF CommandInv
      <3> QED BY <1>1, <3>1 DEF EventsBy, Bounded
    <2>6. once \in Seq(Receipts!States) /\ Len(once) <= 3 /\ Len(once) \in Nat
      BY <2>5, RecordedLength DEF Receipts!States
    <2> HIDE DEF once
    <2>7. events \in Seq(Receipts!States) /\ Len(events) <= 4 /\ Len(events) \in Nat
      BY <2>6, RecordedLength DEF Receipts!States
    <2> HIDE DEF moved, events, reached
    <2>8. Bounded(moved, events)
      BY <2>2, <2>3, <2>7 DEF EventsBy, Bounded
    <2>9. GoesFrom(cmd[c], moved)
      BY <1>1, <2>2, <2>3 DEF EventsBy, GoesFrom
    <2> QED BY <2>1, <2>3, <2>4, <2>7, <2>8, <2>9, CommandChanged
  <1> QED BY <1>6, <1>7, <1>8, <1>9

\* What happens around the commands.
LEMMA AroundTyped ==
  ASSUME CommandInv, ((Lands \/ BackUp \/ Closes \/ Opens) /\ Shown) \/ UNCHANGED <<vars, shown>> \/ Stop
  PROVE  CommandInv'
  <1>1. CASE Lands /\ Shown
    <2>1. PICK w \in late : device' = Apply(device, <<w>>) /\ late' = late \ {w}
      BY <1>1 DEF Lands
    <2>2. DeviceTyped /\ w \in Writes
      BY DEF CommandInv
    <2>3. <<w>> \in Seq(Writes)
      BY <2>2
    <2>4. DeviceTyped'
      BY <2>1, <2>2, <2>3, AppliedTyped DEF DeviceTyped
    <2>5. UNCHANGED <<cmd, log, history, backedUp>> /\ late' \subseteq Writes
      BY <1>1, <2>1 DEF Lands, CommandInv
    <2>6. shown' = shown
      BY <1>1, <2>5 DEF Shown
    <2> QED BY <2>4, <2>5, <2>6 DEF CommandInv, Admissible, Legal, Bounded
  <1>2. ASSUME NEW c \in Commands
        PROVE  Bounded(cmd[c], log[c]) /\ Bounded(cmd[c], backedUp[c]) /\ Bounded(cmd[c], NoEvents[c])
    <2>1. cmd[c].stage \in Stages /\ Bounded(cmd[c], log[c]) /\ Bounded(cmd[c], backedUp[c])
      BY DEF CommandInv, Admissible, CommandRecord
    <2>2. NoEvents[c] = <<>> /\ Len(<<>>) = 0
      BY DEF NoEvents
    <2>3. 0 <= EventsBy[cmd[c].stage]
      BY <2>1 DEF EventsBy, Stages
    <2> QED BY <2>1, <2>2, <2>3 DEF Bounded
  <1>3. NoEvents \in [Commands -> Seq(Receipts!States)]
    BY DEF NoEvents
  <1>4. CASE ((BackUp \/ Closes \/ Opens) /\ Shown) \/ UNCHANGED <<vars, shown>>
    <2>1. /\ UNCHANGED <<cmd, device, late>> /\ history' \in {history, "closed", "reopened"}
          /\ log' \in {log, backedUp, NoEvents} /\ backedUp' \in {log, backedUp}
      BY <1>4 DEF BackUp, Closes, Opens, Reopened, vars
    <2>2. shown' = shown
      BY <1>4, <2>1 DEF Shown
    <2>3. \A c \in Commands : Bounded(cmd[c], log'[c]) /\ Bounded(cmd[c], backedUp'[c])
      BY <1>2, <2>1
    <2>4. log' \in [Commands -> Seq(Receipts!States)] /\ backedUp' \in [Commands -> Seq(Receipts!States)]
      BY <1>3, <2>1 DEF CommandInv
    <2> QED BY <2>1, <2>2, <2>3, <2>4 DEF CommandInv, Admissible, Legal, Bounded, DeviceTyped
  <1>5. CASE Stop
    <2>1. /\ cmd' = [c \in Commands |-> IF cmd[c].stage = "none" THEN cmd[c] ELSE [cmd[c] EXCEPT !.stage = "done"]]
          /\ late' \in {late} \cup {{WritesOf(c)[1]} : c \in {d \in Commands : cmd[d].stage = "sending"}}
          /\ history' \in {history, "reopened"} /\ log' \in {log, backedUp, NoEvents}
          /\ UNCHANGED <<device, backedUp, shown>>
      BY <1>5 DEF Stop, Crash, Reopened
    <2>2. ASSUME NEW c \in Commands, NEW events \in Seq(Receipts!States), Bounded(cmd[c], events)
          PROVE  Admissible(cmd'[c]) /\ Bounded(cmd'[c], events)
      <3>1. Admissible(cmd[c]) /\ cmd[c].stage \in Stages
        BY DEF CommandInv, Admissible, CommandRecord
      <3>2. CASE cmd[c].stage = "none"
        BY <2>1, <2>2, <3>1, <3>2
      <3>3. CASE cmd[c].stage # "none"
        <4> DEFINE ended == [cmd[c] EXCEPT !.stage = "done"]
        <4>1. Admissible(ended) /\ ended.stage = "done"
          BY <3>3, CommandStaged DEF Stages
        <4>2. cmd'[c] = ended
          BY <2>1, <3>3
        <4> HIDE DEF ended
        <4>3. GoesFrom(cmd[c], ended) /\ ended.stage \in Stages
          BY <3>1, <4>1 DEF GoesFrom, EventsBy, Stages
        <4> QED BY <2>2, <3>1, <4>1, <4>2, <4>3, BoundedOn
      <3> QED BY <3>2, <3>3
    <2>3. late' \subseteq Writes
      <3>1. ASSUME NEW c \in Commands, cmd[c].stage = "sending" PROVE WritesOf(c)[1] \in Writes
        <4>1. Legal(cmd[c])
          BY <3>1 DEF CommandInv, Admissible
        <4>2. WritesOf(c) \in Seq(Writes) /\ Len(WritesOf(c)) \in 1..2
          BY <4>1, WritesTyped
        <4> QED BY <4>2
      <3> QED BY <2>1, <3>1 DEF CommandInv
    <2>4. /\ log' \in [Commands -> Seq(Receipts!States)] /\ backedUp' \in [Commands -> Seq(Receipts!States)]
          /\ DeviceTyped' /\ history' \in {"open", "closed", "reopened"} /\ shown' \subseteq Commands
      BY <1>3, <2>1 DEF CommandInv, DeviceTyped
    <2>5. \A c \in Commands : /\ Bounded(cmd[c], log'[c]) /\ log'[c] \in Seq(Receipts!States)
                              /\ Bounded(cmd[c], backedUp'[c]) /\ backedUp'[c] \in Seq(Receipts!States)
      BY <1>2, <2>1, <2>4
    <2>6. \A c \in Commands : Admissible(cmd'[c]) /\ Bounded(cmd'[c], log'[c]) /\ Bounded(cmd'[c], backedUp'[c])
      BY <2>2, <2>5
    <2>7. cmd' \in [Commands -> CommandRecord]
      BY <2>1, <2>6 DEF Admissible
    <2> QED BY <2>3, <2>4, <2>6, <2>7 DEF CommandInv, Admissible, Legal, Bounded, Writes
  <1> QED BY <1>1, <1>4, <1>5

\* A command of no step changes nothing of its type; with the status it is CommandsTypeOK.
StatusTyped ==
  /\ StatusInv
  /\ version \in Nat
  /\ waiting \subseteq Callers /\ (refresh.at = "none" => waiting = {})

\* Every step keeps the types of the commands and of the status.
LEMMA CommandsTyped ==
  ASSUME CommandInv, StatusTyped, [CommandsNext]_allVars
  PROVE  CommandInv' /\ StatusTyped'
  <1>1. CommandInv'
    <2>1. ASSUME NEW c \in Commands, Acknowledge(c) /\ Shown PROVE CommandInv'
      BY <2>1, SendingTyped DEF Acknowledge
    <2>2. ASSUME NEW c \in Commands, Shown,
                 \/ (\E q \in Requests[c] : Ask(c, q)) \/ Refused(c) \/ Admitted(c)
                 \/ Forbidden(c) \/ Rejected(c) \/ Unanswered(c) \/ Verify(c)
          PROVE  CommandInv'
      BY <2>2, RequestTyped, SendingTyped, VerifyTyped
    <2>3. CASE ((Lands \/ BackUp \/ Closes \/ Opens) /\ Shown) \/ UNCHANGED <<vars, shown>> \/ Stop
      BY <2>3, AroundTyped
    <2> QED BY <2>1, <2>2, <2>3 DEF CommandsNext, Unacknowledged, allVars
  <1>2. \/ StatusStep \/ Invalidate \/ StatusCrash \/ UNCHANGED <<version, statusVars>>
    BY DEF CommandsNext, Acknowledge, Stop, allVars
  <1>3. StatusInv'
    BY <1>2, StatusSteps DEF StatusTyped
  <1>4. (version \in Nat /\ waiting \subseteq Callers /\ (refresh.at = "none" => waiting = {}))'
    <2>1. CASE StatusStep
      BY <2>1 DEF StatusTyped, StatusInv, RefreshInv, StatusStep, RefreshStep, Get, Finish, FailRefresh,
                  NoRefresh
    <2>2. CASE Invalidate
      <3>1. CASE refresh.at = "none"
        BY <2>2, <3>1 DEF StatusTyped, Invalidate
      <3>2. CASE refresh.at # "none"
        <4>1. refresh'.at = "reading"
          BY <2>2, <3>2 DEF StatusTyped, StatusInv, RefreshInv, Invalidate
        <4> QED BY <2>2, <4>1 DEF StatusTyped, Invalidate
      <3> QED BY <3>1, <3>2
    <2>3. CASE StatusCrash \/ UNCHANGED <<version, statusVars>>
      BY <2>3 DEF StatusTyped, StatusCrash, statusVars, NoRefresh
    <2> QED BY <1>2, <2>1, <2>2, <2>3
  <1> QED BY <1>1, <1>3, <1>4 DEF StatusTyped

\* Before the first command the types hold.
LEMMA CommandsBeginTyped == CommandsInit => CommandInv /\ StatusTyped
  <1> SUFFICES ASSUME CommandsInit PROVE CommandInv /\ StatusTyped
    OBVIOUS
  <1> USE DEF CommandsInit, Init, NoEvents
  <1>1. Idle \in CommandRecord /\ Idle.stage = "none" /\ Idle.attempt = 0
    BY DEF Idle, CommandRecord, Stages
  <1>2. \A c \in Commands : Admissible(cmd[c]) /\ Bounded(cmd[c], log[c]) /\ Bounded(cmd[c], backedUp[c])
    <2>1. Len(<<>>) = 0 /\ EventsBy["none"] = 0
      BY DEF EventsBy, Bounded
    <2>2. Admissible(Idle) /\ Bounded(Idle, <<>>)
      BY <1>1, <2>1, AttemptsAssumption DEF Admissible, Bounded
    <2> QED BY <2>2
  <1>3. DeviceTyped
    BY DEF DeviceTyped, Modes
  <1>4. CommandInv
    BY <1>1, <1>2, <1>3 DEF CommandInv
  <1>5. StatusTyped
    BY DEF StatusInit, StatusTyped, StatusInv, RefreshInv, StaleOnlyWhenCrossed, NoRefresh
  <1> QED BY <1>4, <1>5

\* What the steps keep is the type invariant the runs check.
LEMMA CommandTypes == CommandInv /\ StatusTyped => CommandsTypeOK
  <1> SUFFICES ASSUME CommandInv, StatusTyped PROVE CommandsTypeOK
    OBVIOUS
  <1>1. cmd \in [Commands -> [stage : Stages, action : Kinds \cup {None},
                              want : Modes \cup Values \cup {None}, background : BOOLEAN,
                              attempt : 0..(MaxAttempts - 1), readable : BOOLEAN]]
    <2>1. ASSUME NEW c \in Commands
          PROVE  cmd[c] \in [stage : Stages, action : Kinds \cup {None},
                             want : Modes \cup Values \cup {None}, background : BOOLEAN,
                             attempt : 0..(MaxAttempts - 1), readable : BOOLEAN]
      BY DEF CommandInv, Admissible, CommandRecord
    <2> QED BY <2>1 DEF CommandInv
  <1>2. \A c \in Commands : Len(log[c]) <= 5 /\ Len(backedUp[c]) <= 5
    <2>1. ASSUME NEW c \in Commands PROVE Len(log[c]) <= 5 /\ Len(backedUp[c]) <= 5
      <3>1. log[c] \in Seq(Receipts!States) /\ cmd[c].stage \in Stages /\ Bounded(cmd[c], log[c])
        BY DEF CommandInv, Admissible, CommandRecord
      <3>2. backedUp[c] \in Seq(Receipts!States) /\ Bounded(cmd[c], backedUp[c])
        BY DEF CommandInv
      <3> QED BY <3>1, <3>2 DEF Bounded, EventsBy, Stages
    <2> QED BY <2>1
  <1>3. device.mode \in Modes /\ {device.target, device.setting} \subseteq Values \cup {None}
    BY DEF CommandInv, DeviceTyped
  <1>4. StatusTypeOK
    BY DEF StatusTyped, StatusInv, RefreshInv, StatusTypeOK, NoRefresh
  <1> QED BY <1>1, <1>2, <1>3, <1>4 DEF CommandInv, CommandsTypeOK, CommandTypeOK

-----------------------------------------------------------------------------
\* "No file" is none of the contents of a file.
FileAssumption == NoFile \notin {"original", "backup", "empty"}

-----------------------------------------------------------------------------
(* The inductive invariant.                                                   *)

Down == {"down"} \cup Starting
Begun == {"extract", "safety"}              \* nothing is stopped yet
Intact == {"drain", "clear", "move"}        \* the database is in its place
Replaced == {"history", "documents", "discard"}
Closed == {"clear", "move", "swap", "history"} \cup Rollback
Returned == {"undo-history", "undo-documents"} \cup Reopen
Away == {"swap", "undo-remove", "undo-move"} \cup Replaced

Types ==
  /\ trouble \in Nat
  /\ at \in {"none"} \cup Down \cup Forward \cup Rollback \cup Reopen \cup FinalAttempt
  /\ operation \in {"idle", "busy", "complete", "failed"}
  /\ at # "none" => operation \notin {"complete", "failed"}

\* Where the database of before is, and that it is somewhere.
Kept ==
  /\ safety \/ (database = "original" /\ at \in {"none"} \cup Down \cup Begun)
  /\ at \in Begun \cup Intact \cup Returned => database = before
  /\ at \in Intact \cup Returned \cup Away => before # NoFile
  /\ at \in Away => aside = before
  /\ at \in Replaced => database = "backup"

\* A backup that does not open is never the database of an open application; where it
\* might be taken for one, two things went wrong.
Fitting ==
  /\ documents /\ database = "backup" => fits
  /\ at \in {"none"} \cup Begun \cup Intact \cup Returned /\ database = "backup" /\ ~fits =>
       Wrong >= 2
  /\ at \in Away /\ aside = "backup" /\ ~fits => Wrong >= 2

\* What is open and at work, and how much went wrong on the way.
Working ==
  /\ at \in Down \cup Intact \cup Away \cup Rollback \cup Reopen \cup FinalAttempt => ~background
  /\ at \in Begun \cup {"drain"} => ready
  /\ at \in Intact \cup Away \cup Rollback \cup Reopen \cup FinalAttempt => stopped
  /\ at \in Begun => ~stopped
  /\ at \in Closed => ~documents
  /\ at \in {"start-documents", "start-state", "documents", "discard",
             "undo-documents", "reopen-documents", "last-documents"} => historyStore
  /\ at \in {"start-state", "discard"} => documents
  /\ at \in {"none"} \cup Begun /\ Wrong <= 1 => background
  /\ at = "drain" /\ Wrong <= 1 => historyStore /\ documents
  /\ at \in Rollback \cup Reopen => Wrong >= 1
  /\ at \in FinalAttempt => Wrong >= 2

RestoreInv == Types /\ Kept /\ Fitting /\ Working /\ RestoreAllOrNothing

\* The start, and its failure.
LEMMA StartSteps ==
  ASSUME FileAssumption, RestoreInv, before' = before,
         Start \/ StartHistory \/ StartDocuments \/ StartState \/ StartFails
  PROVE  RestoreInv'
  <1> USE DEF RestoreInv, Types, Kept, Fitting, Working, RestoreAllOrNothing, Wrong, FileAssumption,
           Down, Begun, Intact, Replaced, Closed, Returned, Away,
           Starting, Forward, Rollback, Reopen, FinalAttempt
  <1>1. CASE Start
    BY <1>1 DEF Start, files, stores
  <1>2. CASE StartHistory
    BY <1>2 DEF StartHistory, OpenHistory, Opened
  <1>3. CASE StartDocuments
    BY <1>3 DEF StartDocuments, OpenDocuments, Refuses, files
  <1>4. CASE StartState
    BY <1>4 DEF StartState, files, stores
  <1>5. CASE StartFails
    BY <1>5 DEF StartFails, Unless, Fails, Works, Refuses, files, stores
  <1> QED
    BY <1>1, <1>2, <1>3, <1>4, <1>5

\* The restore as long as nothing fails.
LEMMA RestoreSteps ==
  ASSUME FileAssumption, RestoreInv, before' = before,
         Extract \/ Safety \/ Drain \/ Clear \/ Move \/ Swap \/ History \/ Documents \/ Discard
  PROVE  RestoreInv'
  <1> USE DEF RestoreInv, Types, Kept, Fitting, Working, RestoreAllOrNothing, Wrong, FileAssumption,
           Down, Begun, Intact, Replaced, Closed, Returned, Away,
           Starting, Forward, Rollback, Reopen, FinalAttempt
  <1>1. CASE Extract
    BY <1>1 DEF Extract, Goes, Same, stores
  <1>2. CASE Safety
    <2>1. Types'
      BY <1>2 DEF Safety, Goes, stores
    <2>2. Kept'
      BY <1>2 DEF Safety, Goes, stores
    <2>3. Fitting'
      BY <1>2 DEF Safety, Goes, stores
    <2>4. Working'
      BY <1>2 DEF Safety, Goes, stores
    <2>5. RestoreAllOrNothing'
      BY <1>2 DEF Safety, Goes, stores
    <2> QED
      BY <2>1, <2>2, <2>3, <2>4, <2>5
  <1>3. CASE Drain
    BY <1>3 DEF Drain, Goes, files
  <1>4. CASE Clear
    BY <1>4 DEF Clear, Goes, Same, files, stores
  <1>5. CASE Move
    BY <1>5 DEF Move, Goes, Same, stores
  <1>6. CASE Swap
    BY <1>6 DEF Swap, Goes, Same, stores
  <1>7. CASE History
    BY <1>7 DEF History, Goes, Same, OpenHistory, Opened
  <1>8. CASE Documents
    BY <1>8 DEF Documents, Goes, OpenDocuments, Refuses, files
  <1>9. CASE Discard
    BY <1>9 DEF Discard, Goes, stores
  <1> QED
    BY <1>1, <1>2, <1>3, <1>4, <1>5, <1>6, <1>7, <1>8, <1>9

\* The way back.
LEMMA UndoSteps ==
  ASSUME FileAssumption, RestoreInv, before' = before,
         \/ UndoRemove \/ UndoMove \/ UndoHistory \/ ReopenHistory \/ LastHistory
         \/ Recovered \/ FailAgain \/ FailLast
  PROVE  RestoreInv'
  <1> USE DEF RestoreInv, Types, Kept, Fitting, Working, RestoreAllOrNothing, Wrong, FileAssumption,
           Down, Begun, Intact, Replaced, Closed, Returned, Away,
           Starting, Forward, Rollback, Reopen, FinalAttempt
  <1>1. CASE UndoRemove
    BY <1>1 DEF UndoRemove, Goes, Same, stores
  <1>2. CASE UndoMove
    BY <1>2 DEF UndoMove, Goes, Same, stores
  <1>3. CASE UndoHistory
    BY <1>3 DEF UndoHistory, Goes, Same, OpenHistory, Opened
  <1>4. CASE ReopenHistory
    BY <1>4 DEF ReopenHistory, Goes, Same, OpenHistory, Opened
  <1>5. CASE LastHistory
    BY <1>5 DEF LastHistory, Goes, Same, OpenHistory, Opened
  <1>6. CASE Recovered
    <2>1. PICK step \in {"undo-documents", "reopen-documents", "last-documents"} : at = step
      BY <1>6 DEF Recovered
    <2>2. CASE at = "undo-documents"
      <3>1. Types'
        BY <1>6, <2>2 DEF Recovered, Refuses, Ends
      <3>2. Kept'
        BY <1>6, <2>2 DEF Recovered, Refuses, Ends
      <3>3. Fitting'
        BY <1>6, <2>2 DEF Recovered, Refuses, Ends
      <3>4. Working'
        BY <1>6, <2>2 DEF Recovered, Refuses, Ends
      <3>5. RestoreAllOrNothing'
        BY <1>6, <2>2 DEF Recovered, Refuses, Ends
      <3> QED
        BY <3>1, <3>2, <3>3, <3>4, <3>5
    <2>3. CASE at = "reopen-documents"
      <3>1. Types'
        BY <1>6, <2>3 DEF Recovered, Refuses, Ends
      <3>2. Kept'
        BY <1>6, <2>3 DEF Recovered, Refuses, Ends
      <3>3. Fitting'
        BY <1>6, <2>3 DEF Recovered, Refuses, Ends
      <3>4. Working'
        BY <1>6, <2>3 DEF Recovered, Refuses, Ends
      <3>5. RestoreAllOrNothing'
        BY <1>6, <2>3 DEF Recovered, Refuses, Ends
      <3> QED
        BY <3>1, <3>2, <3>3, <3>4, <3>5
    <2>4. CASE at = "last-documents"
      <3>1. Types'
        BY <1>6, <2>4 DEF Recovered, Refuses, Ends
      <3>2. Kept'
        BY <1>6, <2>4 DEF Recovered, Refuses, Ends
      <3>3. Fitting'
        BY <1>6, <2>4 DEF Recovered, Refuses, Ends
      <3>4. Working'
        BY <1>6, <2>4 DEF Recovered, Refuses, Ends
      <3>5. RestoreAllOrNothing'
        BY <1>6, <2>4 DEF Recovered, Refuses, Ends
      <3> QED
        BY <3>1, <3>2, <3>3, <3>4, <3>5
    <2> QED
      BY <2>1, <2>2, <2>3, <2>4
  <1>7. CASE FailAgain
    BY <1>7 DEF FailAgain, Unless, Fails, Works, Refuses, files, stores
  <1>8. CASE FailLast
    <2>1. Types' /\ Kept' /\ Fitting'
      BY <1>8 DEF FailLast, Unless, Fails, Works, Refuses, Ends, stores
    <2>2. Working'
      BY <1>8 DEF FailLast, Unless, Fails, Works, Refuses, Ends, stores
    <2>3. RestoreAllOrNothing'
      <3>1. ~background' /\ operation' = "failed"
        BY <1>8 DEF FailLast, Ends
      <3>2. ~(Wrong' <= 1)
        BY <1>8 DEF FailLast, Unless, Fails, Works, Refuses
      <3>3. database' = "original" \/ aside' = "original" \/ safety'
        BY <1>8 DEF FailLast
      <3> QED
        BY <3>1, <3>2, <3>3
    <2> QED
      BY <2>1, <2>2, <2>3
  <1> QED
    BY <1>1, <1>2, <1>3, <1>4, <1>5, <1>6, <1>7, <1>8

\* A step of the restore fails.
LEMMA FailSteps ==
  ASSUME FileAssumption, RestoreInv, before' = before,
         Fail
  PROVE  RestoreInv'
  <1> USE DEF RestoreInv, Types, Kept, Fitting, Working, RestoreAllOrNothing, Wrong, FileAssumption,
           Down, Begun, Intact, Replaced, Closed, Returned, Away,
           Starting, Forward, Rollback, Reopen, FinalAttempt
  <1>1. CASE at \in Begun \cup {"drain"}
    <2>1. at' = "none" /\ operation' = "failed"
      BY <1>1 DEF Fail, Ends
    <2>2. UNCHANGED <<database, aside, safety, fits, stores, ready, stopped>>
      BY <1>1 DEF Fail
    <2>3. background' = (background \/ stopped)
      BY <1>1 DEF Fail, Ends
    <2>4. trouble' = trouble \/ trouble' = trouble + 1
      BY DEF Fail, Unless, Fails, Works
    <2>5. Types' /\ Kept' /\ Fitting'
      BY <1>1, <2>1, <2>2, <2>4 DEF stores
    <2>6. Working' /\ RestoreAllOrNothing'
      <3>1. CASE at \in Begun
        <4>1. background' <=> background
          BY <2>3, <3>1
        <4> QED
          BY <2>1, <2>2, <2>4, <3>1, <4>1 DEF stores
      <3>2. CASE at = "drain"
        <4>1. trouble' = trouble + 1
          BY <3>2 DEF Fail, Unless, Fails
        <4>2. background'
          BY <2>3, <3>2
        <4> QED
          BY <2>1, <2>2, <3>2, <4>1, <4>2 DEF stores
      <3> QED
        BY <1>1, <3>1, <3>2
    <2> QED
      BY <2>5, <2>6
  <1>2. CASE at \in {"clear", "move"}
    <2>1. Types'
      BY <1>2 DEF Fail, Unless, Fails, Works, Refuses, Ends, stores
    <2>2. Kept'
      BY <1>2 DEF Fail, Unless, Fails, Works, Refuses, Ends, stores
    <2>3. Fitting'
      BY <1>2 DEF Fail, Unless, Fails, Works, Refuses, Ends, stores
    <2>4. Working'
      BY <1>2 DEF Fail, Unless, Fails, Works, Refuses, Ends, stores
    <2>5. RestoreAllOrNothing'
      BY <1>2 DEF Fail, Unless, Fails, Works, Refuses, Ends, stores
    <2> QED
      BY <2>1, <2>2, <2>3, <2>4, <2>5
  <1>3. CASE at \in {"swap", "history", "documents", "discard"}
    <2>1. Types'
      BY <1>3 DEF Fail, Unless, Fails, Works, Refuses, Ends, stores
    <2>2. Kept'
      BY <1>3 DEF Fail, Unless, Fails, Works, Refuses, Ends, stores
    <2>3. Fitting'
      BY <1>3 DEF Fail, Unless, Fails, Works, Refuses, Ends, stores
    <2>4. Working'
      BY <1>3 DEF Fail, Unless, Fails, Works, Refuses, Ends, stores
    <2>5. RestoreAllOrNothing'
      BY <1>3 DEF Fail, Unless, Fails, Works, Refuses, Ends, stores
    <2> QED
      BY <2>1, <2>2, <2>3, <2>4, <2>5
  <1> QED
    BY <1>1, <1>2, <1>3 DEF Fail

\* The process stops.
LEMMA StopSteps ==
  ASSUME FileAssumption, RestoreInv, before' = before,
         Stops
  PROVE  RestoreInv'
  <1> USE DEF RestoreInv, Types, Kept, Fitting, Working, RestoreAllOrNothing, Wrong, FileAssumption,
           Down, Begun, Intact, Replaced, Closed, Returned, Away,
           Starting, Forward, Rollback, Reopen, FinalAttempt
  <1>1. Types'
    BY DEF Stops, Fails, files
  <1>2. Kept'
    BY DEF Stops, Fails, files
  <1>3. Fitting'
    BY DEF Stops, Fails, files
  <1>4. Working'
    BY DEF Stops, Fails, files
  <1>5. RestoreAllOrNothing'
    BY DEF Stops, Fails, files
  <1> QED
    BY <1>1, <1>2, <1>3, <1>4, <1>5

\* The restore begins.
LEMMA RestoreBegins ==
  ASSUME FileAssumption, RestoreInv, Restore
  PROVE  RestoreInv'
  <1> USE DEF RestoreInv, Types, Kept, Fitting, Working, RestoreAllOrNothing, Wrong, FileAssumption,
           Down, Begun, Intact, Replaced, Closed, Returned, Away,
           Starting, Forward, Rollback, Reopen, FinalAttempt
  <1> QED
    BY DEF Restore, files, stores

\* Every step leaves the database in a state of its types; what is read of a step may
\* be any of its awaits.
LEMMA DatabaseTyped ==
  ASSUME DatabaseTypeOK, [DatabaseNext]_databaseVars
  PROVE  DatabaseTypeOK'
  <1> USE DEF DatabaseTypeOK, Starting, Forward, Rollback, Reopen, FinalAttempt, files, stores, Goes, Same, Opened,
              OpenHistory, OpenDocuments
  <1>1. CASE Restore
    BY <1>1 DEF Restore
  <1>2. CASE StartStep
    <2>1. CASE Start
      BY <2>1 DEF Start
    <2>2. CASE StartHistory
      BY <2>2 DEF StartHistory
    <2>3. CASE StartDocuments
      BY <2>3 DEF StartDocuments
    <2>4. CASE StartState
      BY <2>4 DEF StartState
    <2>5. CASE StartFails
      BY <2>5 DEF StartFails
    <2> QED BY <1>2, <2>1, <2>2, <2>3, <2>4, <2>5 DEF StartStep
  <1>3. CASE Extract \/ Safety \/ Drain \/ Clear \/ Move
    <2>1. CASE Safety
      BY <2>1 DEF Safety
    <2>2. CASE Extract
      BY <2>2 DEF Extract
    <2>3. CASE Drain
      BY <2>3 DEF Drain
    <2>4. CASE Clear
      BY <2>4 DEF Clear
    <2>5. CASE Move
      BY <2>5 DEF Move
    <2> QED BY <1>3, <2>1, <2>2, <2>3, <2>4, <2>5
  <1>4. CASE Swap \/ History \/ Documents \/ Discard
    <2>1. CASE Swap
      BY <2>1 DEF Swap
    <2>2. CASE History
      BY <2>2 DEF History
    <2>3. CASE Documents
      BY <2>3 DEF Documents
    <2>4. CASE Discard
      BY <2>4 DEF Discard
    <2> QED BY <1>4, <2>1, <2>2, <2>3, <2>4
  <1>5. CASE Fail
    <2>1. CASE at \in {"extract", "safety", "drain"} /\ Ends(ready) /\ UNCHANGED <<database, aside, stores, ready>>
      BY <1>5, <2>1 DEF Fail, Ends
    <2>2. CASE at' \in {"reopen-history", "undo-remove"} /\ UNCHANGED <<database, aside, extracted, operation>>
      <3>1. ready' \in BOOLEAN /\ at \in Forward /\ UNCHANGED <<safety, fits, stopped>>
        BY <1>5 DEF Fail
      <3> QED BY <2>2, <3>1
    <2> QED BY <1>5, <2>1, <2>2 DEF Fail
  <1>6. CASE UndoRemove \/ UndoMove \/ UndoHistory \/ ReopenHistory \/ LastHistory
    <2>1. CASE UndoRemove
      BY <2>1 DEF UndoRemove
    <2>2. CASE UndoMove
      BY <2>2 DEF UndoMove
    <2>3. CASE UndoHistory
      BY <2>3 DEF UndoHistory
    <2>4. CASE ReopenHistory
      BY <2>4 DEF ReopenHistory
    <2>5. CASE LastHistory
      BY <2>5 DEF LastHistory
    <2> QED BY <1>6, <2>1, <2>2, <2>3, <2>4, <2>5
  <1>7. CASE Recovered \/ FailAgain \/ FailLast
    <2>1. CASE Recovered
      BY <2>1 DEF Recovered, Ends
    <2>2. CASE FailAgain
      BY <2>2 DEF FailAgain
    <2>3. CASE FailLast
      BY <2>3 DEF FailLast, Ends
    <2> QED BY <1>7, <2>1, <2>2, <2>3
  <1>8. CASE Stops
    BY <1>8 DEF Stops
  <1>9. CASE UNCHANGED databaseVars
    BY <1>9 DEF databaseVars
  <1> QED BY <1>1, <1>2, <1>3, <1>4, <1>5, <1>6, <1>7, <1>8, <1>9 DEF DatabaseNext, RestoreStep

-----------------------------------------------------------------------------
DatabaseSpec == DatabaseInit /\ [][DatabaseNext]_databaseVars

(* RestoreAllOrNothing, for any number of failed steps and stops of the process: *)
(* the database of before is never without a copy, a restore reported complete   *)
(* has put the backup in place, and after one failure the database of before is  *)
(* open again with the background work running.                               *)
THEOREM RestoreIsAllOrNothing ==
  ASSUME FileAssumption
  PROVE  DatabaseSpec => []RestoreAllOrNothing
  <1>1. DatabaseInit => RestoreInv
    BY DEF DatabaseInit, RestoreInv, Types, Kept, Fitting, Working, RestoreAllOrNothing, Wrong,
           Down, Begun, Intact, Replaced, Closed, Returned, Away,
           Starting, Forward, Rollback, Reopen, FinalAttempt
  <1>2. ASSUME RestoreInv, [DatabaseNext]_databaseVars
        PROVE  RestoreInv'
    <2>1. CASE Restore
      BY <1>2, <2>1, RestoreBegins
    <2>2. CASE StartStep /\ before' = before
      BY <1>2, <2>2, StartSteps DEF StartStep
    <2>3. CASE RestoreStep /\ before' = before
      BY <1>2, <2>3, RestoreSteps, UndoSteps, FailSteps DEF RestoreStep
    <2>4. CASE Stops /\ before' = before
      BY <1>2, <2>4, StopSteps
    <2>5. CASE UNCHANGED databaseVars
      BY <1>2, <2>5 DEF databaseVars, files, stores, RestoreInv, Types, Kept, Fitting, Working,
                        RestoreAllOrNothing, Wrong
    <2> QED
      BY <1>2, <2>1, <2>2, <2>3, <2>4, <2>5 DEF DatabaseNext
  <1>3. RestoreInv => RestoreAllOrNothing
    BY DEF RestoreInv
  <1> QED
    BY <1>1, <1>2, <1>3, PTL DEF DatabaseSpec

-----------------------------------------------------------------------------
(* The history: what the interpretation of a sample says of its energies.       *)

\* What is asked of a sample that is interpreted.
Whole(raw) == {"t", "watts"} \cup Derivations \subseteq DOMAIN raw
Timed(base) == base = Absent \/ base.t \in Int

\* The sample compared with the one before it, before the powers are integrated.
Compared(raw, prev) ==
  LET sample == CompactHistorySample(raw)
      elapsed == Since(sample, prev)
      trusted(k) == SameSource(sample, prev, k)
  IN Derived(sample, prev, Counted(sample, prev, elapsed, trusted),
             IF elapsed <= MaximumGap(sample) THEN elapsed ELSE 0)

\* What the counters or the powers tell of each energy.
Base(prev, bases, k) == BaselineForMetric(prev, bases, Power(k))
Details(d, prev, bases) ==
  [k \in Integrable |-> IF k \in Circuits /\ d.watts[k] = Absent THEN Absent
                        ELSE IntervalEnergyDetails(k, d, prev, Base(prev, bases, k))]
Merged(details, f, old) ==
  [k \in Keys |-> IF k \in Integrable /\ details[k] # Absent THEN Or(details[k][f], old[k]) ELSE old[k]]

\* A compacted sample keeps its time and its powers.
LEMMA CompactFields ==
  ASSUME NEW raw, Whole(raw)
  PROVE  /\ Whole(CompactHistorySample(raw))
         /\ CompactHistorySample(raw).t = raw.t /\ CompactHistorySample(raw).watts = raw.watts
  BY DEF CompactHistorySample, Derivations, Whole

\* What is derived of a sample: its energies are those of the counters.
LEMMA DerivedFields ==
  ASSUME NEW sample, NEW prev, NEW counted, NEW interval, Whole(sample)
  PROVE  LET d == Derived(sample, prev, counted, interval)
         IN /\ Whole(d) /\ d.t = sample.t /\ d.watts = sample.watts
            /\ d.energy = Direct(sample, counted)
            /\ d.quality = [k \in Keys |-> IF Direct(sample, counted)[k] = Absent THEN Absent ELSE "counter"]
            /\ d.from = [k \in Keys |-> IF Direct(sample, counted)[k] = Absent THEN Absent ELSE prev.t]
  BY DEF Derived, Derivations, Whole

\* Compared with the sample before it, a sample has an energy only of a counter both
\* of them have; the first sample has none.
LEMMA ComparedFields ==
  ASSUME NEW raw, NEW prev, Whole(raw)
  PROVE  LET d == Compared(raw, prev)
         IN /\ Whole(d) /\ d.t = raw.t /\ d.watts = raw.watts
            /\ prev = Absent => \A k \in Keys : d.energy[k] = Absent
            /\ \A k \in Keys : d.energy[k] # Absent => d.quality[k] = "counter" /\ d.from[k] = prev.t
<1> DEFINE c == CompactHistorySample(raw)
           elapsed == Since(c, prev)
           trusted(k) == SameSource(c, prev, k)
           counted == Counted(c, prev, elapsed, trusted)
           interval == IF elapsed <= MaximumGap(c) THEN elapsed ELSE 0
           d == Derived(c, prev, counted, interval)
<1>1. Compared(raw, prev) = d
  BY DEF Compared
<1>2. Whole(c) /\ c.t = raw.t /\ c.watts = raw.watts
  BY CompactFields
<1>3. prev = Absent => \A k \in Keys : Direct(c, counted)[k] = Absent
  <2>1. prev = Absent => \A m \in Metered : counted[m].delta = Absent
    BY DEF Counted
  <2>2. Circuits \subseteq Metered
    BY DEF Metered
  <2> HIDE DEF counted, c
  <2> QED BY <2>1, <2>2 DEF Direct
<1> HIDE DEF c, counted, interval
<1>4. /\ Whole(d) /\ d.t = c.t /\ d.watts = c.watts
      /\ d.energy = Direct(c, counted)
      /\ d.quality = [k \in Keys |-> IF Direct(c, counted)[k] = Absent THEN Absent ELSE "counter"]
      /\ d.from = [k \in Keys |-> IF Direct(c, counted)[k] = Absent THEN Absent ELSE prev.t]
  BY <1>2, DerivedFields
<1> HIDE DEF d
<1> QED BY <1>1, <1>2, <1>3, <1>4

\* The powers add to what the counters said.
LEMMA EnrichedFields ==
  ASSUME NEW d, NEW prev, NEW bases, Whole(d)
  PROVE  LET e == EnrichHistorySample(d, prev, bases)
             details == Details(d, prev, bases)
         IN /\ e.t = d.t /\ e.watts = d.watts
            /\ e.energy = Merged(details, "value", d.energy)
            /\ e.quality = Merged(details, "quality", d.quality)
            /\ e.from = Merged(details, "start", d.from)
  BY DEF EnrichHistorySample, Detailed, Enriched, Derivations, Whole, Details, Base, Merged

\* What a sample says of energies when it is interpreted.
Sourced(s, raw, prev, bases) ==
  /\ s.t = raw.t /\ s.watts = raw.watts
  /\ \A k \in Keys : s.energy[k] # Absent =>
       \/ /\ s.quality[k] = "counter" /\ prev # Absent /\ s.from[k] = prev.t
       \/ /\ s.quality[k] = "integrated" /\ k \in Integrable
          /\ raw.watts[Power(k)] # Absent
          /\ Base(prev, bases, k) # Absent /\ Base(prev, bases, k).watts # Absent
          /\ s.from[k] = Base(prev, bases, k).t

\* An interpreted sample says where each of its energies comes from, and since when.
LEMMA InterpretedFields ==
  ASSUME SampleAssumption, NEW raw, NEW prev, NEW bases, Whole(raw),
         Timed(prev), \A w \in Powers : Timed(bases[w])
  PROVE  Sourced(InterpretHistorySample(raw, prev, bases), raw, prev, bases)
<1> DEFINE d == Compared(raw, prev)
           e == EnrichHistorySample(d, prev, bases)
           details == Details(d, prev, bases)
           base(k) == Base(prev, bases, k)
<1>0. e = InterpretHistorySample(raw, prev, bases)
  BY DEF InterpretHistorySample, Compared
<1>1. /\ Whole(d) /\ d.t = raw.t /\ d.watts = raw.watts
      /\ prev = Absent => \A k \in Keys : d.energy[k] = Absent
      /\ \A k \in Keys : d.energy[k] # Absent => d.quality[k] = "counter" /\ d.from[k] = prev.t
  BY ComparedFields
<1> HIDE DEF d
<1>2. /\ e.t = d.t /\ e.watts = d.watts
      /\ e.energy = Merged(details, "value", d.energy)
      /\ e.quality = Merged(details, "quality", d.quality)
      /\ e.from = Merged(details, "start", d.from)
  BY <1>1, EnrichedFields
<1> HIDE DEF e
<1>3. ASSUME NEW k \in Keys, e.energy[k] # Absent
      PROVE  \/ /\ e.quality[k] = "counter" /\ prev # Absent /\ e.from[k] = prev.t
             \/ /\ e.quality[k] = "integrated" /\ k \in Integrable
                /\ raw.watts[Power(k)] # Absent
                /\ base(k) # Absent /\ base(k).watts # Absent /\ e.from[k] = base(k).t
  <2>0. /\ "counter" # Absent /\ "integrated" # Absent /\ Absent \notin Int
    BY DEF SampleAssumption
  <2>1. CASE ~(k \in Integrable /\ details[k] # Absent)
    <3>1. /\ e.energy[k] = d.energy[k] /\ e.quality[k] = d.quality[k] /\ e.from[k] = d.from[k]
      BY <1>2, <2>1 DEF Merged
    <3> QED BY <1>1, <1>3, <3>1
  <2>2. CASE k \in Integrable /\ details[k] # Absent
    <3>1. /\ e.energy[k] = Or(details[k].value, d.energy[k])
          /\ e.quality[k] = Or(details[k].quality, d.quality[k])
          /\ e.from[k] = Or(details[k].start, d.from[k])
      BY <1>2, <2>2 DEF Merged
    <3>2. details[k] = IntervalEnergyDetails(k, d, prev, base(k))
      BY <2>2 DEF Details
    <3> HIDE DEF details
    <3>3. CASE d.energy[k] # Absent
      <4>1. d.quality[k] = "counter" /\ d.from[k] = prev.t /\ prev # Absent /\ prev.t # Absent
        BY <1>1, <3>3, <2>0 DEF Timed
      <4>2. details[k].quality = "counter" /\ details[k].start = prev.t
        BY <3>2, <3>3, <4>1, <2>0 DEF IntervalEnergyDetails, Or
      <4> QED BY <3>1, <4>1, <4>2, <2>0 DEF Or
    <3>4. CASE d.energy[k] = Absent
      <4>1. Bridged(d, base(k), Power(k))
        BY <3>2, <3>4, <2>2 DEF IntervalEnergyDetails
      <4>2. details[k].quality = "integrated" /\ details[k].start = base(k).t
        BY <3>2, <3>4, <4>1 DEF IntervalEnergyDetails
      <4>3. base(k) # Absent /\ base(k).watts # Absent /\ raw.watts[Power(k)] # Absent
        BY <4>1, <1>1 DEF Bridged
      <4>4. base(k).t # Absent
        <5>1. Power(k) \in Powers
          BY <2>2 DEF Power, Powers, Integrable
        <5> QED BY <5>1, <4>3, <2>0 DEF BaselineForMetric, Timed, Base
      <4> QED BY <3>1, <4>2, <4>3, <4>4, <2>0, <2>2 DEF Or
    <3> QED BY <3>3, <3>4
  <2> QED BY <2>1, <2>2
<1> QED BY <1>0, <1>1, <1>2, <1>3 DEF Sourced

-----------------------------------------------------------------------------
(* The newest sample of a set.                                                *)

\* The newest sample is of the set, and none is newer.
LEMMA NewestIs ==
  ASSUME NEW set, set # {}, NEW t \in Int, \A s \in set : s.t \in Int /\ s.t <= t
  PROVE  Newest(set) \in set /\ \A s \in set : s.t <= Newest(set).t
<1> DEFINE ages == {t - s.t : s \in set}
<1>1. ages \subseteq Nat /\ ages # {}
  OBVIOUS
<1>2. PICK age \in ages : \A other \in ages : age <= other
  <2> HIDE DEF ages
  <2> QED BY <1>1, LeastExists
<1>3. PICK newest \in set : age = t - newest.t
  BY <1>2
<1>4. ASSUME NEW s \in set PROVE s.t <= newest.t
  <2>1. t - newest.t <= t - s.t
    BY <1>2, <1>3
  <2> QED BY <2>1
<1> QED BY <1>3, <1>4 DEF Newest

-----------------------------------------------------------------------------
(* The invariant.                                                             *)

Committed == rolled \ undone

\* A sample that is told is stored still, or is older than all that are.
Placed(a) ==
  \/ \E s \in samples : s.t = a.t /\ s.watts = a.watts
  \/ a.t < now /\ \A s \in samples : a.t < s.t

\* An energy comes of a counter, or of powers of which one is in the sample.
Grounded(a) ==
  \A k \in Keys : a.energy[k] # Absent =>
    \/ a.quality[k] = "counter"
    \/ a.quality[k] = "integrated" /\ k \in Integrable /\ a.watts[Power(k)] # Absent

\* What the next sample is compared with is not older than what was told.
NotOvertaken(a) ==
  /\ previous # Absent => a.t <= previous.t
  /\ \A w \in Powers : baselines[w] # Absent /\ a.watts[w] # Absent => a.t <= baselines[w].t

HistoryInv ==
  /\ HistoryTypeOK
  /\ \A s \in samples : s.t <= now
  /\ \A s, r \in samples : s.t = r.t => s = r
  /\ \A a \in Committed : Placed(a) /\ Grounded(a) /\ NotOvertaken(a)
  /\ Apart(Committed)

\* What a sample is stored as.
LEMMA StoredFields ==
  ASSUME SampleAssumption, NEW s \in Samples
  PROVE  LET c == CompactHistorySample(s)
         IN Whole(c) /\ c.t = s.t /\ c.t \in Int /\ c # Absent
<1>1. Whole(s) /\ s.t \in Int /\ CompactHistorySample(s) # Absent
  BY DEF SampleAssumption, Whole
<1> QED BY <1>1, CompactFields

\* What is stored, and what is compared with, has times.
LEMMA TypedStore ==
  ASSUME SampleAssumption, HistoryTypeOK
  PROVE  /\ \A s \in samples : Whole(s) /\ s.t \in Int /\ s # Absent
         /\ previous # Absent => Whole(previous) /\ previous.t \in Int
         /\ \A w \in Powers : Timed(baselines[w])
  BY StoredFields DEF HistoryTypeOK, Timed

\* What is told of a sample that is appended.
LEMMA ToldFields ==
  ASSUME SampleAssumption, HistoryTypeOK, NEW s \in Samples
  PROVE  LET c == CompactHistorySample(s)
         IN Sourced(Told(s), c, previous, baselines) /\ Told(s).t = s.t
<1>1. Whole(CompactHistorySample(s)) /\ CompactHistorySample(s).t = s.t
  BY StoredFields
<1>2. Timed(previous) /\ \A w \in Powers : Timed(baselines[w])
  BY TypedStore DEF Timed
<1>3. Sourced(Told(s), CompactHistorySample(s), previous, baselines)
  BY <1>1, <1>2, InterpretedFields DEF Told
<1> QED BY <1>1, <1>3 DEF Sourced

\* A power that was measured replaces the last one (updateMetricBaselines).
LEMMA UpdatedBaselines ==
  ASSUME NEW c, NEW bases, NEW w \in Powers
  PROVE  UpdateMetricBaselines(bases, c)[w] =
           IF c.watts[w] = Absent THEN bases[w] ELSE [t |-> c.t, watts |-> c.watts[w]]
  BY DEF UpdateMetricBaselines

\* The last powers keep their times.
LEMMA UpdatedTimed ==
  ASSUME NEW c, c.t \in Int, NEW bases, NEW w \in Powers, Timed(bases[w])
  PROVE  Timed(UpdateMetricBaselines(bases, c)[w])
<1> DEFINE base == UpdateMetricBaselines(bases, c)[w]
<1>1. base = IF c.watts[w] = Absent THEN bases[w] ELSE [t |-> c.t, watts |-> c.watts[w]]
  BY UpdatedBaselines
<1> HIDE DEF base
<1>2. base = bases[w] \/ base.t = c.t
  BY <1>1
<1>3. Timed(base)
  BY <1>2 DEF Timed
<1> QED BY <1>3 DEF base

\* After a restart each power is compared with the newest stored sample that has it.
LEMMA RecentBaselines ==
  ASSUME NEW set, NEW t \in Int, \A s \in set : s.t \in Int /\ s.t <= t, NEW w \in Powers
  PROVE  LET base == RecentMetricBaselines(set)[w]
         IN /\ Timed(base)
            /\ base # Absent => \E s \in set : s.t = base.t
            /\ \A s \in set : s.watts[w] # Absent => s.t <= base.t
<1> DEFINE known == With(set, w)
           base == RecentMetricBaselines(set)[w]
<1>1. known \subseteq set /\ \A s \in set : s.watts[w] # Absent <=> s \in known
  BY DEF With
<1>2. CASE known = {}
  <2>1. base = Absent
    BY <1>2 DEF RecentMetricBaselines
  <2> QED BY <1>1, <1>2, <2>1 DEF Timed
<1>3. CASE known # {}
  <2>1. Newest(known) \in known /\ \A s \in known : s.t <= Newest(known).t
    <3> HIDE DEF known
    <3> QED BY <1>1, <1>3, NewestIs
  <2>2. base = [t |-> Newest(known).t, watts |-> Newest(known).watts[w]]
    BY <1>3 DEF RecentMetricBaselines
  <2>3. base.t = Newest(known).t /\ base.t \in Int /\ Newest(known) \in set
    BY <1>1, <2>1, <2>2
  <2>4. \A s \in set : s.watts[w] # Absent => s.t <= base.t
    BY <1>1, <2>1, <2>3
  <2> QED BY <2>3, <2>4 DEF Timed
<1> QED BY <1>2, <1>3

-----------------------------------------------------------------------------
(* The invariant holds.                                                       *)

\* The empty history.
LEMMA Starts == SampleAssumption /\ HistoryInit => HistoryInv
  BY DEF HistoryInit, SampleAssumption, HistoryInv, HistoryTypeOK, Committed, Apart, NoBaselines

\* The last readings, after a sample is compared with them.
LEMMA Advanced ==
  ASSUME SampleAssumption, HistoryInv, NEW s \in Samples, s.t >= now,
         previous' = CompactHistorySample(s),
         baselines' = UpdateMetricBaselines(baselines, CompactHistorySample(s)),
         NEW a \in Committed \cup {Told(s)}
  PROVE  NotOvertaken(a)'
<1> DEFINE c == CompactHistorySample(s)
<1>1. c.t = s.t /\ s.t \in Int /\ now \in Int /\ c # Absent
  BY StoredFields DEF HistoryInv, HistoryTypeOK
<1>2. a.t <= s.t /\ a.t \in Int
  <2>1. CASE a \in Committed
    BY <1>1, <2>1 DEF Committed, HistoryInv, HistoryTypeOK
  <2>2. CASE a = Told(s)
    BY <1>1, <2>2, ToldFields DEF HistoryInv
  <2> QED BY <2>1, <2>2
<1>3. ASSUME NEW w \in Powers, a.watts[w] # Absent, baselines'[w] # Absent
      PROVE  a.t <= baselines'[w].t
  <2>1. baselines'[w] = IF c.watts[w] = Absent THEN baselines[w] ELSE [t |-> c.t, watts |-> c.watts[w]]
    BY UpdatedBaselines
  <2>2. CASE c.watts[w] # Absent
    <3>1. baselines'[w].t = c.t
      BY <2>1, <2>2
    <3> QED BY <1>1, <1>2, <3>1
  <2>3. CASE c.watts[w] = Absent
    <3>1. a # Told(s)
      BY <2>3, <1>3, ToldFields DEF HistoryInv, Sourced
    <3> QED BY <1>3, <2>1, <2>3, <3>1 DEF HistoryInv, NotOvertaken
  <2> QED BY <2>2, <2>3
<1> HIDE DEF c
<1> QED BY <1>1, <1>2, <1>3 DEF NotOvertaken, c

\* What is told of a sample does not overlap what was told before.
LEMMA ToldApart ==
  ASSUME SampleAssumption, HistoryInv, NEW s \in Samples, s.t >= now, ~Stored(s.t)
  PROVE  Apart(Committed \cup {Told(s)}) /\ Grounded(Told(s))
<1> DEFINE new == Told(s)
           c == CompactHistorySample(s)
<1>1. Sourced(new, c, previous, baselines) /\ new.t = s.t
  BY ToldFields DEF HistoryInv
<1>2. s.t \in Int /\ now \in Int
  BY StoredFields DEF HistoryInv, HistoryTypeOK
<1>3. Grounded(new)
  BY <1>1 DEF Sourced, Grounded
<1>4. ASSUME NEW a \in Committed PROVE a.t < new.t /\ a.t \in Int
  <2>1. a.t <= now /\ a.t \in Int
    BY DEF Committed, HistoryInv, HistoryTypeOK
  <2>2. a.t # s.t
    <3>1. CASE \E r \in samples : r.t = a.t /\ r.watts = a.watts
      BY <3>1 DEF Stored
    <3>2. CASE a.t < now
      BY <1>2, <2>1, <3>2
    <3> QED BY <3>1, <3>2 DEF HistoryInv, Placed
  <2> QED BY <1>1, <1>2, <2>1, <2>2
<1>5. ASSUME NEW a \in Committed, NEW k \in Keys,
             a.energy[k] # Absent, new.energy[k] # Absent, a.quality[k] = new.quality[k]
      PROVE  a.t <= new.from[k]
  <2>1. Grounded(a) /\ NotOvertaken(a)
    BY DEF HistoryInv
  <2>2. CASE new.quality[k] = "counter" /\ previous # Absent /\ new.from[k] = previous.t
    BY <2>1, <2>2 DEF NotOvertaken
  <2>3. CASE /\ new.quality[k] = "integrated" /\ k \in Integrable
             /\ Base(previous, baselines, k) # Absent
             /\ new.from[k] = Base(previous, baselines, k).t
    <3>1. a.watts[Power(k)] # Absent
      BY <1>5, <2>1, <2>3 DEF Grounded
    <3>2. Power(k) \in Powers
      BY <2>3 DEF Power, Powers, Integrable
    <3>3. \/ baselines[Power(k)] # Absent /\ new.from[k] = baselines[Power(k)].t
          \/ previous # Absent /\ new.from[k] = previous.t
      BY <2>3 DEF Base, BaselineForMetric
    <3> QED BY <2>1, <3>1, <3>2, <3>3 DEF NotOvertaken
  <2> QED BY <1>1, <1>5, <2>2, <2>3 DEF Sourced
<1>6. Apart(Committed)
  BY DEF HistoryInv
<1>7. new.t \in Int
  BY <1>1, <1>2
<1>8. ASSUME NEW a \in Committed \cup {new}, NEW b \in Committed \cup {new}
      PROVE  /\ a # b => a.t # b.t
             /\ a.t < b.t =>
                  \A k \in Keys : a.energy[k] # Absent /\ b.energy[k] # Absent /\ a.quality[k] = b.quality[k]
                                    => a.t <= b.from[k]
  <2>1. CASE a \in Committed /\ b \in Committed
    BY <1>6, <2>1 DEF Apart
  <2>2. CASE a \in Committed /\ b = new
    BY <1>4, <1>5, <1>7, <2>2
  <2>3. CASE a = new /\ b \in Committed
    <3>1. b.t < a.t /\ b.t \in Int
      BY <1>4, <2>3
    <3> QED BY <1>7, <2>3, <3>1
  <2>4. CASE a = new /\ b = new
    BY <1>7, <2>4
  <2> QED BY <2>1, <2>2, <2>3, <2>4
<1> QED BY <1>3, <1>8 DEF Apart

\* Of energies that are apart, any part is.
LEMMA PartsApart ==
  ASSUME NEW told, Apart(told), NEW part, part \subseteq told
  PROVE  Apart(part)
  BY DEF Apart

\* A sample is stored, and its energies are told.
LEMMA AppendKeeps ==
  ASSUME SampleAssumption, HistoryInv, NEW s \in Samples, AppendSample(s)
  PROVE  HistoryInv'
<1> DEFINE c == CompactHistorySample(s)
<1>1. /\ s.t >= now /\ ~Stored(s.t) /\ now' = s.t /\ undone' = undone
      /\ samples' = samples \cup {c} /\ previous' = c
      /\ baselines' = UpdateMetricBaselines(baselines, c)
      /\ Committed' \subseteq Committed \cup {Told(s)}
      /\ \A a \in rolled' \cup cached' \cup undone' : a \in rolled \cup cached \cup undone \/ a = Told(s)
      /\ cached' \subseteq cached
  BY DEF AppendSample, Committed, HistoryInv, HistoryTypeOK
<1>2. c.t = s.t /\ s.t \in Int /\ now \in Int /\ c # Absent
  BY StoredFields DEF HistoryInv, HistoryTypeOK
<1>3. Told(s).t = s.t /\ Told(s).watts = c.watts
  BY ToldFields DEF HistoryInv, Sourced
<1>4. \A a \in Committed : a.t \in Int /\ a.t <= now
  BY DEF Committed, HistoryInv, HistoryTypeOK
<1>5. HistoryTypeOK'
  <2>1. \A a \in (rolled \cup cached \cup undone)' : a.t \in Int /\ a.t <= now'
    BY <1>1, <1>2, <1>3 DEF HistoryInv, HistoryTypeOK
  <2>2. \A w \in Powers : baselines'[w] = Absent \/ baselines'[w].t \in Int
    BY <1>1, <1>2, UpdatedTimed, TypedStore DEF HistoryInv, Timed
  <2> HIDE DEF c
  <2>3. samples' \subseteq {CompactHistorySample(r) : r \in Samples} /\ c \in {CompactHistorySample(r) : r \in Samples}
    BY <1>1 DEF HistoryInv, HistoryTypeOK, c
  <2> QED BY <1>1, <1>2, <2>1, <2>2, <2>3 DEF HistoryTypeOK, HistoryInv
<1>6. (\A r \in samples : r.t <= now)' /\ (\A r, q \in samples : r.t = q.t => r = q)'
  <2>1. \A r \in samples : r.t \in Int /\ r.t <= now /\ r.t # s.t
    BY <1>1, TypedStore DEF HistoryInv, Stored
  <2>2. \A r, q \in samples : r.t = q.t => r = q
    BY DEF HistoryInv
  <2> HIDE DEF c
  <2>3. \A r \in samples' : (r \in samples \/ r = c) /\ r.t <= now'
    BY <1>1, <1>2, <2>1
  <2>4. ASSUME NEW r \in samples', NEW q \in samples', r.t = q.t PROVE r = q
    <3>1. CASE r \in samples /\ q \in samples
      BY <2>2, <2>4, <3>1
    <3>2. CASE r = c \/ q = c
      <4>1. (r = c \/ r.t # c.t) /\ (q = c \/ q.t # c.t)
        BY <1>2, <2>1, <2>3
      <4> QED BY <2>4, <3>2, <4>1
    <3> QED BY <2>3, <3>1, <3>2
  <2> QED BY <2>3, <2>4
<1>7. ASSUME NEW a \in Committed' PROVE Placed(a)' /\ Grounded(a)' /\ NotOvertaken(a)'
  <2>1. a \in Committed \cup {Told(s)}
    BY <1>1
  <2>2. NotOvertaken(a)'
    BY <1>1, <2>1, Advanced
  <2>3. Grounded(a)'
    <3>1. Grounded(Told(s))
      BY <1>1, ToldApart
    <3>2. \A b \in Committed : Grounded(b)
      BY DEF HistoryInv
    <3> QED BY <2>1, <3>1, <3>2 DEF Grounded
  <2>4. Placed(a)'
    <3> HIDE DEF c
    <3>1. CASE a = Told(s)
      BY <1>1, <1>2, <1>3, <3>1 DEF Placed
    <3>2. CASE a \in Committed
      BY <1>1, <1>2, <1>4, <3>2 DEF Placed, HistoryInv
    <3> QED BY <2>1, <3>1, <3>2
  <2> QED BY <2>2, <2>3, <2>4
<1>8. Apart(Committed')
  BY <1>1, ToldApart, PartsApart
<1>9. Apart(Committed)'
  BY <1>8 DEF Apart
<1> QED BY <1>5, <1>6, <1>7, <1>9 DEF HistoryInv

\* A sample that could not be stored leaves nothing told, whatever it was compared with.
LEMMA FailureKeeps ==
  ASSUME SampleAssumption, HistoryInv, NEW s \in Samples, AppendFails(s)
  PROVE  HistoryInv'
<1> DEFINE c == CompactHistorySample(s)
<1>1. /\ s.t >= now /\ ~Stored(s.t) /\ now' = s.t
      /\ samples' = samples /\ rolled' = rolled
      /\ cached' = cached \cup {Told(s)} /\ undone' = undone \cup {Told(s)}
      /\ Committed' \subseteq Committed
  BY DEF AppendFails, Committed
<1>0. \/ previous' = previous /\ baselines' = baselines
      \/ previous' = c /\ baselines' = UpdateMetricBaselines(baselines, c)
  BY DEF AppendFails
<1>2. c.t = s.t /\ s.t \in Int /\ now \in Int /\ c # Absent
  BY StoredFields DEF HistoryInv, HistoryTypeOK
<1>3. Told(s).t = s.t
  BY ToldFields DEF HistoryInv
<1>5. HistoryTypeOK'
  <2>1. \A a \in (rolled \cup cached \cup undone)' : a.t \in Int /\ a.t <= now'
    BY <1>1, <1>2, <1>3 DEF HistoryInv, HistoryTypeOK
  <2>2. \A w \in Powers : baselines'[w] = Absent \/ baselines'[w].t \in Int
    BY <1>0, <1>2, UpdatedTimed, TypedStore DEF HistoryInv, Timed
  <2> HIDE DEF c
  <2>3. previous' = Absent \/ previous' \in {CompactHistorySample(r) : r \in Samples}
    BY <1>0 DEF HistoryInv, HistoryTypeOK, c
  <2> QED BY <1>1, <1>2, <2>1, <2>2, <2>3 DEF HistoryTypeOK, HistoryInv
<1>6. (\A r \in samples : r.t <= now)' /\ (\A r, q \in samples : r.t = q.t => r = q)'
  <2>1. \A r \in samples : r.t \in Int /\ r.t <= now
    BY <1>1, TypedStore DEF HistoryInv
  <2> QED BY <1>1, <1>2, <2>1 DEF HistoryInv
<1>7. ASSUME NEW a \in Committed' PROVE Placed(a)' /\ Grounded(a)' /\ NotOvertaken(a)'
  <2>1. a \in Committed /\ a.t \in Int
    BY <1>1 DEF Committed, HistoryInv, HistoryTypeOK
  <2>2. NotOvertaken(a)'
    BY <1>0, <1>1, <2>1, Advanced DEF HistoryInv, NotOvertaken
  <2>3. Grounded(a)'
    BY <2>1 DEF HistoryInv, Grounded
  <2>4. Placed(a)'
    BY <1>1, <1>2, <2>1 DEF Placed, HistoryInv
  <2> QED BY <2>2, <2>3, <2>4
<1>8. Apart(Committed')
  BY <1>1, PartsApart DEF HistoryInv
<1>9. Apart(Committed)'
  BY <1>8 DEF Apart
<1> QED BY <1>5, <1>6, <1>7, <1>9 DEF HistoryInv

\* A restart reads the comparisons back from what is stored.
LEMMA InitializeKeeps ==
  ASSUME SampleAssumption, HistoryInv, Initialize
  PROVE  HistoryInv'
<1>1. /\ previous' = Newest(samples) /\ baselines' = RecentMetricBaselines(samples) /\ cached' = {}
      /\ now' = now /\ samples' = samples /\ rolled' = rolled /\ undone' = undone /\ Committed' = Committed
  BY DEF Initialize, Committed
<1>2. now \in Int /\ \A s \in samples : s.t \in Int /\ s.t <= now
  BY TypedStore DEF HistoryInv, HistoryTypeOK
<1>3. samples # {} => Newest(samples) \in samples /\ \A s \in samples : s.t <= Newest(samples).t
  BY <1>2, NewestIs
<1>7. samples = {} => Newest(samples) = Absent
  BY DEF Newest
<1>4. HistoryTypeOK'
  <2>1. \A w \in Powers : baselines'[w] = Absent \/ baselines'[w].t \in Int
    BY <1>1, <1>2, RecentBaselines DEF Timed
  <2>2. previous' = Absent \/ previous' \in {CompactHistorySample(r) : r \in Samples}
    BY <1>1, <1>3, <1>7 DEF HistoryInv, HistoryTypeOK
  <2> QED BY <1>1, <2>1, <2>2 DEF HistoryInv, HistoryTypeOK
<1>5. ASSUME NEW a \in Committed' PROVE Placed(a)' /\ Grounded(a)' /\ NotOvertaken(a)'
  <2>1. Placed(a) /\ Grounded(a) /\ a.t \in Int /\ a \in Committed
    BY <1>1 DEF Committed, HistoryInv, HistoryTypeOK
  <2>2. ASSUME previous' # Absent PROVE a.t <= previous'.t
    BY <1>1, <1>2, <1>3, <1>7, <2>1, <2>2 DEF Placed
  <2>3. ASSUME NEW w \in Powers, baselines'[w] # Absent, a.watts[w] # Absent
        PROVE  a.t <= baselines'[w].t
    <3>1. /\ \E s \in samples : s.t = baselines'[w].t
          /\ \A s \in samples : s.watts[w] # Absent => s.t <= baselines'[w].t
      BY <1>1, <1>2, <2>3, RecentBaselines
    <3> QED BY <1>2, <2>1, <2>3, <3>1 DEF Placed
  <2>4. Placed(a)' /\ Grounded(a)'
    BY <1>1, <2>1 DEF Placed, Grounded
  <2> QED BY <2>2, <2>3, <2>4 DEF NotOvertaken
<1>6. Apart(Committed)'
  BY <1>1 DEF HistoryInv, Apart
<1> QED BY <1>1, <1>4, <1>5, <1>6 DEF HistoryInv

\* Old samples go, or old roll-ups.
LEMMA RetentionKeeps ==
  ASSUME SampleAssumption, HistoryInv, NEW r \in Samples, NEW cutoff \in Cutoffs,
         RetainSamples(r.t, cutoff) \/ RetainRollups(r.t, cutoff)
  PROVE  HistoryInv'
<1>1. /\ now' = r.t /\ r.t >= now /\ cutoff <= r.t - Day
      /\ samples' \subseteq samples /\ rolled' \subseteq rolled
      /\ \A s \in samples \ samples' : ~(s.t >= cutoff)
      /\ samples' = samples \/ \A s \in samples' : s.t >= cutoff
      /\ previous' = previous /\ baselines' = baselines /\ cached' = cached /\ undone' = undone
      /\ Committed' \subseteq Committed
  BY DEF RetainSamples, RetainRollups, Retain, Committed
<1>2. now \in Int /\ r.t \in Int /\ cutoff \in Int /\ Day \in Nat \ {0}
  BY StoredFields DEF HistoryInv, HistoryTypeOK, SampleAssumption, Day
<1>3. \A s \in samples : s.t \in Int /\ s.t <= now
  BY TypedStore DEF HistoryInv
<1>4. HistoryTypeOK'
  BY <1>1, <1>2 DEF HistoryInv, HistoryTypeOK
<1>5. ASSUME NEW a \in Committed' PROVE Placed(a)' /\ Grounded(a)' /\ NotOvertaken(a)'
  <2>1. Placed(a) /\ Grounded(a) /\ NotOvertaken(a) /\ a.t \in Int
    BY <1>1 DEF Committed, HistoryInv, HistoryTypeOK
  <2>2. Placed(a)'
    <3>1. CASE a.t < now /\ \A s \in samples : a.t < s.t
      BY <1>1, <1>2, <2>1, <3>1 DEF Placed
    <3>2. ASSUME NEW s \in samples, s.t = a.t, s.watts = a.watts PROVE Placed(a)'
      <4>1. CASE s \in samples'
        BY <3>2, <4>1 DEF Placed
      <4>2. CASE s \notin samples'
        <5>1. a.t < cutoff /\ a.t < now' /\ \A q \in samples' : q.t >= cutoff /\ q.t \in Int
          BY <1>1, <1>2, <1>3, <2>1, <3>2, <4>2
        <5> QED BY <1>2, <2>1, <5>1 DEF Placed
      <4> QED BY <4>1, <4>2
    <3> QED BY <2>1, <3>1, <3>2 DEF Placed
  <2> QED BY <1>1, <2>1, <2>2 DEF Grounded, NotOvertaken
<1>6. (\A s \in samples : s.t <= now)' /\ (\A s, q \in samples : s.t = q.t => s = q)'
  BY <1>1, <1>2, <1>3 DEF HistoryInv
<1>7. Apart(Committed')
  BY <1>1, PartsApart DEF HistoryInv
<1>8. Apart(Committed)'
  BY <1>7 DEF Apart
<1> QED BY <1>4, <1>5, <1>6, <1>8 DEF HistoryInv


-----------------------------------------------------------------------------
(* What a query tells.                                                        *)

\* A sample of the range is told from samples of the range, the last before it for a
\* counter, the last with the power for an integral.
LEMMA QueriedFields ==
  ASSUME SampleAssumption, HistoryInv, NEW start \in Int, NEW raw \in samples, start <= raw.t,
         NEW q, q = Queried(raw, start)
  PROVE  /\ q.t = raw.t /\ q.watts = raw.watts
         /\ \A k \in Keys : q.energy[k] # Absent =>
              /\ q.quality[k] = "counter" \/ (/\ q.quality[k] = "integrated" /\ k \in Integrable
                                              /\ q.watts[Power(k)] # Absent)
              /\ \E s \in samples : start <= s.t /\ s.t < raw.t
              /\ \A s \in samples : s.t < raw.t /\ (q.quality[k] = "counter" \/ s.watts[Power(k)] # Absent)
                                      => s.t <= q.from[k]
              /\ \E s \in samples : s.t = q.from[k]
<1> DEFINE last == Newest(Before(raw.t))
           bases == RecentMetricBaselines(Before(raw.t))
<1>1. \A s \in samples : Whole(s) /\ s.t \in Int /\ s # Absent
  BY TypedStore DEF HistoryInv
<1>2. /\ \A s \in Before(raw.t) : s \in samples /\ s.t \in Int /\ s.t <= raw.t /\ s.t < raw.t
      /\ \A s \in samples : s.t < raw.t => s \in Before(raw.t)
  BY <1>1 DEF Before
<1>3. Before(raw.t) # {} => last \in Before(raw.t) /\ \A s \in Before(raw.t) : s.t <= last.t
  BY <1>1, <1>2, NewestIs
<1>4. Before(raw.t) = {} => last = Absent
  BY DEF Newest
<1>5. Timed(last) /\ \A w \in Powers : Timed(bases[w])
  BY <1>1, <1>2, <1>3, <1>4, RecentBaselines DEF Timed
<1>6. \A w \in Powers : Timed(NoBaselines[w]) /\ NoBaselines[w] = Absent
  BY DEF NoBaselines, Timed
<1>7. CASE last # Absent /\ last.t < start
  <2>1. q = InterpretHistorySample(raw, Absent, NoBaselines)
    BY <1>7 DEF Queried
  <2>2. Timed(Absent)
    BY DEF Timed
  <2>3. Sourced(q, raw, Absent, NoBaselines)
    BY <1>1, <1>6, <2>1, <2>2, InterpretedFields
  <2>4. ASSUME NEW k \in Integrable PROVE Base(Absent, NoBaselines, k) = Absent
    <3>1. Power(k) \in Powers
      BY DEF Power, Powers, Integrable
    <3> QED BY <1>6, <3>1 DEF Base, BaselineForMetric
  <2> QED BY <2>3, <2>4 DEF Sourced
<1>8. CASE ~(last # Absent /\ last.t < start)
  <2>1. q = InterpretHistorySample(raw, last, bases)
    BY <1>8 DEF Queried
  <2>2. Sourced(q, raw, last, bases)
    BY <1>1, <1>5, <2>1, InterpretedFields
  <2>3. Before(raw.t) # {} => last \in samples /\ start <= last.t /\ last.t < raw.t
    BY <1>1, <1>2, <1>3, <1>8
  <2>4. ASSUME NEW k \in Keys, q.energy[k] # Absent
        PROVE  /\ q.quality[k] = "counter" \/ (/\ q.quality[k] = "integrated" /\ k \in Integrable
                                               /\ q.watts[Power(k)] # Absent)
               /\ Before(raw.t) # {}
               /\ \A s \in Before(raw.t) : q.quality[k] = "counter" \/ s.watts[Power(k)] # Absent
                                             => s.t <= q.from[k]
               /\ \E s \in samples : s.t = q.from[k]
    <3>1. CASE q.quality[k] = "counter" /\ last # Absent /\ q.from[k] = last.t
      BY <1>3, <1>4, <2>3, <3>1
    <3>2. CASE /\ q.quality[k] = "integrated" /\ k \in Integrable
               /\ raw.watts[Power(k)] # Absent
               /\ Base(last, bases, k) # Absent /\ Base(last, bases, k).watts # Absent
               /\ q.from[k] = Base(last, bases, k).t
      <4>1. Power(k) \in Powers
        BY <3>2 DEF Power, Powers, Integrable
      <4>2. CASE bases[Power(k)] # Absent
        <5>1. q.from[k] = bases[Power(k)].t
          BY <3>2, <4>2 DEF Base, BaselineForMetric
        <5>2. /\ \E s \in Before(raw.t) : s.t = bases[Power(k)].t
              /\ \A s \in Before(raw.t) : s.watts[Power(k)] # Absent => s.t <= bases[Power(k)].t
          BY <1>1, <1>2, <4>1, <4>2, RecentBaselines
        <5> QED BY <1>2, <2>2, <3>2, <5>1, <5>2 DEF Sourced
      <4>3. CASE bases[Power(k)] = Absent
        <5>1. last # Absent /\ q.from[k] = last.t
          BY <3>2, <4>3 DEF Base, BaselineForMetric
        <5> QED BY <1>2, <1>3, <1>4, <2>2, <2>3, <3>2, <5>1 DEF Sourced
      <4> QED BY <4>2, <4>3
    <3> QED BY <2>2, <2>4, <3>1, <3>2 DEF Sourced
  <2> QED BY <1>2, <2>2, <2>3, <2>4 DEF Sourced
<1> QED BY <1>7, <1>8

\* No two of what a query tells overlap.
LEMMA QueryApart ==
  ASSUME SampleAssumption, HistoryInv, NEW start \in Int, NEW end \in Int
  PROVE  Apart(DetailedAvailableRows(start, end) \ undone)
<1> DEFINE kept == RetainedRollups(start, end) \ undone
           range == InRange(start, end)
           told == {Queried(raw, start) : raw \in range}
           apart(a, b, k) == a.energy[k] # Absent /\ b.energy[k] # Absent /\ a.quality[k] = b.quality[k]
                               => a.t <= b.from[k]
<1>1. /\ kept \subseteq Committed
      /\ \A a \in kept, raw \in range : a.t < raw.t
      /\ \A a \in kept : a.t \in Int /\ Placed(a) /\ Grounded(a)
  BY DEF RetainedRollups, Committed, HistoryInv, HistoryTypeOK
<1>2. \A raw \in range : raw \in samples /\ raw.t \in Int /\ start <= raw.t
  BY TypedStore DEF InRange, HistoryInv
<1>3. \A s \in samples : s.t \in Int
  BY TypedStore DEF HistoryInv
<1>4. ASSUME NEW a \in kept, NEW raw \in range, NEW q, q = Queried(raw, start), NEW k \in Keys
      PROVE  apart(a, q, k)
  <2> SUFFICES ASSUME a.energy[k] # Absent, q.energy[k] # Absent, a.quality[k] = q.quality[k]
               PROVE  a.t <= q.from[k]
    OBVIOUS
  <2>1. /\ \A s \in samples : s.t < raw.t /\ (q.quality[k] = "counter" \/ s.watts[Power(k)] # Absent)
                                => s.t <= q.from[k]
        /\ \E s \in samples : s.t = q.from[k]
    BY <1>2, <1>4, QueriedFields
  <2>2. a.t < raw.t /\ a.t \in Int /\ Placed(a) /\ Grounded(a)
    BY <1>1
  <2>3. CASE \E s \in samples : s.t = a.t /\ s.watts = a.watts
    BY <2>1, <2>2, <2>3 DEF Grounded
  <2>4. CASE \A s \in samples : a.t < s.t
    BY <1>3, <2>1, <2>2, <2>4
  <2> QED BY <2>2, <2>3, <2>4 DEF Placed
<1>5. ASSUME NEW old \in range, NEW new \in range, old.t < new.t, NEW k \in Keys,
             NEW a, a = Queried(old, start), NEW b, b = Queried(new, start)
      PROVE  apart(a, b, k)
  <2> SUFFICES ASSUME a.energy[k] # Absent, b.energy[k] # Absent, a.quality[k] = b.quality[k]
               PROVE  a.t <= b.from[k]
    OBVIOUS
  <2>1. /\ a.t = old.t /\ a.watts = old.watts
        /\ a.quality[k] = "counter" \/ a.watts[Power(k)] # Absent
    BY <1>2, <1>5, QueriedFields
  <2>2. \A s \in samples : s.t < new.t /\ (b.quality[k] = "counter" \/ s.watts[Power(k)] # Absent)
                             => s.t <= b.from[k]
    BY <1>2, <1>5, QueriedFields
  <2> QED BY <1>2, <1>5, <2>1, <2>2
<1>6. \A raw \in range : Queried(raw, start).t = raw.t
  BY <1>2, QueriedFields
<1>7. ASSUME NEW a \in kept \cup told, NEW b \in kept \cup told
      PROVE  /\ a # b => a.t # b.t
             /\ a.t < b.t => \A k \in Keys : apart(a, b, k)
  <2> HIDE DEF apart, range, kept
  <2>1. CASE a \in kept /\ b \in kept
    BY <1>1, <2>1 DEF HistoryInv, Apart, apart
  <2>2. CASE a \in kept /\ b \in told
    <3>1. PICK raw \in range : b = Queried(raw, start)
      BY <2>2
    <3> QED BY <1>1, <1>2, <1>4, <1>6, <2>2, <3>1
  <2>3. CASE a \in told /\ b \in kept
    <3>1. PICK raw \in range : a = Queried(raw, start)
      BY <2>3
    <3>2. b.t < a.t /\ b.t \in Int /\ a.t \in Int
      BY <1>1, <1>2, <1>6, <2>3, <3>1
    <3> QED BY <3>2
  <2>4. CASE a \in told /\ b \in told
    <3>1. PICK old \in range, new \in range : a = Queried(old, start) /\ b = Queried(new, start)
      BY <2>4
    <3>2. a.t = old.t /\ b.t = new.t
      BY <1>6, <3>1
    <3>3. a # b => old.t # new.t
      BY <1>2, <3>1 DEF HistoryInv
    <3>4. a.t < b.t => \A k \in Keys : apart(a, b, k)
      BY <1>5, <3>1, <3>2
    <3> QED BY <3>2, <3>3, <3>4
  <2> QED BY <2>1, <2>2, <2>3, <2>4
<1>8. DetailedAvailableRows(start, end) \ undone \subseteq kept \cup told
  BY DEF DetailedAvailableRows
<1>9. Apart(kept \cup told)
  <2> HIDE DEF kept, told
  <2> QED BY <1>7 DEF Apart
<1> QED BY <1>8, <1>9, PartsApart

-----------------------------------------------------------------------------
(* Every behaviour of the store.                                              *)

\* Every step of the history keeps the invariant.
LEMMA HistorySteps == SampleAssumption /\ HistoryInv /\ [HistoryNext]_historyVars => HistoryInv'
<1> SUFFICES ASSUME SampleAssumption, HistoryInv, [HistoryNext]_historyVars PROVE HistoryInv'
  OBVIOUS
<1>1. CASE \E s \in Samples : AppendSample(s) \/ AppendFails(s)
  BY <1>1, AppendKeeps, FailureKeeps
<1>2. CASE Initialize
  BY <1>2, InitializeKeeps
<1>3. CASE \E t \in {s.t : s \in Samples}, cutoff \in Cutoffs : RetainSamples(t, cutoff) \/ RetainRollups(t, cutoff)
  BY <1>3, RetentionKeeps
<1>4. CASE UNCHANGED historyVars
  BY <1>4 DEF historyVars, HistoryInv, HistoryTypeOK, Committed, Apart, Placed, Grounded, NotOvertaken
<1> QED BY <1>1, <1>2, <1>3, <1>4 DEF HistoryNext

\* The invariant of the history.
LEMMA HistoryHolds == HistorySpec => []HistoryInv
<1>1. HistoryInit => HistoryInv
  BY Starts, SampleAssumption
<1>2. HistoryInv /\ [HistoryNext]_historyVars => HistoryInv'
  BY HistorySteps, SampleAssumption
<1> QED BY <1>1, <1>2, PTL DEF HistorySpec

\* Whatever range of times is asked for, no energy is told twice: the roll-ups that are
\* taken for what is no longer stored do not overlap the samples that are told again
\* (detailedAvailableRows, interpretedRawPayloads).
QueriesCountOnce == \A start, end \in Int : Apart(DetailedAvailableRows(start, end) \ undone)

\* QueriesCountOnce, for every range of times and after any number of steps of the
\* history: of a time that is told in detail no roll-up is told too.
THEOREM EveryQueryCountsOnce == HistorySpec => []QueriesCountOnce
<1>1. HistoryInv => QueriesCountOnce
  BY QueryApart, SampleAssumption DEF QueriesCountOnce
<1> QED BY <1>1, HistoryHolds, PTL

\* An energy is counted once (insertSample, updateRollups and what reads them back): for
\* any samples, with anything missing of them, any retention and any number of restarts.
THEOREM EnergyIsCountedOnce == HistorySpec => []EnergyCountedOnce
<1>1. HistoryInv => EnergyCountedOnce
  <2> SUFFICES ASSUME HistoryInv PROVE EnergyCountedOnce
    OBVIOUS
  <2>1. Apart(rolled \ undone)
    BY DEF HistoryInv, Committed
  <2>2. {s.t : s \in Samples} \subseteq Int
    BY SampleAssumption
  <2>3. \A start, end \in {s.t : s \in Samples} : Apart(DetailedAvailableRows(start, end) \ undone)
    BY <2>2, QueryApart, SampleAssumption
  <2> QED BY <2>1, <2>3 DEF EnergyCountedOnce
<1> QED BY <1>1, HistoryHolds, PTL

-----------------------------------------------------------------------------
(* The search for devices.                                                    *)

\* The members of a finite set in some order.
LEMMA InOrder ==
  ASSUME NEW S, IsFiniteSet(S)
  PROVE  SetToSeq(S) \in Seq(S) /\ ToSet(SetToSeq(S)) \subseteq S
<1> DEFINE n == Cardinality(S)
<1>1. n \in Nat /\ ExistsBijection(1..n, S)
  BY FS_CardinalityType
<1>2. PICK f : f \in Bijection(1..n, S)
  BY <1>1 DEF ExistsBijection
<1>3. f \in [1..n -> S] /\ IsInjective(f)
  BY <1>2 DEF Bijection, Injection, IsInjective
<1>4. SetToSeq(S) \in [1..n -> S]
  BY <1>3 DEF SetToSeq
<1> QED BY <1>1, <1>4 DEF ToSet

\* The job of the context runs, or was dropped while it did; no other job runs.
SearchInv ==
  /\ jobs \in [Jobs -> {"none", "running", "complete", "failed", "dropped"}]
  /\ silent \subseteq Jobs
  /\ context \in Jobs \cup {Nobody} /\ stage \in RunStages /\ (stage = "none" <=> context = Nobody)
  /\ found \in Seq((Hosts \cup Configured) \X Roles)
  /\ left \subseteq Hosts \cup Configured
  /\ \A j \in Jobs : jobs[j] = "running" => context = j
  /\ \A j \in Jobs : context = j => jobs[j] \in {"running", "dropped"}

\* The requests: a job begins, or is refused, and old ones are dropped.
LEMMA RequestsKeepSearch ==
  ASSUME SearchInv, (\E j \in Jobs : StartJob(j)) \/ GetJob \/ TenMinutes
  PROVE  SearchInv'
<1> USE SearchAssumption DEF SearchInv, Cleaned, RunStages
<1>1. ASSUME NEW j \in Jobs, StartJob(j) PROVE SearchInv'
  <2>1. CASE context = Nobody
    <3>1. /\ jobs' = [Cleaned EXCEPT ![j] = "running"] /\ context' = j /\ stage' = "scan"
          /\ found' = <<>> /\ left' = {} /\ silent' = {}
      BY <1>1, <2>1 DEF StartJob
    <3>2. <<>> \in Seq((Hosts \cup Configured) \X Roles)
      OBVIOUS
    <3>3. Cleaned \in [Jobs -> {"none", "running", "complete", "failed", "dropped"}]
      OBVIOUS
    <3>4. jobs'[j] = "running" /\ \A i \in Jobs : i # j => jobs'[i] # "running"
      BY <2>1, <3>1, <3>3
    <3>5. jobs' \in [Jobs -> {"none", "running", "complete", "failed", "dropped"}]
      BY <3>1, <3>3
    <3> QED BY <3>1, <3>2, <3>4, <3>5
  <2>2. CASE context # Nobody
    <3>1. /\ jobs' = [Cleaned EXCEPT ![j] = "failed"] /\ UNCHANGED <<context, stage, found, left>>
          /\ silent' = {} /\ jobs[j] = "none"
      BY <1>1, <2>2 DEF StartJob
    <3> QED BY <3>1
  <2> QED BY <2>1, <2>2
<1>2. CASE GetJob
  BY <1>2 DEF GetJob
<1>3. CASE TenMinutes
  BY <1>3 DEF TenMinutes
<1> QED BY <1>1, <1>2, <1>3

\* What is found of whom is an address with a class that was asked for.
LEMMA RunKeepsSearch ==
  ASSUME SearchInv, Answer \/ RunStep
  PROVE  SearchInv'
<1> DEFINE Entries == (Hosts \cup Configured) \X Roles
<1>1. \A S \in SUBSET Entries : SetToSeq(S) \in Seq(Entries)
  <2>1. ASSUME NEW S \in SUBSET Entries PROVE SetToSeq(S) \in Seq(Entries)
    <3>1. IsFiniteSet(Entries)
      BY SearchAssumption, FS_Product
    <3>2. IsFiniteSet(S)
      BY <3>1, FS_Subset
    <3>3. SetToSeq(S) \in Seq(S)
      BY <3>2, InOrder
    <3> QED BY <3>3
  <2> QED BY <2>1
<1>2. ASSUME NEW more \in Seq(Entries) PROVE found \o more \in Seq(Entries)
  BY DEF SearchInv
<1>3. Answers \subseteq Entries
  BY DEF Answers
<1>4. CASE Answer
  <2>1. PICK a \in Answers : found' = Append(found, a)
    BY <1>4 DEF Answer
  <2>2. found' \in Seq(Entries)
    BY <1>3, <2>1 DEF SearchInv
  <2> QED BY <1>4, <2>2 DEF SearchInv, Answer, Speaks
<1>5. ASSUME NEW answers \in Seq(Entries), Identify(answers)
      PROVE  found' \in Seq(Entries) /\ left' \subseteq Hosts \cup Configured /\ stage' = "identify"
  <2>1. ToSet(answers) \subseteq Entries
    BY DEF ToSet
  <2> QED BY <1>5, <2>1 DEF Identify
<1>6. CASE ScanEnds("active") \/ ScanEnds("broadcast") \/ Broadcast
  <2>1. stage \in {"scan", "broadcast"} /\ UNCHANGED <<jobs, context, suggested>> /\ silent' \subseteq silent
    BY <1>6 DEF ScanEnds, Broadcast, Speaks
  <2>2. \/ found' = found /\ left' = left /\ stage' = "broadcast"
        \/ \E answers \in Seq(Entries) : Identify(answers)
    <3>1. CASE ScanEnds("active") \/ ScanEnds("broadcast")
      BY <3>1 DEF ScanEnds, SearchInv
    <3>2. CASE Broadcast
      <4>1. PICK more \in SUBSET (Answers \ ToSet(found)) : Identify(found \o SetToSeq(more))
        BY <3>2 DEF Broadcast
      <4>2. more \in SUBSET Entries
        BY <1>3
      <4> QED BY <1>1, <1>2, <4>1, <4>2
    <3> QED BY <1>6, <3>1, <3>2
  <2>3. found' \in Seq(Entries) /\ left' \subseteq Hosts \cup Configured /\ stage' \in {"broadcast", "identify"}
    BY <1>5, <2>2 DEF SearchInv
  <2> QED BY <2>1, <2>3 DEF SearchInv, RunStages
<1>7. CASE IdentifyHost
  <2>1. PICK h \in left, detected \in SUBSET Roles :
               left' = left \ {h} /\ found' = found \o SetToSeq({<<h, r>> : r \in detected} \ ToSet(found))
    BY <1>7 DEF IdentifyHost
  <2>2. ({<<h, r>> : r \in detected} \ ToSet(found)) \in SUBSET Entries
    BY DEF SearchInv
  <2>3. found' \in Seq(Entries)
    BY <1>1, <1>2, <2>1, <2>2
  <2>4. UNCHANGED <<jobs, context, stage>> /\ silent' \subseteq silent
    BY <1>7 DEF IdentifyHost, Speaks
  <2> QED BY <2>1, <2>3, <2>4 DEF SearchInv
<1>8. CASE Complete \/ FailRun
  <2>1. /\ stage \in {"scan", "broadcast", "identify"} /\ context' = Nobody /\ stage' = "none"
        /\ found' = <<>> /\ left' = {} /\ silent' \subseteq silent
    BY <1>8 DEF Complete, FailRun, Release, Speaks
  <2>2. PICK status \in {"complete", "failed"} :
               jobs' = [jobs EXCEPT ![context] = IF jobs[context] = "dropped" THEN jobs[context] ELSE status]
    BY <1>8 DEF Complete, FailRun, Becomes
  <2>3. context \in Jobs
    BY <2>1 DEF SearchInv
  <2>4. <<>> \in Seq(Entries)
    OBVIOUS
  <2> QED BY <2>1, <2>2, <2>3, <2>4, SearchAssumption DEF SearchInv, RunStages
<1> QED BY <1>4, <1>6, <1>7, <1>8 DEF RunStep

\* The inductive invariant of the search, and the type invariant it implies.
LEMMA SearchTyped ==
  /\ DiscoveryInit => SearchInv
  /\ SearchInv /\ [DiscoveryNext]_discoveryVars => SearchInv'
  /\ SearchInv => DiscoveryTypeOK
<1>1. DiscoveryInit => SearchInv
  BY SearchAssumption DEF DiscoveryInit, SearchInv, RunStages
<1>2. ASSUME SearchInv, [DiscoveryNext]_discoveryVars PROVE SearchInv'
  <2>1. CASE UNCHANGED discoveryVars
    BY <1>2, <2>1 DEF discoveryVars, SearchInv
  <2> QED BY <1>2, <2>1, RequestsKeepSearch, RunKeepsSearch DEF DiscoveryNext
<1>3. SearchInv => DiscoveryTypeOK
  BY DEF SearchInv, DiscoveryTypeOK, ToSet
<1> QED BY <1>1, <1>2, <1>3
=============================================================================

---------------------------- MODULE CommandReceipt ----------------------------
(* What the receipts of device commands promise to whoever polls them         *)
(* (src/lib/services/command-receipt-service.ts): the receipt of a command     *)
(* only moves forward, a final one never changes, and it says "succeeded"      *)
(* only of a command whose setting was read back from the battery after it     *)
(* was sent.  A receipt may skip states: nothing is recorded while the history *)
(* is closed.  One thing takes receipts back: a restore of the database closes *)
(* the history, and opens it with the receipts of all commands as they were at  *)
(* one earlier moment, the backup's, or with none at all.                     *)
EXTENDS Integers

CONSTANT Commands

VARIABLES
  state,      \* [Commands -> States]
  readBack,   \* the commands whose setting was read back as asked
  backup,     \* [Commands -> States]: the receipts in the backup that a restore takes
  closed      \* the history is closed

Final == {"succeeded", "failed", "timed-out", "mismatched"}

Rank(s) ==
  CASE s = "none" -> 0
    [] s = "requested" -> 1
    [] s = "sending" -> 2
    [] s = "acknowledged" -> 3
    [] s = "verifying" -> 4
    [] s \in Final -> 5

States == {"none", "requested", "sending", "acknowledged", "verifying"} \cup Final

NoReceipts == [c \in Commands |-> "none"]

Init ==
  /\ state = NoReceipts
  /\ readBack = {}
  /\ backup = NoReceipts
  /\ closed = FALSE

(* The battery shows what the command asked for to one of its reads.           *)
ReadBack(c) == readBack' \in {readBack, readBack \cup {c}}

Advance(c) ==
  /\ ~closed
  /\ \E s \in States :
       /\ Rank(s) > Rank(state[c])
       /\ state' = [state EXCEPT ![c] = s]
       /\ ReadBack(c)
       /\ s = "succeeded" => c \in readBack'

BackUp == ~closed /\ backup' = state /\ UNCHANGED <<state, readBack, closed>>

Close == ~closed /\ closed' = TRUE /\ UNCHANGED <<state, readBack, backup>>

Reopen ==
  /\ closed /\ closed' = FALSE
  /\ state' \in {state, backup, NoReceipts}
  /\ UNCHANGED <<readBack, backup>>

Next ==
  \/ \E c \in Commands :
       /\ Advance(c) \/ (ReadBack(c) /\ UNCHANGED state)
       /\ UNCHANGED <<backup, closed>>
  \/ BackUp \/ Close \/ Reopen

Spec == Init /\ [][Next]_<<state, readBack, backup, closed>>
=============================================================================

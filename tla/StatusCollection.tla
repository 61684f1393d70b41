--------------------------- MODULE StatusCollection ---------------------------
(* The status of the devices and its cache: src/lib/services/                 *)
(* status-collection-service.ts.  One refresh reads every device, each probe    *)
(* for itself, and its result becomes the snapshot; whoever asks meanwhile      *)
(* joins it.  A command that the battery acknowledged drops the snapshot.      *)
(* `version` counts the acknowledged commands: a reading stands for the        *)
(* version of the battery it was taken at.                                   *)
EXTENDS Integers, FiniteSets

CONSTANTS
  Callers,     \* those who ask for the status
  Missing      \* no value, no snapshot

VARIABLES
  version,     \* acknowledged commands so far
  snapshot,    \* latestSnapshot
  refresh,     \* the refresh in flight (refreshPromise)
  waiting      \* the callers that wait for it

statusVars == <<snapshot, refresh, waiting>>

NoRefresh == [at |-> "none", begun |-> 0, crossed |-> FALSE]

StatusTypeOK ==
  /\ version \in Nat
  /\ refresh.at \in {"none", "reading"}
  /\ refresh.at = "none" <=> refresh = NoRefresh
  /\ waiting \subseteq Callers
  /\ refresh.at = "none" => waiting = {}

StatusInit ==
  /\ version = 0
  /\ snapshot = Missing
  /\ refresh = NoRefresh
  /\ waiting = {}

-----------------------------------------------------------------------------
(* get and refresh.  The snapshot answers a request that is not forced and      *)
(* tolerates its age, which changes nothing here; any other request joins the   *)
(* refresh in flight or begins one.                                          *)

Get(r) ==
  /\ r \notin waiting
  /\ waiting' = waiting \cup {r}
  /\ refresh' = IF refresh.at # "none" THEN refresh
                ELSE [NoRefresh EXCEPT !.at = "reading", !.begun = version]
  /\ UNCHANGED <<version, snapshot>>

(* The devices are read (StatusReading says what of), the status is recorded,    *)
(* becomes the snapshot and answers all who wait.                              *)
Finish ==
  /\ refresh.at = "reading"
  /\ snapshot' = [begun |-> refresh.begun, crossed |-> refresh.crossed]
  /\ refresh' = NoRefresh
  /\ waiting' = {}
  /\ UNCHANGED version

(* The configuration cannot be read or written, or the sample not recorded:     *)
(* every caller gets the error and the snapshot stays.                         *)
FailRefresh ==
  /\ refresh.at = "reading"
  /\ refresh' = NoRefresh
  /\ waiting' = {}
  /\ UNCHANGED <<version, snapshot>>

-----------------------------------------------------------------------------
InvalidateKeeping ==
  /\ version' = version + 1
  /\ refresh' = IF refresh.at = "none" THEN refresh ELSE [refresh EXCEPT !.crossed = TRUE]
  /\ UNCHANGED <<snapshot, waiting>>

(* invalidate, with the acknowledgement of a command.                         *)
Invalidate ==
  /\ version' = version + 1
  /\ snapshot' = Missing
  /\ refresh' = IF refresh.at = "none" THEN refresh ELSE [refresh EXCEPT !.crossed = TRUE]
  /\ UNCHANGED waiting

StatusCrash ==
  /\ snapshot' = Missing
  /\ refresh' = NoRefresh
  /\ waiting' = {}
  /\ UNCHANGED version

RefreshStep == Finish \/ FailRefresh

StatusStep == RefreshStep \/ \E r \in Callers : Get(r)
=============================================================================

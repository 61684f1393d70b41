--------------------------- MODULE DatabaseRestore ---------------------------
(* The restore of a database backup: src/lib/services/database-administration.ts *)
(* over src/lib/database-backup.ts, with the start and the stop of the          *)
(* background work (runtime-coordinator.ts) and the start of the application    *)
(* (application-initializer.ts).  Each await of the restore is a step that may   *)
(* fail; the process may stop between any two.                                *)
EXTENDS Integers

CONSTANTS
  NoFile,       \* there is no such file
  MaxTrouble    \* bound: failed steps and stops of the process

VARIABLES
  database,     \* what history.sqlite holds: "original", "backup", "empty" or NoFile
  before,       \* what it held when the last restore began
  aside,        \* what the file of the original set aside holds
  extracted,    \* the unpacked snapshot of the backup is on the disk
  safety,       \* the safety backup of the original was written
  fits,         \* the backup opens with this application (documents and schema are valid)
  historyStore, \* the history store is open
  documents,    \* the application store is open
  background,   \* the background work runs
  operation,    \* "idle", "busy", "complete", "failed": databaseOperation
  at,           \* the await the restore or the start is at
  ready,        \* databaseReady
  stopped,      \* backgroundStopped
  trouble

files == <<database, aside, extracted, safety, fits>>
stores == <<historyStore, documents>>
databaseVars == <<files, before, stores, background, operation, at, ready, stopped, trouble>>

Forward == {"extract", "safety", "drain", "clear", "move", "swap", "history", "documents", "discard"}
Rollback == {"undo-remove", "undo-move", "undo-history", "undo-documents"}
Reopen == {"reopen-history", "reopen-documents"}
FinalAttempt == {"last-history", "last-documents"}
Starting == {"start-history", "start-documents", "start-state"}

DatabaseTypeOK ==
  /\ database \in {"original", "backup", "empty", NoFile}
  /\ aside \in {"original", "backup", "empty", NoFile}
  /\ extracted \in BOOLEAN /\ safety \in BOOLEAN /\ fits \in BOOLEAN
  /\ operation \in {"idle", "busy", "complete", "failed"}
  /\ at \in {"none", "down"} \cup Starting \cup Forward \cup Rollback \cup Reopen \cup FinalAttempt
  /\ operation = "busy" <=> at \in Forward \cup Rollback \cup Reopen \cup FinalAttempt
  /\ ready \in BOOLEAN /\ stopped \in BOOLEAN

DatabaseInit ==
  /\ database = "original" /\ before = "original" /\ aside = NoFile
  /\ extracted = FALSE /\ safety = FALSE /\ fits \in BOOLEAN
  /\ historyStore = FALSE /\ documents = FALSE /\ background = FALSE
  /\ operation = "idle" /\ at = "down" /\ ready = FALSE /\ stopped = FALSE
  /\ trouble = 0

Fails == trouble < MaxTrouble /\ trouble' = trouble + 1
Works == trouble' = trouble
Unless(p) == IF p THEN Works ELSE Fails

(* Opening a store: a missing file is created, a backup that does not fit is     *)
(* refused, an open store is left alone.                                      *)
Opened == IF database = NoFile THEN "empty" ELSE database
OpenHistory ==
  /\ historyStore' = TRUE
  /\ database' = IF historyStore THEN database ELSE Opened
  /\ UNCHANGED <<aside, extracted, safety, fits, documents>>
Refuses == database = "backup" /\ ~fits /\ ~documents
OpenDocuments == ~Refuses /\ documents' = TRUE /\ UNCHANGED <<files, historyStore>>

-----------------------------------------------------------------------------
(* The start of the application: stores, device adapter and state in turn, then  *)
(* the background work.  A failed start is tried again by the next request.     *)

Start ==
  /\ at = "down" /\ at' = "start-history"
  /\ UNCHANGED <<files, stores, background, operation, ready, stopped, trouble>>

StartHistory ==
  /\ at = "start-history" /\ OpenHistory /\ at' = "start-documents"
  /\ UNCHANGED <<background, operation, ready, stopped, trouble>>

StartDocuments ==
  /\ at = "start-documents" /\ OpenDocuments /\ at' = "start-state"
  /\ UNCHANGED <<background, operation, ready, stopped, trouble>>

StartState ==
  /\ at = "start-state" /\ at' = "none"
  /\ background' = TRUE
  /\ UNCHANGED <<files, stores, operation, ready, stopped, trouble>>

StartFails ==
  /\ at \in Starting /\ at' = "down"
  /\ Unless(at = "start-documents" /\ Refuses)
  /\ UNCHANGED <<files, stores, background, operation, ready, stopped>>

-----------------------------------------------------------------------------
(* The restore.                                                              *)

Goes(from, to) == at = from /\ at' = to
Same == UNCHANGED <<background, operation, ready, stopped, trouble>>

\* withDatabaseOperation: one operation at a time.
Restore ==
  /\ at = "none" /\ at' = "extract"
  /\ operation' = "busy" /\ before' = database
  /\ ready' = TRUE /\ stopped' = FALSE
  /\ UNCHANGED <<files, stores, background, trouble>>

\* The backup is unpacked and its versions are compared.
Extract ==
  /\ Goes("extract", "safety")
  /\ extracted' = TRUE
  /\ UNCHANGED <<database, aside, safety, fits, stores>> /\ Same

\* A backup of the original, then the background work is stopped.
Safety ==
  /\ Goes("safety", "drain")
  /\ database # NoFile
  /\ safety' = (safety \/ database = "original")
  /\ background' = FALSE /\ stopped' = TRUE
  /\ UNCHANGED <<database, aside, extracted, fits, stores, operation, ready, trouble>>

\* The work under way has ended; both stores are closed.
Drain ==
  /\ Goes("drain", "clear")
  /\ historyStore' = FALSE /\ documents' = FALSE /\ ready' = FALSE
  /\ UNCHANGED <<files, background, operation, stopped, trouble>>

\* The journal files are removed.
Clear == Goes("clear", "move") /\ UNCHANGED <<files, stores>> /\ Same

Move ==
  /\ Goes("move", "swap")
  /\ aside' = database /\ database' = NoFile
  /\ UNCHANGED <<extracted, safety, fits, stores>> /\ Same

SwapDiscarding ==
  /\ Goes("swap", "history")
  /\ database' = "backup" /\ extracted' = FALSE /\ aside' = NoFile
  /\ UNCHANGED <<safety, fits, stores>> /\ Same

Swap ==
  /\ Goes("swap", "history")
  /\ database' = "backup" /\ extracted' = FALSE
  /\ UNCHANGED <<aside, safety, fits, stores>> /\ Same

History == Goes("history", "documents") /\ OpenHistory /\ Same

Documents ==
  /\ Goes("documents", "discard") /\ OpenDocuments
  /\ ready' = TRUE
  /\ UNCHANGED <<background, operation, stopped, trouble>>

\* The original set aside is removed, and the background work starts again.
Discard ==
  /\ Goes("discard", "none")
  /\ aside' = NoFile
  /\ background' = TRUE /\ operation' = "complete"
  /\ UNCHANGED <<database, extracted, safety, fits, stores, ready, stopped, trouble>>

(* What follows a failure: a moved original is put back, closed stores are       *)
(* opened again, and otherwise the operation ends.                            *)
Ends(r) ==
  /\ operation' = "failed" /\ at' = "none"
  /\ extracted' = FALSE
  /\ background' = (background \/ (stopped /\ r))

Fail ==
  /\ at \in Forward
  /\ Unless((at = "documents" /\ Refuses) \/ (at = "safety" /\ database = NoFile))
  /\ UNCHANGED <<safety, fits, stopped>>
  /\ \/ /\ at \in {"extract", "safety", "drain"}
        /\ Ends(ready)
        /\ UNCHANGED <<database, aside, stores, ready>>
     \/ /\ at \in {"clear", "move"}
        /\ at' = "reopen-history"
        /\ UNCHANGED <<database, aside, extracted, stores, background, operation, ready>>
     \/ /\ at \in {"swap", "history", "documents", "discard"}
        /\ at' = "undo-remove"
        /\ historyStore' = FALSE /\ documents' = FALSE /\ ready' = FALSE
        /\ UNCHANGED <<database, aside, extracted, background, operation>>

UndoRemove ==
  /\ Goes("undo-remove", "undo-move")
  /\ database' = NoFile
  /\ UNCHANGED <<aside, extracted, safety, fits, stores>> /\ Same

UndoMove ==
  /\ Goes("undo-move", "undo-history")
  /\ database' = aside /\ aside' = NoFile
  /\ UNCHANGED <<extracted, safety, fits, stores>> /\ Same

UndoHistory == Goes("undo-history", "undo-documents") /\ OpenHistory /\ Same

ReopenHistory == Goes("reopen-history", "reopen-documents") /\ OpenHistory /\ Same

LastHistory == Goes("last-history", "last-documents") /\ OpenHistory /\ Same

\* The original is open again: the operation failed, the work goes on.
Recovered ==
  /\ at \in {"undo-documents", "reopen-documents", "last-documents"}
  /\ ~Refuses
  /\ documents' = TRUE /\ ready' = TRUE
  /\ Ends(TRUE)
  /\ UNCHANGED <<database, aside, safety, fits, historyStore, stopped, trouble>>

\* The rollback or the reopening fails too: one last attempt to open what is there.
FailAgain ==
  /\ at \in Rollback \cup Reopen
  /\ Unless(at \in {"undo-documents", "reopen-documents"} /\ Refuses)
  /\ at' = "last-history"
  /\ UNCHANGED <<files, stores, background, operation, ready, stopped>>

FailLast ==
  /\ at \in FinalAttempt
  /\ Unless(at = "last-documents" /\ Refuses)
  /\ Ends(FALSE)
  /\ UNCHANGED <<database, aside, safety, fits, stores, ready, stopped>>

\* A stop of the process; what was unpacked stays until the next restore.
Stops ==
  /\ Fails
  /\ historyStore' = FALSE /\ documents' = FALSE /\ background' = FALSE
  /\ operation' = "idle" /\ at' = "down"
  /\ UNCHANGED <<files, ready, stopped>>

RestoreStep ==
  \/ Extract \/ Safety \/ Drain \/ Clear \/ Move \/ Swap \/ History \/ Documents \/ Discard
  \/ Fail \/ UndoRemove \/ UndoMove \/ UndoHistory \/ ReopenHistory \/ LastHistory
  \/ Recovered \/ FailAgain \/ FailLast

StartStep == Start \/ StartHistory \/ StartDocuments \/ StartState \/ StartFails

DatabaseNext ==
  \/ Restore
  \/ (StartStep \/ RestoreStep \/ Stops) /\ before' = before

Proceeds == (RestoreStep \/ StartStep) /\ before' = before

DatabaseFairness == WF_databaseVars(Proceeds)

-----------------------------------------------------------------------------
\* Steps that failed and stops of the process; a backup that does not open counts.
Wrong == trouble + (IF fits THEN 0 ELSE 1)

(* A restore is all or nothing: the original is never without a copy, success is *)
(* reported only of the restored database, and when one thing went wrong the    *)
(* database of before is open again and the background work runs.  Background   *)
(* work runs on open stores; it takes three failures for anything else.        *)
RestoreAllOrNothing ==
  /\ database = "original" \/ aside = "original" \/ safety
  /\ operation = "complete" => database = "backup" /\ background
  /\ operation = "failed" /\ Wrong <= 1 => database = before /\ background
  /\ background /\ Wrong <= 2 => historyStore /\ documents

(* A restore ends, in success or failure (withDatabaseOperation), so that the    *)
(* next operation is not refused for ever.                                    *)
RestoreEnds == operation = "busy" ~> operation # "busy"
=============================================================================

---------------------------- MODULE WorkflowLocks ----------------------------
(***************************************************************************)
(* The promise queues that serialize the workflows of the server, and how  *)
(* the workflows nest them (create-application.ts and the services).  Each *)
(* exclusive() appends to the queue of its lock; the first in a queue holds*)
(* the lock until its operation has settled, failed or not.                *)
(*                                                                         *)
(* A workflow, of a request, a timer or an interval, is what it does with  *)
(* the locks, in order: its program is a sequence of steps.  Commands and  *)
(* reads of the battery are left out: each ends, by a timeout if need be.  *)
(*                                                                         *)
(* A command asks operational-overrides.ts whether Backup Preparation      *)
(* blocks it, and a refusal is recorded under the lock of the overrides.   *)
(***************************************************************************)
EXTENDS Naturals, Sequences, SequencesExt

CONSTANTS Procs,    \* what may overlap: requests, timers, intervals
          Mixes     \* the workflows they run, each one time and again

VARIABLES queue,    \* per lock, who holds it and who waits
          todo,     \* per process, the steps left of its workflow
          blocks,   \* whether Backup Preparation blocks actions
          mix       \* the workflow of each process

vars == <<queue, todo, blocks, mix>>

Locks == {"automation", "override", "reserve", "adaptive", "config"}

Lock(l) == [op |-> "lock", arg |-> l]
Unlock(l) == [op |-> "unlock", arg |-> l]
Exclusive(l, body) == <<Lock(l)>> \o body \o <<Unlock(l)>>

\* A section that the state of the battery or the configuration may skip.
Maybe(body) == <<[op |-> "maybe", body |-> body]>>

\* assertAllowed() records a refusal, and throws.
Check == <<[op |-> "check", arg |-> "recorded"]>>

\* The caller has read the state itself, with no input or output since.
CheckSilently == <<[op |-> "check", arg |-> "silent"]>>

\* The orchestrator goes on after a refusal.
CheckCaught == <<[op |-> "check", arg |-> "caught"]>>

\* Backup Preparation becomes, or is no longer, in charge of the battery.
Block == <<[op |-> "block"]>>
Unblock == <<[op |-> "unblock"]>>

----------------------------------------------------------------------------
(* What the workflows share.                                                *)

\* A setting read from the battery is remembered in the configuration.
Status == Maybe(Exclusive("config", <<>>))

\* The verified reserve goes to the setting cache and to the next plan.
ReserveVerified == Maybe(Exclusive("config", <<>>) \o Exclusive("adaptive", <<>>))

\* Restore and apply; the first is never refused, a refusal of the second ends it.
Reconcile == Exclusive("reserve", ReserveVerified \o ReserveVerified)

\* A manual action releases the charge or the Standby of Adaptive Charging.
Pause == Exclusive("adaptive", Maybe(Check))

\* discharge-limit, by hand or by a schedule.
ReserveCommand ==
  Exclusive("reserve", CheckSilently \o Maybe(Pause) \o ReserveVerified)

\* A failed start is undone.
BackupStart ==
  Exclusive("automation", Exclusive("override", Block \o Reconcile \o Maybe(Unblock)))

\* New inputs of Adaptive Charging release its charge, or its Standby by way of
\* a command that counts as manual.
ConfigCommit ==
  Exclusive("config", Maybe(CheckSilently) \o Maybe(CheckSilently \o Pause))

Program ==
  [run         |-> Exclusive("automation", Reconcile \o Status \o Maybe(CheckCaught)
                                           \o Maybe(Exclusive("adaptive", Maybe(Check)))),
   guardRestore |-> Exclusive("automation", Maybe(Check)
                              \o Maybe(Exclusive("adaptive", Status \o Maybe(Check)))),
   status       |-> Status,
   reconcile    |-> Reconcile,
   reserve      |-> ReserveCommand,
   command      |-> Check \o Maybe(Pause),
   deadline     |-> Exclusive("adaptive", Maybe(Check)),
   recalculate  |-> Check \o Exclusive("adaptive", Check \o Status),
   resume       |-> Check \o Exclusive("adaptive", Maybe(Check)),
   settings     |-> ConfigCommit,
   awaySetting  |-> ConfigCommit \o Reconcile,
   backupStart  |-> BackupStart,
   backupEnd    |-> Exclusive("override", Unblock)]

Workflows == DOMAIN Program
ASSUME MixesAssumption == Mixes \subseteq [Procs -> Workflows]

----------------------------------------------------------------------------
Queued(p, l) == Contains(queue[l], p)
Holds(p, l) == queue[l] # <<>> /\ Head(queue[l]) = p
Waits(p) == \E l \in Locks : Queued(p, l) /\ ~Holds(p, l)
At(p, op) == Head(todo[p]).op = op
Arg(p) == Head(todo[p]).arg

\* Mutant: a failure does not pass the lock on.
UnwoundHolding(p) == <<>>

\* A failure settles the operations it is thrown through.
Settling(steps, held) ==
  SelectSeq(steps, LAMBDA s : s.op = "unlock" /\ s.arg \in held)
Unwound(p) == Settling(Tail(todo[p]), {l \in Locks : Holds(p, l)})

Init == /\ queue = [l \in Locks |-> <<>>] /\ todo = [p \in Procs |-> <<>>]
        /\ blocks \in BOOLEAN /\ mix \in Mixes

Begin(p) ==
  /\ todo[p] = <<>>
  /\ todo' = [todo EXCEPT ![p] = Program[mix[p]]]
  /\ UNCHANGED <<queue, blocks, mix>>

Request(p) ==
  /\ At(p, "lock")
  /\ queue' = [queue EXCEPT ![Arg(p)] = Append(@, p)]
  /\ todo' = [todo EXCEPT ![p] = Tail(@)]
  /\ UNCHANGED <<blocks, mix>>

Settle(p) ==
  /\ At(p, "unlock")
  /\ queue' = [queue EXCEPT ![Arg(p)] = Tail(@)]
  /\ todo' = [todo EXCEPT ![p] = Tail(@)]
  /\ UNCHANGED <<blocks, mix>>

Choose(p) ==
  /\ At(p, "maybe")
  /\ \E rest \in {Tail(todo[p]), Head(todo[p]).body \o Tail(todo[p])} :
       todo' = [todo EXCEPT ![p] = rest]
  /\ UNCHANGED <<queue, blocks, mix>>

Allowed(p) ==
  /\ At(p, "check") /\ ~blocks
  /\ todo' = [todo EXCEPT ![p] = Tail(@)]
  /\ UNCHANGED <<queue, blocks, mix>>

Recorded(arg) == IF arg = "silent" THEN <<>> ELSE Exclusive("override", <<>>)
Refused(p) ==
  /\ At(p, "check") /\ blocks
  /\ todo' = [todo EXCEPT ![p] = Recorded(Arg(p))
                                 \o IF Arg(p) = "caught" THEN Tail(@) ELSE Unwound(p)]
  /\ UNCHANGED <<queue, blocks, mix>>

\* A start returns when Backup Preparation is active already.
Policy(p) ==
  /\ \/ At(p, "block") /\ todo' = [todo EXCEPT ![p] = IF blocks THEN Unwound(p) ELSE Tail(@)]
     \/ At(p, "unblock") /\ todo' = [todo EXCEPT ![p] = Tail(@)]
  /\ blocks' = At(p, "block")
  /\ UNCHANGED <<queue, mix>>

Step(p) == /\ todo[p] # <<>> /\ ~Waits(p)
           /\ Request(p) \/ Settle(p) \/ Choose(p) \/ Allowed(p) \/ Refused(p) \/ Policy(p)
Next == \E p \in Procs : Begin(p) \/ Step(p)

(* A workflow goes on: its commands end, its promises are settled.          *)
Fairness == \A p \in Procs : WF_vars(Step(p))
Spec == Init /\ [][Next]_vars /\ Fairness

----------------------------------------------------------------------------
\* The locks a workflow has asked for and not passed on, by the steps it has left.
Outstanding(steps) ==
  {l \in Locks : \E i \in DOMAIN steps :
                   steps[i] = Unlock(l) /\ ~\E j \in 1..i : steps[j] = Lock(l)}

(* Type correctness; nobody stands twice in a queue, which would wait for   *)
(* itself, and nobody leaves a workflow without having passed the locks on. *)
TypeOK ==
  /\ queue \in [Locks -> Seq(Procs)] /\ blocks \in BOOLEAN
  /\ DOMAIN todo = Procs /\ mix \in [Procs -> Workflows]
  /\ \A l \in Locks : IsInjective(queue[l])
  /\ \A p \in Procs, l \in Locks : Queued(p, l) <=> l \in Outstanding(todo[p])

(* No workflows wait for each other in a circle: neither for a lock that    *)
(* two of them take in opposite orders, nor through a third.                *)
WaitsFor(p, q) == \E l \in Locks : Queued(p, l) /\ Holds(q, l) /\ p # q
NoCircularWait ==
  ~\E S \in (SUBSET Procs) \ {{}} : \A p \in S : \E q \in S : WaitsFor(p, q)

(* Two workflows that nest two locks in opposite orders.  Backup Preparation*)
(* holds the overrides and, by way of the reserve, asks for the             *)
(* configuration and Adaptive Charging; who holds one of these may be       *)
(* refused, unless the automation lock keeps it away.  A save of settings   *)
(* holds the configuration and asks for Adaptive Charging, under which two  *)
(* others read the status.                                                  *)
Refusable == {"reserve", "command", "deadline", "recalculate", "resume", "settings", "awaySetting"}
Opposed == {{"backupStart", w} : w \in Refusable}
           \cup {{s, w} : s \in {"settings", "awaySetting"}, w \in {"guardRestore", "recalculate"}}

(* Who holds the reserve lock never waits for the overrides, whose lock     *)
(* Backup Preparation may hold while it restores the reserve: the comment   *)
(* at create-application.ts:309.                                            *)
ReserveAvoidsOverride ==
  \A p \in Procs : Holds(p, "reserve") => ~(Queued(p, "override") /\ ~Holds(p, "override"))

(* Every workflow gets each lock it waits for, however many others come.    *)
Served == \A p \in Procs : Waits(p) ~> ~Waits(p)
=============================================================================

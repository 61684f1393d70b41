------------------------- MODULE DeviceCommandQueue -------------------------
(***************************************************************************)
(* The priority queue in front of the ECHONET adapter                      *)
(* (lib/services/device-command-queue.ts).  A request of Reqs stands for   *)
(* one call of run().  The array of queued items is a set: every selection *)
(* sorts it by a total order, so the position of an item in it is never    *)
(* observed.  Time is a counter; a tick is the unit of both delays.        *)
(***************************************************************************)
EXTENDS Integers, FiniteSets

CONSTANTS Reqs,            \* the calls of run()
          Priority,        \* the priority of each, 0 for a command that writes
          Capacity,        \* 100 in the code
          StarvationMs,    \* waiting time after which an item is starved
          QueueTimeoutMs,  \* waiting time after which an item is rejected
          MaxTime          \* bound of the clock, for TLC

ASSUME ReqsAssumption == IsFiniteSet(Reqs)
ASSUME PriorityAssumption == Priority \in [Reqs -> Nat]
ASSUME LimitsAssumption ==
  Capacity \in Nat /\ StarvationMs \in Nat /\ QueueTimeoutMs \in Nat /\ MaxTime \in Nat

VARIABLES queue,      \* #queue
          running,    \* #running
          sequence,   \* #sequence
          seq,        \* the sequence number of each item
          queuedAt,   \* the arrival time of each item
          status,     \* the promise run() returned, and whether it is executing
          wakeups,    \* microtasks that will call #runNext
          now         \* Date.now()

vars == <<queue, running, sequence, seq, queuedAt, status, wakeups, now>>

Statuses == {"new", "queued", "running", "refused", "expired", "resolved", "rejected"}

Starved(r, at) == now - at[r] >= StarvationMs

\* Mutant: the comparator forgets starvation.
BeforePriorityOnly(l, r, s, at) ==
  Priority[l] < Priority[r] \/ (Priority[l] = Priority[r] /\ s[l] < s[r])

\* The comparator of the sort.
Before(l, r, s, at) ==
  IF Starved(l, at) # Starved(r, at) THEN Starved(l, at)
  ELSE IF Starved(l, at) THEN s[l] < s[r]
  ELSE Priority[l] < Priority[r] \/ (Priority[l] = Priority[r] /\ s[l] < s[r])

First(h, Q, s, at) == \A q \in Q \ {h} : Before(h, q, s, at)

\* #runNext, up to the await of the executor, on the items Q.
RunNext(Q, s, at, st) ==
  IF running \/ Q = {}
  THEN queue' = Q /\ status' = st /\ UNCHANGED running
  ELSE \E h \in Q : /\ First(h, Q, s, at)
                    /\ queue' = Q \ {h}
                    /\ status' = [st EXCEPT ![h] = "running"]
                    /\ running' = TRUE

Init ==
  /\ queue = {} /\ running = FALSE /\ sequence = 0 /\ wakeups = 0 /\ now = 0
  /\ seq = [r \in Reqs |-> 0]
  /\ queuedAt = [r \in Reqs |-> 0]
  /\ status = [r \in Reqs |-> "new"]

\* Mutant: the limit is tested one too late.
FullOffByOne(r) == Cardinality(queue) > Capacity /\ Priority[r] > 0

\* The capacity test of run(): a write is always admitted.
Full(r) == Cardinality(queue) >= Capacity /\ Priority[r] > 0

Refuse(r) ==
  /\ status[r] = "new" /\ Full(r)
  /\ status' = [status EXCEPT ![r] = "refused"]
  /\ UNCHANGED <<queue, running, sequence, seq, queuedAt, wakeups, now>>

\* run(): the item is pushed, and started at once when nothing is executing.
\* Bound: no arrival so late that the clock could not reach its timeout.
Run(r) ==
  /\ status[r] = "new" /\ ~Full(r)
  /\ now + QueueTimeoutMs <= MaxTime
  /\ sequence' = sequence + 1
  /\ seq' = [seq EXCEPT ![r] = sequence + 1]
  /\ queuedAt' = [queuedAt EXCEPT ![r] = now]
  /\ RunNext(queue \cup {r}, seq', queuedAt', [status EXCEPT ![r] = "queued"])
  /\ UNCHANGED <<wakeups, now>>

\* Mutants of the timer: it does not look whether the item still waits, it is
\* served only by an idle queue, or it rejects the promise and leaves the item.
QueueTimeoutAnyway(r) ==
  /\ status[r] # "new" /\ now - queuedAt[r] >= QueueTimeoutMs
  /\ queue' = queue \ {r}
  /\ status' = [status EXCEPT ![r] = "expired"]
  /\ UNCHANGED <<running, sequence, seq, queuedAt, wakeups, now>>

QueueTimeoutWhenIdle(r) ==
  /\ ~running /\ r \in queue /\ now - queuedAt[r] >= QueueTimeoutMs
  /\ queue' = queue \ {r}
  /\ status' = [status EXCEPT ![r] = "expired"]
  /\ UNCHANGED <<running, sequence, seq, queuedAt, wakeups, now>>

QueueTimeoutKeepsItem(r) ==
  /\ r \in queue /\ status[r] = "queued" /\ now - queuedAt[r] >= QueueTimeoutMs
  /\ status' = [status EXCEPT ![r] = "expired"]
  /\ UNCHANGED <<queue, running, sequence, seq, queuedAt, wakeups, now>>

\* The timer of an item fires, however late, while the item still waits;
\* #runNext clears the timer of the item it starts.
QueueTimeout(r) ==
  /\ r \in queue /\ now - queuedAt[r] >= QueueTimeoutMs
  /\ queue' = queue \ {r}
  /\ status' = [status EXCEPT ![r] = "expired"]
  /\ UNCHANGED <<running, sequence, seq, queuedAt, wakeups, now>>

\* Mutant: the end of a command does not wake the queue.
ExecutorDoneNoWakeup(r) ==
  /\ status[r] = "running"
  /\ \E outcome \in {"resolved", "rejected"} : status' = [status EXCEPT ![r] = outcome]
  /\ running' = FALSE
  /\ UNCHANGED <<queue, sequence, seq, queuedAt, wakeups, now>>

\* The executor settles: the caller's promise follows it and a microtask is
\* queued.  Callers resumed by the promise run before that microtask, so a new
\* run() may come first.
ExecutorDone(r) ==
  /\ status[r] = "running"
  /\ \E outcome \in {"resolved", "rejected"} : status' = [status EXCEPT ![r] = outcome]
  /\ running' = FALSE
  /\ wakeups' = wakeups + 1
  /\ UNCHANGED <<queue, sequence, seq, queuedAt, now>>

\* The microtask that calls #runNext again; a no-op when run() came first.
Wakeup ==
  /\ wakeups > 0
  /\ wakeups' = wakeups - 1
  /\ RunNext(queue, seq, queuedAt, status)
  /\ UNCHANGED <<sequence, seq, queuedAt, now>>

Tick ==
  /\ now < MaxTime
  /\ now' = now + 1
  /\ UNCHANGED <<queue, running, sequence, seq, queuedAt, status, wakeups>>

Next ==
  \/ \E r \in Reqs : Refuse(r) \/ Run(r) \/ QueueTimeout(r) \/ ExecutorDone(r)
  \/ Wakeup
  \/ Tick

\* The event loop runs its microtasks and timers, and time passes.
Fairness ==
  /\ WF_vars(Wakeup) /\ WF_vars(Tick)
  /\ \A r \in Reqs : WF_vars(QueueTimeout(r))

Spec == Init /\ [][Next]_vars /\ Fairness

-----------------------------------------------------------------------------
Shapes ==
  /\ queue \subseteq Reqs /\ running \in BOOLEAN
  /\ sequence \in Nat /\ wakeups \in Nat /\ now \in Nat
  /\ seq \in [Reqs -> Nat] /\ queuedAt \in [Reqs -> Nat]
  /\ status \in [Reqs -> Statuses]

QueueMatchesPromises ==
  /\ queue = {r \in Reqs : status[r] = "queued"}
  /\ running <=> \E r \in Reqs : status[r] = "running"

\* Every variable keeps its shape, #running tells whether a command executes, and
\* the queue holds exactly the calls whose promise is still waiting: no item is
\* lost, and none stays behind once its promise is settled or its command begins.
TypeOK == Shapes /\ QueueMatchesPromises

\* The queue never stalls: while items wait, either a command is executing
\* (its end will wake the queue) or a wake-up is already pending, however
\* run(), the timers and the microtask interleave.
NoStall == queue # {} => running \/ wakeups > 0

\* Commands other than writes can never fill the queue beyond its capacity,
\* although writes are admitted past it.
ReadsBounded == Cardinality({r \in queue : Priority[r] > 0}) <= Capacity

\* A starved item is overtaken only by an older item: neither the fast path of
\* run() nor a burst of writes can keep a slow read waiting for ever.
StarvedNotOvertaken ==
  [][\A r, q \in Reqs :
       /\ status[r] # "running" /\ status'[r] = "running"
       /\ q \in queue /\ q \in queue' /\ Starved(q, queuedAt)
       => seq'[r] < seq[q]]_vars

\* Even when the executor hangs for ever, a waiting call leaves the queue.
QueuedLeaves == \A r \in Reqs : status[r] = "queued" ~> status[r] # "queued"

Executor == INSTANCE SerialExecutor

\* The queue implements the serial executor its callers rely on.
ExecutorSpec == Executor!Spec

\* A waiting call leaves the queue even when the executor hangs, and when executors
\* settle (every adapter operation is bounded by a command timeout), so does the
\* promise of every call that was made.
EveryCallSettles ==
  /\ QueuedLeaves
  /\ WF_vars(\E r \in Reqs : ExecutorDone(r)) =>
       \A r \in Reqs : status[r] \in {"queued", "running"} ~> status[r] \in Executor!Settled
=============================================================================

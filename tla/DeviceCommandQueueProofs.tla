---------------------- MODULE DeviceCommandQueueProofs ----------------------
(***************************************************************************)
(* The safety properties of DeviceCommandQueue, for every set of calls,    *)
(* every priority and every limit, and the proof that the queue implements *)
(* SerialExecutor.                                                         *)
(***************************************************************************)
EXTENDS DeviceCommandQueue, FiniteSetTheorems, TLAPS

\* At most one command executes.  NoStall and the refinement need the
\* correspondence between the queue, #running and the promises.
OneRunning ==
  \A r, q \in Reqs : status[r] = "running" /\ status[q] = "running" => r = q

Reads(Q) == {r \in Q : Priority[r] > 0}

IInv == Shapes /\ QueueMatchesPromises /\ OneRunning /\ NoStall /\ ReadsBounded

-----------------------------------------------------------------------------
\* #runNext either leaves the given items and promises alone, because a command
\* executes or nothing waits, or starts one item that comes first.
LEMMA RunNextCases ==
  ASSUME NEW Q, NEW s, NEW at, NEW st, RunNext(Q, s, at, st)
  PROVE  \/ /\ running \/ Q = {}
            /\ queue' = Q /\ status' = st /\ running' = running
         \/ /\ ~running
            /\ \E h \in Q : /\ First(h, Q, s, at) /\ queue' = Q \ {h}
                            /\ status' = [st EXCEPT ![h] = "running"]
                            /\ running' = TRUE
  BY DEF RunNext

\* The bound on reads survives a step that only removes items.
LEMMA ReadsShrink ==
  ASSUME Shapes, ReadsBounded, queue' \subseteq queue
  PROVE  ReadsBounded'
  <1>1. Reads(queue') \subseteq Reads(queue) /\ IsFiniteSet(Reads(queue))
    BY FS_Subset, ReqsAssumption DEF Reads, Shapes
  <1>2. Cardinality(Reads(queue')) <= Cardinality(Reads(queue))
    BY <1>1, FS_Subset
  <1>3. /\ Cardinality(Reads(queue)) \in Nat
        /\ Cardinality(Reads(queue')) \in Nat
    BY <1>1, FS_Subset, FS_CardinalityType
  <1> QED
    BY <1>2, <1>3, LimitsAssumption DEF ReadsBounded, Reads

\* The bound on reads survives an admission: run() admits a read only below the
\* capacity.
LEMMA ReadsAdmit ==
  ASSUME Shapes, ReadsBounded, NEW r \in Reqs, ~Full(r),
         queue' \subseteq queue \cup {r}
  PROVE  ReadsBounded'
  <1>0. IsFiniteSet(queue) /\ IsFiniteSet(queue \cup {r}) /\ Priority[r] \in Nat
    BY FS_Subset, FS_AddElement, ReqsAssumption, PriorityAssumption DEF Shapes
  <1>1. CASE Priority[r] > 0
    <2>1. Cardinality(queue) < Capacity /\ Cardinality(queue) \in Nat
      BY <1>0, <1>1, FS_CardinalityType, LimitsAssumption DEF Full
    <2>2. /\ Cardinality(queue \cup {r}) \in Nat
          /\ Cardinality(queue \cup {r}) <= Cardinality(queue) + 1
      BY <1>0, FS_AddElement, FS_CardinalityType
    <2>3. Reads(queue') \subseteq queue \cup {r}
      BY DEF Reads
    <2>4. /\ Cardinality(Reads(queue')) <= Cardinality(queue \cup {r})
          /\ Cardinality(Reads(queue')) \in Nat
      BY <1>0, <2>3, FS_Subset, FS_CardinalityType
    <2> QED
      BY <2>1, <2>2, <2>4, LimitsAssumption DEF ReadsBounded, Reads
  <1>2. CASE ~(Priority[r] > 0)
    <2>1. Reads(queue') \subseteq Reads(queue) /\ IsFiniteSet(Reads(queue))
      BY <1>0, <1>2, FS_Subset DEF Reads
    <2>2. Cardinality(Reads(queue')) <= Cardinality(Reads(queue))
      BY <2>1, FS_Subset
    <2>3. /\ Cardinality(Reads(queue)) \in Nat
          /\ Cardinality(Reads(queue')) \in Nat
      BY <2>1, FS_Subset, FS_CardinalityType
    <2> QED
      BY <2>2, <2>3, LimitsAssumption DEF ReadsBounded, Reads
  <1> QED
    BY <1>1, <1>2

-----------------------------------------------------------------------------
LEMMA InitIInv == Init => IInv
  <1> SUFFICES ASSUME Init PROVE IInv
    OBVIOUS
  <1>1. Shapes /\ QueueMatchesPromises /\ OneRunning /\ NoStall
    BY DEF Init, Shapes, Statuses, QueueMatchesPromises, OneRunning, NoStall
  <1>2. ReadsBounded
    <2>1. {r \in queue : Priority[r] > 0} = {}
      BY DEF Init
    <2> QED
      BY <2>1, FS_EmptySet, LimitsAssumption DEF ReadsBounded
  <1> QED
    BY <1>1, <1>2 DEF IInv

\* Everything but the bound is preserved by a call of run().
LEMMA RunStep ==
  ASSUME IInv, NEW r \in Reqs, Run(r)
  PROVE  (Shapes /\ QueueMatchesPromises /\ OneRunning /\ NoStall)' /\ queue' \subseteq queue \cup {r}
  <1> DEFINE st == [status EXCEPT ![r] = "queued"]
  <1> USE DEF IInv, Shapes
  <1>1. /\ sequence' \in Nat /\ seq' \in [Reqs -> Nat] /\ queuedAt' \in [Reqs -> Nat]
        /\ wakeups' = wakeups /\ now' = now /\ status[r] = "new"
    BY DEF Run
  <1>2. st \in [Reqs -> Statuses] /\ queue \cup {r} = {q \in Reqs : st[q] = "queued"}
    BY <1>1 DEF Statuses, QueueMatchesPromises
  <1>3. \A q \in Reqs : st[q] = "running" <=> status[q] = "running"
    BY <1>1
  <1>4. RunNext(queue \cup {r}, seq', queuedAt', st)
    BY DEF Run
  <1>5. CASE running /\ queue' = queue \cup {r} /\ status' = st /\ running' = running
    BY <1>1, <1>2, <1>3, <1>5 DEF QueueMatchesPromises, OneRunning, NoStall
  <1>6. ASSUME ~running, NEW h \in queue \cup {r}, queue' = (queue \cup {r}) \ {h},
               status' = [st EXCEPT ![h] = "running"], running' = TRUE
        PROVE  (Shapes /\ QueueMatchesPromises /\ OneRunning /\ NoStall)' /\ queue' \subseteq queue \cup {r}
    <2>1. Shapes'
      BY <1>1, <1>2, <1>6 DEF Statuses
    <2>2. \A q \in Reqs : status'[q] = "running" <=> q = h
      BY <1>2, <1>3, <1>6 DEF QueueMatchesPromises
    <2>3. QueueMatchesPromises'
      BY <1>2, <1>6, <2>2 DEF QueueMatchesPromises
    <2> QED
      BY <1>6, <2>1, <2>2, <2>3 DEF OneRunning, NoStall
  <1> QED
    BY <1>4, <1>5, <1>6, RunNextCases

\* Everything but the bound is preserved by the microtask that wakes the queue.
LEMMA WakeupStep ==
  ASSUME IInv, Wakeup
  PROVE  (Shapes /\ QueueMatchesPromises /\ OneRunning /\ NoStall)' /\ queue' \subseteq queue
  <1> USE DEF IInv, Shapes
  <1>1. /\ sequence' = sequence /\ seq' = seq /\ queuedAt' = queuedAt /\ now' = now
        /\ wakeups' \in Nat /\ RunNext(queue, seq, queuedAt, status)
    BY DEF Wakeup
  <1>2. CASE (running \/ queue = {}) /\ queue' = queue /\ status' = status /\ running' = running
    BY <1>1, <1>2 DEF QueueMatchesPromises, OneRunning, NoStall
  <1>3. ASSUME ~running, NEW h \in queue, queue' = queue \ {h},
               status' = [status EXCEPT ![h] = "running"], running' = TRUE
        PROVE  (Shapes /\ QueueMatchesPromises /\ OneRunning /\ NoStall)' /\ queue' \subseteq queue
    <2>1. Shapes'
      BY <1>1, <1>3 DEF Statuses
    <2>2. \A q \in Reqs : status'[q] = "running" <=> q = h
      BY <1>3 DEF QueueMatchesPromises
    <2>3. QueueMatchesPromises'
      BY <1>3, <2>2 DEF QueueMatchesPromises
    <2> QED
      BY <1>3, <2>1, <2>2, <2>3 DEF OneRunning, NoStall
  <1> QED
    BY <1>1, <1>2, <1>3, RunNextCases

LEMMA StepIInv == IInv /\ [Next]_vars => IInv'
  <1> SUFFICES ASSUME IInv, [Next]_vars PROVE IInv'
    OBVIOUS
  <1> USE DEF IInv
  <1>1. ASSUME NEW r \in Reqs, Refuse(r) PROVE IInv'
    BY <1>1, ReadsShrink DEF Refuse, Shapes, Statuses, QueueMatchesPromises, OneRunning, NoStall
  <1>2. ASSUME NEW r \in Reqs, Run(r) PROVE IInv'
    BY <1>2, RunStep, ReadsAdmit DEF Run
  <1>3. ASSUME NEW r \in Reqs, QueueTimeout(r) PROVE IInv'
    <2>1. queue' \subseteq queue
      BY <1>3 DEF QueueTimeout
    <2> QED
      BY <1>3, <2>1, ReadsShrink
      DEF QueueTimeout, Shapes, Statuses, QueueMatchesPromises, OneRunning, NoStall
  <1>4. ASSUME NEW r \in Reqs, ExecutorDone(r) PROVE IInv'
    <2>1. PICK outcome \in {"resolved", "rejected"} : status' = [status EXCEPT ![r] = outcome]
      BY <1>4 DEF ExecutorDone
    <2>2. \A q \in Reqs : status'[q] # "running"
      BY <1>4, <2>1 DEF ExecutorDone, OneRunning, Shapes
    <2>3. Shapes'
      <3>1. outcome \in Statuses /\ status \in [Reqs -> Statuses]
        BY DEF Statuses, Shapes
      <3>2. status' \in [Reqs -> Statuses]
        BY <2>1, <3>1
      <3>3. /\ running' = FALSE /\ wakeups' = wakeups + 1
            /\ UNCHANGED <<queue, sequence, seq, queuedAt, now>>
        BY <1>4 DEF ExecutorDone
      <3> QED
        <4>1. queue' \subseteq Reqs /\ running' \in BOOLEAN
          BY <3>3 DEF Shapes
        <4>2. sequence' \in Nat /\ wakeups' \in Nat /\ now' \in Nat
          BY <3>3 DEF Shapes
        <4>3. seq' \in [Reqs -> Nat] /\ queuedAt' \in [Reqs -> Nat]
          BY <3>3 DEF Shapes
        <4> QED
          BY <4>1, <4>2, <4>3, <3>2 DEF Shapes
    <2> QED
      BY <1>4, <2>1, <2>2, <2>3, ReadsShrink
      DEF ExecutorDone, Shapes, QueueMatchesPromises, OneRunning, NoStall
  <1>5. CASE Wakeup
    BY <1>5, WakeupStep, ReadsShrink
  <1>6. CASE Tick
    BY <1>6, ReadsShrink DEF Tick, Shapes, QueueMatchesPromises, OneRunning, NoStall
  <1>7. CASE UNCHANGED vars
    BY <1>7, ReadsShrink DEF vars, Shapes, QueueMatchesPromises, OneRunning, NoStall
  <1> QED
    BY <1>1, <1>2, <1>3, <1>4, <1>5, <1>6, <1>7 DEF Next

\* The inductive invariant holds in every reachable state.
THEOREM Invariance == Spec => []IInv
  BY InitIInv, StepIInv, PTL DEF Spec

\* Every variable keeps its type, and the queue and #running agree with the
\* promises of the calls.
THEOREM TypeCorrect == Spec => []TypeOK
  <1>1. IInv => TypeOK
    BY DEF IInv, TypeOK
  <1> QED
    BY <1>1, Invariance, PTL

\* The queue cannot stall, whichever of run(), the timers and the microtask
\* comes first after a command ends.
THEOREM NeverStalls == Spec => []NoStall
  <1>1. IInv => NoStall
    BY DEF IInv
  <1> QED
    BY <1>1, Invariance, PTL

\* Commands other than writes never hold more places than the capacity.
THEOREM ReadsStayBounded == Spec => []ReadsBounded
  <1>1. IInv => ReadsBounded
    BY DEF IInv
  <1> QED
    BY <1>1, Invariance, PTL
-----------------------------------------------------------------------------
\* A call that begins in a step was first among the items of that step, and
\* nothing was executing.
LEMMA BeginsFirst ==
  ASSUME IInv, [Next]_vars, NEW r \in Reqs, status[r] # "running", status'[r] = "running"
  PROVE  /\ ~running
         /\ now' = now
         /\ \A q \in Reqs : status'[q] = "running" => q = r
         /\ \A q \in queue : q # r => Before(r, q, seq', queuedAt')
         /\ \A q \in queue : seq'[q] = seq[q] /\ queuedAt'[q] = queuedAt[q]
  <1> DEFINE Goal ==
        /\ ~running
        /\ now' = now
        /\ \A q \in Reqs : status'[q] = "running" => q = r
        /\ \A q \in queue : q # r => Before(r, q, seq', queuedAt')
        /\ \A q \in queue : seq'[q] = seq[q] /\ queuedAt'[q] = queuedAt[q]
  <1> SUFFICES Goal
    OBVIOUS
  <1> USE DEF IInv, Shapes
  <1>1. ASSUME NEW c \in Reqs, Run(c)
        PROVE  Goal
    <2> DEFINE st == [status EXCEPT ![c] = "queued"]
    <2>1. RunNext(queue \cup {c}, seq', queuedAt', st) /\ status[c] = "new"
      BY <1>1 DEF Run
    <2>2. /\ \A q \in queue : q # c
          /\ \A q \in Reqs : st[q] = "running" <=> status[q] = "running"
      BY <2>1 DEF QueueMatchesPromises
    <2>3. status' # st
      BY <2>2
    <2>a. /\ ~running
          /\ \E h \in queue \cup {c} : /\ First(h, queue \cup {c}, seq', queuedAt')
                                       /\ status' = [st EXCEPT ![h] = "running"]
      <3> HIDE DEF st
      <3> QED
        BY <2>1, <2>3 DEF RunNext
    <2>4. PICK h \in queue \cup {c} :
             /\ ~running /\ First(h, queue \cup {c}, seq', queuedAt')
             /\ status' = [st EXCEPT ![h] = "running"]
      BY <2>a
    <2>5. h = r /\ \A q \in Reqs : status[q] # "running"
      BY <2>2, <2>4 DEF QueueMatchesPromises
    <2>6. \A q \in queue : seq'[q] = seq[q] /\ queuedAt'[q] = queuedAt[q]
      BY <1>1, <2>2 DEF Run
    <2> QED
      BY <1>1, <2>2, <2>4, <2>5, <2>6 DEF First, Run
  <1>2. ASSUME Wakeup PROVE Goal
    <2>1. RunNext(queue, seq, queuedAt, status)
      BY <1>2 DEF Wakeup
    <2>2. PICK h \in queue : /\ ~running /\ First(h, queue, seq, queuedAt)
                             /\ status' = [status EXCEPT ![h] = "running"]
      BY <2>1 DEF RunNext
    <2>3. h = r /\ \A q \in Reqs : status[q] # "running"
      BY <2>2 DEF QueueMatchesPromises
    <2> QED
      BY <1>2, <2>2, <2>3 DEF First, Wakeup
  <1>3. CASE \E c \in Reqs : Refuse(c) \/ QueueTimeout(c) \/ ExecutorDone(c)
    BY <1>3 DEF Refuse, QueueTimeout, ExecutorDone
  <1>4. CASE Tick \/ UNCHANGED vars
    BY <1>4 DEF Tick, vars
  <1> QED
    BY <1>1, <1>2, <1>3, <1>4 DEF Next

\* A starved item is overtaken only by an older one, in every step of the queue.
THEOREM StarvedKeepTheirTurn == Spec => StarvedNotOvertaken
  <1> DEFINE Turn ==
        \A r, q \in Reqs :
          /\ status[r] # "running" /\ status'[r] = "running"
          /\ q \in queue /\ q \in queue' /\ Starved(q, queuedAt)
          => seq'[r] < seq[q]
  <1>1. IInv /\ IInv' /\ [Next]_vars => Turn
    <2> SUFFICES ASSUME IInv, IInv', [Next]_vars, NEW r \in Reqs, NEW q \in Reqs,
                        status[r] # "running", status'[r] = "running",
                        q \in queue, q \in queue', Starved(q, queuedAt)
                 PROVE  seq'[r] < seq[q]
      OBVIOUS
    <2>1. q # r
      BY DEF IInv, QueueMatchesPromises
    <2>2. /\ Before(r, q, seq', queuedAt') /\ seq'[q] = seq[q]
          /\ queuedAt'[q] = queuedAt[q] /\ now' = now
      BY <2>1, BeginsFirst
    <2>3. Starved(q, queuedAt')
      BY <2>2 DEF Starved
    <2> QED
      BY <2>2, <2>3 DEF Before, Starved
  <1>2. IInv /\ IInv' /\ [Next]_vars => [Turn]_vars
    BY <1>1
  <1> QED
    BY <1>2, Invariance, PTL DEF Spec, StarvedNotOvertaken

-----------------------------------------------------------------------------
\* The promise of a call moves only along Moves.
LEMMA StepMoves ==
  ASSUME IInv, [Next]_vars, NEW r \in Reqs
  PROVE  status'[r] = status[r] \/ <<status[r], status'[r]>> \in Executor!Moves
  <1> USE DEF IInv, Shapes, Executor!Moves
  <1>1. ASSUME NEW c \in Reqs, Run(c)
        PROVE  status'[r] = status[r] \/ <<status[r], status'[r]>> \in Executor!Moves
    <2> DEFINE st == [status EXCEPT ![c] = "queued"]
    <2>1. RunNext(queue \cup {c}, seq', queuedAt', st) /\ status[c] = "new"
      BY <1>1 DEF Run
    <2>2. CASE status' = st
      BY <2>1, <2>2
    <2>3. ASSUME NEW h \in queue \cup {c}, status' = [st EXCEPT ![h] = "running"]
          PROVE  status'[r] = status[r] \/ <<status[r], status'[r]>> \in Executor!Moves
      BY <2>1, <2>3 DEF QueueMatchesPromises
    <2> QED
      BY <2>1, <2>2, <2>3, RunNextCases
  <1>2. CASE Wakeup
    <2>1. RunNext(queue, seq, queuedAt, status)
      BY <1>2 DEF Wakeup
    <2>2. \/ status' = status
          \/ \E h \in queue : status' = [status EXCEPT ![h] = "running"]
      BY <2>1, RunNextCases
    <2> QED
      BY <2>2 DEF QueueMatchesPromises
  <1>3. ASSUME NEW c \in Reqs, Refuse(c) \/ QueueTimeout(c) \/ ExecutorDone(c)
        PROVE  status'[r] = status[r] \/ <<status[r], status'[r]>> \in Executor!Moves
    BY <1>3 DEF Refuse, QueueTimeout, ExecutorDone, QueueMatchesPromises
  <1>4. CASE Tick \/ UNCHANGED vars
    BY <1>4 DEF Tick, vars
  <1> QED
    BY <1>1, <1>2, <1>3, <1>4 DEF Next

\* The queue implements the serial executor its callers rely on: one command at
\* a time, and one outcome for every call.
THEOREM Implements == Spec => ExecutorSpec
  <1>1. Init => Executor!Init
    BY DEF Init, Executor!Init
  <1>2. IInv /\ [Next]_vars => [Executor!Next]_status
    <2> SUFFICES ASSUME IInv, [Next]_vars PROVE Executor!Next
      OBVIOUS
    <2>1. ASSUME NEW r \in Reqs, NEW q \in Reqs, Executor!Begins(r)
          PROVE  status[q] # "running" /\ (Executor!Begins(q) => q = r)
      BY <2>1, BeginsFirst DEF Executor!Begins, IInv, QueueMatchesPromises
    <2> QED
      BY <2>1, StepMoves DEF Executor!Next
  <1> QED
    BY <1>1, <1>2, Invariance, PTL DEF Spec, ExecutorSpec, Executor!Spec
=============================================================================

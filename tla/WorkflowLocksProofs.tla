------------------------- MODULE WorkflowLocksProofs -------------------------
(***************************************************************************)
(* Proofs about WorkflowLocks, for any number of processes.                *)
(*                                                                         *)
(* What a single workflow does with the locks, whatever the others do, is a*)
(* finite matter: the steps it may have left are computed here from its    *)
(* program, and ProgramsNest says what all of them have in common.  It     *)
(* mentions no constant, so that TLC decides it once and for all, with     *)
(* every run.  What the workflows do to each other is proved from it.      *)
(***************************************************************************)
EXTENDS WorkflowLocks, SequenceTheorems, TLAPS

\* What one step of a workflow that waits for nothing may leave of it.
After(steps) ==
  LET arg == Head(steps).arg
      rest == Tail(steps)
      unwound == Settling(rest, Outstanding(steps))
  IN  CASE Head(steps).op \in {"lock", "unlock", "unblock"} -> {rest}
        [] Head(steps).op = "maybe" -> {rest, Head(steps).body \o rest}
        [] Head(steps).op = "check" ->
             {rest, Recorded(arg) \o IF arg = "caught" THEN rest ELSE unwound}
        [] Head(steps).op = "block" -> {rest, unwound}

\* No workflow has more steps than this, those it may skip included.
Longest == 40

\* What a workflow may have left.
Rests ==
  [w \in Workflows |->
     LET within[n \in Nat] ==
           IF n = 0 THEN {Program[w]}
           ELSE LET sooner == within[n - 1]
                IN  sooner \cup UNION {After(s) : s \in sooner \ {<<>>}}
     IN  within[Longest]]

(* The orders in which locks are taken, each within the next.               *)
ByReading  == [automation |-> 1, reserve |-> 2, adaptive |-> 3, config |-> 4, override |-> 5]
BySettings == [automation |-> 1, reserve |-> 2, config |-> 3, adaptive |-> 4, override |-> 5]
ByBackup   == [automation |-> 1, override |-> 2, reserve |-> 3, adaptive |-> 4, config |-> 5]

\* Lock l is taken within those of held, in this order.
Within(order, held, l) == \A m \in held : order[m] < order[l]

\* The order of each workflow; who is refused may hold the automation lock.
Nests(w, held, l) ==
  /\ w \notin {"backupStart", "guardRestore", "recalculate"} => Within(BySettings, held, l)
  /\ w \notin {"backupStart", "settings", "awaySetting"} => Within(ByReading, held, l)
  /\ w \notin Refusable => \/ Within(ByBackup, held, l)
                           \/ "automation" \in held /\ w # "backupStart"
  /\ w = "backupStart" => held = {} \/ "automation" \in held

\* What every step of every workflow respects.
StepNests(w, steps) ==
  LET op == Head(steps).op
      arg == Head(steps).arg
      held == Outstanding(steps)
  IN  /\ op \in {"lock", "unlock", "maybe", "check", "block", "unblock"}
      /\ op = "lock" => arg \in Locks \ held /\ Nests(w, held, arg)
      /\ op = "unlock" => arg \in held
      /\ \A rest \in After(steps) :
           /\ rest \in Rests[w]
           /\ Outstanding(rest) = CASE op = "lock" -> held \cup {arg}
                                    [] op = "unlock" -> held \ {arg}
                                    [] OTHER -> held

ASSUME ProgramsNest ==
  \A w \in Workflows :
    /\ Program[w] \in Rests[w] /\ Outstanding(Program[w]) = {}
    /\ \A steps \in Rests[w] \ {<<>>} : StepNests(w, steps)

----------------------------------------------------------------------------
(* Queues.                                                                  *)

LEMMA Joining ==
  ASSUME NEW S, NEW s \in Seq(S), NEW p \in S
  PROVE  /\ Append(s, p) \in Seq(S) /\ Append(s, p) # <<>>
         /\ \A q : Contains(Append(s, p), q) <=> Contains(s, q) \/ q = p
         /\ Head(Append(s, p)) = IF s = <<>> THEN p ELSE Head(s)
         /\ IsInjective(s) /\ ~Contains(s, p) => IsInjective(Append(s, p))
<1> DEFINE t == Append(s, p)
<1>1. /\ t \in Seq(S) /\ Len(t) = Len(s) + 1 /\ Len(s) \in Nat
      /\ \A i \in 1..Len(s) : t[i] = s[i]
      /\ t[Len(s) + 1] = p
  BY AppendProperties, LenProperties
<1>2. /\ DOMAIN s = 1..Len(s) /\ DOMAIN t = 1..Len(t)
  BY <1>1, LenProperties
<1> HIDE DEF t
<1>3. \A q : Contains(t, q) <=> Contains(s, q) \/ q = p
  BY <1>1 DEF Contains
<1>4. Head(t) = IF s = <<>> THEN p ELSE Head(s)
  BY <1>1, <1>2, EmptySeq, HeadTailProperties
<1>5. t # <<>>
  BY <1>1, EmptySeq
<1>6. IsInjective(s) /\ ~Contains(s, p) => IsInjective(t)
  BY <1>1, <1>2 DEF IsInjective, Contains
<1> QED
  BY <1>1, <1>3, <1>4, <1>5, <1>6 DEF t

LEMMA Leaving ==
  ASSUME NEW S, NEW s \in Seq(S), s # <<>>, IsInjective(s)
  PROVE  /\ Tail(s) \in Seq(S) /\ IsInjective(Tail(s))
         /\ \A q : Contains(Tail(s), q) <=> Contains(s, q) /\ q # Head(s)
<1> DEFINE t == Tail(s)
<1>1. /\ t \in Seq(S) /\ Len(s) \in Nat /\ Len(s) >= 1
      /\ Len(t) = Len(s) - 1
      /\ \A i \in 1..Len(t) : t[i] = s[i + 1]
      /\ Head(s) = s[1]
  BY HeadTailProperties, LenProperties, EmptySeq
<1>2. /\ DOMAIN s = 1..Len(s) /\ DOMAIN t = 1..Len(t)
  BY <1>1, LenProperties
<1> HIDE DEF t
<1>3. IsInjective(t)
  BY <1>1, <1>2 DEF IsInjective
<1>4. ASSUME NEW q
      PROVE  Contains(t, q) <=> Contains(s, q) /\ q # Head(s)
  <2>1. ASSUME Contains(t, q)
        PROVE  Contains(s, q) /\ q # Head(s)
    <3>1. PICK i \in 1..Len(t) : t[i] = q
      BY <2>1 DEF Contains
    <3>2. i + 1 \in 1..Len(s) /\ s[i + 1] = q /\ 1 \in 1..Len(s) /\ i + 1 # 1
      BY <3>1, <1>1
    <3> QED
      BY <3>2, <1>1, <1>2 DEF Contains, IsInjective
  <2>2. ASSUME Contains(s, q), q # Head(s)
        PROVE  Contains(t, q)
    <3>1. PICK i \in 1..Len(s) : s[i] = q
      BY <2>2 DEF Contains
    <3>2. i - 1 \in 1..Len(t) /\ t[i - 1] = q
      BY <3>1, <2>2, <1>1
    <3> QED
      BY <3>2 DEF Contains
  <2> QED
    BY <2>1, <2>2
<1> QED
  BY <1>1, <1>3, <1>4 DEF t

LEMMA FirstIsQueued ==
  ASSUME TypeOK, NEW p \in Procs, NEW l \in Locks, Holds(p, l)
  PROVE  Queued(p, l)
<1>1. queue[l] \in Seq(Procs) /\ queue[l] # <<>> /\ Head(queue[l]) = p
  BY DEF TypeOK, Holds
<1>2. Len(queue[l]) >= 1 /\ queue[l][1] = p /\ Len(queue[l]) \in Nat
  BY <1>1, EmptySeq, LenProperties, HeadTailProperties
<1> QED
  BY <1>2 DEF Queued, Contains

----------------------------------------------------------------------------
(* The inductive invariant.                                                 *)

\* What is left of a workflow is one of its rests.
Rested == \A p \in Procs : todo[p] = <<>> \/ todo[p] \in Rests[mix[p]]

\* Who waits for a lock has the other ones it asked for, in its order.
Awaits(p, l) == Queued(p, l) /\ ~Holds(p, l)
Others(p, l) == Outstanding(todo[p]) \ {l}
Nested ==
  \A p \in Procs, l \in Locks :
    Awaits(p, l) => /\ \A m \in Others(p, l) : Holds(p, m)
                    /\ Nests(mix[p], Others(p, l), l)

IInv == TypeOK /\ Rested /\ Nested

(* Who waits for nothing holds what it has asked for.                       *)
LEMMA FreeHolds ==
  ASSUME TypeOK, NEW p \in Procs, ~Waits(p)
  PROVE  {l \in Locks : Holds(p, l)} = Outstanding(todo[p])
<1>1. \A l \in Locks : Queued(p, l) <=> l \in Outstanding(todo[p])
  BY DEF TypeOK
<1>2. \A l \in Locks : Queued(p, l) => Holds(p, l)
  BY DEF Waits
<1>3. Outstanding(todo[p]) \subseteq Locks
  BY DEF Outstanding
<1> QED
  BY <1>1, <1>2, <1>3, FirstIsQueued

(* A step leaves what After foretells.                                      *)
LEMMA GoesOn ==
  ASSUME TypeOK, NEW p \in Procs, Step(p)
  PROVE  \E rest \in After(todo[p]) : todo' = [todo EXCEPT ![p] = rest]
<1> DEFINE steps == todo[p]
<1>1. Unwound(p) = Settling(Tail(steps), Outstanding(steps))
  BY FreeHolds DEF Step, Unwound
<1>2. CASE Request(p)
  BY <1>2 DEF Request, At, After
<1>3. CASE Settle(p)
  BY <1>3 DEF Settle, At, After
<1>4. CASE Choose(p)
  BY <1>4 DEF Choose, At, After
<1>5. CASE Allowed(p)
  BY <1>5 DEF Allowed, At, After
<1>6. CASE Refused(p)
  BY <1>6, <1>1 DEF Refused, At, Arg, After
<1>7. CASE Policy(p)
  BY <1>7, <1>1 DEF Policy, At, After
<1> QED
  BY <1>2, <1>3, <1>4, <1>5, <1>6, <1>7 DEF Step

(* A workflow asks for a lock.                                              *)
LEMMA LockAsked ==
  ASSUME IInv, NEW p \in Procs, todo[p] # <<>>, ~Waits(p), Request(p)
  PROVE  IInv'
<1> DEFINE steps == todo[p]
           w == mix[p]
           l == Head(steps).arg
           held == Outstanding(steps)
<1>1. /\ queue \in [Locks -> Seq(Procs)] /\ blocks \in BOOLEAN
      /\ DOMAIN todo = Procs /\ mix \in [Procs -> Workflows]
      /\ \A k \in Locks : IsInjective(queue[k])
      /\ \A q \in Procs, k \in Locks : Queued(q, k) <=> k \in Outstanding(todo[q])
  BY DEF IInv, TypeOK
<1>2. PICK rest \in After(steps) : todo' = [todo EXCEPT ![p] = rest]
  BY GoesOn DEF IInv, Step
<1>3. StepNests(w, steps)
  BY <1>1, ProgramsNest DEF IInv, Rested
<1>4. /\ Head(steps).op = "lock" /\ queue' = [queue EXCEPT ![l] = Append(@, p)]
      /\ UNCHANGED <<blocks, mix>>
  BY DEF Request, At, Arg
<1>5. /\ l \in Locks \ held /\ Nests(w, held, l) /\ rest \in Rests[w]
      /\ Outstanding(rest) = held \cup {l}
  BY <1>2, <1>3, <1>4 DEF StepNests
<1>6. todo'[p] = rest /\ DOMAIN todo' = Procs /\ \A q \in Procs : q # p => todo'[q] = todo[q]
  BY <1>1, <1>2
<1>7. ~Contains(queue[l], p)
  BY <1>1, <1>5 DEF Queued
<1>8. /\ \A k \in Locks : queue'[k] = IF k = l THEN Append(queue[l], p) ELSE queue[k]
      /\ queue[l] \in Seq(Procs)
  BY <1>1, <1>4, <1>5
<1> HIDE DEF steps, w, l, held
<1>9. /\ queue' \in [Locks -> Seq(Procs)]
      /\ \A k \in Locks : IsInjective(queue'[k])
  BY <1>1, <1>4, <1>5, <1>7, <1>8, Joining
<1>10. /\ \A q \in Procs, k \in Locks : Queued(q, k)' <=> Queued(q, k) \/ (q = p /\ k = l)
       /\ \A q \in Procs, k \in Locks : Holds(q, k) => Holds(q, k)'
  <2>1. /\ Append(queue[l], p) # <<>>
        /\ \A q : Contains(Append(queue[l], p), q) <=> Contains(queue[l], q) \/ q = p
        /\ queue[l] # <<>> => Head(Append(queue[l], p)) = Head(queue[l])
    BY <1>8, Joining
  <2> QED
    BY <1>5, <1>8, <2>1 DEF Queued, Holds
<1>11. TypeOK'
  <2>1. \A q \in Procs, k \in Locks : Queued(q, k)' <=> k \in Outstanding(todo'[q])
    <3> SUFFICES ASSUME NEW q \in Procs, NEW k \in Locks
                 PROVE  Queued(q, k)' <=> k \in Outstanding(todo'[q])
      OBVIOUS
    <3>1. CASE q = p
      BY <3>1, <1>1, <1>5, <1>6, <1>10 DEF held, steps
    <3>2. CASE q # p
      BY <3>2, <1>1, <1>6, <1>10
    <3> QED
      BY <3>1, <3>2
  <2> QED
    BY <2>1, <1>1, <1>4, <1>6, <1>9 DEF TypeOK
<1>12. Rested'
  BY <1>4, <1>5, <1>6 DEF IInv, Rested, w
<1>13. Nested'
  <2> SUFFICES ASSUME NEW q \in Procs, NEW k \in Locks, Awaits(q, k)'
               PROVE  /\ \A m \in Others(q, k)' : Holds(q, m)'
                      /\ Nests(mix[q], Others(q, k), k)'
    BY DEF Nested
  <2>1. CASE q = p
    <3>1. k = l
      BY <2>1, <1>10 DEF Awaits, Waits
    <3>2. Others(q, k)' = held
      BY <3>1, <2>1, <1>5, <1>6 DEF Others
    <3>3. \A m \in held : Holds(p, m)
      BY FreeHolds DEF IInv, held, steps
    <3>4. held \subseteq Locks
      BY DEF held, Outstanding
    <3> QED
      BY <3>1, <3>2, <3>3, <3>4, <2>1, <1>4, <1>5, <1>10 DEF Nests, Within, w
  <2>2. CASE q # p
    <3>1. Awaits(q, k) /\ Others(q, k)' = Others(q, k)
      BY <2>2, <1>6, <1>10 DEF Awaits, Others
    <3>2. Others(q, k) \subseteq Locks
      BY DEF Others, Outstanding
    <3> QED
      BY <3>1, <3>2, <1>4, <1>10 DEF IInv, Nested, Nests, Within
  <2> QED
    BY <2>1, <2>2
<1> QED
  BY <1>11, <1>12, <1>13 DEF IInv

(* A workflow passes a lock on.                                             *)
LEMMA LockPassed ==
  ASSUME IInv, NEW p \in Procs, todo[p] # <<>>, ~Waits(p), Settle(p)
  PROVE  IInv'
<1> DEFINE steps == todo[p]
           w == mix[p]
           l == Head(steps).arg
           held == Outstanding(steps)
<1>1. /\ queue \in [Locks -> Seq(Procs)] /\ blocks \in BOOLEAN
      /\ DOMAIN todo = Procs /\ mix \in [Procs -> Workflows]
      /\ \A k \in Locks : IsInjective(queue[k])
      /\ \A q \in Procs, k \in Locks : Queued(q, k) <=> k \in Outstanding(todo[q])
  BY DEF IInv, TypeOK
<1>2. PICK rest \in After(steps) : todo' = [todo EXCEPT ![p] = rest]
  BY GoesOn DEF IInv, Step
<1>3. StepNests(w, steps)
  BY <1>1, ProgramsNest DEF IInv, Rested
<1>4. /\ Head(steps).op = "unlock" /\ queue' = [queue EXCEPT ![l] = Tail(@)]
      /\ UNCHANGED <<blocks, mix>>
  BY DEF Settle, At, Arg
<1>5. /\ l \in held /\ rest \in Rests[w] /\ Outstanding(rest) = held \ {l}
  BY <1>2, <1>3, <1>4 DEF StepNests
<1>6. todo'[p] = rest /\ DOMAIN todo' = Procs /\ \A q \in Procs : q # p => todo'[q] = todo[q]
  BY <1>1, <1>2
<1>7. l \in Locks /\ Holds(p, l)
  <2>1. held = {k \in Locks : Holds(p, k)}
    BY FreeHolds DEF IInv
  <2> QED
    BY <2>1, <1>5
<1>8. /\ \A k \in Locks : queue'[k] = IF k = l THEN Tail(queue[l]) ELSE queue[k]
      /\ queue[l] \in Seq(Procs) /\ queue[l] # <<>> /\ Head(queue[l]) = p
  BY <1>1, <1>4, <1>7 DEF Holds
<1> HIDE DEF steps, w, l, held
<1>9. /\ queue' \in [Locks -> Seq(Procs)]
      /\ \A k \in Locks : IsInjective(queue'[k])
  BY <1>1, <1>4, <1>7, <1>8, Leaving
<1>10. /\ \A q \in Procs, k \in Locks : Queued(q, k)' <=> Queued(q, k) /\ ~(q = p /\ k = l)
       /\ \A q \in Procs, k \in Locks : q # p /\ Holds(q, k) => Holds(q, k)'
  <2>1. \A q : Contains(Tail(queue[l]), q) <=> Contains(queue[l], q) /\ q # p
    BY <1>1, <1>7, <1>8, Leaving
  <2> QED
    BY <1>8, <2>1 DEF Queued, Holds
<1>11. TypeOK'
  <2>1. \A q \in Procs, k \in Locks : Queued(q, k)' <=> k \in Outstanding(todo'[q])
    <3> SUFFICES ASSUME NEW q \in Procs, NEW k \in Locks
                 PROVE  Queued(q, k)' <=> k \in Outstanding(todo'[q])
      OBVIOUS
    <3>1. CASE q = p
      BY <3>1, <1>1, <1>5, <1>6, <1>10 DEF held, steps
    <3>2. CASE q # p
      BY <3>2, <1>1, <1>6, <1>10
    <3> QED
      BY <3>1, <3>2
  <2> QED
    BY <2>1, <1>1, <1>4, <1>6, <1>9 DEF TypeOK
<1>12. Rested'
  BY <1>4, <1>5, <1>6 DEF IInv, Rested, w
<1>13. Nested'
  <2> SUFFICES ASSUME NEW q \in Procs, NEW k \in Locks, Awaits(q, k)'
               PROVE  /\ \A m \in Others(q, k)' : Holds(q, m)'
                      /\ Nests(mix[q], Others(q, k), k)'
    BY DEF Nested
  <2>1. q # p
    <3>1. ASSUME q = p
          PROVE  FALSE
      <4>1. k # l /\ Queued(p, k)
        BY <3>1, <1>10 DEF Awaits
      <4>2. Holds(p, k)
        BY <4>1 DEF Waits
      <4> QED
        BY <3>1, <4>1, <4>2, <1>8 DEF Awaits, Holds
    <3> QED
      BY <3>1
  <2>2. Awaits(q, k) /\ Others(q, k)' = Others(q, k)
    BY <2>1, <1>6, <1>10 DEF Awaits, Others
  <2>3. Others(q, k) \subseteq Locks
    BY DEF Others, Outstanding
  <2> QED
    BY <2>1, <2>2, <2>3, <1>4, <1>10 DEF IInv, Nested, Nests, Within
<1> QED
  BY <1>11, <1>12, <1>13 DEF IInv

(* What a workflow does otherwise leaves the locks alone, and so does its   *)
(* beginning.                                                               *)
LEMMA LocksUntouched ==
  ASSUME IInv, NEW p \in Procs, ~Waits(p), NEW rest,
         todo' = [todo EXCEPT ![p] = rest], rest \in Rests[mix[p]],
         Outstanding(rest) = Outstanding(todo[p]),
         UNCHANGED <<queue, mix>>, blocks' \in BOOLEAN
  PROVE  IInv'
<1>1. /\ queue \in [Locks -> Seq(Procs)]
      /\ DOMAIN todo = Procs /\ mix \in [Procs -> Workflows]
      /\ \A k \in Locks : IsInjective(queue[k])
      /\ \A q \in Procs, k \in Locks : Queued(q, k) <=> k \in Outstanding(todo[q])
  BY DEF IInv, TypeOK
<1>2. todo'[p] = rest /\ DOMAIN todo' = Procs /\ \A q \in Procs : q # p => todo'[q] = todo[q]
  BY <1>1
<1>3. \A q \in Procs, k \in Locks : /\ Queued(q, k)' <=> Queued(q, k)
                                    /\ Holds(q, k)' <=> Holds(q, k)
  BY DEF Queued, Holds
<1>4. \A q \in Procs : Outstanding(todo[q])' = Outstanding(todo[q])
  <2> SUFFICES ASSUME NEW q \in Procs
               PROVE  Outstanding(todo'[q]) = Outstanding(todo[q])
    BY DEF Outstanding
  <2> QED
    BY <1>2
<1>5. TypeOK'
  <2>1. \A q \in Procs, k \in Locks : Queued(q, k)' <=> k \in Outstanding(todo[q])'
    BY <1>1, <1>3, <1>4
  <2> QED
    BY <2>1, <1>1, <1>2 DEF TypeOK
<1>6. Rested'
  BY <1>2 DEF IInv, Rested
<1>7. Nested'
  <2> SUFFICES ASSUME NEW q \in Procs, NEW k \in Locks, Awaits(q, k)'
               PROVE  /\ \A m \in Others(q, k)' : Holds(q, m)'
                      /\ Nests(mix[q], Others(q, k), k)'
    BY DEF Nested
  <2>1. Awaits(q, k) /\ Others(q, k)' = Others(q, k)
    BY <1>3, <1>4 DEF Awaits, Others
  <2>2. Others(q, k) \subseteq Locks
    BY DEF Others, Outstanding
  <2> QED
    BY <2>1, <2>2, <1>3 DEF IInv, Nested, Nests, Within
<1> QED
  BY <1>5, <1>6, <1>7 DEF IInv

(* Nobody has asked for anything.                                           *)
LEMMA Initially == Init => IInv
<1> SUFFICES ASSUME Init
             PROVE  IInv
  OBVIOUS
<1>1. \A l \in Locks : queue[l] = <<>>
  BY DEF Init
<1>2. \A l \in Locks, p \in Procs : ~Queued(p, l)
  BY <1>1, LenProperties, EmptySeq DEF Queued, Contains
<1>3. Outstanding(<<>>) = {}
  BY DEF Outstanding
<1>4. \A l \in Locks : IsInjective(queue[l])
  BY <1>1 DEF IsInjective
<1>5. TypeOK
  BY <1>2, <1>3, <1>4, MixesAssumption DEF Init, TypeOK
<1> QED
  BY <1>2, <1>5 DEF Init, IInv, Rested, Nested, Awaits

(* A workflow begins.                                                       *)
LEMMA Begun ==
  ASSUME IInv, NEW p \in Procs, Begin(p)
  PROVE  IInv'
<1>1. Outstanding(todo[p]) = {}
  BY DEF Begin, Outstanding
<1>2. mix[p] \in Workflows /\ blocks \in BOOLEAN /\ ~Waits(p)
  BY <1>1 DEF IInv, TypeOK, Waits
<1>3. Program[mix[p]] \in Rests[mix[p]] /\ Outstanding(Program[mix[p]]) = {}
  BY <1>2, ProgramsNest
<1>4. todo' = [todo EXCEPT ![p] = Program[mix[p]]] /\ UNCHANGED <<queue, blocks, mix>>
  BY DEF Begin
<1> QED
  BY <1>1, <1>2, <1>3, <1>4, LocksUntouched

(* A workflow goes on.                                                      *)
LEMMA Stepped ==
  ASSUME IInv, NEW p \in Procs, Step(p)
  PROVE  IInv'
<1> DEFINE op == Head(todo[p]).op
<1>1. todo[p] # <<>> /\ ~Waits(p) /\ blocks \in BOOLEAN
  BY DEF Step, IInv, TypeOK
<1>2. CASE Request(p)
  BY <1>1, <1>2, LockAsked
<1>3. CASE Settle(p)
  BY <1>1, <1>3, LockPassed
<1>4. CASE Choose(p) \/ Allowed(p) \/ Refused(p) \/ Policy(p)
  <2>1. op \notin {"lock", "unlock"} /\ UNCHANGED <<queue, mix>> /\ blocks' \in BOOLEAN
    BY <1>1, <1>4 DEF Choose, Allowed, Refused, Policy, At
  <2>2. PICK rest \in After(todo[p]) : todo' = [todo EXCEPT ![p] = rest]
    BY GoesOn DEF IInv
  <2>3. StepNests(mix[p], todo[p])
    BY <1>1, ProgramsNest DEF IInv, Rested, TypeOK
  <2>4. rest \in Rests[mix[p]] /\ Outstanding(rest) = Outstanding(todo[p])
    BY <2>1, <2>2, <2>3 DEF StepNests
  <2> QED
    BY <1>1, <2>1, <2>2, <2>4, LocksUntouched
<1> QED
  BY <1>2, <1>3, <1>4 DEF Step

(* The invariant holds always.                                              *)
THEOREM Invariance == Spec => []IInv
<1>1. IInv /\ [Next]_vars => IInv'
  <2> SUFFICES ASSUME IInv, [Next]_vars
               PROVE  IInv'
    OBVIOUS
  <2>1. ASSUME NEW p \in Procs, Begin(p)
        PROVE  IInv'
    BY <2>1, Begun
  <2>2. ASSUME NEW p \in Procs, Step(p)
        PROVE  IInv'
    BY <2>2, Stepped
  <2>3. CASE UNCHANGED vars
    BY <2>3 DEF vars, IInv, TypeOK, Rested, Nested, Awaits, Others, Queued, Holds, Nests, Within
  <2> QED
    BY <2>1, <2>2, <2>3 DEF Next
<1> QED
  BY Initially, <1>1, PTL DEF Spec

(* Types hold, nobody stands twice in a queue, and nobody leaves a workflow *)
(* with a lock: for any number of processes, whatever they run.             *)
THEOREM TypeCorrect == Spec => []TypeOK
BY Invariance, PTL DEF IInv

----------------------------------------------------------------------------
(* No circular wait.                                                        *)

\* No two processes run workflows that nest two locks in opposite orders.
NoneOpposed ==
  \A m \in Mixes : \A p, q \in Procs : p # q => {m[p], m[q]} \notin Opposed

(* If all take the locks in one order, nobody waits in a circle: who holds  *)
(* the lock that comes last among those waited for would wait for one that  *)
(* comes later still.                                                       *)
LEMMA OneOrder ==
  ASSUME TypeOK, NEW order, \A l \in Locks : order[l] \in 1..5,
         \A p \in Procs, l \in Locks : Awaits(p, l) => Within(order, Others(p, l), l)
  PROVE  NoCircularWait
<1> SUFFICES ASSUME NEW S \in SUBSET Procs, S # {},
                    \A p \in S : \E q \in S : WaitsFor(p, q)
             PROVE  FALSE
  BY DEF NoCircularWait
<1>1. ASSUME NEW p \in S
      PROVE  \E q \in S, l \in Locks : Awaits(p, l) /\ Holds(q, l)
  <2>1. PICK q \in S : WaitsFor(p, q)
    OBVIOUS
  <2>2. PICK l \in Locks : Queued(p, l) /\ Holds(q, l) /\ p # q
    BY <2>1 DEF WaitsFor
  <2> QED
    BY <2>2 DEF Awaits, Holds
<1> DEFINE Beyond(n) == \E p, q \in S, l \in Locks : Awaits(p, l) /\ Holds(q, l) /\ order[l] >= n
<1>2. Beyond(1)
  <2>1. PICK p \in S, q \in S, l \in Locks : Awaits(p, l) /\ Holds(q, l)
    BY <1>1
  <2>2. order[l] >= 1
    OBVIOUS
  <2> QED
    BY <2>1, <2>2
<1>3. ASSUME NEW n \in Nat, Beyond(n)
      PROVE  Beyond(n + 1)
  <2>1. PICK p \in S, q \in S, l \in Locks : Awaits(p, l) /\ Holds(q, l) /\ order[l] >= n
    BY <1>3
  <2>2. PICK r \in S, k \in Locks : Awaits(q, k) /\ Holds(r, k)
    BY <1>1
  <2>3. l \in Others(q, k)
    <3>1. l \in Outstanding(todo[q])
      BY <2>1, FirstIsQueued DEF TypeOK
    <3> QED
      BY <3>1, <2>1, <2>2 DEF Others, Awaits
  <2>4. order[l] < order[k]
    BY <2>2, <2>3 DEF Within
  <2>5. order[k] >= n + 1 /\ q \in S /\ r \in S
    BY <2>1, <2>4
  <2> QED
    BY <2>2, <2>5
<1>4. ~Beyond(6)
  OBVIOUS
<1> HIDE DEF Beyond
<1>5. Beyond(1 + 1)
  BY <1>2, <1>3
<1>6. Beyond(2 + 1)
  BY <1>5, <1>3
<1>7. Beyond(3 + 1)
  BY <1>6, <1>3
<1>8. Beyond(4 + 1)
  BY <1>7, <1>3
<1>9. Beyond(5 + 1)
  BY <1>8, <1>3
<1> QED
  BY <1>9, <1>4

(* At any time all that wait take the locks in one order.  That of Backup   *)
(* Preparation counts while it holds the automation lock: those that would  *)
(* be refused in the opposite order hold it themselves when they are.       *)
LEMMA AnOrder ==
  ASSUME IInv, mix \in Mixes, NoneOpposed
  PROVE  \E order \in {ByReading, BySettings, ByBackup} :
           \A p \in Procs, l \in Locks : Awaits(p, l) => Within(order, Others(p, l), l)
<1>1. \A p, q \in Procs : p # q => {mix[p], mix[q]} \notin Opposed
  BY DEF NoneOpposed
<1>2. \A p \in Procs, l \in Locks :
        Awaits(p, l) => /\ Nests(mix[p], Others(p, l), l)
                        /\ "automation" \in Others(p, l) => Holds(p, "automation")
  BY DEF IInv, Nested
<1>3. ASSUME NEW p \in Procs, mix[p] = "backupStart", NEW q \in Procs
      PROVE  mix[q] \notin Refusable
  <2>1. CASE q = p
    BY <2>1, <1>3 DEF Refusable
  <2>2. CASE q # p
    BY <2>2, <1>1, <1>3 DEF Opposed
  <2> QED
    BY <2>1, <2>2
<1>4. CASE \E p \in Procs : mix[p] = "backupStart" /\ Holds(p, "automation")
  <2>1. PICK p \in Procs : mix[p] = "backupStart" /\ Holds(p, "automation")
    BY <1>4
  <2>2. ASSUME NEW q \in Procs, NEW l \in Locks, Awaits(q, l)
        PROVE  Within(ByBackup, Others(q, l), l)
    <3>1. \/ Within(ByBackup, Others(q, l), l)
          \/ "automation" \in Others(q, l) /\ mix[q] # "backupStart"
      BY <2>1, <2>2, <1>2, <1>3 DEF Nests
    <3>2. "automation" \in Others(q, l) => q = p
      BY <2>1, <2>2, <1>2 DEF Holds
    <3> QED
      BY <3>1, <3>2, <2>1
  <2> QED
    BY <2>2
<1>5. CASE ~\E p \in Procs : mix[p] = "backupStart" /\ Holds(p, "automation")
  <2>1. ASSUME NEW q \in Procs, NEW l \in Locks, Awaits(q, l), mix[q] = "backupStart"
        PROVE  Others(q, l) = {}
    BY <2>1, <1>2, <1>5 DEF Nests
  <2>2. CASE \E p \in Procs : mix[p] \in {"settings", "awaySetting"}
    <3>1. PICK p \in Procs : mix[p] \in {"settings", "awaySetting"}
      BY <2>2
    <3>2. ASSUME NEW q \in Procs
          PROVE  mix[q] \notin {"backupStart", "guardRestore", "recalculate"}
      <4>1. CASE q = p
        BY <3>1, <4>1
      <4>2. CASE q # p
        BY <3>1, <4>2, <1>1, <1>3 DEF Opposed, Refusable
      <4> QED
        BY <4>1, <4>2
    <3> QED
      BY <3>2, <1>2 DEF Nests
  <2>3. CASE ~\E p \in Procs : mix[p] \in {"settings", "awaySetting"}
    <3>1. ASSUME NEW q \in Procs, NEW l \in Locks, Awaits(q, l)
          PROVE  Within(ByReading, Others(q, l), l)
      <4>1. CASE mix[q] = "backupStart"
        BY <4>1, <3>1, <2>1 DEF Within
      <4>2. CASE mix[q] # "backupStart"
        BY <4>2, <3>1, <2>3, <1>2 DEF Nests
      <4> QED
        BY <4>1, <4>2
    <3> QED
      BY <3>1
  <2> QED
    BY <2>2, <2>3
<1> QED
  BY <1>4, <1>5

(* Workflows of which no two nest two locks in opposite orders never wait   *)
(* for each other in a circle, however many of them there are: pairs are    *)
(* all that has to be kept apart.                                           *)
THEOREM NoDeadlock ==
  ASSUME NoneOpposed
  PROVE  Spec => []NoCircularWait
<1> DEFINE Given == mix \in Mixes
<1>1. Spec => []Given
  <2>1. Init => Given
    BY DEF Init
  <2>2. Given /\ [Next]_vars => Given'
    <3> SUFFICES ASSUME [Next]_vars
                 PROVE  mix' = mix
      OBVIOUS
    <3>1. ASSUME NEW p \in Procs, Begin(p)
          PROVE  mix' = mix
      BY <3>1 DEF Begin
    <3>2. ASSUME NEW p \in Procs, Step(p)
          PROVE  mix' = mix
      BY <3>2 DEF Step, Request, Settle, Choose, Allowed, Refused, Policy
    <3> QED
      BY <3>1, <3>2 DEF Next, vars
  <2> HIDE DEF Given
  <2> QED
    BY <2>1, <2>2, PTL DEF Spec
<1>2. ASSUME IInv, Given
      PROVE  NoCircularWait
  <2>1. PICK order \in {ByReading, BySettings, ByBackup} :
          \A p \in Procs, l \in Locks : Awaits(p, l) => Within(order, Others(p, l), l)
    BY <1>2, AnOrder
  <2>2. \A l \in Locks : order[l] \in 1..5
    BY <2>1 DEF Locks, ByReading, BySettings, ByBackup
  <2> QED
    BY <1>2, <2>1, <2>2, OneOrder DEF IInv
<1> HIDE DEF Given
<1> QED
  BY Invariance, <1>1, <1>2, PTL

=============================================================================

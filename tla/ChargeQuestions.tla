---------------------------- MODULE ChargeQuestions ----------------------------
(* Questions to the calculations of charging, over bounded inputs, and what     *)
(* their answers must agree on: the plan, the slots that are taken off it, the     *)
(* checks of safety one after another, the times of new plans, and what is        *)
(* learned of the battery as its history grows.  Times are in minutes.           *)
EXTENDS Integers, Sequences, FiniteSets, SequencesExt

CONSTANTS Nothing

VARIABLE question

Charging == INSTANCE ChargeSafety WITH Absent <- Nothing, Hour <- 60

Learning == INSTANCE BatteryLearning WITH Absent <- Nothing, Hour <- 60,
  MinObservations <- 3, MinDays <- 2, MinPoints <- 60, MinValidations <- 2, MinSteady <- 3, MinBand <- 3

-----------------------------------------------------------------------------
(* Plans: six steps of an hour with a dear and a cheap band, by day and by night.  *)
Cheap == [yen |-> 10, label |-> "cheap"]
Dear == [yen |-> 20, label |-> "dear"]

\* Of each step the band, and the hours of its occurrence.
No == [band |-> Nothing, hours |-> Nothing]
In(band, from, to) == [band |-> band, hours |-> <<60 * from, 60 * to>>]
BandPatterns ==
  {<<No, In(Dear, 1, 2), No, In(Cheap, 3, 5), In(Cheap, 3, 5), No>>,
   <<In(Cheap, 0, 2), In(Cheap, 0, 2), No, In(Dear, 3, 4), No, No>>,
   <<In(Dear, 0, 2), In(Dear, 0, 2), In(Cheap, 2, 3), No, No, No>>}

NetPatterns == {n \in [1..6 -> {-300, 0, 500}] : n[2] = n[1] /\ n[5] = n[6]}

Timeline(bands, nets) ==
  [i \in 1..6 |->
     [start |-> 60 * (i - 1), end |-> 60 * i, net |-> nets[i],
      highNet |-> IF nets[i] > 0 THEN 2 * nets[i] ELSE nets[i],
      solar |-> IF nets[i] > 0 THEN nets[i] ELSE 0,
      band |-> bands[i].band, occurrence |-> bands[i].hours]]

PowerCurve == <<[min |-> 0, max |-> 80, watts |-> 400, learned |-> TRUE],
                [min |-> 80, max |-> 100, watts |-> 200, learned |-> FALSE]>>

\* An old battery with a learned curve and a guard that once let half through, or
\* a new one.
Battery(bands, nets, stored, old) ==
  [timeline |-> Timeline(bands, nets), stored |-> stored, capacity |-> 2000, floor |-> 400,
   targetPercent |-> 90, watts |-> 400, perPoint |-> 20, ratio |-> 100, efficiency |-> 90,
   displaced |-> IF old THEN 15 ELSE 30, curve |-> IF old THEN PowerCurve ELSE <<>>,
   standbyEnd |-> Nothing, outcomes |-> <<>>]

AskPlan == \E bands \in BandPatterns, nets \in NetPatterns, stored \in {200, 1000}, old \in BOOLEAN :
  question' = [kind |-> "plan", battery |-> Battery(bands, nets, stored, old)]

\* A plan never goes above the capacity or charges what does not pay, its slots lie in
\* their windows without touching, moving energy to an earlier window never leaves
\* more unmet, and the chart of the plan shows the same energy as the plan.
PlanHolds(p, plan, view, alone) ==
  LET s == plan.slots
  IN /\ \A i \in DOMAIN s : /\ s[i].windowStart <= s[i].start /\ s[i].start < s[i].end
                            /\ s[i].end <= s[i].windowEnd
                            /\ \A j \in DOMAIN s : i < j => s[i].end <= s[j].start
     /\ plan.unmet <= alone.unmet
     /\ \A i \in DOMAIN plan.windows : LET w == plan.windows[i] IN
          /\ ~w.economic => w.planned = 0
          /\ w.end \in 0..p.capacity
     /\ Charging!Total(Charging!Each(view, LAMBDA c : c.charge)) - plan.planned \in -6..0
     /\ \A i \in DOMAIN view :
          view[i].stored \in (IF p.stored < p.floor THEN p.stored ELSE p.floor)..p.capacity
     /\ plan.end - view[Len(view)].stored \in -5..5

\* Slots that are done, one after another, take off the plan all it planned and only
\* that, each of them once; what is left of one that was interrupted is no more than
\* was not delivered, in the plan it comes from and in the next one; and what is left
\* to a slot can be charged until it ends, whenever it is asked.
Executable(plan) ==
  [slots |-> plan.slots, planned |-> plan.planned, stored |-> 100 * plan.planned,
   required |-> plan.required, ratio |-> 100,
   windows |-> LET ends == {plan.slots[i].windowEnd : i \in DOMAIN plan.slots}
                   in(e) == Charging!Total([i \in DOMAIN plan.slots |->
                              IF plan.slots[i].windowEnd = e THEN plan.slots[i].targetWh ELSE 0])
               IN Charging!Each(SetToSeq(ends), LAMBDA e :
                    [end |-> e, planned |-> in(e), stored |-> 100 * in(e), requested |-> in(e)])]

SlotsHold(p, plan) ==
  LET s == plan.slots
      whole == Executable(plan)
      done(n) == FoldLeft(Charging!ConsumeCompleted, whole, SubSeq(s, 1, n))
      spent == done(Len(s))
  IN /\ spent.slots = <<>> /\ spent.planned = 0 /\ spent.required = plan.unmet
     /\ \A i \in DOMAIN spent.windows : spent.windows[i].planned = 0
     /\ \A n \in DOMAIN s : Charging!ConsumeCompleted(done(n), s[n]) = done(n)
     /\ \A n \in DOMAIN s, given \in {0, 60, 1000} :
          LET left == Charging!Interruption(s[n], given)
              kept == Charging!PreserveInterrupted(s, s[n], given)
              next == Charging!ApplyInterruption(s, left, p.watts, s[n].start)
              same(all) == SelectSeq(all, LAMBDA x : x.id = s[n].id)
          IN IF left = Nothing THEN same(kept) = <<>>
             ELSE /\ left.remaining + left.delivered = s[n].targetWh
                  /\ Charging!Each(same(kept), LAMBDA x : x.targetWh) = <<left.remaining>>
                  /\ Len(same(next.slots)) = 1 /\ same(next.slots)[1].targetWh <= left.remaining
     /\ \A n \in DOMAIN s : \A now \in {s[n].start - 10, s[n].start + 10, s[n].end - 10} :
          LET left == Charging!CapToRemaining(s[n], p.watts, now)
          IN left # Nothing =>
               /\ left.start >= now /\ left.targetWh <= Charging!Energy(s[n].watts, s[n].end - now)
               /\ Charging!CapToRemaining(left, p.watts, now) = left

PlanSound(p, plan) ==
  /\ PlanHolds(p, plan, Charging!TimelineView(plan, p), Charging!BuildPlan([i \in DOMAIN plan.windows |-> 0], p))
  /\ SlotsHold(p, plan)

-----------------------------------------------------------------------------
(* Checks, one after another: how long after the one before, and what the meter   *)
(* says: no export, one of the meter alone, one the rest of the house agrees with   *)
(* and one it contradicts.                                                   *)
Gaps == {<<1, 1, 1, 1>>, <<0, 2, 0, 2>>, <<1, 0, 0, 3>>}

Meter(export, demand) ==
  [export |-> export, import |-> 0, demand |-> demand, battery |-> 0, solar |-> 700, fuelCell |-> 0]
Readings == {Meter(0, 700), Meter(500, Nothing), Meter(500, 200), Meter(500, 690)}

AskChecks == \E gaps \in Gaps, readings \in [1..5 -> Readings] :
  question' = [kind |-> "checks", gaps |-> gaps, readings |-> readings]

Evidences(q) == Charging!Each(q.readings, Charging!Evidence)
Times(q) == [i \in 1..5 |-> Charging!Total(SubSeq(q.gaps, 1, i - 1))]

\* A charge the guard stopped may begin again at a check if and only if three minutes
\* went by and the last three checks at different times, with this one, found room.
\* An export counts if and only if the last two readings, or three of the meter
\* alone, tell of it and nothing between contradicts them.
ChecksHold(q) ==
  LET evidence == Evidences(q)
      time == Times(q)
      safe(i) == ~evidence[i].above
      fresh(i) == SelectSeq(Charging!Indices(1, i), LAMBDA j : j = 1 \/ time[j] # time[Charging!Most(1, j - 1)])
      recovery(i) == FoldLeft(LAMBDA r, j : Charging!AdvanceRecovery(r, safe(j), time[j]),
                              Charging!BeginRecovery(0), Charging!Indices(1, i))
      confirmation(i) == FoldLeft(LAMBDA c, j : Charging!Confirm(c, evidence[j]),
                                  [count |-> 0, coherent |-> FALSE], Charging!Indices(1, i))
      last(i, n, Holds(_)) == i >= n /\ \A j \in (i - n + 1)..i : Holds(j)
      agrees(j) == evidence[j].coherent
      alone(j) == evidence[j].above /\ ~evidence[j].balance
      held(i) == FoldLeft(LAMBDA h, j : Charging!UpdateHold(h, evidence[j].above, time[j]),
                          [until |-> 5, clear |-> 0], Charging!Indices(1, i))
  IN \A i \in 1..5 :
       /\ LET three == Charging!Trailing(fresh(i), 3)
              may == Charging!MayRestart(recovery(i), safe(i), time[i])
          IN /\ may <=> /\ time[i] >= 3 /\ safe(i) /\ Len(three) = 3
                        /\ \A n \in 1..3 : safe(three[n])
             /\ may => ~Charging!HoldsStandby([slotEnd |-> 10], recovery(i), time[i])
       /\ Charging!Confirmed(confirmation(i), evidence[i]) <=> last(i, 2, agrees) \/ last(i, 3, alone)
       /\ held(i).until = Nothing <=>
            time[i] >= 5 \/ \E j \in 2..i : time[j] < 5 /\ safe(j) /\ safe(j - 1)

-----------------------------------------------------------------------------
(* New plans, asked for every quarter of an hour while windows pass.             *)
Occurrences == <<[key |-> "night", start |-> 60, end |-> 120], [key |-> "noon", start |-> 150, end |-> 200]>>

AskPlans == \E solar \in BOOLEAN, fetched \in [1..4 -> {1, 2}], pending \in 0..3, switch \in {Nothing, 75, 130} :
  question' = [kind |-> "plans", solar |-> solar, fetched |-> fetched, pending |-> pending, switch |-> switch]

Question(q, state, n) ==
  LET pending == IF n = 4 * q.pending THEN [state EXCEPT !.pending = <<"request">>] ELSE state
  IN Charging!ConsumeSwitch(pending, 15 * n)

Decision(q, state, n) ==
  Charging!RefreshDecision(state, q.fetched[1 + (n % 16) \div 4], Occurrences, q.solar, 15 * n)

\* What is asked for is recorded with its plan.
Planned(q, state, event, n) ==
  IF event = Nothing THEN state
  ELSE [state EXCEPT !.pending = Nothing, !.lastEvent = event,
                     !.plan = [forecast |-> q.fetched[1 + (n % 16) \div 4]]]

Answered(q, acc, asked, event, n) ==
  [state |-> Planned(q, asked, event, n), events |-> Append(acc.events, event),
   states |-> Append(acc.states, Planned(q, asked, event, n))]

Answers(q) ==
  Charging!Folded(LAMBDA acc, n : Answered(q, acc, Question(q, acc.state, n), Decision(q, Question(q, acc.state, n), n), n),
           [state |-> [pending |-> Nothing, plan |-> Nothing, lastEvent |-> Nothing,
                       switchAfter |-> q.switch, consumed |-> Nothing],
            events |-> <<>>, states |-> <<>>], Charging!Indices(1, 15))

\* Without sun, a plan that was made is not asked for again at once (unless it was
\* asked for by a pending request), and every half
\* hour of a window has had one by its second question, unless requests took both; a
\* model learned during a slot asks for one plan in all.
PlansSound(q, run) ==
  LET requests == {<<"pending", <<"request">>>>, <<"pending", <<"model", q.switch>>>>}
      asks(e) == {n \in 1..15 : run.events[n] = e}
      inHalf(n, o) == o.start <= 15 * n /\ 15 * n < o.end
  IN /\ \A n \in 1..15 : /\ run.events[n] # Nothing /\ ~q.solar
                            /\ run.events[n] \notin requests
                            => Decision(q, run.states[n], n) = Nothing
     /\ \A n \in 2..15, i \in DOMAIN Occurrences :
          LET o == Occurrences[i]
              half == (15 * n - o.start) \div 30
          IN inHalf(n, o) /\ inHalf(n - 1, o) /\ (15 * (n - 1) - o.start) \div 30 = half
               => q.solar \/ \E m \in {n - 1, n} : run.events[m] = <<"window", o.key, half>>
                         \/ {run.events[n - 1], run.events[n]} \subseteq requests
     /\ q.switch # Nothing => Cardinality(asks(<<"pending", <<"model", q.switch>>>>)) = 1

PlansHold(q) == PlansSound(q, Answers(q))

-----------------------------------------------------------------------------
(* What is learned of the battery: every day it charges and discharges 30 % of     *)
(* SOC, at so many Wh a percent, or so that the day counts for nothing (the charge  *)
(* was begun by hand); and the samples of three charges on three days.           *)
Never == [learned |-> FALSE, active |-> Nothing, failures |-> 0, seen |-> {}, demoted |-> FALSE]
NewModel == [charge |-> Never, discharge |-> Never, power |-> Never, curve |-> <<>>]

AskModel == \E late \in [1..4 -> {21, 40, Nothing}] :
  question' = [kind |-> "model", perPoint |-> <<20, 20, 20, 20, 20>> \o late]

DayOf(perPoint, n) ==
  LET wh == 30 * Learning!Or(perPoint[n], 20)
      half(hour, from, to, charge, discharge) ==
        [start |-> 1440 * n + 60 * hour, end |-> 1440 * n + 60 * hour + 60, startSoc |-> from, endSoc |-> to,
         charge |-> charge, discharge |-> discharge, manual |-> perPoint[n] = Nothing,
         covered |-> [d \in Learning!Directions |-> 60]]
  IN <<half(1, 40, 70, wh, 0), half(20, 70, 40, 0, wh)>>

Given(perPoint, n) ==
  [rollups |-> FlattenSeq([i \in 1..n |-> DayOf(perPoint, i)]), samples |-> <<>>, perPoint |-> 20,
   watts |-> 400, migratedAt |-> 1440]

\* The models of days 5 to 9, each built upon the one before it.
Models(q) ==
  FoldLeft(LAMBDA models, n : Append(models, Learning!Model(Given(q.perPoint, n), Last(models))),
           <<NewModel>>, Charging!Indices(5, 9))

\* To build the model again from the same history changes nothing: no outcome is
\* counted twice.  A day adds at most one failure, and a day that counts for nothing
\* none; a value that is used lies among those observed; and one that was learned is
\* given up only after three failures or when what is observed has spread.
ModelsSound(q, models) ==
  LET same(a, b) == \A d \in Learning!Directions :
        /\ a[d].learned = b[d].learned /\ a[d].active = b[d].active /\ a[d].failures = b[d].failures
  IN \A n \in 6..9 :
       LET was == models[n - 4]
           is == models[n - 3]
       IN /\ same(Learning!Model(Given(q.perPoint, n), is), is)
          /\ \A d \in Learning!Directions :
               /\ is[d].failures - was[d].failures <= IF q.perPoint[n] = Nothing THEN 0 ELSE 1
               /\ is[d].learned => is[d].active \in {q.perPoint[i] : i \in 1..n}
               /\ was[d].learned /\ ~is[d].learned =>
                    is[d].failures >= 3 \/ Cardinality({q.perPoint[i] : i \in 1..n} \ {Nothing}) > 1

ModelsHold(q) == ModelsSound(q, Models(q))

-----------------------------------------------------------------------------
AskCurve == \E low, high, top \in {400, 380, 300, 200}, dip \in {0, 100}, was \in {Nothing, 350} :
  question' = [kind |-> "curve", watts |-> <<low, high, top>>, dip |-> dip, was |-> was]

SamplesOf(q) ==
  LET sample(day, band) ==
        [at |-> 1440 * day + band, soc |-> <<50, 82, 95>>[band], session |-> day,
         watts |-> q.watts[band] - IF day = 3 THEN q.dip ELSE 0]
  IN [n \in 1..9 |-> sample(1 + (n - 1) \div 3, 1 + ((n - 1) % 3))]

\* The power of a charge never rises with its SOC and is never above what is
\* configured, in the model and in what planning makes of it; and the model built again
\* from the same samples is the same.
CurveSound(model, again, used) ==
  /\ again.curve = model.curve /\ again.power.active = model.power.active
  /\ used.watts <= 400
  /\ \A i \in 1..5 :
       /\ model.curve[i].watts <= used.watts
       /\ i > 1 => model.curve[i].watts <= model.curve[i - 1].watts

CurveLearned(given, model) ==
  CurveSound(model, Learning!Model(given, model), Learning!Effective(model, [perPoint |-> 20, watts |-> 400]))

CurveFrom(given, before) == CurveLearned(given, Learning!Model(given, before))

CurveHolds(q) ==
  CurveFrom([Given(<<>>, 0) EXCEPT !.samples = SamplesOf(q)],
            [NewModel EXCEPT !.power = IF q.was = Nothing THEN Never
                                       ELSE [Never EXCEPT !.learned = TRUE, !.active = q.was]])

-----------------------------------------------------------------------------
Topics == {"plan", "checks", "plans", "model", "curve"}

Ask ==
  /\ question.kind = "topic"
  /\ \/ question.of = "plan" /\ AskPlan
     \/ question.of = "checks" /\ AskChecks
     \/ question.of = "plans" /\ AskPlans
     \/ question.of = "model" /\ AskModel
     \/ question.of = "curve" /\ AskCurve

(* What is planned and learned of charging is accounted for: in a plan and in what    *)
(* is left of it after its slots, after an interruption and in the next plan          *)
(* (planChronologicalDiscountedCharging, consumeCompletedAdaptiveChargingSlot); at       *)
(* each check of the guard and of the export, which depends on the checks before it;  *)
(* in the requests for new plans; and in the model of the battery, whose outcomes     *)
(* count once however often it is built (batteryLearningCoefficient).                *)
ChargesAccounted ==
  question # Nothing =>
    CASE question.kind = "plan" -> PlanSound(question.battery, Charging!PlanCharging(question.battery))
      [] question.kind = "checks" -> ChecksHold(question)
      [] question.kind = "plans" -> PlansHold(question)
      [] question.kind = "model" -> ModelsHold(question)
      [] question.kind = "curve" -> CurveHolds(question)
      [] OTHER -> TRUE
=============================================================================

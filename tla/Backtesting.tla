------------------------------ MODULE Backtesting ------------------------------
(* What a plan would have been worth: src/lib/domain/backtesting.ts and the      *)
(* choices of src/lib/services/backtest-service.ts.  A sample has the time it    *)
(* was taken and the time it is of, its energies in Wh, how much of the time     *)
(* each was known, and the states of charge; a plan has its slots, windows and   *)
(* timeline, what it predicted in all, and the model of the battery it was made   *)
(* with.  Costs are in yen x Wh.                                             *)
EXTENDS Tariffs, ChargeSlots

Version == 4    \* CURRENT_BACKTEST_MODEL

-----------------------------------------------------------------------------
(* Samples of a period.  A state of charge that was not taken in the part that is  *)
(* kept goes with the rest.                                                 *)
ClipSample(s, from, to) ==
  LET start == Most(s.start, from)
      end == Least(s.end, to)
      cut == start > s.start \/ end < s.end
      taken == IF s.at = Absent THEN FALSE ELSE start <= s.at /\ s.at <= end
      part(x) == IF x = Absent THEN Absent ELSE (x * (end - start)) \div (s.end - s.start)
  IN IF s.end <= s.start \/ end <= start THEN Absent
     ELSE [s EXCEPT !.start = start, !.end = end,
                    !.startSoc = IF start > s.start THEN Absent ELSE @,
                    !.endSoc = IF end < s.end \/ (cut /\ ~taken) THEN Absent ELSE @,
                    !.soc = IF cut THEN Absent ELSE @, !.minSoc = IF cut THEN Absent ELSE @,
                    !.energy = [k \in DOMAIN @ |-> part(@[k])],
                    !.coverage = [k \in DOMAIN @ |-> Least(end - start, part(Or(@[k], 0)))]]

Clipped(samples, from, to) ==
  SelectSeq(Each(samples, LAMBDA s : ClipSample(s, from, to)), LAMBDA s : s # Absent)

\* What is left of an interval beside the ones that are taken.
Beside(fragment, taken) ==
  IF taken[2] <= fragment[1] \/ taken[1] >= fragment[2] THEN {fragment}
  ELSE {f \in {<<fragment[1], taken[1]>>, <<taken[2], fragment[2]>>} : f[1] < f[2]}

Fragments(s, occupied) ==
  FoldLeft(LAMBDA all, taken : UNION {Beside(f, taken) : f \in all}, {<<s.start, s.end>>}, occupied)

Taken(acc, parts) ==
  [samples |-> acc.samples \o parts, occupied |-> acc.occupied \o Each(parts, LAMBDA x : <<x.start, x.end>>)]

Accept(acc, s, fragments) ==
  Taken(acc, SelectSeq(Each(fragments, LAMBDA f : ClipSample(s, f[1], f[2])), LAMBDA x : x # Absent))

\* Of samples of one time the shorter one counts, of equally long ones the earlier.
NonOverlapping(samples) ==
  LET before(a, b) == \/ a.end - a.start < b.end - b.start
                      \/ a.end - a.start = b.end - b.start /\ a.start < b.start
  IN SortSeq(FoldLeft(LAMBDA acc, s : Accept(acc, s, SetToSeq(Fragments(s, acc.occupied))),
                      [samples |-> <<>>, occupied |-> <<>>], SortSeq(samples, before)).samples,
             LAMBDA a, b : a.start < b.start)

-----------------------------------------------------------------------------
(* What the plan predicted of the period, unless its timeline leaves part of it out.  *)
PredictedEnergy(plan, key, from, to) ==
  LET end(i) == Least(i.end, to)
      add(acc, i) ==
        IF acc = Absent THEN Absent
        ELSE IF end(i) <= Most(i.start, acc.cursor) THEN acc
        ELSE IF i[key] = Absent \/ i.start > acc.cursor \/ (key = "cell" /\ i.samples = 0) THEN Absent
        ELSE [total |-> acc.total + Energy(i[key], end(i) - acc.cursor), cursor |-> end(i)]
      whole(all) == IF all = Absent THEN Absent ELSE IF all.cursor >= to THEN all.total ELSE Absent
  IN IF plan.timeline = <<>> THEN Absent ELSE whole(FoldLeft(add, [total |-> 0, cursor |-> from], plan.timeline))

\* Without a timeline the plan's own sum counts; the sun is taken without the margin.
Predicted(plan, key, from, to) ==
  IF plan.timeline = <<>> THEN plan.predicted[key] ELSE PredictedEnergy(plan, key, from, to)

PredictedSolar(plan, margin, from, to) ==
  LET unspared(planned) ==
        IF planned = Absent \/ margin >= 100 THEN Absent ELSE (100 * planned) \div (100 - margin)
  IN IF plan.timeline = <<>> THEN plan.predicted.solar ELSE unspared(PredictedEnergy(plan, "solar", from, to))

EnergyOf(samples, key) ==
  LET known == SelectSeq(samples, LAMBDA s : s.energy[key] # Absent)
  IN IF known = <<>> THEN Absent ELSE Total(Each(known, LAMBDA s : s.energy[key]))

Error(predicted, actual) == IF Absent \in {predicted, actual} THEN Absent ELSE actual - predicted

ActualGridCost(samples, config) ==
  Total(Each(samples, LAMBDA s :
    Or(s.energy.import, 0) * Or(s.rate, RateForTimestamp(config.bands, s.start, config.standard).yen)))

-----------------------------------------------------------------------------
(* The plan carried out as it was made, on what the house used and generated.      *)
PlannedCharge(s, plan) ==
  Total(Each(plan.slots, LAMBDA x :
    IF x.start < x.end THEN (Most(0, x.targetWh) * Overlap(s, x)) \div (x.end - x.start) ELSE 0))

\* The parts of the samples between the times at which a slot or a window changes.
Segments(samples, plan) ==
  LET changes == UNION {{x.start, x.end} : x \in Range(plan.slots) \cup Range(plan.windows)}
      cuts(s) == Ascending({s.start, s.end} \cup {t \in changes : s.start <= t /\ t <= s.end})
      parts(s, times) == [n \in 1..(Len(times) - 1) |-> ClipSample(s, times[n], times[n + 1])]
  IN FlattenSeq(Each(samples, LAMBDA s : parts(s, cuts(s))))

\* In a window the battery waits in Standby once its charge began, or without sun.
HoldsInWindow(plan, t) ==
  LET window == First(plan.windows, LAMBDA w : w.start <= t /\ t < w.end)
  IN IF window = Absent THEN FALSE
     ELSE \/ \E x \in Range(plan.slots) : x.windowEnd = window.end /\ x.start <= t
          \/ ~SolarOpportunity(plan.timeline, window, plan.cellActive)

\* A reserve is violated by what is asked below it, not by reaching it.
Carry(acc, s, holds, charge, net, model, rate) ==
  LET available == Most(0, acc.stored - (model.capacity * model.floor) \div 100)
      charged == Min({model.capacity - acc.stored, (-net * model.ratio) \div 100,
                      (Energy(model.watts, s.end - s.start) * model.ratio) \div 100})
      spend(stored, used) == [acc EXCEPT !.stored = stored, !.cost = @ + Most(0, used) * rate]
  IN IF charge > 0 THEN spend(Least(model.capacity, acc.stored + (charge * model.ratio) \div 100), net)
     ELSE IF net > 0 /\ ~holds
       THEN [spend(acc.stored - Least(available, net), net - Least(available, net))
               EXCEPT !.violated = @ \/ net > available]
     ELSE IF net < 0 /\ ~holds THEN spend(acc.stored + charged, net + (100 * charged) \div model.ratio)
     ELSE spend(acc.stored, net)

CarryOut(acc, s, plan, charge, model, config) ==
  LET known(k) == Most(0, Or(s.energy[k], 0))
  IN Carry(acc, s, HoldsInWindow(plan, s.start), charge, known("demand") + charge - known("solar") - known("cell"), model,
           RateForTimestamp(config.bands, s.start, config.standard).yen)

Outcome(cost, soc, violated, plan) ==
  LET target == Or(plan.sunset, plan.target)
  IN [cost |-> cost, soc |-> soc, violated |-> violated,
      met |-> IF Absent \in {target, soc} THEN Absent ELSE soc >= target - 1]

Executed(run, plan, model) == Outcome(run.cost, (100 * run.stored) \div model.capacity, run.violated, plan)

SimulateModelOnly(plan, samples, config) ==
  LET first == First(samples, LAMBDA s : Or(s.startSoc, s.soc) # Absent)
      model == [capacity |-> Or(plan.battery.capacity, config.capacity), floor |-> Clamp(Or(config.limit, 0), 0, 100),
                ratio |-> Clamp(Or(plan.battery.ratio, 100), 50, 150),
                watts |-> Or(Or(plan.battery.watts, config.watts), 0)]
  IN IF samples = <<>> \/ first = Absent \/ Or(model.capacity, 0) <= 0 THEN Absent
     ELSE Executed(FoldLeft(LAMBDA acc, s : CarryOut(acc, s, plan, PlannedCharge(s, plan), model, config),
                            [stored |-> (model.capacity * Or(first.startSoc, first.soc)) \div 100, violated |-> FALSE,
                             cost |-> 0],
                            Segments(samples, plan)),
                   plan, model)

-----------------------------------------------------------------------------
(* A plan is scored when its time is over and four fifths of it are known.        *)
HorizonEndOf(snapshot) ==
  Or(snapshot.plan.until, IF snapshot.plan.timeline = <<>> THEN snapshot.at ELSE Last(snapshot.plan.timeline).end)

Covers(samples, key, length) == length > 0 /\ 5 * Total(Each(samples, LAMBDA s : Or(s.coverage[key], 0))) >= 4 * length

Actual(samples, key, enabled, length) ==
  IF ~enabled THEN 0 ELSE IF Covers(samples, key, length) THEN EnergyOf(samples, key) ELSE Absent

EndingSoc(samples, end) ==
  LET known == SelectSeq(samples, LAMBDA s : /\ Or(s.at, s.end) <= end /\ Or(s.at, s.end) >= end - Minutes(5)
                                             /\ Or(s.endSoc, s.soc) # Absent)
  IN IF known = <<>> THEN Absent ELSE Or(Last(known).endSoc, Last(known).soc)

AsOperated(samples, plan, config, end) ==
  Outcome(ActualGridCost(samples, config), EndingSoc(samples, end),
          \E s \in Range(samples) : LET soc == Or(s.minSoc, s.soc)
                                    IN IF soc = Absent THEN FALSE ELSE soc < Clamp(Or(config.limit, 0), 0, 100),
          plan)

Evaluable(snapshot, samples, end, now) ==
  /\ snapshot.version = Version /\ snapshot.plan.available /\ end <= now
  /\ Covers(samples, "demand", end - snapshot.at)

ErrorsOf(plan, config, from, end, actual) ==
  [demand |-> Error(Predicted(plan, "demand", from, end), actual.demand),
   cell |-> Error(Predicted(plan, "cell", from, end), actual.cell),
   solar |-> Error(PredictedSolar(plan, Clamp(Or(config.margin, 0), 0, 100), from, end), actual.solar)]

ScoredBy(snapshot, samples, end, now, evaluable, actual) ==
  [key |-> <<snapshot.at, snapshot.id>>, end |-> end, evaluable |-> evaluable,
   exact |-> snapshot.version = Version /\ end <= now,
   errors |-> ErrorsOf(snapshot.plan, snapshot.config, snapshot.at, end, actual),
   operated |-> IF evaluable /\ Covers(samples, "import", end - snapshot.at)
                THEN AsOperated(samples, snapshot.plan, snapshot.config, end) ELSE Absent,
   modelOnly |-> IF evaluable /\ \A k \in DOMAIN actual : actual[k] # Absent
                 THEN SimulateModelOnly(snapshot.plan, samples, snapshot.config) ELSE Absent]

ScoredIf(snapshot, samples, end, now, evaluable) ==
  ScoredBy(snapshot, samples, end, now, evaluable,
    [demand |-> IF evaluable THEN EnergyOf(samples, "demand") ELSE Absent,
     solar |-> Actual(samples, "solar", snapshot.config.solar, end - snapshot.at),
     cell |-> Actual(samples, "cell", snapshot.config.cell, end - snapshot.at)])

Scored(snapshot, samples, end, now) ==
  ScoredIf(snapshot, samples, end, now, Evaluable(snapshot, samples, end, now))

EvaluateCase(snapshot, samples, now) ==
  Scored(snapshot, NonOverlapping(Clipped(samples, snapshot.at, HorizonEndOf(snapshot))), HorizonEndOf(snapshot), now)

-----------------------------------------------------------------------------
(* What is scored: of the plans of a day the last one made before any of them would  *)
(* have charged, of the forecasts of an interval the last one made half an hour      *)
(* before it.  Snapshots and rows are in order of their time.                     *)
Canonical(group) ==
  LET starts == UNION {{x.start : x \in Range(s.plan.slots)} : s \in Range(group)}
      eligible == IF starts = {} THEN group ELSE SelectSeq(group, LAMBDA s : s.at <= Min(starts))
  IN Last(IF eligible = <<>> THEN group ELSE eligible)

CanonicalSnapshots(snapshots) ==
  LET day(s) == Or(s.plan.until, s.at) \div Day
  IN Each(Ascending({day(s) : s \in Range(snapshots)}),
          LAMBDA d : Canonical(SelectSeq(snapshots, LAMBDA s : day(s) = d)))

CanonicalFuelOutcomes(rows) ==
  LET counts(r) == r.issued <= r.start - Minutes(30) /\ r.settled = 2 /\ r.samples > 0 /\ r.actual # Absent
      counted == {r \in Range(rows) : counts(r)}
      latest(start) == First(SortSeq(SelectSeq(rows, LAMBDA r : r \in counted /\ r.start = start),
                                     LAMBDA a, b : a.issued > b.issued), LAMBDA r : TRUE)
  IN Each(Ascending({r.start : r \in counted}), latest)

ComponentMetrics(errors) ==
  LET known == SelectSeq(errors, LAMBDA e : e # Absent)
      mean(values) == IF known = <<>> THEN Absent ELSE Total(values) \div Len(known)
  IN [count |-> Len(known), error |-> mean(Each(known, LAMBDA e : Distance(e, 0))), bias |-> mean(known)]

ExecutionMetrics(executions) ==
  LET run == SelectSeq(executions, LAMBDA e : e # Absent)
      targets == SelectSeq(run, LAMBDA e : e.met # Absent)
      cost == IF run = <<>> THEN Absent ELSE Total(Each(run, LAMBDA e : e.cost))
  IN [plans |-> Len(run), met |-> IF targets = <<>> THEN Absent
                                  ELSE Share(Len(SelectSeq(targets, LAMBDA e : e.met)), Len(targets)),
      violations |-> Len(SelectSeq(run, LAMBDA e : e.violated)), cost |-> cost,
      average |-> IF run = <<>> THEN Absent ELSE cost \div Len(run)]

\* run: the summary of the plans between two times, in the mode that keeps both executions.
SummaryOf(scored, evaluable, rows) ==
  [outcomes |-> scored, plans |-> Len(scored), evaluable |-> Len(evaluable),
   demand |-> ComponentMetrics(Each(evaluable, LAMBDA o : o.errors.demand)),
   cell |-> ComponentMetrics(Each(rows, LAMBDA r : r.actual - Energy(r.median, Most(0, r.end - r.start)))),
   operated |-> ExecutionMetrics(Each(scored, LAMBDA o : o.operated)),
   modelOnly |-> ExecutionMetrics(Each(scored, LAMBDA o : o.modelOnly))]

SummaryWith(scored, rows) == SummaryOf(scored, SelectSeq(scored, LAMBDA o : o.evaluable), rows)

Summary(snapshots, samples, rows, from, now) ==
  SummaryWith(
    Each(CanonicalSnapshots(SelectSeq(snapshots, LAMBDA s : from <= s.at /\ s.at <= now)), LAMBDA s :
      EvaluateCase(s, SelectSeq(samples, LAMBDA x : s.at < x.end /\ x.start <= Least(now, HorizonEndOf(s))), now)),
    SelectSeq(CanonicalFuelOutcomes(rows), LAMBDA r : from <= r.start /\ r.start < now))
=============================================================================

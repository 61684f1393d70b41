--------------------------- MODULE BatteryLearning ---------------------------
(* What the application learns of the battery: src/lib/domain/                 *)
(* battery-learning.ts.  From the roll-ups of the history it takes charges and   *)
(* discharges, from them the energy of a percent of SOC (in Wh), and from the    *)
(* samples of charging the power and its curve; each is used only when enough    *)
(* agrees, and given up when it no longer does.  Times are in minutes (Hour is 60).*)
EXTENDS Numbers

CONSTANTS
  MinObservations,  \* 10: observations of a coefficient
  MinDays,          \* 7: their days
  MinPoints,        \* 300: the percents of SOC they cover together
  MinValidations,   \* 5: forward validations
  MinSteady,        \* 120: samples of steady charging since the migration
  MinBand           \* 60: samples in a band of the curve

Directions == {"charge", "discharge"}

-----------------------------------------------------------------------------
(* Observations.  A roll-up has its interval, its SOC at both ends, the energy     *)
(* charged and discharged and the minutes each was measured.                   *)

\* batteryLearningRollupInterval: a roll-up that moved in one direction, or Absent.
Interval(r) ==
  LET charges == r.charge >= 10
      discharges == r.discharge >= 10
      direction == IF charges THEN "charge" ELSE "discharge"
  IN IF r.end <= r.start \/ Absent \in {r.startSoc, r.endSoc} \/ charges = discharges THEN Absent
     ELSE [direction |-> direction, start |-> r.start, end |-> r.end,
           startSoc |-> r.startSoc, endSoc |-> r.endSoc,
           wh |-> IF charges THEN r.charge ELSE r.discharge,
           covered |-> Or(r.covered[direction], r.end - r.start), manual |-> r.manual]

Rise(direction, from, to) == IF direction = "charge" THEN to - from ELSE from - to

\* Intervals of one direction at most 35 minutes apart are one run; one that
\* charges past 98 % starts a run of its own.
Joins(run, i) ==
  /\ run.direction = i.direction /\ i.start - run.end <= 35
  /\ ~(i.direction = "charge" /\ i.endSoc > 98)

Begin(i) == [reversed |-> Rise(i.direction, i.startSoc, i.endSoc) < 0] @@ i

Extend(run, i) ==
  [run EXCEPT !.end = i.end, !.endSoc = i.endSoc, !.wh = @ + i.wh, !.covered = @ + i.covered,
              !.manual = @ \/ i.manual,
              !.reversed = \/ @ \/ Rise(i.direction, i.startSoc, i.endSoc) < 0
                           \/ Rise(i.direction, run.endSoc, i.startSoc) < 0]

Runs(rollups) ==
  LET intervals == SortSeq(SelectSeq(Each(rollups, Interval), LAMBDA i : i # Absent),
                           LAMBDA a, b : a.start < b.start)
      add(runs, i) ==
        IF (IF runs = <<>> THEN FALSE ELSE Joins(Last(runs), i))
        THEN [runs EXCEPT ![Len(runs)] = Extend(@, i)] ELSE Append(runs, Begin(i))
  IN FoldLeft(add, <<>>, intervals)

\* extractBatteryLearningObservations
Rejections(run) ==
  LET time == run.end - run.start
      points == Rise(run.direction, run.startSoc, run.endSoc)
  IN {r \in {"reversed", "manual", "soc", "energy", "coverage", "censored"} :
        CASE r = "reversed" -> run.reversed
          [] r = "manual" -> run.manual
          [] r = "soc" -> points < 20
          [] r = "energy" -> run.wh < 500
          [] r = "coverage" -> 10 * Least(run.covered, time) < 9 * time
          [] r = "censored" -> run.direction = "charge" /\ run.endSoc > 98}

Observation(run) ==
  LET points == Rise(run.direction, run.startSoc, run.endSoc)
      eligible == Rejections(run) = {}
  IN [id |-> <<run.direction, run.start, run.end>>, kind |-> run.direction, start |-> run.start,
      wh |-> run.wh, points |-> points, eligible |-> eligible,
      perPoint |-> IF eligible THEN run.wh \div points ELSE Absent]

Observations(rollups) == Each(Runs(rollups), Observation)

-----------------------------------------------------------------------------
(* A coefficient.                                                            *)

\* batteryLearningValidation: each observation since the migration, predicted by
\* the median of those before it, with its error in percents of SOC.
Validations(observations, migratedAt) ==
  LET known == SortSeq(SelectSeq(observations, LAMBDA o : o.eligible), LAMBDA a, b : a.start < b.start)
      prior(i) == [j \in 1..(i - 1) |-> known[j].perPoint]
      later == SelectSeq([i \in DOMAIN known |-> i],
                         LAMBDA i : known[i].start >= migratedAt /\ i > MinObservations)
  IN Each(later, LAMBDA i : [id |-> known[i].id,
                             error |-> known[i].wh \div Median(prior(i)) - known[i].points])

MeanError(v) == Total(Each(v, LAMBDA o : Distance(o.error, 0))) \div Len(v)
Bias(v) == Distance(Total(Each(v, LAMBDA o : o.error)), 0) \div Len(v)
WorstError(v) == Max({Distance(v[i].error, 0) : i \in DOMAIN v})
Failing(v) == v # <<>> /\ (MeanError(v) > 3 \/ Bias(v) > 2 \/ WorstError(v) > 6)

DispersionLimit(kind) == IF kind = "charge" THEN 7 ELSE 10
StabilityLimit(kind) == IF kind = "charge" THEN 3 ELSE 5

\* The move of the median between the last five values and the five before them.
Stability(values) ==
  LET recent == Median(Trailing(values, 5))
      prior == Median(SubSeq(values, Most(1, Len(values) - 9), Len(values) - 5))
  IN IF Len(values) <= 5 THEN Absent ELSE Share(Distance(recent, prior), prior)

Evidence(kind, observations, migratedAt) ==
  LET complete == SelectSeq(observations, LAMBDA o : o.kind = kind /\ o.wh >= 500 /\ o.points >= 20)
      eligible == SelectSeq(complete, LAMBDA o : o.eligible)
      values == Each(eligible, LAMBDA o : o.perPoint)
  IN [values |-> values, candidate |-> Median(values),
      dispersion |-> Dispersion(values), stability |-> Stability(values),
      days |-> Cardinality({eligible[i].start \div Day : i \in DOMAIN eligible}),
      points |-> Total(Each(eligible, LAMBDA o : o.points)),
      acceptance |-> IF complete = <<>> THEN 0 ELSE Share(Len(eligible), Len(complete)),
      validations |-> Validations(SelectSeq(observations, LAMBDA o : o.kind = kind), migratedAt)]

Beyond(x, limit) == IF x = Absent THEN FALSE ELSE x > limit

Blocked(kind, e) ==
  \/ Len(e.values) < MinObservations \/ e.days < MinDays \/ e.points < MinPoints
  \/ Beyond(e.dispersion, DispersionLimit(kind))
  \/ e.stability = Absent \/ Beyond(e.stability, StabilityLimit(kind))
  \/ kind = "discharge" /\ e.acceptance < 60
  \/ Len(e.validations) < MinValidations \/ Failing(e.validations)

\* The failures in a row of the outcomes not seen before, each failing with its
\* own error or with them all.
FailureStreak(e, previous) ==
  LET new == SelectSeq(Trailing(e.validations, 20), LAMBDA o : o.id \notin previous.seen)
      all == Len(e.validations) >= MinValidations /\ Failing(e.validations)
      next(streak, o) == IF all \/ Distance(o.error, 0) > 6 THEN streak + 1 ELSE 0
  IN IF previous.learned THEN FoldLeft(next, previous.failures, new) ELSE previous.failures

\* batteryLearningCoefficient: learned once nothing blocks it, kept while it does
\* not fail three times in a row or drift, and moved only while nothing blocks it.
CoefficientOf(e, configured, previous, blocked, streak, demoted, activate) ==
  LET learned == (previous.learned /\ ~demoted) \/ activate
  IN [learned |-> learned, candidate |-> e.candidate,
      active |-> IF ~learned THEN configured
                 ELSE IF blocked THEN Or(previous.active, e.candidate) ELSE e.candidate,
      failures |-> IF activate THEN 0 ELSE streak,
      seen |-> previous.seen \cup {Trailing(e.validations, 20)[i].id : i \in DOMAIN Trailing(e.validations, 20)},
      demoted |-> demoted \/ previous.demoted, validated |-> e.validations # <<>>]

CoefficientBy(kind, e, configured, previous, blocked, streak) ==
  LET drift == \/ Beyond(e.dispersion, 2 * DispersionLimit(kind))
               \/ Beyond(e.stability, 2 * StabilityLimit(kind))
  IN CoefficientOf(e, configured, previous, blocked, streak,
                   previous.learned /\ (streak >= 3 \/ drift), ~previous.learned /\ ~blocked)

CoefficientFrom(kind, e, configured, previous) ==
  CoefficientBy(kind, e, configured, previous, Blocked(kind, e), FailureStreak(e, previous))

Coefficient(kind, observations, configured, previous, migratedAt) ==
  CoefficientFrom(kind, Evidence(kind, observations, migratedAt), configured, previous)

-----------------------------------------------------------------------------
(* The power.  A sample of charging has its time, its power, its SOC and the       *)
(* session it belongs to.                                                     *)
Sessions(times) == Cardinality({i \in DOMAIN times : i = 1 \/ times[i] - times[Most(1, i - 1)] > 2})

Steady(samples) ==
  LET inTime == SortSeq(samples, LAMBDA a, b : a.at < b.at)
      high == Percentile(SelectSeq(Each(inTime, LAMBDA s : s.watts), LAMBDA w : w > 0), 90)
  IN IF high = Absent THEN <<>> ELSE SelectSeq(inTime, LAMBDA s : 100 * s.watts >= 95 * high)

\* batteryLearningPower: learned only as a reduction below 95 % of what is
\* configured, and given up when the samples spread or the reduction is gone.
PowerOf(candidate, configured, previous, qualified, reduces, demoted) ==
  LET learned == ~demoted /\ ((qualified /\ reduces) \/ previous.learned)
  IN [learned |-> learned, candidate |-> candidate, demoted |-> demoted \/ previous.demoted,
      active |-> IF ~learned THEN configured
                 ELSE IF qualified /\ reduces THEN Least(configured, candidate)
                 ELSE Or(previous.active, configured)]

PowerBy(candidate, spread, enough, configured, previous) ==
  LET reduces == IF candidate = Absent THEN FALSE ELSE 100 * candidate <= 95 * configured
      drift == enough /\ Beyond(spread, 3)
      restored == enough /\ candidate # Absent /\ ~reduces /\ ~drift
  IN PowerOf(candidate, configured, previous, enough /\ spread # Absent /\ ~Beyond(spread, 3), reduces,
             previous.learned /\ (drift \/ restored))

Enough(recent) ==
  /\ Len(recent) >= MinSteady
  /\ Sessions(Each(recent, LAMBDA s : s.at)) >= 3
  /\ Cardinality({recent[i].at \div Day : i \in DOMAIN recent}) >= 2

PowerFrom(steady, watts, configured, previous, migratedAt) ==
  PowerBy(Median(watts), Dispersion(watts), Enough(SelectSeq(steady, LAMBDA s : s.at >= migratedAt)),
          configured, previous)

PowerOn(steady, configured, previous, migratedAt) ==
  PowerFrom(steady, Each(steady, LAMBDA s : s.watts), configured, previous, migratedAt)

Power(samples, configured, previous, migratedAt) == PowerOn(Steady(samples), configured, previous, migratedAt)

Bands == <<[min |-> 0, max |-> 80], [min |-> 80, max |-> 85], [min |-> 85, max |-> 90],
           [min |-> 90, max |-> 95], [min |-> 95, max |-> 100]>>

\* buildBatteryChargePowerCurve: the first band is the power of above; each later one
\* is learned from the samples in it, and is not above those before it.
Later(curve, band, before, candidate, learned, watts) ==
  LET lowest == Least(Last(curve).ceiling, watts)
  IN Append(curve, [learned |-> learned, candidate |-> candidate, limit |-> Or(candidate, before),
                    watts |-> lowest, ceiling |-> lowest] @@ band)

\* One more band: what was learned of it is kept when its samples no longer qualify.
LaterBand(curve, band, before, candidate, qualified, was, configured) ==
  Later(curve, band, before, candidate, qualified \/ was.learned,
        IF ~(qualified \/ was.learned) THEN configured
        ELSE Or(IF qualified THEN candidate ELSE was.watts, configured))

Spread(dispersion) == dispersion = Absent \/ Beyond(dispersion, 20)

BandFrom(curve, band, before, here, watts, low, was, configured) ==
  LaterBand(curve, band, before, IF low = Absent THEN Absent ELSE Min({before, configured, low}),
            /\ Len(here) >= MinBand
            /\ Cardinality({here[i].session : i \in DOMAIN here}) >= 3
            /\ Cardinality({here[i].at \div Day : i \in DOMAIN here}) >= 2
            /\ ~Spread(Dispersion(watts)),
            was, configured)

BandOn(curve, n, here, watts, power, previous, configured) ==
  BandFrom(curve, Bands[n], Or(Or(curve[n - 1].limit, power.active), configured), here, watts,
           Percentile(watts, 25), IF previous = <<>> THEN [learned |-> FALSE, watts |-> Absent] ELSE previous[n],
           configured)

BandOf(curve, n, here, power, previous, configured) ==
  BandOn(curve, n, here, Each(here, LAMBDA s : s.watts), power, previous, configured)

Curve(samples, configured, power, previous) ==
  LET in(b) == SelectSeq(samples, LAMBDA s : s.watts > 0 /\ s.soc >= b.min
                                             /\ (s.soc < b.max \/ b.max = 100))
      first == [limit |-> power.candidate, learned |-> power.learned, candidate |-> power.candidate,
                watts |-> Least(configured, power.active), ceiling |-> power.active] @@ Bands[1]
  IN FoldLeft(LAMBDA curve, n : BandOf(curve, n, in(Bands[n]), power, previous, configured),
              <<first>>, <<2, 3, 4, 5>>)

-----------------------------------------------------------------------------
\* buildBatteryLearningModel
ModelOf(coefficient, power, curve) ==
  LET some(test(_)) == test(power) \/ \E kind \in Directions : test(coefficient[kind])
  IN [charge |-> coefficient["charge"], discharge |-> coefficient["discharge"], power |-> power, curve |-> curve,
      status |-> IF some(LAMBDA m : ~m.learned /\ m.demoted) THEN "degraded"
                 ELSE IF some(LAMBDA m : m.learned) THEN "active"
                 ELSE IF \E kind \in Directions : coefficient[kind].validated
                   THEN "validating" ELSE "learning"]

ModelWith(given, previous, coefficient, power) ==
  ModelOf(coefficient, power, Curve(given.samples, given.watts, power, previous.curve))

ModelOn(given, previous, observations) ==
  ModelWith(given, previous,
    [kind \in Directions |-> Coefficient(kind, observations, given.perPoint, previous[kind], given.migratedAt)],
    Power(given.samples, given.watts, previous.power, given.migratedAt))

Model(given, previous) == ModelOn(given, previous, Observations(given.rollups))

\* effectiveAdaptiveChargeWatts and effectiveBatteryLearningModel: what planning uses.
Effective(model, configured) ==
  LET per(kind) == IF model[kind].learned THEN model[kind].active ELSE configured.perPoint
  IN [watts |-> IF model.power.learned THEN Least(configured.watts, model.power.active) ELSE configured.watts,
      perPoint |-> per("charge"), capacity |-> 100 * per("discharge"),
      ratio |-> Share(per("discharge"), per("charge")), curve |-> model.curve]
=============================================================================

----------------------------- MODULE DemandForecast -----------------------------
(* The demand of the house and the power of the fuel cell that a plan expects:      *)
(* src/lib/domain/demand-forecast.ts.  A day is cut into Buckets (half hours); a     *)
(* year has twelve months of thirty days.  A sample has the demand and the time it   *)
(* covers; a day has, for each bucket measured, its mean and the time covered.       *)
EXTENDS Tariffs, AwayFuelCell

AllBuckets == 0..(Buckets - 1)
DayOf(t) == t \div Day
Weekend(day) == day % 7 >= 5
Month(day) == (day \div 30) % 12
Year(day) == day \div 360

MonthDistance(a, b) == LET d == Distance(Month(a), Month(b)) IN Least(d, 12 - d)
CalendarDayDistance(a, b) == LET d == Distance(a % 360, b % 360) IN Least(d, 366 - d)

-----------------------------------------------------------------------------
(* Days of demand.                                                         *)

DemandDay(day, seconds, values) ==
  LET sum(buckets) == FoldSet(LAMBDA b, s : s + Least(Bucket, seconds[b]), 0, buckets)
      daytime == {b \in DOMAIN seconds : 4 * b >= Buckets /\ 4 * b < 3 * Buckets}
  IN [day |-> day, seconds |-> seconds, values |-> values,
      coverage |-> Share(sum(DOMAIN seconds), Day), daytime |-> Share(sum(daytime), Day \div 2)]

\* filterDemandDaysByOccupancy: a bucket is away when its middle is.
FilterByOccupancy(days, periods, occupancy) ==
  LET away(d, b) == IsAwayAt(d.day * Day + b * Bucket + Bucket \div 2, periods, FALSE)
      kept(d) == {b \in DOMAIN d.values : (occupancy = "away") = away(d, b)}
  IN IF occupancy = "all" THEN days
     ELSE {DemandDay(d.day, Restrict(d.seconds, kept(d)), Restrict(d.values, kept(d))) :
             d \in {x \in days : kept(x) # {}}}

DayOfCells(day, cells) ==
  LET full == {b \in AllBuckets : cells[b].seconds > 0}
  IN DemandDay(day, [b \in full |-> cells[b].seconds], [b \in full |-> cells[b].sum \div cells[b].seconds])

\* aggregateDemandDays: a bucket takes no more time than it has, so that what is
\* measured twice does not count twice.
AggregateDemandDays(samples, periods, occupancy) ==
  LET kept == SelectSeq(samples, LAMBDA s :
                /\ s.demand # Absent
                /\ occupancy = "all" \/ (occupancy = "away") = IsAwayAt(s.at, periods, FALSE))
      add(b, s) == LET more == Least(Least(Bucket, Most(0, s.seconds)), Bucket - b.seconds)
                   IN IF more <= 0 THEN b ELSE [sum |-> b.sum + s.demand * more, seconds |-> b.seconds + more]
      cell(d, b) == FoldLeft(add, [sum |-> 0, seconds |-> 0],
                             SelectSeq(kept, LAMBDA s : DayOf(s.at) = d /\ HalfHourIndex(s.at) = b))
  IN {d \in {DayOfCells(n, [b \in AllBuckets |-> cell(n, b)]) : n \in {DayOf(kept[i].at) : i \in DOMAIN kept}} :
        DOMAIN d.values # {}}

\* A day measured now stands for the one that is kept, unless it covers less.
Merged(old, new) ==
  {d \in old : \A b \in new : d.day = b.day => d.coverage > b.coverage}
    \cup {d \in new : \A b \in old : d.day = b.day => d.coverage >= b.coverage}

Recorded(historical, samples, periods, occupancy) ==
  Merged(FilterByOccupancy(historical, periods, occupancy), AggregateDemandDays(samples, periods, occupancy))

-----------------------------------------------------------------------------
(* Days that compare.  A score orders them, a weight counts them; days of the same  *)
(* score are in the order of time.                                            *)

InTime(days) == Listed(days, LAMBDA a, b : a.day < b.day)

Scored(days, Score(_)) ==
  Listed(days, LAMBDA a, b : Score(a) < Score(b) \/ (Score(a) = Score(b) /\ a.day < b.day))

TemperatureDistance(temperatures, a, b, unknown) ==
  LET of(d) == IF d \in DOMAIN temperatures THEN temperatures[d] ELSE Absent
  IN IF of(a) = Absent \/ of(b) = Absent THEN unknown ELSE Distance(of(a), of(b))

Weighted(days, b, Weight(_)) ==
  WeightedMedian(Each(SelectSeq(days, LAMBDA d : b \in DOMAIN d.values),
                      LAMBDA d : [value |-> d.values[b], weight |-> Weight(d)]))

Age(d, target) == target - d.day * Day
SameType(d, target) == Weekend(d.day) = Weekend(DayOf(target))

\* selectSeasonalDemandDays: of each of ten earlier years the two best days within
\* four weeks of the date.
SeasonalDays(days, target, temperatures) ==
  LET today == DayOf(target)
      unknown == IF today \in DOMAIN temperatures THEN 5 ELSE 0
      calendar(d) == CalendarDayDistance(d.day, today)
      ago(d) == Year(today) - Year(d.day)
      warm(d) == TemperatureDistance(temperatures, today, d.day, unknown)
      score(d) == 2 * (calendar(d) + warm(d) + ago(d)) + IF SameType(d, target) THEN 0 ELSE 14
      best(y) == Leading(Scored({d \in days : ago(d) = y /\ calendar(d) <= 28}, score), 2)
      weight(d) == (1400 * (IF SameType(d, target) THEN 100 ELSE 35))
                   \div (14 + 2 * calendar(d) + 14 * warm(d) + 7 * ago(d))
  IN [days |-> Scored(UNION {Range(best(y)) : y \in 1..10}, score), weight |-> [d \in days |-> weight(d)]]

-----------------------------------------------------------------------------
\* predictBranchDemand: for each bucket the weighted median of the eight best of the
\* last six weeks that have it, blended with the seasons, by at most three tenths.
Recent(valid, target, temperatures) ==
  LET warm(d) == TemperatureDistance(temperatures, DayOf(target), d.day, 5)
      score(d) == (14 * (2 * warm(d) + IF SameType(d, target) THEN 0 ELSE 14) * Day) + Age(d, target)
      weight(d) == (1400 * (IF SameType(d, target) THEN 100 ELSE 35)) \div (14 + Age(d, target) \div Day + 14 * warm(d))
      recent == {d \in valid : Age(d, target) > 0 /\ Age(d, target) <= 42 * Day}
  IN [days |-> Scored(recent, score), weight |-> [d \in recent |-> weight(d)]]

Blended(now, then, share) ==
  IF now = Absent \/ then = Absent THEN now ELSE (now * (10 - share) + then * share) \div 10

BucketDemand(recent, seasonal, years, b) ==
  Blended(Weighted(Leading(SelectSeq(recent.days, LAMBDA d : b \in DOMAIN d.values), 8), b,
                   LAMBDA d : recent.weight[d]),
          Weighted(seasonal.days, b, LAMBDA d : seasonal.weight[d]), Least(3, Cardinality(years)))

LowDemand(recorded, b) ==
  Percentile(Each(InTime({d \in recorded : b \in DOMAIN d.values}), LAMBDA d : d.values[b]), 20)

Known(f) == {b \in AllBuckets : f[b] # Absent}
MeanOf(f) == IF Known(f) = {} THEN Absent
             ELSE FoldSet(LAMBDA b, s : s + f[b], 0, Known(f)) \div Cardinality(Known(f))

Forecast(recorded, valid, recent, seasonal, years, values, lows) ==
  LET covered == Cardinality(Known(values))
      filled(f, spare) == IF covered = 0 THEN f ELSE [b \in AllBuckets |-> Or(f[b], spare)]
  IN [available |-> Cardinality(valid) >= 7 /\ Len(recent.days) >= 4 /\ 5 * covered >= 4 * Buckets,
      recent |-> Leading(recent.days, 8), seasonal |-> seasonal.days, years |-> years, covered |-> covered,
      recorded |-> Cardinality(recorded), valid |-> Cardinality(valid),
      profile |-> filled(values, MeanOf(values)), low |-> filled(lows, Or(MeanOf(lows), MeanOf(values)))]

ForecastOf(recorded, valid, recent, seasonal, years) ==
  Forecast(recorded, valid, recent, seasonal, years,
           [b \in AllBuckets |-> BucketDemand(recent, seasonal, years, b)],
           [b \in AllBuckets |-> LowDemand(recorded, b)])

ForecastBy(recorded, valid, recent, seasonal) ==
  ForecastOf(recorded, valid, recent, seasonal, {Year(d.day) : d \in Range(seasonal.days)})

ForecastFrom(recorded, valid, target, temperatures) ==
  ForecastBy(recorded, valid, Recent(valid, target, temperatures), SeasonalDays(valid, target, temperatures))

Covering(recorded) == {d \in recorded : d.daytime >= 80}

ForecastFor(recorded, target, temperatures) == ForecastFrom(recorded, Covering(recorded), target, temperatures)

PredictBranchDemand(samples, target, temperatures, historical, periods, occupancy) ==
  ForecastFor(Recorded(historical, samples, periods, occupancy), target, temperatures)

\* predictAwayDemand: what three days away or more tell of a bucket; else what is low
\* at home, or a third of the usual.
AwayOf(recorded, days, weight, learned, normal) ==
  LET fallback(b) == IF normal.low[b] # Absent THEN Least(normal.low[b], Or(normal.profile[b], normal.low[b]))
                     ELSE IF normal.profile[b] # Absent THEN (35 * normal.profile[b]) \div 100 ELSE Absent
      unlearned(b) == IF fallback(b) = Absent THEN Absent ELSE Most(0, fallback(b))
  IN [profile |-> [b \in AllBuckets |-> IF b \in learned THEN Weighted(days, b, LAMBDA d : weight[d]) ELSE unlearned(b)],
      learned |-> learned, fallback |-> {b \in AllBuckets \ learned : unlearned(b) # Absent},
      days |-> {d.day : d \in Range(days)}, recorded |-> Cardinality(recorded)]

AwayBy(recorded, days, weight, normal) ==
  AwayOf(recorded, days, weight,
         {b \in AllBuckets : Len(SelectSeq(days, LAMBDA d : b \in DOMAIN d.values)) >= 3}, normal)

AwayFrom(recorded, target, temperatures, normal) ==
  LET warm(d) == TemperatureDistance(temperatures, DayOf(target), d.day, 5)
      calendar(d) == CalendarDayDistance(d.day, DayOf(target))
      age(d) == Age(d, target) \div Day
      score(d) == (90 * (calendar(d) + 2 * warm(d) + IF SameType(d, target) THEN 0 ELSE 10) * Day) + Age(d, target)
      weight(d) == (100000 * (IF SameType(d, target) THEN 10 ELSE 4))
                   \div (1000 + 71 * calendar(d) + 1000 * warm(d) + (1000 * age(d)) \div 365)
  IN AwayBy(recorded,
            Leading(Scored({d \in recorded : Age(d, target) > 0 /\ Age(d, target) <= 3660 * Day}, score), 24),
            [d \in {x \in recorded : Age(x, target) > 0} |-> weight(d)], normal)

PredictAwayDemand(samples, target, temperatures, historical, periods, normal) ==
  AwayFrom(Recorded(historical, samples, periods, "away"), target, temperatures, normal)

-----------------------------------------------------------------------------
(* The fuel cell: buildFuelCellGenerationModel.  Its samples have their power, its    *)
(* state and the time covered; its tank, read apart, a level.                     *)

UntilStarted(s, now) == SelectSeq(s, LAMBDA x : x.at <= now)
Until(s, now) == SelectSeq(s, LAMBDA x : x.at <= now /\ x.end <= now)
InOrder(s) == SortSeq(s, LAMBDA a, b : a.at < b.at)

\* The level of the tank at a time: the last reading, for three quarters of an hour.
HotWaterAt(tank, t) ==
  LET before == SelectSeq(tank, LAMBDA x : x.at <= t)
  IN IF before = <<>> THEN Absent
     ELSE IF 4 * (t - Last(before).at) <= 3 * Hour THEN Last(before).level ELSE Absent

\* The days of the cell: of each bucket its mean power, its most frequent state and
\* whether it was away.
FuelCellDays(power, periods) ==
  LET seconds(i) ==
        LET s == power[i]
            near == IF i = 1 THEN FALSE ELSE s.at \div Bucket = power[i - 1].at \div Bucket
        IN Clamp(IF s.seconds # Absent THEN s.seconds
                 ELSE IF near THEN Least(RawGap, s.at - power[i - 1].at) ELSE 1, 0, Bucket)
      in(d, b) == SelectSeq([i \in DOMAIN power |-> i], LAMBDA i :
                    /\ seconds(i) > 0 /\ DayOf(power[i].at) = d /\ HalfHourIndex(power[i].at) = b)
      add(c, i) == LET more == Least(seconds(i), Bucket - c.seconds)
                   IN [sum |-> c.sum + Most(0, power[i].watts) * more, seconds |-> c.seconds + more]
      state(is) == LET states == SelectSeq(Each(is, LAMBDA i : power[i].state), LAMBDA x : x # Absent)
                       times(x) == Len(SelectSeq(states, LAMBDA y : y = x))
                   IN First(states, LAMBDA x : \A y \in Range(states) : times(y) <= times(x))
      mean(c) == c.sum \div c.seconds
      value(d, b, is) == [watts |-> mean(FoldLeft(add, [sum |-> 0, seconds |-> 0], is)), state |-> state(is),
                          away |-> IsAwayAt(d * Day + b * Bucket + Bucket \div 2, periods, FALSE)]
  IN {[day |-> n, values |-> [b \in {x \in AllBuckets : in(n, x) # <<>>} |-> value(n, b, in(n, b))]] :
        n \in {x \in {DayOf(power[i].at) : i \in DOMAIN power} : \E b \in AllBuckets : in(x, b) # <<>>}}

\* A trip that is still to end: as it was observed, or taken to be off.
AwayForecastsOf(trips, now, evidence) ==
  Each(SelectSeq(trips, LAMBDA p : p.until > Most(now, p.from)),
       LAMBDA p : [from |-> p.from, until |-> p.until,
                   regime |-> IF evidence = Absent THEN "provisional-off"
                              ELSE IF evidence.from = p.from THEN evidence.regime ELSE "provisional-off"])

AwayForecasts(config, trips, samples, now, previous) ==
  IF DeviceKey(config) = Absent THEN <<>>
  ELSE AwayForecastsOf(trips, now, ActiveEvidence(config, trips, samples, now, previous))

Ready(config, days, now, temperatures, periods) ==
  LET valid == {d \in days : 3 * Cardinality(DOMAIN d.values) >= Buckets}
      away == IF DeviceKey(config) # Absent THEN FALSE ELSE IsAwayAt(now, periods, TRUE)
      comparable == {d \in valid : /\ Weekend(d.day) = Weekend(DayOf(now))
                                   /\ \E b \in DOMAIN d.values : d.values[b].away = away
                                   /\ MonthDistance(d.day, DayOf(now)) <= 2
                                   /\ TemperatureDistance(temperatures, DayOf(now), d.day,
                                        IF DayOf(now) \in DOMAIN temperatures THEN 7 ELSE 0) <= 6}
  IN Cardinality(valid) >= 7 /\ Cardinality(comparable) >= 4

\* The model when its days and whether they suffice are known.
ModelOf(config, days, ready, power, levels, now, temperatures, periods, forecasts) ==
  [days |-> days, ready |-> ready, active |-> config.enabled /\ config.influences /\ ready,
   trips |-> forecasts, state |-> IF power = <<>> THEN Absent ELSE Last(power).state,
   tank |-> levels, level |-> HotWaterAt(levels, now), now |-> now,
   temperatures |-> temperatures, periods |-> periods]

ModelOn(config, days, power, levels, now, temperatures, periods, forecasts) ==
  ModelOf(config, days, Ready(config, days, now, temperatures, periods), power, levels, now,
          temperatures, periods, forecasts)

ModelFrom(config, power, levels, now, temperatures, periods, forecasts) ==
  ModelOn(config, FuelCellDays(power, periods), power, levels, now, temperatures, periods, forecasts)

FuelCellModel(config, samples, tank, now, temperatures, trips, previous) ==
  ModelFrom(config, SelectSeq(InOrder(Until(samples, now)), LAMBDA s : s.watts # Absent),
            InOrder(SelectSeq(tank, LAMBDA x : x.at <= now)), now, temperatures, Range(trips),
            AwayForecasts(config, trips, samples, now, previous))

\* forecastAt: each condition narrows the days to those that meet it, while four of
\* them do.  The tank is compared at the time of the forecast, not at the time that
\* is forecast, which nobody knows yet.
Fewer(few, days) == IF Cardinality(few) >= 4 THEN few ELSE days
Narrowed(days, Meets(_)) == Fewer({d \in days : Meets(d)}, days)

ComparableDays(m, t, b, trip) ==
  LET away == IF trip # Absent THEN FALSE ELSE IsAwayAt(t, m.periods, TRUE)
      unknown == IF DayOf(t) \in DOMAIN m.temperatures THEN 7 ELSE 0
  IN Narrowed({d \in m.days : b \in DOMAIN d.values}, LAMBDA d :
       /\ Weekend(d.day) = Weekend(DayOf(t)) /\ d.values[b].away = away
       /\ MonthDistance(d.day, DayOf(t)) <= 2
       /\ TemperatureDistance(m.temperatures, DayOf(t), d.day, unknown) <= 6)

Running(m, t, b, days) ==
  IF m.state = Absent \/ Distance(t, m.now) > 2 * Hour THEN days
  ELSE Narrowed(days, LAMBDA d : d.values[b].state = m.state)

SameTank(m, t, days) ==
  LET origin(d) == (d.day - (DayOf(t) - DayOf(m.now))) * Day + (m.now % Day)
  IN {d \in days : origin(d) < m.now /\ HotWaterAt(m.tank, origin(d)) = m.level}

ForecastOfPower(values, warm, regime) ==
  LET off == regime = "provisional-off" \/ regime = "off-supported"
  IN [low |-> IF off THEN 0 ELSE Or(Percentile(values, 20), 0),
      median |-> IF off THEN 0 ELSE Or(Median(values), 0),
      high |-> IF regime = "off-supported" THEN 0 ELSE Or(Percentile(values, 80), 0),
      count |-> Len(values), warm |-> warm]

Power(b, days, warm, regime) ==
  ForecastOfPower(Each(InTime(days), LAMBDA d : d.values[b].watts), warm, regime)

PowerWith(b, warm, full, running, trip) ==
  Power(b, IF warm THEN Fewer(full, running) ELSE running, warm /\ Cardinality(full) >= 4,
        IF trip = Absent THEN Absent ELSE trip.regime)

PowerOn(m, t, b, running, trip) ==
  PowerWith(b, m.level # Absent /\ t >= m.now /\ t <= m.now + 6 * Hour, SameTank(m, t, running), running, trip)

PowerDuring(m, t, b, trip) ==
  PowerOn(m, t, b, Running(m, t, b, ComparableDays(m, t, b, trip)), trip)

ForecastAt(m, t) == PowerDuring(m, t, HalfHourIndex(t), First(m.trips, LAMBDA p : p.from <= t /\ t < p.until))
=============================================================================

------------------------------ MODULE SolarForecast ------------------------------
(* The sun a plan expects: src/lib/domain/solar-forecast.ts.  An array has a peak    *)
(* in W, a loss and a margin in percent; a factor says, in percent, how many W it    *)
(* gives for a W/m2.  An hour of the forecast has the time it ends at, its          *)
(* irradiance and its temperature; a year has twelve months of thirty days.          *)
EXTENDS Tariffs

Calendar(t) == t \div Day
Fallback(array) == (array.peak * (100 - array.loss)) \div 1000

SolarPower(irradiance, array, factor) ==
  LET known == IF factor = Absent THEN FALSE ELSE factor > 0
  IN Least(array.peak, (Most(0, irradiance) * (IF known THEN factor ELSE Fallback(array))) \div 100)

\* applySolarForecastBias
Biased(watts, array, accuracy) ==
  Least(array.peak, (Most(0, watts) * (IF accuracy.learned THEN accuracy.factor ELSE 100)) \div 100)

TemperatureByDay(hours) ==
  LET known == {h \in Range(hours) : h.temperature # Absent}
      of(day) == {h \in known : Calendar(h.at) = day}
      mean(set) == FoldSet(LAMBDA h, s : s + h.temperature, 0, set) \div Cardinality(set)
  IN [day \in {Calendar(h.at) : h \in known} |-> mean(of(day))]

-----------------------------------------------------------------------------
(* What the array gave of the sun there was.                                    *)

PartOfDay(t) ==
  LET hour == (t % Day) \div Hour
  IN IF hour < 10 THEN "morning" ELSE IF hour < 14 THEN "midday" ELSE "afternoon"

Season(t) == (Calendar(t) \div 90) % 4
CalibrationGroup(t) == <<Season(t), PartOfDay(t)>>

\* solarCalibrationFactor: between the middles of two seasons, a share of each.
CalibrationFactor(calibration, t) ==
  LET position == (Calendar(t) % 360) - 45
      lower == position \div 90
      passed == position - 90 * lower
      at(season) == LET group == <<season % 4, PartOfDay(t)>>
                    IN IF group \in DOMAIN calibration.groups THEN calibration.groups[group]
                       ELSE Or(calibration.factor, 100)
  IN (at(lower) * (90 - passed) + at(lower + 1) * passed) \div 90

\* learnedSolarFactor: the median of the last thirty days, each with the median of its
\* samples in enough sun; seven days make a factor, four of them one of a group.
LearnedSolarFactor(samples, weather, array) ==
  LET sun(s) == First(weather, LAMBDA h : h.at \div Hour = (s.at \div Hour) + 1)
      lit == SelectSeq(samples, LAMBDA s :
               /\ s.watts # Absent
               /\ LET h == sun(s) IN IF h = Absent THEN FALSE ELSE h.irradiance >= 50)
      days == {Calendar(s.at) : s \in Range(lit)}
      factor(day, In(_)) ==
        Median(Each(SelectSeq(lit, LAMBDA s : Calendar(s.at) = day /\ In(s)),
                    LAMBDA s : (100 * s.watts) \div sun(s).irradiance))
      factors(In(_)) == SelectSeq(Each(Ascending(days), LAMBDA d : factor(d, In)), LAMBDA f : f # Absent)
      grouped(g) == factors(LAMBDA s : CalibrationGroup(s.at) = g)
      all == factors(LAMBDA s : TRUE)
      learned == Len(all) >= 7
      groups == {g \in {CalibrationGroup(s.at) : s \in Range(lit)} : learned /\ Len(grouped(g)) >= 4}
  IN [factor |-> IF learned THEN Median(Trailing(all, 30)) ELSE Fallback(array), learned |-> learned,
      validDays |-> Len(all), groups |-> [g \in groups |-> Median(Trailing(grouped(g), 30))]]

-----------------------------------------------------------------------------
(* The energy a forecast was issued for, day by day: dailySolarForecastIssues.       *)
Issues(forecast, array, calibration, accuracy) ==
  LET dates == {Calendar(h.at) : h \in Range(forecast.hours)} \cup {d.date : d \in Range(forecast.days)}
      hours(date) == SelectSeq(forecast.hours, LAMBDA h : Calendar(h.at) = date)
      raw(h) == SolarPower(h.irradiance, array, CalibrationFactor(calibration, h.at))
      predicted(date) == Total(Each(hours(date), LAMBDA h : Biased(raw(h), array, accuracy)))
  IN Each(Ascending(dates), LAMBDA date :
       [date |-> date, raw |-> Total(Each(hours(date), raw)), predicted |-> predicted(date),
        planned |-> (predicted(date) * Most(0, 100 - array.margin)) \div 100])

-----------------------------------------------------------------------------
(* The steps of a plan.                                                        *)

\* forecastHourForInterval: the hour that ends next after the middle of the step, or
\* the nearest to it.
HourFor(hours, from, to) ==
  LET middle == (from + to) \div 2
      target == ((middle + Hour - 1) \div Hour) * Hour
  IN First(hours, LAMBDA h : \A o \in Range(hours) : Distance(h.at, target) <= Distance(o.at, target))

NextPlanningBoundary(t, end) == Least(end, ((t \div Bucket) + 1) * Bucket)

\* planningSunsetWithDiscountedWindow: the first sunset to come with a discounted time
\* before it, of those where a step may begin.
PlanningSunset(config, days, now) ==
  LET discounted(t) == ExplicitDiscountedBand(config, t) # Absent
      begins(d) == {now} \cup {t \in now..(d.sunset - 1) : t % Bucket = 0}
      later == SelectSeq(days, LAMBDA d : IF d.sunset = Absent THEN FALSE ELSE d.sunset > now)
  IN First(SortSeq(later, LAMBDA a, b : a.sunset < b.sunset), LAMBDA d : \E t \in begins(d) : discounted(t))
=============================================================================

--------------------------- MODULE AdaptivePlanning ---------------------------
(* The plan of Adaptive Charging, from what is known of the house, the sun, the    *)
(* fuel cell and the battery: src/lib/domain/adaptive-planning.ts.  What is given   *)
(* is one record g, and the plan is of the time now in it.                       *)
EXTENDS ChargeSafety, DemandForecast, SolarForecast

-----------------------------------------------------------------------------
(* The steps: at every half hour, and where the house empties or fills.           *)

AwayBoundaries(trips) ==
  UNION {{p.from, p.until, p.until - Least(Hour \div 2, (p.until - p.from) \div 4)} : p \in Range(trips)}

PlanEnd(g, sunset) ==
  LET hours == g.forecast.hours
  IN Horizon(g.now, IF hours = <<>> THEN Absent ELSE Last(hours).at,
             HorizonEnd(g.config, sunset.sunset), 30 * Hour).end

Boundaries(g, end) ==
  LET all == {g.now, end} \cup AwayBoundaries(g.trips)
             \cup {n * Bucket : n \in (g.now \div Bucket)..(end \div Bucket)}
  IN Ascending({t \in all : g.now <= t /\ t <= end})

\* The demand of a day is forecast at its first step.
DemandFrom(g, at, temperatures, home) ==
  [home |-> home, away |-> PredictAwayDemand(g.samples, at, temperatures, g.history, Range(g.trips), home)]

Demand(g, temperatures, at) ==
  DemandFrom(g, at, temperatures,
    PredictBranchDemand(g.samples, at, temperatures, g.history, Range(g.trips), "home"))

Temperatures(g) == TemperatureByDay(g.weather \o g.forecast.hours)

CellModel(g, temperatures) ==
  FuelCellModel(g.cell, g.readings, g.tank, g.now, temperatures, g.trips, g.evidence)

Predicted(g, from, to, calibration) ==
  LET hour == HourFor(g.forecast.hours, from, to)
  IN Biased(SolarPower(IF hour = Absent THEN 0 ELSE hour.irradiance, g.array, CalibrationFactor(calibration, from)),
            g.array, g.accuracy)

\* A step in the low and in the high scenario of the sun and of the cell.
StepOf(g, from, to, demand, active, power, raw, away, window) ==
  LET length == to - from
      band == ExplicitDiscountedBand(g.config, from)
      watts == Or((IF away THEN demand.away ELSE demand.home).profile[HalfHourIndex(from)], 0)
      solar == Energy((raw * (100 - g.array.margin)) \div 100, length)
      high == Energy(Least(g.array.peak, (raw * (100 + g.array.margin)) \div 100), length)
      net(sun, cell) == sun + Energy(IF active THEN cell ELSE 0, length) - Energy(watts, length)
  IN [start |-> from, end |-> to, demand |-> Energy(watts, length), solar |-> solar,
      cell |-> power, away |-> away, learned |-> away /\ HalfHourIndex(from) \in demand.away.learned,
      net |-> net(solar, power.low), highNet |-> net(high, power.high),
      band |-> band, occurrence |-> IF band = Absent \/ window = Absent THEN Absent ELSE <<window.start, window.end>>]

Step(g, from, to, demand, cell, calibration) ==
  StepOf(g, from, to, demand, cell.active, ForecastAt(cell, from), Predicted(g, from, to, calibration),
         IsAwayAt((from + to) \div 2, Range(g.trips), TRUE), Occurrence(g.config, from))

TimelineOf(g, at, demand, cell, calibration) ==
  [days |-> demand, cell |-> cell,
   steps |-> Each(Indices(1, Len(at) - 1), LAMBDA n :
               Step(g, at[n], at[n + 1], demand[1 + DayOf(at[n]) - DayOf(at[1])], cell, calibration))]

TimelineAt(g, at, temperatures) ==
  TimelineOf(g, at,
    Each(Ascending({DayOf(at[n]) : n \in 1..(Len(at) - 1)}),
         LAMBDA day : Demand(g, temperatures, Most(g.now, day * Day))),
    CellModel(g, temperatures), LearnedSolarFactor(g.samples, g.weather, g.array))

Timeline(g, end) == TimelineAt(g, Boundaries(g, end), Temperatures(g))

-----------------------------------------------------------------------------
(* buildAdaptiveChargingPlan.                                                 *)

Battery(g, steps) ==
  LET b == g.battery
  IN [timeline |-> steps, stored |-> (b.capacity * LatestSoc(g.socs)) \div 100, capacity |-> b.capacity,
      floor |-> (b.capacity * Most(0, g.limit.percent)) \div 100, targetPercent |-> g.target,
      watts |-> b.watts, perPoint |-> b.perPoint, ratio |-> b.ratio, curve |-> b.curve,
      efficiency |-> g.efficiency, displaced |-> g.config.standard, standbyEnd |-> g.standbyEnd,
      outcomes |-> g.outcomes]

\* What planning cannot do without, in the order it is asked for.
NoSource(g) ==
  \/ ~BaseAvailable(g.settings)
  \/ ~ForecastFresh(g.forecast.fetched, g.now)
  \/ PlanningSunset(g.config, g.forecast.days, g.now) = Absent
  \/ LatestSoc(g.socs) = Absent
  \/ Absent \in {g.limit.percent, g.limit.readAt}
  \/ g.now - g.limit.readAt > Day

NoHistory(timeline) ==
  \/ \E day \in DOMAIN timeline.days : ~timeline.days[day].home.available
  \/ timeline.cell.active /\ \E s \in Range(timeline.steps) : s.cell.count < 4

Viewed(timeline, p, plan, view, sunset) ==
  LET atSunset == First(view, LAMBDA c : c.start <= sunset /\ sunset < c.end)
  IN [available |-> PlanAvailable(plan), steps |-> timeline.steps, plan |-> plan, view |-> view, battery |-> p,
      sunset |-> Share(IF atSunset = Absent THEN plan.end ELSE atSunset.stored, p.capacity),
      awaySteps |-> Len(SelectSeq(timeline.steps, LAMBDA s : s.away))]

Charged(timeline, p, plan, sunset) == Viewed(timeline, p, plan, TimelineView(plan, p), sunset)

PlanOn(timeline, p, sunset) ==
  IF NoHistory(timeline) THEN Absent ELSE Charged(timeline, p, PlanCharging(p), sunset)

PlanOfTimeline(g, timeline, sunset) == PlanOn(timeline, Battery(g, timeline.steps), sunset)

PlanUntil(g, sunset) == PlanOfTimeline(g, Timeline(g, PlanEnd(g, sunset)), sunset.sunset)

AdaptivePlan(g) ==
  IF NoSource(g) THEN Absent ELSE PlanUntil(g, PlanningSunset(g.config, g.forecast.days, g.now))
=============================================================================

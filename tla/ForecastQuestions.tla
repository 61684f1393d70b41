--------------------------- MODULE ForecastQuestions ---------------------------
(* Questions to the forecasts, over bounded inputs, and what their answers must     *)
(* agree on: the demand of a house, the fuel cell during a trip and at home, the     *)
(* sun, and the plan made of them.  Times are in minutes; a day has four parts of   *)
(* six hours where the code has half hours.                                     *)
EXTENDS Integers, Sequences, FiniteSets, SequencesExt

CONSTANTS Nothing

VARIABLE question

Forecasts == INSTANCE AdaptivePlanning WITH Absent <- Nothing, Hour <- 60, Buckets <- 4, RawGap <- 1

Backtests == INSTANCE Backtesting WITH Absent <- Nothing, Hour <- 60, Buckets <- 4

Part == 360
PartsOfDay == 0..3
Day == 1440

-----------------------------------------------------------------------------
(* Demand: six days that are kept and four that are measured, one of them odd, and     *)
(* this day until its last part.  Somebody may be away meanwhile.               *)
Trip(from, until) == [id |-> from, from |-> from, until |-> until]

AskDemand == \E odd \in [PartsOfDay -> {100, 900}], measured \in {0, 3}, away \in {<<>>, <<Trip(8 * Day, 9 * Day + 400)>>} :
  question' = [kind |-> "demand", odd |-> odd, measured |-> measured, away |-> away]

Usual(n, b) == 100 + 40 * b + 10 * (n % 3)

Kept == {Forecasts!DemandDay(n, [b \in PartsOfDay |-> Part], [b \in PartsOfDay |-> Usual(n, b)]) : n \in 1..6}

Use(n, b, watts) == [at |-> n * Day + b * Part + 200, demand |-> watts, seconds |-> Part]

Measured(q) ==
  FlattenSeq([i \in 1..4 |-> [b \in 1..4 |->
    Use(6 + i, b - 1, IF i = 3 THEN q.odd[b - 1] ELSE IF i = 4 THEN 900 ELSE Usual(6 + i, b - 1))]])

Today(q) == [b \in 1..q.measured |-> Use(11, b - 1, 900)]

Predicted(q, samples) ==
  Forecasts!PredictBranchDemand(samples, 11 * Day + 1200, <<>>, Kept, Forecasts!Range(q.away), "home")

\* What is expected lies among what was recorded; to be home and to be away parts what
\* is recorded in two, and what is measured twice counts once; and this day tells
\* nothing of the parts that are still to come.
DemandBounded(q, all, house, past, away) ==
  \A b \in PartsOfDay : /\ house.profile[b] \in Forecasts!Min(all)..Forecasts!Max(all)
                        /\ away.profile[b] \in 0..Forecasts!Max(all)
                        /\ house.low[b] <= Forecasts!Max(all)
                        /\ b >= q.measured => house.profile[b] = past.profile[b]

DemandSound(q, samples, house, past) ==
  DemandBounded(q, {samples[i].demand : i \in DOMAIN samples} \cup {d.values[b] : d \in Kept, b \in PartsOfDay},
    house, past, Forecasts!PredictAwayDemand(samples, 11 * Day + 1200, <<>>, Kept, Forecasts!Range(q.away), house))

DemandParted(q, samples) ==
  LET cells(set) == {<<d.day, b>> : d \in set, b \in PartsOfDay} \cap
                    UNION {{<<d.day, b>> : b \in DOMAIN d.values} : d \in set}
      parted(days) == days[1] \cap days[2] = {} /\ days[1] \cup days[2] = days[3]
  IN /\ parted(Forecasts!Each(<<"home", "away", "all">>, LAMBDA occupancy :
                 cells(Forecasts!Recorded(Kept, samples, Forecasts!Range(q.away), occupancy))))
     /\ Forecasts!AggregateDemandDays(samples \o samples, {}, "all") = Forecasts!AggregateDemandDays(samples, {}, "all")

DemandOf(q, samples) ==
  DemandParted(q, samples) /\ DemandSound(q, samples, Predicted(q, samples), Predicted(q, Measured(q)))

DemandHolds(q) == DemandOf(q, Measured(q) \o Today(q))

-----------------------------------------------------------------------------
(* A trip of three days, after six, eight ... hours of which the cell was quiet, ran,  *)
(* was not heard of, or said it ran and gave nothing; after eighteen hours another    *)
(* cell may be there.                                                          *)
AskTrip == \E after \in [1..3 -> {"quiet", "runs", "gone", "claims"}], replaced \in BOOLEAN :
  question' = [kind |-> "trip", blocks |-> <<after[1]>> \o after \o <<after[3]>>, replaced |-> replaced]

Reading(at, block, cell) ==
  [at |-> at, start |-> at - 30, end |-> at, rollup |-> TRUE, watts |-> IF block = "runs" THEN 700 ELSE 0,
   state |-> IF block \in {"runs", "claims"} THEN "generating" ELSE "stopped", sources |-> {cell}, covered |-> 30,
   seconds |-> 30]

\* Half-hourly roll-ups of thirty hours.
Heard(q) ==
  LET at(n) == 30 * n
      block(n) == q.blocks[((n - 1) \div 12) + 1]
      cell(n) == IF q.replaced /\ n > 36 THEN "new" ELSE "old"
  IN Forecasts!Each(SelectSeq([n \in 1..60 |-> n], LAMBDA n : block(n) # "gone"),
                    LAMBDA n : Reading(at(n), block(n), cell(n)))

Observed(q, samples, cell, now, before) ==
  Forecasts!Infer(Trip(0, 3 * Day), cell, samples, now, before, {cell})

\* The cell counts as off only when a whole day of the trip was covered, by that cell
\* alone, and in none of it did it run or say it did.  The evaluations, every six
\* hours, see no reading before its time, and each tells what one from the start
\* would have told, unless a run was seen before.
TheCell(q, now) == IF q.replaced /\ now > 1080 THEN "new" ELSE "old"

Evaluated(q, heard, now, evidence) ==
  Observed(q, heard, TheCell(q, now), now, IF evidence = <<>> THEN Nothing ELSE Last(evidence))

TripSound(q, heard, time, before, e, fresh) ==
  LET day == (time - Day + 1)..time
  IN /\ Evaluated(q, SelectSeq(heard, LAMBDA r : r.end <= time), time, before) = e
     /\ e.regime = "off-supported" =>
          /\ ~q.replaced
          /\ \A j \in 1..Len(heard) : heard[j].end \in day => heard[j].watts = 0 /\ heard[j].state = "stopped"
          /\ Len(SelectSeq(heard, LAMBDA r : r.end \in day)) >= 44
     /\ ~q.replaced /\ (\A j \in DOMAIN before : before[j].regime # "normal-model") /\ e.regime # "normal-model" =>
          e.regime = fresh.regime /\ e.intervals = fresh.intervals

TripTold(q, heard, times, evidence) ==
  \A i \in 1..5 : TripSound(q, heard, times[i], SubSeq(evidence, 1, i - 1), evidence[i],
                            Evaluated(q, heard, times[i], <<>>))

TripOf(q, heard, times) ==
  TripTold(q, heard, times,
           FoldLeft(LAMBDA all, now : Append(all, Evaluated(q, heard, now, all)), <<>>, times))

TripHolds(q) == TripOf(q, Heard(q), <<360, 720, 1080, 1440, 1800>>)

-----------------------------------------------------------------------------
(* The cell at home: seven days, of which the odd ones and the last evening are asked  *)
(* for, its tank, and a trip that is still to come.                             *)
AskCell == \E odd \in [PartsOfDay -> {0, 700}], evening \in {0, 700}, tank \in BOOLEAN, trip \in BOOLEAN :
  question' = [kind |-> "cell", odd |-> odd, evening |-> evening, tank |-> tank, trip |-> trip]

Config(active) ==
  [enabled |-> active, influences |-> TRUE, primary |-> "old", hosts |-> <<>>, proxies |-> {}]

Produced(q) ==
  LET watts(n, b) == IF n % 2 = 1 THEN q.odd[b] ELSE IF b = 3 THEN q.evening ELSE 500
      at(n, b) == n * Day + b * Part + 60
      reading(n, b) ==
        [at |-> at(n, b), start |-> at(n, b) - 60, end |-> at(n, b) + 240, rollup |-> TRUE, watts |-> watts(n, b),
         state |-> IF watts(n, b) > 0 THEN "generating" ELSE "stopped", sources |-> {"old"},
         covered |-> 300, seconds |-> 300]
  IN FlattenSeq([n \in 1..7 |-> [b \in 1..4 |-> reading(n, b - 1)]])

Levels(q) == IF q.tank THEN [n \in 1..7 |-> [at |-> n * Day + 1100, level |-> n % 2]] ELSE <<>>
Away(q) == IF q.trip THEN <<Trip(8 * Day, 9 * Day)>> ELSE <<>>

CellNow == 7 * Day + 1200

Cell(q, readings, now) ==
  Forecasts!FuelCellModel(Config(TRUE), readings, Levels(q), now, [d \in {} |-> 0], Away(q), Nothing)

\* The forecast of a time lies in order among what the cell gave; it is nothing, or
\* half known, during a trip; nothing of what is measured later than now is in it, and
\* neither the order of the readings nor a reading that is there twice changes it.
CellSound(q, all, t, forecasts) ==
  LET f == forecasts[1]
  IN /\ 0 <= f.low /\ f.low <= f.median /\ f.median <= f.high
     /\ {f.low, f.high} \subseteq {0} \cup {all[i].watts : i \in DOMAIN all}
     /\ q.trip /\ 8 * Day <= t /\ t < 9 * Day => f.median = 0
     /\ \A n \in 2..3 : forecasts[n] = f

CellForecast(q, all, models) ==
  \A t \in {CellNow, 7 * Day + 1380, 8 * Day + 100, 8 * Day + 500, 8 * Day + 900, 9 * Day + 100} :
    CellSound(q, all, t, Forecasts!Each(models, LAMBDA m : Forecasts!ForecastAt(m, t)))

CellOf(q, all, known) ==
  CellForecast(q, all, Forecasts!Each(<<known, all, Reverse(known) \o known>>, LAMBDA r : Cell(q, r, CellNow)))

CellHolds(q) == CellOf(q, Produced(q), SelectSeq(Produced(q), LAMBDA r : r.end <= CellNow))

-----------------------------------------------------------------------------
(* The sun: eight sunny days of which one is odd and one is short, and the forecast of  *)
(* the next two.                                                              *)
AskSun == \E odd \in {0, 2000}, short \in BOOLEAN, change \in {80, 300}, margin \in {0, 30, 120}, day \in {17, 44, 90} :
  question' = [kind |-> "sun", odd |-> odd, short |-> short, change |-> change, margin |-> margin, day |-> day]

Panels(margin) == [peak |-> 3000, loss |-> 20, margin |-> margin]

SunAt(t) == LET h == (t % Day) \div 60 IN IF h \in 8..16 THEN 100 * (5 - Forecasts!Distance(h, 12)) ELSE 0

Weather(from, days) ==
  [n \in 1..(5 * days) |->
    LET t == from * Day + ((n - 1) \div 5) * Day + 60 * (8 + 2 * ((n - 1) % 5))
    IN [at |-> t, irradiance |-> SunAt(t), temperature |-> 20]]

\* What the array gave in the hour before each hour of weather, in percent of the sun.
Given(q, odd) ==
  LET weather == Weather(q.day - 8, 8)
      percent(day) == IF day = q.day - 3 THEN odd ELSE 200 + 10 * (day % 3)
  IN SelectSeq([n \in DOMAIN weather |->
                 [at |-> weather[n].at - 30, watts |-> (weather[n].irradiance * percent(weather[n].at \div Day)) \div 100]],
               LAMBDA s : q.short => s.at \div Day # q.day - 8)

\* The factor learned is not moved past the other days by the odd one and stays between
\* those of its seasons; and each hour of the forecast counts on one day, for no more
\* than the array can give and in a plan for no more than is expected.
SunSound(q, hours, model, issues) ==
  LET peak == 3000
      factor(t) == Forecasts!CalibrationFactor(model, t)
      power(h) == Forecasts!SolarPower(h.irradiance, Panels(q.margin), factor(h.at))
      known == {model.factor} \cup Forecasts!Range(model.groups)
  IN /\ model.factor \in 200..220
     /\ Len(issues) = 2 /\ issues[1].date < issues[2].date
     /\ issues[1].raw + issues[2].raw = Forecasts!Total(Forecasts!Each(hours, power))
     /\ \A i \in 1..2 : LET x == issues[i] IN
          /\ 0 <= x.planned /\ x.planned <= x.predicted /\ x.predicted <= 5 * peak
          /\ q.change <= 100 => x.predicted <= x.raw
     /\ \A h \in Forecasts!Range(hours) : factor(h.at) \in Forecasts!Min(known)..Forecasts!Max(known)

SunLearned(q, hours, model) ==
  SunSound(q, hours, model, Forecasts!Issues([hours |-> hours, days |-> <<[date |-> q.day + 1]>>], Panels(q.margin),
                                             model, [learned |-> TRUE, factor |-> q.change]))

SunHolds(q) ==
  SunLearned(q, Weather(q.day, 2),
             Forecasts!LearnedSolarFactor(Given(q, q.odd), Weather(q.day - 8, 8), Panels(q.margin)))

-----------------------------------------------------------------------------
(* The plan: an evening, with the night and perhaps the next evening discounted, sun    *)
(* or none, the cell or none, and a trip from morning to evening.               *)
AskTimeline == \E evening, sunny, cell, trip \in BOOLEAN, soc \in {10, 60} :
  question' = [kind |-> "timeline", evening |-> evening, sunny |-> sunny, cell |-> cell, trip |-> trip, soc |-> soc]

Now == 11 * Day + 1200
Night(yen) == Forecasts!Band(0, 360, yen, "Night")
Evening(yen) == Forecasts!Band(1080, 0, yen, "Evening")

Settings ==
  [solarEnabled |-> TRUE, enabled |-> TRUE, rateMode |-> "multi", smartCosmo |-> TRUE, latitude |-> 35,
   longitude |-> 139, peak |-> 3000, capacity |-> 5000, watts |-> 400]

TheHouse(q) ==
  LET hours == [n \in 1..6 |-> LET t == 11 * Day + 1440 + 360 * (n - 1)
                               IN [at |-> t, irradiance |-> IF q.sunny THEN 6 * SunAt(t) ELSE 0, temperature |-> 20]]
      used == {Forecasts!DemandDay(n, [b \in PartsOfDay |-> Part], [b \in PartsOfDay |-> Usual(n, b)]) : n \in 2..10}
  IN [now |-> Now, settings |-> Settings, forecast |->
        [fetched |-> Now - 60, hours |-> hours, days |-> <<[date |-> 12, sunset |-> 12 * Day + 1080]>>],
      config |-> [standard |-> 35, bands |-> <<Night(20)>> \o (IF q.evening THEN <<Evening(25)>> ELSE <<>>)
                                             \o <<Forecasts!Band(360, 1080, 35, "Day")>>],
      trips |-> IF q.trip THEN <<Trip(12 * Day + 300, 12 * Day + 1000)>> ELSE <<>>,
      samples |-> <<>>, weather |-> <<>>, history |-> used, socs |-> <<q.soc>>,
      limit |-> [percent |-> 20, readAt |-> Now - 600], target |-> 90, efficiency |-> 90,
      standbyEnd |-> Nothing, outcomes |-> <<>>, array |-> Panels(30), accuracy |-> [learned |-> FALSE, factor |-> 100],
      cell |-> Config(q.cell), readings |-> Produced([odd |-> [b \in PartsOfDay |-> 300], evening |-> 300]),
      tank |-> <<>>, evidence |-> Nothing,
      battery |-> [capacity |-> 5000, watts |-> 400, perPoint |-> Nothing, ratio |-> 100, curve |-> <<>>]]

\* The steps of a plan follow each other until its end, each with one rate and one
\* occupancy, and what is sure is never more than what may be; it charges only while
\* there is a discount, and never more for the sun that is expected.
TimelineSound(g, plans) ==
  LET plan == plans[1]
      sunless == plans[2]
      s == plan.steps
      periods == Forecasts!Range(g.trips)
      band(t) == Forecasts!ExplicitDiscountedBand(g.config, t)
  IN /\ plan # Nothing
     /\ s[1].start = g.now /\ s[Len(s)].end = Now + 30 * 60
     /\ \A i \in DOMAIN s :
          /\ s[i].start < s[i].end /\ i > 1 => s[i].start = s[i - 1].end
          /\ s[i].end <= Forecasts!NextPlanningBoundary(s[i].start, s[Len(s)].end)
          /\ \A t \in {s[i].start, s[i].end - 1} : s[i].away = Forecasts!IsAwayAt(t, periods, TRUE) /\ s[i].band = band(t)
          /\ s[i].net <= s[i].highNet
     /\ \A x \in Forecasts!Range(plan.plan.slots), part \in 0..3 :
          band(x.start + (part * (x.end - 1 - x.start)) \div 3) # Nothing
     /\ plan.plan.planned <= sunless.plan.planned
     /\ plan.sunset \in 0..100

TimelineHolds(q) ==
  TimelineSound(TheHouse(q), Forecasts!Each(<<TheHouse(q), TheHouse([q EXCEPT !.sunny = FALSE])>>,
                                            LAMBDA g : Forecasts!AdaptivePlan(g)))

-----------------------------------------------------------------------------
(* Backtests: a plan of three hours and a half, with a charge in its window and later   *)
(* sun or none, and what happened: more was used than expected or not, half an hour   *)
(* or more is missing, and a longer sample was taken beside the others; and plans     *)
(* made before and while one of them would have charged.                           *)
AskBacktest == \E more \in {0, 400}, sunny \in BOOLEAN, missing \in SUBSET {1, 4, 7}, long \in {<<0, 0>>, <<0, 120>>, <<90, 300>>},
                  soc \in {25, 95} :
  question' = [kind |-> "backtest", more |-> more, sunny |-> sunny, missing |-> missing, long |-> long, soc |-> soc]

Planned(at, charge, q) ==
  [id |-> at, at |-> at, version |-> 4,
   config |-> [solar |-> TRUE, cell |-> FALSE, bands |-> <<Evening(20)>>, standard |-> 30, capacity |-> 2000,
               limit |-> 20, watts |-> 1000, margin |-> 0],
   plan |-> [available |-> TRUE, until |-> Day + 210, sunset |-> 50, target |-> 90, cellActive |-> FALSE,
             slots |-> <<[start |-> charge, end |-> Day + 120, windowEnd |-> Day + 180, targetWh |-> 900]>>,
             windows |-> <<[start |-> Day + 60, end |-> Day + 180]>>,
             timeline |-> [n \in 1..5 |-> [start |-> Day + 60 * (n - 1), end |-> Day + 60 * n, demand |-> 600,
                                          solar |-> IF q.sunny /\ n > 2 THEN 1200 ELSE 0, cell |-> 0, fuelCell |-> 0,
                                          samples |-> 1]],
             predicted |-> [demand |-> 0, solar |-> 0, cell |-> 0],
             battery |-> [capacity |-> Nothing, watts |-> Nothing, ratio |-> 100]]]

Happened(from, to, q) ==
  LET hours(watts) == (watts * (to - from)) \div 60
      sun == IF q.sunny /\ from >= 120 THEN hours(1200) ELSE 0
  IN [start |-> Day + from, end |-> Day + to, at |-> Day + to - 1, startSoc |-> q.soc, endSoc |-> q.soc, soc |-> q.soc,
      minSoc |-> q.soc, rate |-> Nothing,
      energy |-> [demand |-> hours(600 + q.more), solar |-> sun, cell |-> Nothing, import |-> hours(600)],
      coverage |-> [demand |-> to - from, solar |-> to - from, cell |-> Nothing, import |-> to - from]]

HalfHours(q) ==
  LET there == SelectSeq([n \in 1..8 |-> n], LAMBDA n : n \notin q.missing)
  IN Forecasts!Each(there, LAMBDA n : Happened(30 * (n - 1), 30 * n, q))
     \o (IF q.long = <<0, 0>> THEN <<>> ELSE <<Happened(q.long[1], q.long[2], q)>>)

Known(q) == {m \in 0..209 : (m \div 30) + 1 \notin q.missing \/ (q.long[1] <= m /\ m < q.long[2])}

\* No time counts twice, whatever samples overlap, and none that is known is left
\* out; a plan counts if four fifths of its time are known; what is used as it was
\* planned is no error; and no energy comes from nowhere: what was not bought came
\* from the sun or out of the battery, which stays above its limit.
BacktestSound(q, kept, outs) ==
  LET out == outs[1]
      again == outs[2]
      more == outs[3]
      sum(key) == Forecasts!Total(Forecasts!Each(kept, LAMBDA s : s.energy[key]))
      run == out.modelOnly
  IN /\ \A i \in DOMAIN kept : kept[i].start < kept[i].end /\ i > 1 => kept[i - 1].end <= kept[i].start
     /\ UNION {kept[i].start..(kept[i].end - 1) : i \in DOMAIN kept} = {Day + m : m \in Known(q)}
     /\ out.evaluable <=> 5 * Cardinality(Known(q)) >= 4 * 210
     /\ again = out
     /\ Cardinality(Known(q)) = 210 => 2 * out.errors.demand = 7 * q.more
     /\ ~out.evaluable => run = Nothing /\ out.operated = Nothing
     /\ run # Nothing =>
          /\ run.soc \in 20..100
          /\ run.cost >= 20 * (sum("demand") - sum("solar") + 20 * (run.soc - q.soc) - 20)
          /\ more.modelOnly.cost >= run.cost /\ more.modelOnly.soc <= run.soc
          /\ run.violated => more.modelOnly.violated

\* Of the plans of a day the one is scored that was made last before any of them
\* would have charged, if there is one.
CanonicalSound(q, plans, scored) ==
  LET early == {n \in DOMAIN plans : \A m \in DOMAIN plans : plans[n].at <= plans[m].plan.slots[1].start}
  IN /\ Len(scored) = 1
     /\ IF early = {} THEN scored[1].key[1] = Last(plans).at ELSE scored[1].key[1] = plans[Forecasts!Max(early)].at

Backtested(q, snapshot, samples, plans) ==
  /\ BacktestSound(q, Backtests!NonOverlapping(Backtests!Clipped(samples, Day, Day + 210)),
       Forecasts!Each(<<samples, Reverse(samples) \o samples \o <<Happened(210, 330, q)>>,
                        Forecasts!Each(samples, LAMBDA s : [s EXCEPT !.energy.demand = @ + 100])>>,
                      LAMBDA of : Backtests!EvaluateCase(snapshot, of, 3 * Day)))
  /\ CanonicalSound(q, plans, Backtests!Summary(plans, samples, <<>>, Day, 3 * Day).outcomes)

BacktestHolds(q) ==
  Backtested(q, Planned(Day, Day + 60, q), HalfHours(q),
             SelectSeq(<<Planned(Day, Day + 100, q), Planned(Day + 60, Day + 90, q), Planned(Day + 95, Day + 60, q)>>,
                       LAMBDA s : ~(s.at = Day /\ 1 \in q.missing) /\ ~(s.at = Day + 60 /\ 4 \in q.missing)))

-----------------------------------------------------------------------------
Topics == {"demand", "trip", "cell", "sun", "timeline", "backtest"}

Ask ==
  /\ question.kind = "topic"
  /\ \/ question.of = "demand" /\ AskDemand
     \/ question.of = "trip" /\ AskTrip
     \/ question.of = "cell" /\ AskCell
     \/ question.of = "sun" /\ AskSun
     \/ question.of = "timeline" /\ AskTimeline
     \/ question.of = "backtest" /\ AskBacktest

ForecastsAgree ==
  question # Nothing =>
    CASE question.kind = "demand" -> DemandHolds(question)
      [] question.kind = "trip" -> TripHolds(question)
      [] question.kind = "cell" -> CellHolds(question)
      [] question.kind = "sun" -> SunHolds(question)
      [] question.kind = "timeline" -> TimelineHolds(question)
      [] question.kind = "backtest" -> BacktestHolds(question)
      [] OTHER -> TRUE
=============================================================================

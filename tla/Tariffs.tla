-------------------------------- MODULE Tariffs --------------------------------
(* The rates of electricity and gas, and the periods they are counted by:       *)
(* src/lib/domain/tariffs.ts, time.ts, ene-farm.ts, the rates of configuration.ts *)
(* and src/lib/gas-tariffs.ts.  A time of day is in minutes; a band that ends    *)
(* where it starts lasts all day, one that ends before it starts goes past      *)
(* midnight.                                                              *)
EXTENDS Numbers, FiniteSets

CONSTANT Buckets    \* the half hours of a day

Bucket == Day \div Buckets
HalfHourIndex(t) == (t % Day) \div Bucket

Minutes(n) == (n * Hour) \div 60
MinuteOf(t) == ((t % Day) * 60) \div Hour

-----------------------------------------------------------------------------
(* The rates of the settings.                                               *)

NormalizeRateMode(input) ==
  IF input.rateMode # Absent THEN input.rateMode
  ELSE IF ~input.offPeakSavings THEN "simple"
  ELSE IF Len(Or(input.bands, <<>>)) > 2 THEN "multi" ELSE "offPeak"

Band(start, end, yen, label) == [start |-> start, end |-> end, yen |-> yen, label |-> label]

\* A lone band that lasts all day is what the simple mode leaves behind: the other
\* modes do not keep it.
NormalizeRateBands(input) ==
  LET mode == NormalizeRateMode(input)
      standard == Or(input.standard, 35)
      offPeak == Or(input.offPeak, 25)
      provided == Or(input.bands, <<>>)
      artifact == Len(provided) = 1 /\ provided[1].start = provided[1].end
  IN IF provided # <<>> /\ input.rateMode = Absent THEN provided
     ELSE IF mode = "simple" THEN <<Band(0, 0, standard, "Simple")>>
     ELSE IF provided # <<>> /\ ~artifact THEN provided
     ELSE <<Band(0, 420, offPeak, "Off-peak")>>
          \o (IF mode = "offPeak" THEN <<Band(420, 0, standard, "Standard")>> ELSE <<>>)

\* cleanConfig: the mode is decided first, then the bands, then the rates.
CleanRates(input) ==
  LET mode == NormalizeRateMode(input)
      bands == NormalizeRateBands([input EXCEPT !.rateMode = mode])
      yen == {bands[i].yen : i \in DOMAIN bands}
  IN [rateMode |-> mode, bands |-> bands, offPeakSavings |-> mode # "simple",
      standard |-> Or(input.standard, Max(yen)), offPeak |-> Or(input.offPeak, Min(yen))]

-----------------------------------------------------------------------------
(* The rate of a time.                                                      *)

MatchesDailyBandLonger(t, band) ==
  LET m == MinuteOf(t)
  IN IF band.start = band.end THEN TRUE
     ELSE IF band.start < band.end THEN band.start <= m /\ m <= band.end
     ELSE band.start <= m \/ m < band.end

MatchesDailyBand(t, band) ==
  LET m == MinuteOf(t)
  IN IF band.start = band.end THEN TRUE
     ELSE IF band.start < band.end THEN band.start <= m /\ m < band.end
     ELSE band.start <= m \/ m < band.end

RateForTimestamp(bands, t, fallback) ==
  LET match == First(bands, LAMBDA b : MatchesDailyBand(t, b))
  IN IF match # Absent THEN match
     ELSE IF fallback # Absent THEN Band(0, 0, fallback, "Standard") ELSE bands[1]

MaxDailyRate(bands, fallback) ==
  Max({bands[i].yen : i \in DOMAIN bands} \cup ({fallback} \ {Absent}))

DiscountedBands(config) == SelectSeq(config.bands, LAMBDA b : b.yen < config.standard)
ExplicitDiscountedBand(config, t) == First(DiscountedBands(config), LAMBDA b : MatchesDailyBand(t, b))

OccurrenceForDay(band, day) ==
  [band |-> band, start |-> day + Minutes(band.start),
   end |-> day + Minutes(band.end) + IF band.end <= band.start THEN Day ELSE 0]

\* Those that are still to end and start within the horizon, from yesterday on.
Occurrences(config, now, horizon) ==
  LET midnight == now - (now % Day)
      bands == DiscountedBands(config)
      all == FoldLeft(LAMBDA s, d : s \o Each(bands, LAMBDA b : OccurrenceForDay(b, midnight + d * Day)),
                      <<>>, <<-1, 0, 1, 2, 3>>)
  IN SortSeq(SelectSeq(all, LAMBDA o : o.end > now /\ o.start <= now + horizon),
             LAMBDA a, b : a.start < b.start)

Occurrence(config, now) ==
  First(Occurrences(config, now, 2 * Day), LAMBDA o : o.start <= now /\ now < o.end)

\* The end of the plan for a sunset: past it while a discount that spans it lasts.
HorizonEnd(config, sunset) ==
  LET o == Occurrence(config, sunset - 1)
  IN IF o = Absent THEN sunset ELSE Most(o.end, sunset)

-----------------------------------------------------------------------------
(* Times away.  A forecast expects the house to be in use half an hour, or a     *)
(* quarter of the absence, before the return.                                *)

AwayPeriodContains(p, t) == p.from <= t /\ t < p.until

AwayPeriodForecastContains(p, t) ==
  /\ p.from < p.until
  /\ p.from <= t /\ t < p.until - Least(Hour \div 2, (p.until - p.from) \div 4)

IsAwayAt(t, periods, forecast) ==
  \E p \in periods : IF forecast THEN AwayPeriodForecastContains(p, t) ELSE AwayPeriodContains(p, t)

AwayPeriodsOverlap(a, b) == a.from < b.until /\ a.until > b.from

-----------------------------------------------------------------------------
(* Billing periods of gas: from the reading day of a month to that of the next,  *)
(* or to its last day when it is shorter.  Months count on across years.         *)

LastDay(month) == <<31, 28, 31, 30, 31, 30, 31, 31, 30, 31, 30, 31>>[(month % 12) + 1]
ClampedReadingDate(month, readingDay) == [month |-> month, day |-> Least(readingDay, LastDay(month))]

Before(a, b) == a.month < b.month \/ (a.month = b.month /\ a.day < b.day)

BillingPeriodKey(date, readingDay) ==
  IF Before(date, ClampedReadingDate(date.month, readingDay)) THEN date.month - 1 ELSE date.month

BillingPeriodBounds(month, readingDay) ==
  [start |-> ClampedReadingDate(month, readingDay), end |-> ClampedReadingDate(month + 1, readingDay)]

CompleteBillingPeriod(start, end, readingDay) ==
  [start |-> start, end |-> end] = BillingPeriodBounds(start.month, readingDay)

\* The gas of each period, from samples with a date.
FuelCellGasUsageByBillingPeriod(samples, readingDay) ==
  LET keyOf(s) == BillingPeriodKey(s.date, readingDay)
      counted == SelectSeq(samples, LAMBDA s : s.gas # Absent)
  IN [k \in {keyOf(counted[i]) : i \in DOMAIN counted} |->
        Total(Each(SelectSeq(counted, LAMBDA s : keyOf(s) = k), LAMBDA s : Most(0, s.gas)))]

-----------------------------------------------------------------------------
(* The tariff of gas for a billing month.                                    *)

SeasonForBillingMonth(month) == IF (month % 12) + 1 \in {12, 1, 2, 3, 4} THEN "winter" ELSE "other"

\* Bands are kept when they are not empty, in the order of their use.
NormalizeGasTariff(input) ==
  LET clean == [i \in DOMAIN input.bands |->
                  [input.bands[i] EXCEPT !.min = Most(0, @), !.max = IF @ = Absent THEN @ ELSE Most(0, @),
                                         !.base = Most(0, @), !.yen = Most(0, @)]]
      bands == SortSeq(SelectSeq(clean, LAMBDA b : b.max = Absent \/ b.max > b.min),
                       LAMBDA a, b : a.min < b.min)
      discounts == [i \in DOMAIN input.discounts |->
                      [input.discounts[i] EXCEPT !.percent = Clamp(@, 0, 100),
                                                 !.cap = IF @ = Absent THEN @ ELSE Most(0, @)]]
  IN IF bands = <<>> THEN Absent
     ELSE [season |-> input.season, bands |-> bands,
           discounts |-> SelectSeq(discounts, LAMBDA d : d.percent > 0)]

TokyoGasDiscounts(season) ==
  LET discount(id, percent, cap) == [id |-> id, percent |-> percent, cap |-> cap, seasons |-> {season}]
  IN <<discount("bath", 3, 2619)>>
     \o (IF season = "winter" THEN <<discount("floor", 10, 7857), discount("set", 13, 10476)>>
                              ELSE <<discount("set", 3, 2619)>>)

\* The table of the season, its upper bounds 0 where there is none.
ParseTokyoGasTariff(document, month) ==
  LET season == SeasonForBillingMonth(month)
      rows == SelectSeq(document[season], LAMBDA r : r.yen > 0)
      bands == [i \in DOMAIN rows |-> [rows[i] EXCEPT !.max = IF @ > 0 THEN @ ELSE Absent]]
  IN NormalizeGasTariff([season |-> season, bands |-> bands, discounts |-> TokyoGasDiscounts(season)])

ApplicableGasTariffBand(tariff, usage) ==
  LET fits(b) == b.min <= Most(0, usage) /\ (b.max = Absent \/ Most(0, usage) <= b.max)
  IN Or(First(tariff.bands, fits), tariff.bands[Len(tariff.bands)])

ApplicableGasDiscount(tariff, id) ==
  First(tariff.discounts, LAMBDA d : d.id = id /\ tariff.season \in d.seasons)
=============================================================================

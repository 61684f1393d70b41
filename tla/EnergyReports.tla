----------------------------- MODULE EnergyReports -----------------------------
(* What the history amounts to: src/lib/domain/circuits.ts, energy-summary.ts and *)
(* energy-report.ts, over the samples and roll-ups of Meters, in a range of time  *)
(* whose ends may be Absent.                                                 *)
EXTENDS Meters, Tariffs

\* The time a sample's energy was counted over, and the part of x in the range.
IntervalStart(sample, key, previous, usePrevious) ==
  IF sample.bucket # Absent THEN sample.bucket[1]
  ELSE IF sample.from[key] # Absent THEN sample.from[key]
  ELSE IF usePrevious THEN Of(previous, "t") ELSE Absent
IntervalEnd(sample) == IF sample.bucket # Absent THEN sample.bucket[2] ELSE sample.t

Portion(x, sample, key, previous, range, usePrevious) ==
  LET start == IntervalStart(sample, key, previous, usePrevious)
      end == IntervalEnd(sample)
      inside == Positive(Least(end, Or(range.end, end)) - Most(start, Or(range.start, start)))
  IN IF start = Absent THEN x
     ELSE IF end <= start THEN x ELSE (x * inside) \div (end - start)

\* A metric is known from its energy, or from two readings of its power.
HasPowerSample(sample, key, previous) ==
  \/ sample.energy[key] # Absent
  \/ previous # Absent /\ Bridged(sample, [t |-> previous.t, watts |-> previous.watts[Power(key)]], Power(key))

\* The watts count as positive whatever the key: a discharge is asked for with the
\* sign of the power turned.
SamplePowerWh(sample, key, previous, range) ==
  LET w == Power(key)
      mean == (Positive(sample.watts[w]) + Positive(previous.watts[w])) \div 2
  IN IF sample.energy[key] # Absent THEN Portion(sample.energy[key], sample, key, previous, range, FALSE)
     ELSE IF ~HasPowerSample(sample, key, previous) THEN 0
     ELSE Portion(Energy(mean, sample.t - previous.t), sample, key, previous, range, TRUE)

\* Turning the sign makes 0 W of a missing reading of a sample (not of a roll-up).
Turned(sample) ==
  IF sample = Absent THEN Absent
  ELSE [sample EXCEPT !.watts["batteryPowerW"] =
          IF @ # Absent THEN -@ ELSE IF sample.bucket = Absent THEN 0 ELSE Absent]

Discharged(sample, previous, range) ==
  SamplePowerWh(Turned(sample), "batteryDischargeKwh", Turned(previous), range)

CircuitWh(sample, c, previous, range) ==
  LET moved == IF previous = Absent THEN Absent
               ELSE Delta(sample.counter[c], previous.counter[c], Policy["circuit"], Since(sample, previous)).delta
  IN IF sample.energy[c] = Absent /\ moved # Absent THEN Portion(moved, sample, c, previous, range, FALSE)
     ELSE SamplePowerWh(sample, c, previous, range)

-----------------------------------------------------------------------------
(* Over a sequence of samples, each with the one before it.                    *)

Over(samples, F(_, _)) ==
  Total([i \in DOMAIN samples |-> F(samples[i], IF i = 1 THEN Absent ELSE samples[i - 1])])

Metric(samples, key, range) == Over(samples, LAMBDA s, p : SamplePowerWh(s, key, p, range))

SummarizeCircuits(samples, range) ==
  LET seen(c) == \E i \in DOMAIN samples :
                   samples[i].watts[c] # Absent \/ samples[i].counter[c] # Absent \/ samples[i].energy[c] # Absent
  IN [c \in {k \in Circuits : seen(k)} |->
        [total |-> Over(samples, LAMBDA s, p : CircuitWh(s, c, p, range)),
         latest |-> First(Reverse(Each(samples, LAMBDA s : s.watts[c])), LAMBDA x : x # Absent)]]

CoveragePercent(coverage, requested) ==
  IF requested = Absent \/ requested = 0 THEN Absent ELSE Least(100, (100 * coverage) \div requested)

Asked(range) == IF Absent \in {range.start, range.end} THEN Absent ELSE Positive(range.end - range.start)

CoverageOf(sample, key, previous, range) ==
  Portion(Positive(Or(sample.coverage[key], 0)), sample, key, previous, range, FALSE)

EnergyMetricQuality(samples, key, range) ==
  LET coverage == Over(samples, LAMBDA s, p : CoverageOf(s, key, p, range))
  IN [quality |-> Or(One({samples[i].quality[key] : i \in DOMAIN samples} \ {Absent}), "unavailable"),
      coverage |-> coverage, percent |-> CoveragePercent(coverage, Asked(range))]

\* What an import below the standard rate saves, and its part that charges the battery.
Discount(saving, charge, import) ==
  LET charged == Or(charge, 0)
      funded == IF import # Absent THEN Least(charged, import) ELSE charged
      total == Or(import, funded)
  IN [total |-> total * saving, battery |-> funded * saving,
      grid |-> Positive(total * saving - funded * saving)]

SampleDiscountSavings(sample, previous, config, range) ==
  LET rate == Or(sample.rate, RateForTimestamp(config.bands, sample.t, config.standard).yen)
      wh(key) == IF HasPowerSample(sample, key, previous) THEN SamplePowerWh(sample, key, previous, range) ELSE Absent
  IN Discount(Positive(config.standard - rate), wh("batteryChargeKwh"), wh("gridImportKwh"))

Sources(peak, offPeak, solar, cell) ==
  [peak |-> peak, offPeak |-> offPeak, solar |-> solar, fuelCell |-> cell, total |-> peak + offPeak + solar + cell]

SummarizeEnergySources(samples, config, solar, exported, cell, range) ==
  LET cheap(s) == Or(s.rate, RateForTimestamp(config.bands, s.t, config.standard).yen) < config.standard
      import(s, p) == SamplePowerWh(s, "gridImportKwh", p, range)
  IN Sources(Over(samples, LAMBDA s, p : IF cheap(s) THEN 0 ELSE import(s, p)),
             Over(samples, LAMBDA s, p : IF cheap(s) THEN import(s, p) ELSE 0),
             IF config.solar THEN Positive(solar - exported) ELSE 0,
             IF config.fuelCell THEN Positive(cell) ELSE 0)

SummarizeSamples(samples, config, range) ==
  LET wh(key) == Metric(samples, key, range)
      discounts(f) == Over(samples, LAMBDA s, p : SampleDiscountSavings(s, p, config, range)[f])
      part(f, key) == Over(samples, LAMBDA s, p : Portion(Or(s[f], 0), s, key, p, range, FALSE))
      socs == SelectSeq(Each(samples, LAMBDA s : s.soc), LAMBDA x : x # Absent)
      charged == wh("batteryChargeKwh")
      discharged == Over(samples, LAMBDA s, p : Discharged(s, p, range))
  IN [energy |-> [k \in DOMAIN WattsOf |-> IF k = "batteryDischargeKwh" THEN discharged ELSE wh(k)],
      net |-> charged - discharged,
      circuits |-> SummarizeCircuits(samples, range),
      soc |-> IF socs = <<>> THEN Absent ELSE Total(socs) \div Len(socs),
      guards |-> Total(Each(samples, LAMBDA s : s.guards)),
      sources |-> SummarizeEnergySources(samples, config, wh("solarGenerationKwh"), wh("gridExportKwh"),
                                         wh("fuelCellKwh"), range),
      quality |-> [k \in DOMAIN WattsOf |-> EnergyMetricQuality(samples, k, range)],
      solarSaving |-> part("solarSaving", "solarGenerationKwh"),
      offPeakSaving |-> part("offPeakSaving", "batteryChargeKwh"),
      total |-> discounts("total"), battery |-> discounts("battery"), grid |-> discounts("grid")]

\* Today, this month and this year up to now, and the whole month before; `starts` of
\* day, month, month before and year come from the calendar.
CalendarSavingsRanges(now, starts) ==
  [today |-> [start |-> starts.day, end |-> now], month |-> [start |-> starts.month, end |-> now],
   lastMonth |-> [start |-> starts.lastMonth, end |-> starts.month], year |-> [start |-> starts.year, end |-> now]]

SummarizeCalendarSavings(samples, config, now, starts) ==
  LET ranges == CalendarSavingsRanges(now, starts)
  IN [period \in DOMAIN ranges |-> SummarizeSamples(samples, config, ranges[period])]

-----------------------------------------------------------------------------
(* A report: the samples of a range by bucket (day, week or month).  `edges` are  *)
(* the starts of the buckets the calendar has, in order, with one past the end.  *)

BucketOf(t, edges) == Max({i \in DOMAIN edges : edges[i] <= t})

EmptyReportBucket ==
  [count |-> 0, energy |-> Unknown(DOMAIN WattsOf), coverage |-> [k \in DOMAIN WattsOf |-> 0],
   quality |-> [k \in DOMAIN WattsOf |-> {}], solarSaving |-> 0, offPeakSaving |-> 0,
   total |-> 0, battery |-> 0, grid |-> 0, peak |-> Absent]

\* The sample counts in the bucket its interval ends in, for the part that is there.
AddToReport(row, sample, previous, config, range) ==
  LET wh(k) == IF k = "batteryDischargeKwh" THEN Discharged(sample, previous, range)
               ELSE SamplePowerWh(sample, k, previous, range)
      saved == SampleDiscountSavings(sample, previous, config, range)
      part(f, key) == Portion(Or(sample[f], 0), sample, key, previous, range, FALSE)
  IN [row EXCEPT
        !.count = @ + sample.count,
        !.energy = [k \in DOMAIN @ |-> IF HasPowerSample(sample, k, previous) THEN Plus(@[k], wh(k)) ELSE @[k]],
        !.coverage = [k \in DOMAIN @ |-> @[k] + CoverageOf(sample, k, previous, range)],
        !.quality = [k \in DOMAIN @ |-> @[k] \cup ({sample.quality[k]} \ {Absent})],
        !.solarSaving = @ + part("solarSaving", "solarGenerationKwh"),
        !.offPeakSaving = @ + part("offPeakSaving", "batteryChargeKwh"),
        !.total = @ + saved.total, !.battery = @ + saved.battery, !.grid = @ + saved.grid,
        !.peak = Greatest(@, Or(sample.peak, sample.watts["branchDemandW"]))]

\* A report in progress: its rows, the last sample, and whether it has ended.
EmptyReport(report, previous) ==
  [rows |-> [i \in DOMAIN report.edges |-> EmptyReportBucket], previous |-> previous, after |-> FALSE]

ProcessSample(acc, sample, report) ==
  LET froms == {sample.from[k] : k \in Keys} \ {Absent}
      start == IF sample.bucket # Absent THEN sample.bucket[1]
               ELSE IF froms # {} THEN Min(froms) ELSE Of(acc.previous, "t")
      i == BucketOf(Most(report.start, sample.t - 1), report.edges)
      range == [start |-> Most(report.start, report.edges[i]), end |-> Least(report.end, report.edges[i + 1])]
  IN IF acc.after THEN acc
     ELSE IF sample.t < report.start THEN [acc EXCEPT !.previous = sample]
     ELSE IF sample.t >= report.end /\ Or(start, report.end) >= report.end THEN [acc EXCEPT !.after = TRUE]
     ELSE [acc EXCEPT !.rows[i] = AddToReport(@, sample, acc.previous, report.config, range),
                      !.previous = sample]

FinalizeReportBucket(row, before, bounds, report) ==
  LET span == Positive(Least(bounds[2], report.end) - Most(bounds[1], report.start))
      demand == row.energy["branchDemandKwh"]
      change == IF Absent \in {demand, before} THEN Absent ELSE demand - before
  IN [count |-> row.count, energy |-> row.energy, previous |-> before, change |-> change,
      percent |-> IF change = Absent THEN Absent ELSE IF before = 0 THEN Absent ELSE (100 * change) \div before,
      quality |-> [k \in DOMAIN WattsOf |->
                     [quality |-> Or(One(row.quality[k]), "unavailable"), coverage |-> row.coverage[k],
                      percent |-> CoveragePercent(row.coverage[k], span)]],
      solarSaving |-> row.solarSaving, offPeakSaving |-> row.offPeakSaving,
      total |-> row.total, battery |-> row.battery, grid |-> row.grid, peak |-> row.peak]

SummarizeReportBuckets(buckets) ==
  LET sum(F(_)) == FoldLeft(LAMBDA a, b : Plus(a, F(b)), Absent, buckets)
      energy == [k \in DOMAIN WattsOf |-> sum(LAMBDA b : b.energy[k])]
      demand == Or(energy["branchDemandKwh"], 0)
  IN [energy |-> energy, solarSaving |-> sum(LAMBDA b : b.solarSaving),
      offPeakSaving |-> sum(LAMBDA b : b.offPeakSaving), total |-> sum(LAMBDA b : b.total),
      battery |-> sum(LAMBDA b : b.battery), grid |-> sum(LAMBDA b : b.grid),
      count |-> sum(LAMBDA b : b.count), peak |-> FoldLeft(LAMBDA a, b : Greatest(a, b.peak), Absent, buckets),
      solarCoverage |-> IF demand = 0 \/ energy["solarGenerationKwh"] = Absent THEN Absent
                        ELSE (100 * energy["solarGenerationKwh"]) \div demand]

ReportOf(buckets) == [buckets |-> buckets, totals |-> SummarizeReportBuckets(buckets)]

ReportOn(rows, report) ==
  LET shown == SelectSeq([i \in DOMAIN report.edges |-> i],
                         LAMBDA i : i >= BucketOf(report.start, report.edges) /\ report.edges[i] < report.end)
      final(all, i) ==
        Append(all, FinalizeReportBucket(rows[i],
                      IF all = <<>> THEN Absent ELSE all[Len(all)].energy["branchDemandKwh"],
                      <<report.edges[i], report.edges[i + 1]>>, report))
  IN ReportOf(FoldLeft(final, <<>>, shown))

AggregateEnergyReport(samples, report, previous) ==
  ReportOn(FoldLeft(LAMBDA a, s : ProcessSample(a, s, report), EmptyReport(report, previous), samples).rows, report)
=============================================================================

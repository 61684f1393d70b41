-------------------------------- MODULE Meters --------------------------------
(* From a reading of the devices to the history of the house:                  *)
(* src/lib/counter-utils.ts, src/lib/domain/telemetry.ts and history-samples.ts.*)
(* Energy is in Wh (gas in its own unit), power in W, time in units of which    *)
(* Hour make an hour.  A map of the code that may lack a key is a function with  *)
(* Absent there; the branch circuits are keys beside the metrics.              *)
EXTENDS Numbers, FiniteSets

CONSTANTS
  Circuits,     \* keys such as "circuit:1"
  Policy        \* COUNTER_POLICIES, by kind of counter: maximum, delta, rate, resolution

Counters == {"gridImportKwh", "gridExportKwh", "fuelCellKwh", "fuelCellGasM3"}
Metered == Counters \cup Circuits
WattsOf ==
  [branchDemandKwh |-> "branchDemandW", solarGenerationKwh |-> "solarPowerW",
   gridImportKwh |-> "gridImportW", gridExportKwh |-> "gridExportW", fuelCellKwh |-> "fuelCellPowerW",
   batteryChargeKwh |-> "batteryPowerW", batteryDischargeKwh |-> "batteryPowerW"]
Powers == {WattsOf[k] : k \in DOMAIN WattsOf} \cup Circuits
Integrable == DOMAIN WattsOf \cup Circuits
Keys == Integrable \cup {"fuelCellGasM3"}
Running == {"generating", "starting", "stopping", "idling"}

Source(key) == IF key \in {"fuelCellKwh", "fuelCellGasM3"} THEN "cell" ELSE "meter"
Kind(key) == IF key \in Circuits THEN "circuit"
             ELSE IF key \in {"gridImportKwh", "gridExportKwh"} THEN "grid" ELSE key
Unknown(keys) == [k \in keys |-> Absent]
Known(f) == {k \in DOMAIN f : f[k] # Absent}
Sum(f, keys) == FoldFunctionOnSet(+, 0, f, keys)
Positive(x) == Most(0, x)

-----------------------------------------------------------------------------
(* A cumulative counter: what it moved by, and what is wrong with it.           *)

Delta(now, before, policy, elapsed) ==
  LET wraps == 10 * before > 9 * policy.maximum /\ 10 * now < policy.maximum
      moved == IF now >= before THEN now - before ELSE policy.maximum - before + now
      most == Least(policy.delta, Energy(policy.rate, elapsed) + 2 * policy.resolution)
  IN IF Absent \in {now, before} THEN [delta |-> Absent, issue |-> Absent]
     ELSE IF now < before /\ ~wraps THEN [delta |-> Absent, issue |-> "reset"]
     ELSE IF moved > most THEN [delta |-> Absent, issue |-> "invalid-jump"]
     ELSE [delta |-> moved, issue |-> IF now < before THEN "rollover" ELSE Absent]

SameSource(a, b, key) == a.source[Source(key)] # Absent /\ a.source[Source(key)] = b.source[Source(key)]

Counted(sample, previous, elapsed, Trusted(_)) ==
  [k \in Metered |->
     IF previous # Absent /\ Trusted(k)
       THEN Delta(sample.counter[k], previous.counter[k], Policy[Kind(k)], elapsed)
       ELSE [delta |-> Absent, issue |-> Absent]]

\* The demand of the branches is exact when every circuit that has a counter moved.
Direct(sample, counted) ==
  LET metered == {c \in Circuits : sample.counter[c] # Absent}
      exact == metered # {} /\ \A c \in metered : counted[c].delta # Absent
  IN [k \in Keys |->
        IF k = "branchDemandKwh"
          THEN IF exact THEN Sum([c \in metered |-> counted[c].delta], metered) ELSE Absent
          ELSE IF k \in Metered THEN counted[k].delta ELSE Absent]

\* The derived fields both sampleFromStatus and interpretHistorySample give a
\* sample; `interval` is the time since the last one, 0 across a gap.
Derived(sample, previous, counted, interval) ==
  LET direct == Direct(sample, counted)
      at(k, x) == IF direct[k] = Absent THEN Absent ELSE x
      power == sample.watts["fuelCellPowerW"] # Absent
  IN [sample EXCEPT
        !.energy = direct,
        !.coverage = [k \in Keys |-> at(k, interval)],
        !.quality = [k \in Keys |-> at(k, "counter")],
        !.from = [k \in Keys |-> at(k, previous.t)],
        !.issues = {<<k, counted[k].issue>> : k \in {m \in Metered : counted[m].issue # Absent}},
        !.cellQuality = IF direct["fuelCellKwh"] # Absent THEN "counter"
                        ELSE IF ~power THEN Absent
                        ELSE IF direct["fuelCellGasM3"] # Absent THEN "mixed" ELSE "integrated",
        !.operating = IF previous # Absent /\ previous.state \in Running THEN interval ELSE 0,
        !.starts = IF sample.state = "generating" /\ (previous = Absent \/ previous.state # "generating")
                     THEN 1 ELSE 0]

Since(sample, previous) == IF previous = Absent THEN 0 ELSE Positive(sample.t - previous.t)

-----------------------------------------------------------------------------
(* A reading of the devices becomes a sample (sampleFromStatus).                *)

PrimaryCell(cells) == First(cells, LAMBDA c : c.role = "primary")

\* The primary cell if it answers, else a proxy that does, else the primary.
CellReading(cells) ==
  LET answers(c) == c.watts # Absent \/ c.state # Absent
      primary == PrimaryCell(cells)
      proxy == First(cells, LAMBDA c : c.role = "proxy" /\ answers(c))
  IN IF primary # Absent /\ answers(primary) THEN primary ELSE Or(proxy, primary)

Of(record, field) == IF record = Absent THEN Absent ELSE record[field]

\* What the devices said, before any comparison with the last sample.  `meter` has
\* the counters and the powers, `power` the power of each circuit; both are Absent everywhere when the meter is switched off in config.
Observation(status, config, reading, primary) ==
  LET metered(k) == IF config.meter THEN status.meter[k] ELSE Absent
      power(c) == IF config.meter THEN status.power[c] ELSE Absent
      counter == [k \in Metered |->
                    IF k = "fuelCellKwh" THEN Of(primary, "generated")
                    ELSE IF k = "fuelCellGasM3" THEN Of(primary, "gas") ELSE metered(k)]
      counts(keys) == \E k \in keys : counter[k] # Absent
  IN [t |-> status.t, expected |-> config.interval,
      watts |-> [w \in Powers |->
                   IF w = "batteryPowerW" THEN status.battery
                   ELSE IF w = "solarPowerW" THEN IF config.solar THEN status.solar ELSE Absent
                   ELSE IF w = "fuelCellPowerW" THEN Of(reading, "watts")
                   ELSE IF w \in Circuits THEN power(w) ELSE metered(w)],
      counter |-> counter,
      source |-> [cell |-> IF counts({"fuelCellKwh", "fuelCellGasM3"}) THEN primary.host ELSE Absent,
                  meter |-> IF counts({"gridImportKwh", "gridExportKwh"}) THEN config.meterHost ELSE Absent],
      soc |-> status.soc, state |-> Of(reading, "state"), hot |-> Of(primary, "hot"),
      host |-> Of(reading, "host"), rate |-> config.rate, reference |-> config.standard,
      energy |-> Unknown(Keys), coverage |-> Unknown(Keys), quality |-> Unknown(Keys),
      from |-> Unknown(Keys), seconds |-> Unknown(Powers), average |-> Unknown(Powers),
      issues |-> {}, cellQuality |-> Absent, operating |-> 0, starts |-> 0,
      solarSaving |-> Absent, offPeakSaving |-> Absent, guards |-> 0,
      peak |-> Absent, bucket |-> Absent, count |-> 1]

ObservedBy(status, config, cells) == Observation(status, config, CellReading(cells), PrimaryCell(cells))
Observed(status, config) == ObservedBy(status, config, IF config.fuelCell THEN status.cells ELSE <<>>)

\* Here a circuit is compared with the last sample whatever meter that came from.
SampleSince(sample, previous, elapsed, interval) ==
  Derived(sample, previous,
          Counted(sample, previous, elapsed, LAMBDA k : k \in Circuits \/ SameSource(sample, previous, k)),
          IF elapsed <= Most(Hour \div 40, (5 * interval) \div 2) THEN elapsed ELSE 0)

SampleAfter(sample, previous, interval) == SampleSince(sample, previous, Since(sample, previous), interval)

SampleFromStatus(status, config, previous) == SampleAfter(Observed(status, config), previous, config.interval)

-----------------------------------------------------------------------------
(* A stored sample is interpreted again from the raw readings.                  *)

MaximumGap(sample) ==
  IF sample.expected = Absent THEN (35 * Hour) \div 60
  ELSE Most(Hour \div 40, Least(2 * Hour, (5 * sample.expected) \div 2))

CompactHistorySample(sample) ==
  [sample EXCEPT
     !.energy = Unknown(Keys), !.coverage = Unknown(Keys), !.quality = Unknown(Keys),
     !.from = Unknown(Keys), !.seconds = Unknown(Powers), !.average = Unknown(Powers),
     !.issues = {}, !.cellQuality = Absent, !.operating = 0, !.starts = 0,
     !.solarSaving = Absent, !.offPeakSaving = Absent, !.guards = 0]

UpdateMetricBaselinesOnce(baselines, sample) ==
  [w \in Powers |-> IF sample.watts[w] = Absent \/ baselines[w] # Absent THEN baselines[w]
                    ELSE [t |-> sample.t, watts |-> sample.watts[w]]]

\* The last reading of each power, which may be older than the last sample.
UpdateMetricBaselines(baselines, sample) ==
  [w \in Powers |-> IF sample.watts[w] = Absent THEN baselines[w]
                    ELSE [t |-> sample.t, watts |-> sample.watts[w]]]

BaselineForMetric(previous, baselines, w) ==
  IF baselines[w] # Absent THEN baselines[w]
  ELSE IF previous = Absent THEN Absent ELSE [t |-> previous.t, watts |-> previous.watts[w]]

\* Two readings of a power are near enough to integrate between them.
Bridged(sample, base, w) ==
  /\ base # Absent
  /\ Absent \notin {base.watts, sample.watts[w]}
  /\ sample.t - base.t \in 1..MaximumGap(sample)

Directed(key, watts) == IF key = "batteryDischargeKwh" THEN Positive(-watts) ELSE Positive(watts)
Power(key) == IF key \in Circuits THEN key ELSE WattsOf[key]

IntervalEnergyDetails(key, sample, previous, base) ==
  LET w == Power(key)
      mean == (Directed(key, sample.watts[w]) + Directed(key, base.watts)) \div 2
      start == Or(sample.from[key], IF key \in Circuits THEN Of(previous, "t") ELSE Of(base, "t"))
      span == IF key \in Circuits /\ start # Absent THEN sample.t - start ELSE 0
  IN IF sample.energy[key] # Absent
       THEN [value |-> sample.energy[key], seconds |-> Positive(Or(sample.coverage[key], span)),
             quality |-> Or(sample.quality[key], "counter"), start |-> start]
       ELSE IF ~Bridged(sample, base, w) THEN Absent
       ELSE [value |-> Energy(mean, sample.t - base.t), seconds |-> sample.t - base.t,
             quality |-> "integrated", start |-> base.t]

Enriched(sample, energy, details, averaged, Base(_), Field(_, _)) ==
  LET one(w, x) == IF w = "batteryPowerW" THEN x ELSE Positive(x)
      bought == IF energy["gridImportKwh"] = Absent THEN energy["batteryChargeKwh"]
                ELSE Least(energy["batteryChargeKwh"], energy["gridImportKwh"])
  IN [sample EXCEPT
        !.energy = energy,
        !.coverage = Field(@, "seconds"), !.quality = Field(@, "quality"), !.from = Field(@, "start"),
        !.seconds = [w \in Powers |-> IF w \in averaged THEN sample.t - Base(w).t ELSE @[w]],
        !.average = [w \in Powers |-> IF w \in averaged
                       THEN (one(w, sample.watts[w]) + one(w, Base(w).watts)) \div 2 ELSE @[w]],
        !.solarSaving = IF Absent \in {energy["solarGenerationKwh"], sample.rate} THEN Absent
          ELSE sample.rate * Positive(energy["solarGenerationKwh"] - Positive(Or(energy["gridExportKwh"], 0))),
        !.offPeakSaving = IF Absent \in {energy["batteryChargeKwh"], sample.rate, sample.reference} THEN Absent
          ELSE bought * Positive(sample.reference - sample.rate)]

\* Averages: of the sign for the battery, of what flows one way for the others.
Detailed(sample, details, Base(_)) ==
  LET field(old, f) == [k \in Keys |-> IF k \in Integrable /\ details[k] # Absent
                                         THEN Or(details[k][f], old[k]) ELSE old[k]]
      averaged == {w \in Powers :
                     /\ Bridged(sample, Base(w), w)
                     /\ w = "batteryPowerW" \/ \E k \in Integrable : Power(k) = w /\ details[k] # Absent}
  IN Enriched(sample, field(sample.energy, "value"), details, averaged, Base, field)

EnrichHistorySample(sample, previous, baselines) ==
  LET base(w) == BaselineForMetric(previous, baselines, w)
  IN Detailed(sample, [k \in Integrable |->
                         IF k \in Circuits /\ sample.watts[k] = Absent THEN Absent
                         ELSE IntervalEnergyDetails(k, sample, previous, base(Power(k)))], base)

InterpretHistorySample(raw, previous, baselines) ==
  LET sample == CompactHistorySample(raw)
      elapsed == Since(sample, previous)
      trusted(k) == SameSource(sample, previous, k)
  IN EnrichHistorySample(
       Derived(sample, previous, Counted(sample, previous, elapsed, trusted),
               IF elapsed <= MaximumGap(sample) THEN elapsed ELSE 0),
       previous, baselines)
-----------------------------------------------------------------------------
(* Roll-ups: the samples of half an hour or of a day as one.                   *)

EmptyRollupState(bucket) ==
  [bucket |-> bucket, count |-> 0, t |-> Absent,
   powers |-> Unknown(Powers), soc |-> Absent, energy |-> Unknown(Keys), coverage |-> Unknown(Keys),
   quality |-> [k \in Keys |-> {}], counter |-> Unknown(Circuits),
   solarSaving |-> 0, offPeakSaving |-> 0, guards |-> 0, operating |-> 0, starts |-> 0,
   states |-> [r \in Running |-> 0], state |-> Absent, hot |-> Absent, cellQualities |-> {}, hosts |-> {},
   peak |-> Absent, rate |-> Absent]

Plus(a, b) == IF b = Absent THEN a ELSE Or(a, 0) + b
Greatest(a, b) == IF Absent \in {a, b} THEN Or(a, b) ELSE Most(a, b)

\* A power counts for the time between the readings it is the average of.
AddAverageMetric(metric, value, weight) ==
  IF value = Absent \/ Or(weight, 0) <= 0 THEN metric
  ELSE LET m == Or(metric, [weighted |-> 0, weight |-> 0, min |-> value, max |-> value])
       IN [weighted |-> m.weighted + value * weight, weight |-> m.weight + weight,
           min |-> Least(m.min, value), max |-> Most(m.max, value)]

AddSoc(soc, value) ==
  IF value = Absent THEN soc
  ELSE LET s == Or(soc, [sum |-> 0, count |-> 0, min |-> value, max |-> value, first |-> value, last |-> value])
       IN [s EXCEPT !.sum = @ + value, !.count = @ + 1, !.min = Least(@, value),
                    !.max = Most(@, value), !.last = value]

AddRollupSample(state, sample, previousState) ==
  LET before == Or(state.state, previousState)
  IN [state EXCEPT
        !.count = @ + sample.count,
        !.t = sample.t,
        !.powers = [w \in Powers |-> AddAverageMetric(@[w], Or(sample.average[w], sample.watts[w]), sample.seconds[w])],
        !.soc = AddSoc(@, sample.soc),
        !.energy = [k \in Keys |-> Plus(@[k], sample.energy[k])],
        !.coverage = [k \in Keys |-> Plus(@[k], sample.coverage[k])],
        !.quality = [k \in Keys |-> @[k] \cup ({sample.quality[k]} \ {Absent})],
        !.counter = [c \in Circuits |-> Or(sample.counter[c], @[c])],
        !.solarSaving = Plus(@, sample.solarSaving),
        !.offPeakSaving = Plus(@, sample.offPeakSaving),
        !.guards = @ + sample.guards,
        !.operating = @ + sample.operating,
        !.starts = @ + sample.starts,
        \* The seconds that end at this sample belong to the state before it.
        !.states = IF sample.state = Absent \/ before \notin Running THEN @
                   ELSE [@ EXCEPT ![before] = @ + sample.operating],
        !.state = Or(sample.state, @),
        !.hot = sample.hot,
        !.cellQualities = @ \cup ({sample.cellQuality} \ {Absent}),
        !.hosts = @ \cup ({sample.host} \ {Absent}),
        !.peak = Greatest(@, Or(sample.peak, sample.watts["branchDemandW"])),
        !.rate = Or(sample.rate, @)]

\* What is left of several qualities, hosts or grades is one of them or "mixed".
One(set) == IF set = {} THEN Absent ELSE IF Cardinality(set) = 1 THEN CHOOSE x \in set : TRUE ELSE "mixed"

\* The roll-up as a sample of its bucket.
RollupPayload(state) ==
  LET known(w) == state.powers[w] # Absent
      average == [w \in Powers |-> IF known(w) THEN state.powers[w].weighted \div state.powers[w].weight ELSE Absent]
  IN [t |-> Or(state.t, state.bucket[2] - 1), bucket |-> state.bucket, expected |-> Absent,
      count |-> state.count, watts |-> average, average |-> average,
      seconds |-> [w \in Powers |-> IF known(w) THEN state.powers[w].weight ELSE Absent],
      counter |-> [k \in Metered |-> IF k \in Circuits THEN state.counter[k] ELSE Absent],
      source |-> [cell |-> Absent, meter |-> Absent],
      soc |-> IF state.soc = Absent THEN Absent ELSE state.soc.sum \div state.soc.count,
      energy |-> state.energy, coverage |-> state.coverage,
      quality |-> [k \in Keys |-> One(state.quality[k])], from |-> Unknown(Keys),
      issues |-> {}, cellQuality |-> One(state.cellQualities), operating |-> state.operating,
      starts |-> state.starts, state |-> state.state, hot |-> state.hot, host |-> One(state.hosts),
      solarSaving |-> state.solarSaving, offPeakSaving |-> state.offPeakSaving,
      guards |-> state.guards, peak |-> state.peak, rate |-> state.rate, reference |-> Absent]
=============================================================================

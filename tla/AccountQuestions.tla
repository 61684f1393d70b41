---------------------------- MODULE AccountQuestions ----------------------------
(* Questions to the accounts of energy, over bounded inputs, and what their       *)
(* answers must agree on: three readings of the devices as the samples, the        *)
(* roll-ups and the reports of them; the settings of a device as they are written   *)
(* and read back; the rates of a day; the billing periods.  Times are in minutes.  *)
EXTENDS Integers, Sequences, FiniteSets, SequencesExt, TLC

CONSTANTS Nothing, Lost, Thrown, m1, m2

VARIABLE question

Counting == [maximum |-> 1000, delta |-> 100, rate |-> 6000, resolution |-> 1]

Reports == INSTANCE EnergyReports WITH Absent <- Nothing, Hour <- 60, Buckets <- 48, Circuits <- {"circuit:1"},
  Policy <- [k \in {"grid", "circuit", "fuelCellKwh", "fuelCellGasM3"} |-> Counting]

Readings == INSTANCE StatusReading WITH Absent <- Nothing, Hour <- 60, Circuits <- {"circuit:1"},
  Policy <- [k \in {"grid", "circuit", "fuelCellKwh", "fuelCellGasM3"} |-> Counting]

Echonet == INSTANCE EchonetCommands WITH None <- Nothing, Invalid <- Thrown,
  FuelCells <- {"cell1", "cell2"}, Primary <- "cell1"

-----------------------------------------------------------------------------
(* Readings: two minutes or a gap apart, with counters that stand still, move,     *)
(* jump, wrap or are missing, with the power or without, and the meter may be      *)
(* another one at the end.                                                   *)
Config(host) ==
  [fuelCell |-> TRUE, meter |-> TRUE, solar |-> TRUE, meterHost |-> host, interval |-> 2, rate |-> 20,
   standard |-> 30, bands |-> <<Reports!Band(0, 420, 20, "night"), Reports!Band(420, 0, 30, "day")>>]

Cell(counter, watts) ==
  [role |-> "primary", host |-> "cell1", watts |-> watts, state |-> "generating", generated |-> counter,
   gas |-> counter, hot |-> 3, rated |-> 700]

MeterReading(counter, watts) ==
  [k \in {"gridImportKwh", "gridExportKwh", "circuit:1", "gridImportW", "gridExportW", "branchDemandW"} |->
     CASE k \in {"gridImportKwh", "circuit:1"} -> counter
       [] k \in {"gridExportKwh", "gridExportW"} -> 0
       [] OTHER -> watts]

Status(t, counter, watts, battery) ==
  [t |-> t, battery |-> battery, soc |-> 50, solar |-> 300, cells |-> <<Cell(counter, watts)>>,
   meter |-> MeterReading(counter, watts), power |-> "circuit:1" :> watts]

Counters == {<<100, 100, 130>>, <<100, 130, 160>>, <<Nothing, 100, 130>>, <<100, Nothing, 130>>,
             <<100, 130, Nothing>>, <<100, 990, 5>>, <<990, 5, 5>>, <<130, 100, 990>>}
Others == {[battery |-> <<-600, Nothing, 600>>, host |-> m1], [battery |-> <<600, 600, 600>>, host |-> m2]}

AskMeters == \E gaps \in {<<2, 2>>, <<2, 40>>, <<40, 2>>}, counter \in Counters,
                watts \in [1..3 -> {Nothing, 600}], other \in Others :
  question' = [kind |-> "meters", gaps |-> gaps, counter |-> counter, watts |-> watts,
               battery |-> other.battery, host |-> other.host]

Statuses(q) ==
  [i \in 1..3 |-> Status(<<20, 20 + q.gaps[1], 20 + q.gaps[1] + q.gaps[2]>>[i],
                         q.counter[i], q.watts[i], q.battery[i])]

\* The samples as they are taken and as they are told again from what is stored.
Taken(acc, live, raw) ==
  [live |-> Append(acc.live, live), last |-> raw,
   told |-> Append(acc.told, Reports!InterpretHistorySample(raw, acc.last, acc.base)),
   base |-> Reports!UpdateMetricBaselines(acc.base, raw)]

Taking(acc, live) == Taken(acc, live, Reports!CompactHistorySample(live))

History(q) ==
  FoldLeft(LAMBDA acc, i : Taking(acc, Reports!SampleFromStatus(Statuses(q)[i], Config(IF i = 3 THEN q.host ELSE m1),
                                                                acc.last)),
           [live |-> <<>>, told |-> <<>>, last |-> Nothing, base |-> [w \in Reports!Powers |-> Nothing]],
           <<1, 2, 3>>)

Whole == [start |-> Nothing, end |-> Nothing]

Rollup(told) ==
  Reports!RollupPayload(FoldLeft(LAMBDA state, s : Reports!AddRollupSample(state, s, Nothing),
                                 Reports!EmptyRollupState(<<0, 200>>), told))

Report(told) ==
  Reports!AggregateEnergyReport(
    told, [start |-> 0, end |-> 120, edges |-> <<0, 24, 48, 72, 96, 120>>, config |-> Config(m1)], Nothing)

\* A sample tells the same when it is told again, while the meter is the same.
ToldTheSame(q, h) ==
  \A i \in 1..3, k \in Reports!Metered \cup {"branchDemandKwh"} :
    h.live[i].energy[k] # Nothing /\ (q.host = m1 \/ i < 3) =>
      h.told[i].energy[k] = h.live[i].energy[k] /\ h.told[i].coverage[k] = h.live[i].coverage[k]

\* No two energies of one kind and one source are counted over the same time.
CountedOnce(told) ==
  \A k \in Reports!Integrable, i \in 1..3 : \A j \in (i + 1)..3 :
    told[i].energy[k] # Nothing /\ told[j].energy[k] # Nothing /\ told[i].quality[k] = told[j].quality[k]
      => told[j].from[k] >= told[i].t

\* The energy of a counter is its move between two readings that are there, or its
\* way round.
Moved(told) ==
  \A i \in 1..3, k \in Reports!Metered :
    told[i].energy[k] # Nothing /\ told[i].quality[k] = "counter" =>
      /\ told[i].energy[k] >= 0 /\ i > 1
      /\ told[i].counter[k] # Nothing /\ told[i - 1].counter[k] # Nothing
      /\ told[i].energy[k] \in {told[i].counter[k] - told[i - 1].counter[k],
                                1000 + told[i].counter[k] - told[i - 1].counter[k]}

\* A roll-up is summed up like its samples, and a report tells no more than they do.
SummedUp(told, rollup, totals, sum) ==
  /\ \A k \in DOMAIN Reports!WattsOf \ {"batteryDischargeKwh"} :
       Reports!Metric(told, k, Whole) = Reports!Metric(<<rollup>>, k, Whole)
  /\ \A k \in DOMAIN Reports!WattsOf : totals.energy[k] # Nothing => totals.energy[k] <= sum.energy[k]
  /\ totals.battery <= totals.total /\ totals.total <= sum.total
  /\ totals.count = 3

MetersSound(q, h) ==
  /\ ToldTheSame(q, h) /\ CountedOnce(h.told) /\ Moved(h.told)
  /\ SummedUp(h.told, Rollup(h.told), Report(h.told).totals,
              Reports!SummarizeSamples(h.told, Config(m1), [start |-> 0, end |-> 120]))

MetersHold(q) == MetersSound(q, History(q))

-----------------------------------------------------------------------------
(* Settings of the battery, and readings of which one is lost or garbled.         *)
Profiles == {"osaifu", "eco", "backup"}
Settings ==
  {<<c, a>> : c \in {"charge", "discharge"}, a \in {<<>>, <<0>>, <<12000>>, <<1000000000>>}}
    \cup {<<"set-mode", <<m>>>> : m \in {"charge", "standby", "auto", "unheard"}}
    \cup {<<"vendor-profile", <<p>>>> : p \in Profiles \cup {"unheard"}}
    \cup {<<c, <<a, b>>>> : c \in {"osaifu-charge-window", "osaifu-discharge-window"}, a, b \in {-1, 0, 9, 23, 24}}
    \cup {<<"discharge-limit", <<a>>>> : a \in {0, 10, 55, 100, 110}}

AskSetting == \E s \in Settings, answers \in [1..2 -> {"Set_Res", "SetC_SNA", Lost}] :
  question' = [kind |-> "setting", command |-> s[1], args |-> s[2], answers |-> answers]

\* A setting that is written reads back as what was asked for; one that is refused
\* writes nothing, and a value nobody can ask for is refused; and a command of two
\* writes that was not acknowledged has not made the second one unless the first was.
Meaning(command, args) ==
  CASE command \in {"charge", "discharge"} -> IF command = "charge" THEN "charging" ELSE "discharging"
    [] command = "set-mode" -> [charge |-> "charging", standby |-> "standby", auto |-> "auto"][args[1]]
    [] command \in {"vendor-profile", "discharge-limit"} -> args[1]
    [] OTHER -> args

Refused(command, args) ==
  CASE command \in {"charge", "discharge"} -> args = <<1000000000>>
    [] command \in {"set-mode", "vendor-profile"} -> args[1] = "unheard"
    [] command = "discharge-limit" -> args[1] \in {55, 110}
    [] OTHER -> {args[1], args[2]} \cap {-1, 24} # {}

SettingHolds(q) ==
  LET writes == Echonet!Writes(q.command, q.args)
      sent == SubSeq(q.answers, 1, Len(writes))
  IN IF writes = Thrown THEN Refused(q.command, q.args)
     ELSE /\ ~Refused(q.command, q.args)
          /\ Echonet!ReadSetting(q.command, Last(writes).bytes) = Meaning(q.command, q.args)
          /\ \A i \in DOMAIN writes, b \in 1..4 : b \in DOMAIN writes[i].bytes => writes[i].bytes[b] \in 0..255
          /\ Echonet!SetOutcome(sent) = "acknowledged" <=> \A i \in DOMAIN sent : sent[i] = "Set_Res"
          /\ \A i \in 2..Len(sent) : Echonet!Accepted(sent) >= i => sent[i - 1] = "Set_Res"

Sound(p) ==
  CASE p[2] \in {"power", "rated"} -> <<0, 0, 1, 44>>
    [] p[2] = "percent" -> <<50>>
    [] p[2] \in {"generation", "gas"} -> <<0, 0, 1, 0>>
    [] p[2] = "hot_water" -> <<3>>
    [] OTHER -> <<65>>

AskStatus == \E p \in Echonet!EnergyAsked(TRUE, {"cell1", "cell2"}), raw \in {Lost, Nothing, <<>>, <<255>>, <<0, 0, 1>>},
                cells \in SUBSET {"cell1", "cell2"} :
  question' = [kind |-> "status", property |-> p, raw |-> raw, cells |-> cells]

\* What one property is answered costs that property alone, unless the command throws:
\* the others read as they would have, and an error is left exactly for what was lost.
StatusHolds(q) ==
  LET sound == [p \in Echonet!EnergyAsked(TRUE, {"cell1", "cell2"}) |-> Sound(p)]
      whole == Echonet!EnergyStatus(sound, TRUE, q.cells)
      answer == [sound EXCEPT ![q.property] = q.raw]
      status == Echonet!EnergyStatus(answer, TRUE, q.cells)
  IN IF status = Thrown THEN q.raw = <<>> /\ q.property \in DOMAIN whole.metrics
     ELSE /\ \A p \in DOMAIN whole.metrics \ {q.property} : status.metrics[p] = whole.metrics[p]
          /\ status.errors = IF q.raw = Lost THEN {q.property} \cap DOMAIN whole.metrics ELSE {}
          /\ q.raw = Lost /\ q.property \in DOMAIN whole.metrics => status.metrics[q.property] = Nothing

-----------------------------------------------------------------------------
(* A refresh of the status: devices that are there or not, commands that fail or      *)
(* lack a figure, and cells that are primary, stand in for it, or are silent.        *)
Present == [solar : BOOLEAN, fuelCell : BOOLEAN, meter : BOOLEAN, battery : BOOLEAN]
Role(role, watts) == [Cell(100, watts) EXCEPT !.role = role, !.state = Nothing]
CellsRead == {<<Role("primary", 500)>>, <<Role("primary", Nothing), Role("proxy", 450)>>, <<Role("proxy", 450)>>}
LiveRead == {[cell |-> 600, battery |-> -800], [cell |-> Nothing, battery |-> 700], [cell |-> 600, battery |-> Nothing]}

AskReading == \E present \in Present, lost \in SUBSET {"energy", "meter", "live", "settings"},
                 cells \in CellsRead, live \in LiveRead :
  question' = [kind |-> "reading", present |-> present, lost |-> lost, cells |-> cells, live |-> live]

Grid(net, branch) ==
  [meter |-> [MeterReading(100, branch) EXCEPT !["gridImportW"] = Reports!Positive(net),
                                               !["gridExportW"] = Reports!Positive(-net)] @@ "net" :> net,
   power |-> "circuit:1" :> branch]

Site(present, cache) ==
  [battery |-> present.battery, cache |-> cache] @@ [Config(m1) EXCEPT !.solar = present.solar,
                                                       !.fuelCell = present.fuelCell, !.meter = present.meter]

\* The battery, the solar power and the grid have moved between the first command and
\* the last; a primary cell is there to be read again when it is configured.
Replies(q, value) ==
  LET primary == q.present.fuelCell /\ q.cells[1].role = "primary"
      answers == [energy |-> [battery |-> 200, soc |-> 50, solar |-> 300,
                              cells |-> IF q.present.fuelCell THEN q.cells ELSE <<>>],
                  meter |-> Grid(-400, 250),
                  live |-> [t |-> 21, battery |-> q.live.battery, solar |-> 900,
                            cell |-> IF primary THEN Role("primary", q.live.cell) ELSE Nothing,
                            meter |-> IF q.present.meter THEN Grid(1300, 350) ELSE Nothing]]
      settings == [s \in Readings!Setting |-> IF "settings" \in q.lost THEN Nothing ELSE value]
  IN [c \in DOMAIN answers |-> IF c \in q.lost THEN Nothing ELSE answers[c]]
       @@ [now |-> 22, settings |-> settings, raw |-> settings]

\* The home load and the sample that is recorded tell one balance.
Balanced(load, watts, config) ==
  load # Nothing /\ load.source \in {"derived", "inconsistent"} =>
    load.value = Reports!Positive(
      watts["gridImportW"] - watts["gridExportW"] + (IF config.solar THEN watts["solarPowerW"] ELSE 0)
        + (IF config.fuelCell THEN watts["fuelCellPowerW"] ELSE 0) - watts["batteryPowerW"])

\* A figure is there when one command that has it was answered.
Told(q, status) ==
  LET here(commands) == q.present.battery /\ ~(commands \subseteq q.lost)
      live == IF q.live.battery = Nothing THEN {"energy"} ELSE {"energy", "live"}
  IN /\ status.battery # Nothing <=> here(live)
     /\ status.solar # Nothing <=> q.present.solar /\ here({"energy", "live"})
     /\ status.meter["net"] # Nothing <=> q.present.meter /\ ("meter" \notin q.lost \/ here({"live"}))

\* A balance of the last command is not mixed with figures of the first.
OneMoment(q, load) ==
  q.present.battery /\ q.present.meter /\ "live" \notin q.lost /\ q.live = [cell |-> 600, battery |-> -800]
      /\ (q.present.fuelCell => q.cells[1].role = "primary") =>
    load.value = 2100 + (IF q.present.solar THEN 900 ELSE 0) + (IF q.present.fuelCell THEN 600 ELSE 0)

\* A setting that is lost later, for a while or for good, is shown as it was last read.
Kept(first, later) ==
  \A s \in Readings!Setting :
    /\ ~later.settings[s].available
    /\ later.settings[s].lastKnown = IF first.settings[s].available THEN first.settings[s].value
                                     ELSE first.settings[s].lastKnown

ReadingSound(q, config, status) ==
  /\ Balanced(status.homeLoad, Readings!Observed(status, config).watts, config)
  /\ Told(q, status) /\ OneMoment(q, status.homeLoad)
  /\ q.present.battery =>
       Kept(status, Readings!ReadAll(Site(q.present, status.cache), Replies([q EXCEPT !.lost = {"settings"}], 60)))

ReadingOn(q, config) == ReadingSound(q, config, Readings!ReadAll(config, Replies(q, 50)))
ReadingHolds(q) == ReadingOn(q, Site(q.present, [s \in Readings!Setting |-> 40]))

-----------------------------------------------------------------------------
(* Rates: bands by day, past midnight, all day; and settings of them, some of      *)
(* them left out.                                                            *)
Day == Reports!Band(540, 1020, 30, "day")
Night == Reports!Band(1380, 420, 20, "night")
Morning == Reports!Band(420, 540, 25, "morning")
Always == Reports!Band(0, 0, 28, "always")

AskRates == \E bands \in {<<>>, <<Always>>, <<Night>>, <<Night, Day>>, <<Night, Morning, Day>>, Nothing},
               mode \in {Nothing, "simple", "offPeak", "multi"}, saves \in BOOLEAN,
               standard, offPeak \in {Nothing, 26, 32} :
  question' = [kind |-> "rates",
               given |-> [bands |-> bands, rateMode |-> mode, offPeakSavings |-> saves,
                          standard |-> standard, offPeak |-> offPeak]]

\* Rates that are stored and read again are the same.  A time is discounted when and
\* only when it lies in an occurrence of the band, also of one that began the day
\* before; its rate is that of the band, and never above the highest of the day; and
\* the plan of a day ends at its sunset or with a discount that spans it.
RatesSound(q, clean, config) ==
  /\ Reports!CleanRates([q.given EXCEPT !.bands = clean.bands, !.rateMode = clean.rateMode,
                            !.offPeakSavings = clean.offPeakSavings, !.standard = clean.standard,
                            !.offPeak = clean.offPeak]) = clean
  /\ \A t \in {5 * 1440 + 30 * n : n \in 0..47} :
       LET band == Reports!ExplicitDiscountedBand(config, t)
           occurrence == Reports!Occurrence(config, t)
           rate == Reports!RateForTimestamp(clean.bands, t, clean.standard)
       IN /\ (band = Nothing) <=> (occurrence = Nothing)
          /\ band # Nothing => /\ occurrence.band = band /\ Reports!MatchesDailyBand(t, band)
                               /\ band.yen < clean.standard
          /\ rate.yen <= Reports!MaxDailyRate(clean.bands, clean.standard)
          /\ Reports!HorizonEnd(config, t) >= t

RatesCleaned(q, clean) == RatesSound(q, clean, [bands |-> clean.bands, standard |-> clean.standard])
RatesHold(q) == RatesCleaned(q, Reports!CleanRates(q.given))

-----------------------------------------------------------------------------
(* Periods: dates of two years, reading days past the end of short months, times    *)
(* away.                                                                     *)
AskPeriods == \E month \in 24..35, day \in {1, 15, 28, 30}, reading \in {1, 15, 29, 31}, use \in {0, 5, 21, 90} :
  question' = [kind |-> "periods", date |-> [month |-> month, day |-> Reports!Least(day, Reports!LastDay(month))],
               reading |-> reading, use |-> use]

GasTable ==
  LET rows == <<[min |-> 20, max |-> 80, base |-> 1056, yen |-> 130], [min |-> 0, max |-> 20, base |-> 759, yen |-> 145],
                [min |-> 80, max |-> 0, base |-> 1232, yen |-> 128], [min |-> 0, max |-> 0, base |-> 0, yen |-> 0]>>
  IN [winter |-> rows, other |-> rows]

\* A date lies in its billing period and in no other; the periods follow each other
\* without a gap; gas is billed by the band its use lies in, and more of it never
\* by a dearer one.  Nobody is expected away who is not away.
PeriodsHold(q) ==
  LET key == Reports!BillingPeriodKey(q.date, q.reading)
      bounds(k) == Reports!BillingPeriodBounds(k, q.reading)
      in(d, k) == ~Reports!Before(d, bounds(k).start) /\ Reports!Before(d, bounds(k).end)
      tariff == Reports!ParseTokyoGasTariff(GasTable, q.date.month)
      band == Reports!ApplicableGasTariffBand(tariff, q.use)
      away == [from |-> 10 * q.use, until |-> 10 * q.use + 4 * q.date.day]
  IN /\ \A k \in (key - 2)..(key + 2) : in(q.date, k) <=> k = key
     /\ bounds(key).end = bounds(key + 1).start
     /\ Reports!CompleteBillingPeriod(bounds(key).start, bounds(key).end, q.reading)
     /\ band.min <= q.use /\ (band.max = Nothing \/ q.use <= band.max)
     /\ Reports!ApplicableGasTariffBand(tariff, q.use + 60).yen <= band.yen
     /\ \A t \in (10 * q.use - 5)..(10 * q.use + 125) :
          Reports!AwayPeriodForecastContains(away, t) => Reports!AwayPeriodContains(away, t)

-----------------------------------------------------------------------------
Topics == {"meters", "setting", "status", "reading", "rates", "periods"}

Ask ==
  /\ question.kind = "topic"
  /\ \/ question.of = "meters" /\ AskMeters
     \/ question.of = "setting" /\ AskSetting
     \/ question.of = "status" /\ AskStatus
     \/ question.of = "reading" /\ AskReading
     \/ question.of = "rates" /\ AskRates
     \/ question.of = "periods" /\ AskPeriods

(* What is written or stored reads back as it was meant: a setting of the battery, the  *)
(* readings beside one that is lost (cmdEnergyStatus), the status with the sample that  *)
(* is recorded of it (readAll), the samples, told as they were read, and their roll-ups *)
(* and reports, which tell no other energies (interpretHistorySample, addRollupSample,   *)
(* aggregateEnergyReport), the rates of the settings (cleanConfig), and the period a    *)
(* time is billed in (billingPeriodKey).                                             *)
ReadsBack ==
  question # Nothing =>
    CASE question.kind = "meters" -> MetersHold(question)
      [] question.kind = "setting" -> SettingHolds(question)
      [] question.kind = "status" -> StatusHolds(question)
      [] question.kind = "reading" -> ReadingHolds(question)
      [] question.kind = "rates" -> RatesHold(question)
      [] question.kind = "periods" -> PeriodsHold(question)
      [] OTHER -> TRUE
=============================================================================

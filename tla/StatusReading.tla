----------------------------- MODULE StatusReading -----------------------------
(* What one refresh of the status reads: readAll of src/lib/services/             *)
(* status-collection-service.ts.  The commands are asked each for itself, and one   *)
(* that fails costs its own figures only: Absent stands for a command that failed   *)
(* as for a figure that is missing.  The readings of one moment, which the last      *)
(* command takes, replace those of the first where they are there.  config says       *)
(* which devices are there and holds the settings last read (settingCache).          *)
EXTENDS Meters

Setting == {"discharge_limit", "osaifu_charge_window", "osaifu_discharge_window"}

\* A setting that is read is remembered; one that is not is shown as last known, and the
\* bytes of a window are asked for once more, which nobody remembers.
SettingWithCache(config, read, setting) ==
  LET answer == read.settings[setting]
      again == IF setting = "discharge_limit" THEN Absent ELSE read.raw[setting]
  IN IF answer # Absent THEN [available |-> TRUE, value |-> answer, lastKnown |-> Absent]
     ELSE [available |-> FALSE, value |-> again, lastKnown |-> IF config.battery THEN config.cache[setting] ELSE Absent]

SettingCache(config, read) == [s \in Setting |-> Or(read.settings[s], config.cache[s])]

\* readMeterStatus, and what the live reading has of it: of the powers of the grid each
\* that is there, of the circuits all or none.
Live == {"gridImportW", "gridExportW", "branchDemandW", "net"}
NoMeter == [meter |-> Unknown(Live \cup {"gridImportKwh", "gridExportKwh"} \cup Circuits), power |-> Unknown(Circuits)]

ReadMeterStatus(config, answer) == IF config.meter THEN Or(answer, NoMeter) ELSE NoMeter

MergedMeter(read, live) ==
  IF live = Absent THEN read
  ELSE [meter |-> [k \in DOMAIN read.meter |-> IF k \in Live THEN Or(live.meter[k], read.meter[k]) ELSE read.meter[k]],
        power |-> IF Known(live.power) = {} THEN read.power ELSE live.power]

\* The live power of the primary cell goes into the cell it belongs to, or makes one.
MergedCells(cells, live) ==
  IF live = Absent THEN cells
  ELSE IF PrimaryCell(cells) # Absent
    THEN Each(cells, LAMBDA c : IF c.role = "primary" THEN [c EXCEPT !.watts = Or(live.watts, @)] ELSE c)
  ELSE IF live.watts # Absent THEN Append(cells, live) ELSE cells

\* deriveHomeLoad: the balance of the powers when they are all there, else what the
\* circuits sum up to; one far below nothing is not believed.
DeriveHomeLoad(power, enabled, branch) ==
  LET missing == {d \in {"grid", "battery"} \cup enabled : power[d] = Absent}
      raw == power["grid"] + Or(power["solar"], 0) + Or(power["fuelCell"], 0) - power["battery"]
      load(value, source) == [value |-> value, source |-> source, missing |-> missing]
  IN IF missing # {}
       THEN IF branch = Absent THEN load(Absent, "unavailable") ELSE load(Positive(branch), "branch_fallback")
     ELSE IF raw < -200 THEN load(0, "inconsistent") ELSE load(Positive(raw), "derived")

Balance(config, battery, solar, cells, figures) ==
  LET cell == Or(PrimaryCell(cells), IF cells = <<>> THEN Absent ELSE cells[1])
  IN DeriveHomeLoad([grid |-> figures["net"], battery |-> battery, solar |-> solar, fuelCell |-> Of(cell, "watts")],
                    (IF config.solar THEN {"solar"} ELSE {}) \cup (IF config.fuelCell THEN {"fuelCell"} ELSE {}),
                    figures["branchDemandW"])

StatusOf(config, read, battery, solar, cells, meter) ==
  [t |-> Or(Of(read.live, "t"), read.now), battery |-> battery, soc |-> Of(read.energy, "soc"), solar |-> solar,
   cells |-> cells, meter |-> meter.meter, power |-> meter.power,
   homeLoad |-> IF config.meter THEN Balance(config, battery, solar, cells, meter.meter) ELSE Absent,
   settings |-> [s \in Setting |-> SettingWithCache(config, read, s)], cache |-> SettingCache(config, read)]

\* The status; without a host of the battery only the meter is read.
ReadFrom(config, read) ==
  LET newest(f) == Or(Of(read.live, f), Of(read.energy, f))
  IN StatusOf(config, read, newest("battery"), IF config.solar THEN newest("solar") ELSE Absent,
              MergedCells(IF read.energy = Absent THEN <<>> ELSE read.energy.cells, Of(read.live, "cell")),
              MergedMeter(ReadMeterStatus(config, read.meter), Of(read.live, "meter")))

ReadAll(config, read) ==
  ReadFrom(config, IF config.battery THEN read
                   ELSE [read EXCEPT !.energy = Absent, !.live = Absent,
                                     !.settings = Unknown(Setting), !.raw = Unknown(Setting)])
=============================================================================

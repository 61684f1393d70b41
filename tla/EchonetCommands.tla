--------------------------- MODULE EchonetCommands ---------------------------
(* The encodings of ECHONET Lite properties, src/lib/adapters/echonet-codecs.ts: *)
(* what a property's bytes (its EDT) mean, and the bytes a setting is written as. *)
(* A property is a sequence of bytes, or None when the answer holds none.  A      *)
(* decoded value is a number, a name, or None for "no value"; what only labels    *)
(* it (host, unit, text) is left out.  Integers of TLC have 32 bits: unsigned     *)
(* counters are taken below 2^31.                                             *)
(* Then the commands of echonet-commands.ts as functions of what the devices      *)
(* answer.  A read command takes `answer`, the function from the properties of    *)
(* the devices to what a Get of each returns: bytes, None, or Lost when it fails  *)
(* or times out.  A write command takes the sequence of what its Sets are         *)
(* answered.  A result has the metrics and the errors the command reports.        *)
EXTENDS Integers, FiniteSets, SequencesExt

CONSTANTS
  None,        \* null and undefined
  Invalid,     \* the codec, or the command, throws
  Lost,        \* a Get that fails
  FuelCells,   \* the fuel cells that may be configured
  Primary      \* the one configured as primary

-----------------------------------------------------------------------------
(* Numbers.                                                                 *)

BigEndian(raw) == FoldLeft(LAMBDA value, byte : 256 * value + byte, 0, raw)

SignedBigEndian(raw) ==
  BigEndian(<<IF raw[1] >= 128 THEN raw[1] - 256 ELSE raw[1]>> \o Tail(raw))

(* readUIntBE and readIntBE read one to six bytes and throw at other lengths. *)
Number(raw, Read(_)) ==
  IF raw = None THEN None ELSE IF Len(raw) \in 1..6 THEN Read(raw) ELSE Invalid

DecodeUnsigned(raw) == Number(raw, BigEndian)
DecodeSignedW(raw) == Number(raw, SignedBigEndian)

(* A percentage above 100 has an error and no value.                         *)
PercentError(raw) ==
  LET value == Number(raw, BigEndian) IN value \notin {None, Invalid} /\ value > 100

DecodePercent(raw) == IF PercentError(raw) THEN None ELSE Number(raw, BigEndian)

FourBytes(raw) == IF raw = None THEN FALSE ELSE Len(raw) = 4

(* The unit of a counter, as the power of ten of a kWh that one count weighs. *)
CumulativeUnit(raw) ==
  IF raw = None THEN None
  ELSE IF Len(raw) # 1 THEN None
  ELSE CASE raw[1] \in 0..4 -> -raw[1]
         [] raw[1] \in 10..13 -> raw[1] - 9
         [] OTHER -> None

(* An energy is a count with its unit; without the unit it has no value.      *)
DecodeCumulative(raw, unit) ==
  IF FourBytes(raw) /\ unit # None THEN <<BigEndian(raw), unit>> ELSE None

DecodeFuelCellCumulative(raw) == DecodeCumulative(raw, -3)

DecodeHotWaterLevel(raw) ==
  IF raw = None THEN None
  ELSE IF Len(raw) # 1 THEN None
  ELSE IF raw[1] > 5 THEN None ELSE raw[1]

-----------------------------------------------------------------------------
(* Lists of channels: the first channel, a range, then four bytes a channel.  *)

NoPower == <<127, 255, 255, 254>>
NoEnergy == <<255, 255, 255, 254>>

ChannelList(raw) ==
  IF raw = None THEN FALSE ELSE Len(raw) >= 6 /\ (Len(raw) - 2) % 4 = 0

Channels(raw, Decode(_)) ==
  IF ~ChannelList(raw) THEN None
  ELSE [n \in 1..((Len(raw) - 2) \div 4) |->
          [channel |-> IF raw[1] = 253 THEN None ELSE raw[1] + n - 1,
           value   |-> Decode(SubSeq(raw, 4 * n - 1, 4 * n + 2))]]

DecodeInstantPowerList(raw) ==
  Channels(raw, LAMBDA bytes : IF bytes = NoPower THEN None ELSE SignedBigEndian(bytes))

DecodeCumulativePowerList(raw, unit) ==
  Channels(raw, LAMBDA bytes : IF bytes = NoEnergy THEN None ELSE DecodeCumulative(bytes, unit))

(* The demand of the branches: the channels that draw power.                 *)
SumInstantPowerChannels(channels) ==
  IF channels = None THEN None
  ELSE FoldLeft(LAMBDA sum, c : IF c.value = None THEN sum
                                ELSE IF c.value > 0 THEN sum + c.value ELSE sum,
                0, channels)

-----------------------------------------------------------------------------
(* Names.                                                                   *)

ModeOfByte ==
  [b \in 64..72 |-> <<"other", "rapid_charging", "charging", "discharging", "standby",
                      "test", "auto", "restart", "capacity_recalculation">>[b - 63]]

ByteOfMode ==
  [rapid |-> 65, rapid_charging |-> 65, charge |-> 66, charging |-> 66, backup |-> 66,
   discharge |-> 67, discharging |-> 67, standby |-> 68, auto |-> 70, automatic |-> 70]

ByteOfProfile == [osaifu |-> 2, eco |-> 3, backup |-> 32]

FuelCellStatusOfByte ==
  [b \in 64..69 |-> <<"other", "generating", "stopped", "starting", "stopping", "idling">>[b - 63]]

(* The first byte names the value; a byte without a name stands for itself.   *)
DecodeEnum(raw, nameOf) ==
  IF raw = None THEN None
  ELSE IF raw = <<>> THEN None
  ELSE IF raw[1] \in DOMAIN nameOf THEN nameOf[raw[1]] ELSE <<"byte", raw[1]>>

ProfileOfByte ==
  [b \in {ByteOfProfile[p] : p \in DOMAIN ByteOfProfile} |->
     CHOOSE p \in DOMAIN ByteOfProfile : ByteOfProfile[p] = b]

-----------------------------------------------------------------------------
(* Settings: what is written and what a read of it means.                    *)

DecodeVendorProfile(raw) ==
  IF raw = None THEN None
  ELSE IF raw = <<>> THEN None
  ELSE IF raw[1] \in DOMAIN ProfileOfByte THEN ProfileOfByte[raw[1]] ELSE None

EncodeOsaifuWindow(start, end) == <<start, 0, end, 0>>

DecodeOsaifuWindow(raw) ==
  IF raw = None THEN None ELSE IF Len(raw) < 3 THEN None ELSE <<raw[1], raw[3]>>

EncodeDischargeLimit(percent) == <<percent \div 10>>

DecodeDischargeLimit(raw) ==
  IF raw = None THEN None ELSE IF raw = <<>> THEN None ELSE 10 * raw[1]

Uint32(n) == <<n \div 16777216, (n \div 65536) % 256, (n \div 256) % 256, n % 256>>

-----------------------------------------------------------------------------
(* Properties, named by device and meaning.                                 *)

Solar == <<"solar", "power">>
Battery(p) == <<"battery", p>>
Meter(p) == <<"meter", p>>
FuelCell(host, p) == <<host, p>>

BatteryProperties ==
  {"power", "percent", "operation_status", "operation_mode", "working_status", "profile"}
MeterProperties ==
  {"bought", "sold", "unit", "power", "channel_power", "channel_energy"}
CellProperties == {"power", "generation_status"}
PrimaryProperties ==
  CellProperties \cup {"rated", "generation", "gas", "interconnection", "hot_water"}

Properties ==
  {Solar} \cup {Battery(p) : p \in BatteryProperties} \cup {Meter(p) : p \in MeterProperties}
    \cup {FuelCell(h, p) : h \in FuelCells, p \in PrimaryProperties}

(* read: a Get that fails costs its own property and leaves an error.         *)
Read(answer, p) == IF answer[p] = Lost THEN None ELSE answer[p]
Errors(answer, asked) == {p \in asked : answer[p] = Lost}

(* A command answers unless one of its decoders throws.                      *)
Answer(errors, metrics) ==
  IF \E m \in DOMAIN metrics : metrics[m] = Invalid THEN Invalid
  ELSE [errors |-> errors, metrics |-> metrics]

-----------------------------------------------------------------------------
(* Readings.                                                                *)

OnOffOfByte == [b \in 48..49 |-> IF b = 48 THEN "on" ELSE "off"]

DecodeBattery(p, raw) ==
  CASE p = "power" -> DecodeSignedW(raw)
    [] p = "percent" -> DecodePercent(raw)
    [] p = "operation_status" -> DecodeEnum(raw, OnOffOfByte)
    [] p \in {"operation_mode", "working_status"} -> DecodeEnum(raw, ModeOfByte)
    [] p = "profile" -> DecodeEnum(raw, ProfileOfByte)

DecodeFuelCell(p, raw) ==
  CASE p \in {"power", "rated"} -> DecodeUnsigned(raw)
    [] p = "generation_status" -> DecodeEnum(raw, FuelCellStatusOfByte)
    [] p \in {"generation", "gas"} -> DecodeFuelCellCumulative(raw)
    [] p = "interconnection" ->
         DecodeEnum(raw, [b \in 0..2 |-> <<"allowed", "independent", "prohibited">>[b + 1]])
    [] p = "hot_water" -> DecodeHotWaterLevel(raw)

DecodeOwn(p, raw) ==
  CASE p[1] = "battery" -> DecodeBattery(p[2], raw)
    [] p[1] = "solar" -> DecodeUnsigned(raw)
    [] OTHER -> DecodeFuelCell(p[2], raw)

(* cmdEnergyStatus: the solar power, the battery, and each fuel cell, a proxy  *)
(* with fewer properties than the primary.                                  *)
EnergyAsked(solarEnabled, cells) ==
  (IF solarEnabled THEN {Solar} ELSE {})
    \cup {Battery(p) : p \in BatteryProperties}
    \cup UNION {{FuelCell(h, p) : p \in IF h = Primary THEN PrimaryProperties ELSE CellProperties}
                  : h \in cells}

EnergyStatus(answer, solarEnabled, cells) ==
  LET asked == EnergyAsked(solarEnabled, cells)
  IN  Answer(Errors(answer, asked), [p \in asked |-> DecodeOwn(p, Read(answer, p))])

(* The net power of the grid meter, when it has four bytes, split by sign.    *)
NetGrid(raw) == IF FourBytes(raw) THEN SignedBigEndian(raw) ELSE None
Imported(net) == IF net = None THEN None ELSE IF net > 0 THEN net ELSE 0
Exported(net) == IF net = None THEN None ELSE IF net < 0 THEN -net ELSE 0

GridMetrics(power, channels) ==
  [grid_net_power      |-> DecodeSignedW(power),
   grid_import_power   |-> Imported(NetGrid(power)),
   grid_export_power   |-> Exported(NetGrid(power)),
   branch_demand_power |-> SumInstantPowerChannels(DecodeInstantPowerList(channels)),
   channel_power       |-> DecodeInstantPowerList(channels)]

(* cmdLivePower: the readings of one energy balance, next to each other.       *)
LiveAsked(solarEnabled, cellEnabled, meterEnabled) ==
  {Battery("power")} \cup (IF solarEnabled THEN {Solar} ELSE {})
    \cup (IF cellEnabled THEN {FuelCell(Primary, "power")} ELSE {})
    \cup (IF meterEnabled THEN {Meter("power"), Meter("channel_power")} ELSE {})

LivePower(answer, solarEnabled, cellEnabled, meterEnabled) ==
  LET asked == LiveAsked(solarEnabled, cellEnabled, meterEnabled)
      own == asked \ {Meter("power"), Meter("channel_power")}
      grid == IF meterEnabled
              THEN GridMetrics(Read(answer, Meter("power")), Read(answer, Meter("channel_power")))
              ELSE <<>>
  IN  Answer(Errors(answer, asked),
        [m \in own \cup DOMAIN grid |->
           IF m \in own THEN DecodeOwn(m, Read(answer, m)) ELSE grid[m]])

(* cmdMeterStatus: the counters are energies only with the unit of the meter. *)
MeterStatus(answer) ==
  LET raw(p) == Read(answer, Meter(p))
      unit == CumulativeUnit(raw("unit"))
  IN  Answer(Errors(answer, {Meter(p) : p \in MeterProperties}),
        GridMetrics(raw("power"), raw("channel_power")) @@
        [cumulative_bought |-> DecodeCumulative(raw("bought"), unit),
         cumulative_sold   |-> DecodeCumulative(raw("sold"), unit),
         cumulative_unit   |-> unit,
         channel_energy    |-> DecodeCumulativePowerList(raw("channel_energy"), unit)])

(* cmdDumpVendor: of the properties asked for, those the device has; all, when *)
(* its property map cannot be read.  `maps` is <<readable, writable>> or Lost. *)
DumpVendor(answer, requested, maps) ==
  LET readable == IF maps = Lost THEN {} ELSE maps[1]
      writable == IF maps = Lost THEN {} ELSE maps[2]
      epcs == {p \in requested : readable = {} \/ p \in readable \cup writable}
  IN  [p \in epcs |-> [raw |-> Read(answer, p), failed |-> answer[p] = Lost,
                       writable |-> p \in writable]]

(* cmdDumpEoj and cmdStatus: each property by itself, with its own error.      *)
DumpProperties(answer, requested) ==
  [p \in requested |-> [raw |-> Read(answer, p), failed |-> answer[p] = Lost]]

BatteryStatus(answer) == DumpProperties(answer, {Battery(p) : p \in BatteryProperties})

-----------------------------------------------------------------------------
(* Settings.                                                                *)

(* The writes a command makes, in order, or Invalid for arguments it refuses. *)
(* A request is [command, args]; a charge without a target has args <<>>.      *)
InHours(args) == \A i \in DOMAIN args : args[i] \in 0..23

ChargeWrites(command, args) ==
  (IF args = <<>> THEN <<>>
   ELSE <<[property |-> IF command = "discharge" THEN "discharge_target" ELSE "charge_target",
           bytes |-> Uint32(args[1])]>>)
    \o <<[property |-> "operation_mode", bytes |-> <<ByteOfMode[command]>>]>>

Writes(command, args) ==
  CASE command \in {"charge", "discharge"} ->
         IF args # <<>> /\ ~(args[1] \in 0..999999999) THEN Invalid ELSE ChargeWrites(command, args)
    [] command = "set-mode" ->
         IF args[1] \notin DOMAIN ByteOfMode THEN Invalid
         ELSE <<[property |-> "operation_mode", bytes |-> <<ByteOfMode[args[1]]>>]>>
    [] command = "vendor-profile" ->
         IF args[1] \notin DOMAIN ByteOfProfile THEN Invalid
         ELSE <<[property |-> "profile", bytes |-> <<ByteOfProfile[args[1]]>>]>>
    [] command \in {"osaifu-charge-window", "osaifu-discharge-window"} ->
         IF ~InHours(args) THEN Invalid
         ELSE <<[property |-> command, bytes |-> EncodeOsaifuWindow(args[1], args[2])]>>
    [] command = "discharge-limit" ->
         IF ~(args[1] \in 0..100 /\ args[1] % 10 = 0) THEN Invalid
         ELSE <<[property |-> "discharge-limit", bytes |-> EncodeDischargeLimit(args[1])]>>

(* The Sets go out one after another and the first that is not answered with   *)
(* Set_Res ends the command: the number sent, and the outcome.               *)
Accepted(answers) ==
  IF \A i \in DOMAIN answers : answers[i] = "Set_Res" THEN Len(answers)
  ELSE (CHOOSE i \in DOMAIN answers :
          answers[i] # "Set_Res" /\ \A j \in 1..(i - 1) : answers[j] = "Set_Res") - 1

SetOutcome(answers) ==
  IF Accepted(answers) = Len(answers) THEN "acknowledged"
  ELSE IF answers[Accepted(answers) + 1] = Lost THEN "timed-out" ELSE "failed"

(* What a read of a setting returns to its caller, decoded.                  *)
ReadSetting(command, raw) ==
  CASE command \in {"charge", "discharge", "set-mode"} -> DecodeEnum(raw, ModeOfByte)
    [] command = "vendor-profile" -> DecodeVendorProfile(raw)
    [] command \in {"osaifu-charge-window", "osaifu-discharge-window"} -> DecodeOsaifuWindow(raw)
    [] command = "discharge-limit" -> DecodeDischargeLimit(raw)
=============================================================================

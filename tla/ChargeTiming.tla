----------------------------- MODULE ChargeTiming -----------------------------
(* How long a charge takes: the charge-power curve of the battery               *)
(* (src/lib/domain/battery-learning.ts) and what Charging Demand Guard has left  *)
(* of earlier windows (src/lib/domain/guard-deliverability.ts).  A curve is a    *)
(* sequence of bands of SOC up to 100 %, each with its power and whether that   *)
(* power is learned.                                                          *)
EXTENDS ChargeSlots

MinutesOf(n) == (n * Hour) \div 60

\* estimateChargeDurationMs: each band takes what fits below its end, and what
\* is left at 100 % is taken at the power of the last band.
DurationFor(wh, soc, perPoint, curve) ==
  LET pass(acc, b) ==
        LET used == Least(acc.left, (b.max - acc.soc) * perPoint)
        IN IF acc.soc >= b.max THEN acc
           ELSE [soc |-> b.max, left |-> acc.left - used,
                 time |-> acc.time + (used * Hour) \div Most(1, b.watts)]
      all == FoldLeft(pass, [soc |-> soc, left |-> Most(0, wh), time |-> 0], curve)
  IN all.time + (all.left * Hour) \div Most(1, Last(curve).watts)

\* estimateDeliverableChargeWh: the same in the time there is, ending at 100 %.
DeliverableIn(time, soc, perPoint, curve) ==
  LET pass(acc, b) ==
        LET room == (b.max - acc.soc) * perPoint
            fits == Least(room, Energy(Most(1, b.watts), acc.left))
            used == IF fits = room THEN (room * Hour) \div Most(1, b.watts) ELSE acc.left
        IN IF acc.soc >= b.max \/ acc.left = 0 THEN acc
           ELSE [soc |-> b.max, left |-> Most(0, acc.left - used), wh |-> acc.wh + fits]
  IN IF soc >= 100 THEN Energy(Most(1, Last(curve).watts), Most(0, time))
     ELSE FoldLeft(pass, [soc |-> soc, left |-> Most(0, time), wh |-> 0], curve).wh

\* A charge that enters a band above 80 % whose power is not learned takes the
\* whole window; any other takes the time of the curve and a reserve.
UnvalidatedTaper(required, soc, perPoint, curve) ==
  \E i \in DOMAIN curve :
    /\ curve[i].min >= 80 /\ ~curve[i].learned
    /\ soc < curve[i].max /\ soc * perPoint + required > curve[i].min * perPoint

Modeled(modeled, taper, physical, required, watts, window) ==
  LET reserve == Clamp(modeled \div 10, MinutesOf(5), MinutesOf(15))
      scheduled == Least(window, IF taper THEN window ELSE modeled + reserve)
      even == (Least(required, physical) * Hour) \div scheduled
  IN [modeled |-> modeled, taper |-> taper, physical |-> physical, scheduled |-> scheduled,
      watts |-> IF scheduled <= 0 THEN watts ELSE IF even = 0 THEN watts ELSE Least(watts, even),
      constrained |-> Most(0, required - physical)]

CurveTiming(required, soc, perPoint, curve, watts, window) ==
  Modeled(DurationFor(required, soc, perPoint, curve), UnvalidatedTaper(required, soc, perPoint, curve),
          DeliverableIn(window, soc, perPoint, curve), required, watts, window)

ConfiguredTiming(required, watts, window) ==
  LET time == (required * Hour) \div watts
  IN [modeled |-> time, taper |-> FALSE, physical |-> Energy(watts, window), scheduled |-> time,
      watts |-> watts, constrained |-> 0]

-----------------------------------------------------------------------------
(* The deliverability of a window: of the windows with the same label and local  *)
(* hours (its signature), the share the guard let through.                    *)
Signature(label, start, end) ==
  IF end <= start THEN Absent ELSE <<label, start % (24 * Hour), end % (24 * Hour), end - start>>

Comparable(outcomes, window) ==
  LET like == SelectSeq(outcomes, LAMBDA o : /\ window.signature # Absent
                                             /\ o.signature = window.signature
                                             /\ o.planned >= 100 /\ o.solarStops <= 0)
  IN Leading(SortSeq(like, LAMBDA a, b : a.completed > b.completed), 12)

DeliveryRatio(o) ==
  IF o.socReached \/ o.interruptions <= 0 THEN 100
  ELSE Clamp(Share(Most(0, o.delivered) + Most(0, o.estimated), o.planned), 0, 100)

GuardDeliverability(outcomes, window) ==
  LET matching == Comparable(outcomes, window)
      interrupted == SelectSeq(matching, LAMBDA o : o.interruptions > 0)
      learned == /\ Len(matching) >= 4 /\ Len(interrupted) >= 2
                 /\ Cardinality({matching[i].day : i \in DOMAIN matching}) >= 2
      observed == Or(Percentile(Each(matching, DeliveryRatio), 20), 100)
      reserve == Or(Percentile(Each(interrupted, LAMBDA o : Most(0, o.interruptedFor)), 80), 0)
      recovery == Clamp(100 - Share(reserve, Most(1, window.end - window.start)), 50, 100)
  IN [learned |-> learned,
      factor |-> IF learned THEN Most(50, Least(observed, recovery)) ELSE 100,
      reserve |-> IF learned THEN reserve ELSE 0]

\* applyGuardDeliverabilityToTiming
WithGuard(timing, guard, required, window) ==
  LET watts == Most(1, (timing.watts * guard.factor) \div 100)
      able == Least(timing.physical, Energy(watts, window))
  IN [timing EXCEPT
        !.watts = watts, !.physical = able, !.constrained = Most(0, required - able),
        !.scheduled = IF required > 0 THEN Least(window, (required * Hour) \div watts) ELSE 0]
=============================================================================

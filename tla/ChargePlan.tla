------------------------------ MODULE ChargePlan ------------------------------
(* The plan of discounted charging: src/lib/domain/chronological-charging.ts,    *)
(* adaptive-timeline.ts and adaptive-plan-utils.ts.  A timeline is a sequence of  *)
(* steps, each with its net energy (generation less demand) in the low and the   *)
(* high scenario and the discounted band it lies in, if any.  What the planner    *)
(* is given is one record p: the timeline, the stored energy, the capacity, the  *)
(* floor and the cap of the battery, its power, the ratio of stored to charged    *)
(* energy, the price its energy displaces, and the history of the guard.         *)
EXTENDS ChargeTiming

-----------------------------------------------------------------------------
(* Windows: neighbouring steps of one occurrence of a band.                   *)

Key(s) == <<s.occurrence, s.band>>

Windows(timeline) ==
  LET ends(s) == IF s.occurrence = Absent THEN <<s.start, s.end>> ELSE s.occurrence
      add(all, i) ==
        LET s == timeline[i]
        IN IF s.band = Absent THEN all
           ELSE IF (IF all = <<>> THEN FALSE ELSE Last(all).key = Key(s) /\ Last(all).end = s.start)
             THEN [all EXCEPT ![Len(all)].last = i, ![Len(all)].end = s.end,
                              ![Len(all)].configured[2] = IF s.occurrence = Absent THEN s.end ELSE @]
             ELSE Append(all, [key |-> Key(s), first |-> i, last |-> i, start |-> s.start, end |-> s.end,
                               configured |-> ends(s), yen |-> s.band.yen, label |-> s.band.label])
  IN Folded(add, <<>>, [i \in DOMAIN timeline |-> i])

Indices(from, to) == [n \in 1..Most(0, to - from + 1) |-> from + n - 1]
Duration(s) == Most(0, s.end - s.start)

\* discountedWindowSolarOpportunity: a window with sun to wait for.
SolarResponsive(timeline, w) ==
  LET steps == SubSeq(timeline, w.first, w.last)
      surplus == Each(steps, LAMBDA s : Most(0, s.net))
  IN /\ Total(Each(steps, LAMBDA s : Most(0, s.solar))) >= 100
     /\ Total(surplus) >= 50
     /\ \E i \in DOMAIN steps : Duration(steps[i]) > 0 /\ surplus[i] * Hour >= 200 * Duration(steps[i])

-----------------------------------------------------------------------------
(* The battery over a step.                                                  *)

Stored(wh, p) == (wh * p.ratio) \div 100

\* applyPredictedBatteryFlow: a raised floor adds no energy.
Flow(stored, net, limit, p) ==
  LET change == IF net > 0 THEN Stored(Least(net, limit), p) ELSE net
  IN Most(Least(stored, p.floor), Least(p.capacity, stored + change))

\* applyAdaptiveChargingTimelineSlot: the share of a step that charges from the
\* grid is not there for the battery's own flow.
After(stored, net, time, room, charge, p) ==
  LET own(x) == IF room > 0 THEN (x * Most(0, room - charge)) \div room ELSE x
  IN Least(p.capacity, Flow(stored, own(net), own(Energy(p.watts, time)), p) + Stored(charge, p))

Outside(stored, from, to, p) ==
  Folded(LAMBDA e, i : After(e, p.timeline[i].net, Duration(p.timeline[i]), 0, 0, p),
           stored, Indices(from, to))

\* simulateWindow: a window without sun, and the hold of standby, keep the battery
\* still; once charging has begun the grid serves the demand.
Held(t, p) == IF p.standbyEnd = Absent THEN FALSE ELSE t < p.standbyEnd

NetInWindow(s, charging, responsive, p) ==
  IF Held(s.start, p) THEN 0 ELSE IF charging THEN Most(0, s.net) ELSE IF responsive THEN s.net ELSE 0

InWindow(acc, s, watts, charge, p) ==
  [acc EXCEPT !.stored = After(@, NetInWindow(s, acc.charging, acc.responsive, p), Duration(s),
                               Energy(watts, Duration(s)), charge, p),
              !.charging = @ \/ charge > 0]

WindowEnd(stored, w, watts, charge, p) ==
  Folded(LAMBDA acc, i : InWindow(acc, p.timeline[i], watts, charge[i], p),
           [stored |-> stored, charging |-> FALSE, responsive |-> SolarResponsive(p.timeline, w)],
           Indices(w.first, w.last)).stored

Idle(w) == [i \in w.first..w.last |-> 0]

\* cumulativeRangeNeeds: the deepest deficit of the low scenario and the highest
\* surplus of the high one until the next window.
RangeNeeds(from, to, p) ==
  LET gain(net, s) == IF net > 0 THEN Stored(Least(net, Energy(p.watts, Duration(s))), p) ELSE net
      at(acc, low, high) ==
        [low |-> low, high |-> high, deficit |-> Most(acc.deficit, -low), surplus |-> Most(acc.surplus, high)]
      step(acc, i) ==
        LET s == p.timeline[i] IN at(acc, acc.low + gain(s.net, s), acc.high + gain(s.highNet, s))
  IN Folded(step, [low |-> 0, high |-> 0, deficit |-> 0, surplus |-> 0], Indices(from, to))

-----------------------------------------------------------------------------
(* One window.                                                               *)

Maximum(p) == (p.capacity * p.targetPercent) \div 100

\* What the battery should hold at the end of window n: all but the room the high
\* scenario fills, never less than the low one needs; only the bridge when a
\* cheaper window comes first, and what an earlier plan asked for in addition.
Targets(windows, n, idle, boost, needs, p) ==
  LET w == windows[n]
      next == n < Len(windows)
      headroom == Least(Most(0, Maximum(p) - p.floor), needs.surplus)
      bridge == p.floor + needs.deficit
      highest == Max({p.floor, Maximum(p) - headroom, Least(Maximum(p), bridge)})
      cheaper == IF next THEN windows[n + 1].yen < w.yen ELSE FALSE
      base == IF cheaper THEN Least(highest, bridge) ELSE highest
      economic == IF p.displaced = Absent THEN TRUE ELSE 100 * w.yen < p.displaced * p.efficiency
  IN [highest |-> highest, economic |-> economic, cheaper |-> cheaper,
      target |-> IF economic THEN Least(highest, base + Most(0, boost)) ELSE idle]

Timing(w, stored, required, p) ==
  LET window == w.end - w.start
      identity == [start |-> w.configured[1], end |-> w.configured[2],
                   signature |-> Signature(w.label, w.configured[1], w.configured[2])]
  IN WithGuard(IF p.curve = <<>> \/ p.perPoint = Absent
               THEN ConfiguredTiming(required, p.watts, window)
               ELSE CurveTiming(required, Share(stored, p.capacity), p.perPoint, p.curve, p.watts, window),
               GuardDeliverability(p.outcomes, identity), required, window)

With(charge, stored, w, watts, p) == [charge |-> charge, end |-> WindowEnd(stored, w, watts, charge, p)]

\* The latest steps charge first, whole while the target is out of reach and then
\* as little as reaches it; a step that adds nothing is left out.
Allocate(stored, w, watts, target, idle, p) ==
  LET fill(acc, i) ==
        LET room == Energy(watts, Duration(p.timeline[i]))
            trial(wh) == With([acc.charge EXCEPT ![i] = wh], stored, w, watts, p)
            halve[low \in 0..room, high \in 0..room] ==
              LET c == (low + high) \div 2
              IN IF high - low <= 1 THEN high
                 ELSE IF trial(c).end >= target THEN halve[low, c] ELSE halve[c, high]
            take(whole) == IF whole.end <= acc.end THEN acc
                           ELSE IF whole.end < target THEN whole ELSE trial(halve[0, room])
        IN IF acc.end >= target \/ room = 0 THEN acc ELSE take(trial(room))
  IN Folded(fill, [charge |-> Idle(w), end |-> idle], Reverse(Indices(w.first, w.last)))

SlotOf(w, i, wh, watts, target, p) ==
  LET s == p.timeline[i]
  IN [id |-> <<w.configured, s.end>>, start |-> StartFor(wh, watts, s.end), end |-> s.end,
      rate |-> w.yen, label |-> w.label, targetWh |-> Most(1, wh), watts |-> watts,
      soc |-> (1000 * target) \div p.capacity,
      windowStart |-> w.configured[1], windowEnd |-> w.configured[2]]

\* The plan of a window, from its targets, the time it takes and what its steps charge.
WindowPlan(w, t, timing, allocated, p) ==
  LET charge == allocated.charge
      charged == SelectSeq(Indices(w.first, w.last), LAMBDA i : charge[i] > 0)
      unmet == Most(0, t.target - allocated.end)
  IN [end |-> allocated.end, yen |-> w.yen, target |-> t.target, highest |-> t.highest, economic |-> t.economic,
      cheaper |-> t.cheaper, watts |-> timing.watts, constrained |-> timing.constrained,
      planned |-> Total(Each(charged, LAMBDA i : charge[i])),
      unmetStored |-> unmet, unmet |-> (100 * unmet) \div p.ratio,
      slots |-> Each(charged, LAMBDA i : SlotOf(w, i, charge[i], timing.watts, t.target, p))]

Allocated(w, stored, idle, t, timing, p) ==
  WindowPlan(w, t, timing, Allocate(stored, w, timing.watts, t.target, idle, p), p)

Timed(w, stored, idle, t, p) ==
  Allocated(w, stored, idle, t, Timing(w, stored, (100 * Most(0, t.target - idle)) \div p.ratio, p), p)

NeedsAfter(windows, n, p) ==
  RangeNeeds(windows[n].last + 1, IF n < Len(windows) THEN windows[n + 1].first - 1 ELSE Len(p.timeline), p)

PlanFrom(windows, n, stored, idle, boost, p) ==
  Timed(windows[n], stored, idle, Targets(windows, n, idle, boost, NeedsAfter(windows, n, p), p), p)

PlanWindow(windows, n, stored, boost, p) ==
  PlanFrom(windows, n, stored, WindowEnd(stored, windows[n], p.watts, Idle(windows[n]), p), boost, p)

-----------------------------------------------------------------------------
(* The plan.                                                                 *)

\* mergeAdaptiveChargingSlots: slots of one window that touch become one.
MergeSlots(slots) ==
  LET joins(a, b) == /\ a.rate = b.rate /\ a.label = b.label /\ a.soc = b.soc /\ a.end = b.start
                     /\ a.windowStart = b.windowStart /\ a.windowEnd = b.windowEnd
      add(all, s) ==
        LET n == Len(all)
        IN IF (IF n = 0 THEN FALSE ELSE joins(all[n], s))
           THEN [all EXCEPT ![n].end = s.end, ![n].targetWh = @ + s.targetWh, ![n].id = s.id]
           ELSE Append(all, [continuous |-> TRUE] @@ s)
  IN Folded(add, <<>>, SortSeq(slots, LAMBDA a, b : a.start < b.start))

\* buildPlan: the windows in order of time, the battery left to itself between them.
PlanNext(acc, w, plan) == [stored |-> plan.end, next |-> w.last + 1, windows |-> Append(acc.windows, plan)]

PlannedSlots(windows) == Folded(LAMBDA s, w : s \o w.slots, <<>>, windows)

PlanOf(all, p) ==
  LET planned == Total(Each(PlannedSlots(all.windows), LAMBDA s : s.targetWh))
      unmet == Total(Each(all.windows, LAMBDA w : w.unmet))
  IN [slots |-> MergeSlots(PlannedSlots(all.windows)), windows |-> all.windows, planned |-> planned,
      unmet |-> unmet, stored |-> Stored(planned, p), required |-> planned + unmet,
      end |-> Outside(all.stored, all.next, Len(p.timeline), p)]

PlanAll(windows, boosts, p) ==
  PlanOf(Folded(LAMBDA acc, n : PlanNext(acc, windows[n],
                    PlanWindow(windows, n, Outside(acc.stored, acc.next, windows[n].first - 1, p), boosts[n], p)),
                  [stored |-> Clamp(p.stored, 0, p.capacity), next |-> 1, windows |-> <<>>],
                  Indices(1, Len(windows))), p)

BuildPlan(boosts, p) == PlanAll(Windows(p.timeline), boosts, p)

\* What a window cannot give an earlier one may: the first window short of its
\* target raises the target of the cheapest, then latest, economic one before it
\* with room, and the new plan counts when less is missing.
Backfill(plan, boosts, p) ==
  LET short == SelectInSubSeq(plan.windows, 2, Len(plan.windows), LAMBDA w : w.unmetStored > 0)
      room(n) == plan.windows[n].highest - plan.windows[n].target
      earlier == {n \in 1..(short - 1) : plan.windows[n].economic /\ room(n) > 0}
      cheapest == Listed(earlier, LAMBDA a, b :
                    \/ plan.windows[a].yen < plan.windows[b].yen
                    \/ (plan.windows[a].yen = plan.windows[b].yen /\ a > b))
      boosted(n) == IF n = Absent THEN Absent
                    ELSE [boosts EXCEPT ![n] = @ + Least(plan.windows[short].unmetStored, room(n))]
  IN IF short = 0 THEN Absent
     ELSE boosted(First(cheapest, LAMBDA n : BuildPlan(boosted(n), p).unmet < plan.unmet))

\* planChronologicalDiscountedCharging: at most so many improvements.
Considered(plan, boosts, p) == [plan |-> plan, better |-> Backfill(plan, boosts, p)]

PlanCharging(p) ==
  LET n == Len(Windows(p.timeline))
  IN Folded(LAMBDA acc, i : IF acc.better = Absent THEN acc
                              ELSE Considered(BuildPlan(acc.better, p), acc.better, p),
              [plan |-> Absent, better |-> [w \in 1..n |-> 0]],
              Indices(0, Most(1, 4 * n * n))).plan

\* discountedPlanStatus: a plan without any energy is no plan when some is needed.
PlanAvailable(plan) == plan.unmet = 0 \/ plan.planned > 0

-----------------------------------------------------------------------------
(* buildAdaptiveChargingTimelineView: the timeline cut at the ends of the slots,   *)
(* each piece with the charge planned in it and the energy stored after it.      *)
Pieces(step, slots) ==
  LET met == SelectSeq(slots, LAMBDA s : s.start < step.end /\ s.end > step.start)
      charge(from, to) ==
        Total(Each(met, LAMBDA s :
          (s.targetWh * Most(0, Least(to, s.end) - Most(from, s.start))) \div (s.end - s.start)))
      between(cuts) == [k \in 1..(Len(cuts) - 1) |->
        [start |-> cuts[k], end |-> cuts[k + 1], charge |-> charge(cuts[k], cuts[k + 1])]]
  IN between(Ascending({step.start, step.end}
               \cup {Most(step.start, s.start) : s \in Range(met)} \cup {Least(step.end, s.end) : s \in Range(met)}))

\* What flows in a piece c of step i by itself, and what it leaves.
PieceNet(s, share, c, charging, still, p) ==
  IF Held(c.start, p) THEN 0
  ELSE IF charging THEN Most(0, share)
  ELSE IF s.band # Absent /\ still THEN 0 ELSE share

Piece(acc, c, end) ==
  [stored |-> end,
   view |-> Append(acc.view, [start |-> c.start, end |-> c.end, charge |-> c.charge,
                              from |-> acc.stored, stored |-> end])]

ViewPiece(acc, c, s, still, slots, p) ==
  LET share(x) == (x * (c.end - c.start)) \div Duration(s)
      charging == \E x \in Range(slots) : x.continuous /\ c.start >= x.start /\ c.start < x.windowEnd
  IN Piece(acc, c, After(acc.stored, PieceNet(s, share(s.net), c, charging, still, p), c.end - c.start,
                         IF s.band = Absent THEN 0 ELSE share(Energy(p.watts, Duration(s))), c.charge, p))

\* A step of a window without sun keeps the battery still.
Still(i, windows, timeline) ==
  ~\E w \in Range(windows) : i \in w.first..w.last /\ SolarResponsive(timeline, w)

ViewStep(acc, i, windows, slots, p) ==
  Folded(LAMBDA a, c : ViewPiece(a, c, p.timeline[i], Still(i, windows, p.timeline), slots, p),
           acc, Pieces(p.timeline[i], slots))

ViewOf(windows, slots, p) ==
  Folded(LAMBDA acc, i : ViewStep(acc, i, windows, slots, p),
           [stored |-> Clamp(p.stored, 0, p.capacity), view |-> <<>>],
           SelectSeq(Indices(1, Len(p.timeline)), LAMBDA i : Duration(p.timeline[i]) > 0)).view

TimelineView(plan, p) ==
  ViewOf(Windows(p.timeline), SelectSeq(plan.slots, LAMBDA s : s.end > s.start), p)

-----------------------------------------------------------------------------
(* adaptiveChargingBreakerSettings: the lowest limit of the guards that are on,   *)
(* or of all when none is; without a positive one charging is not allowed.       *)
BreakerLimit(guards) ==
  LET on == {g \in guards : g.enabled}
      limits == {(g.amps - g.reserve) * g.voltage : g \in IF on # {} THEN on ELSE guards}
      positive == {w \in limits : w > 0}
  IN IF positive = {} THEN Absent ELSE Min(positive)

\* planningHorizon
Horizon(now, lastForecast, sunsetEnd, lookAhead) ==
  LET desired == Most(now + lookAhead, sunsetEnd)
  IN IF lastForecast = Absent THEN [end |-> desired, truncated |-> FALSE]
     ELSE [end |-> Least(desired, lastForecast), truncated |-> desired > lastForecast]

\* latestFiniteSocPercent: a last sample without a state of charge counts for nothing.
LatestSoc(socs) == LET known == SelectSeq(socs, LAMBDA s : s # Absent)
                   IN IF known = <<>> THEN Absent ELSE Last(known)
=============================================================================

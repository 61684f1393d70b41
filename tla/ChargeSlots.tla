----------------------------- MODULE ChargeSlots -----------------------------
(* The slots of a charging plan and what is done to them: src/lib/domain/       *)
(* adaptive-control/scheduling.ts, breaker.ts (the reason to stop), objective.ts *)
(* and solar.ts, and src/lib/domain/adaptive-charge-slots.ts.  Energy is in Wh,  *)
(* power in W, time in units of which Hour make an hour (milliseconds there).   *)
EXTENDS Numbers

MinimumWh == 50     \* ADAPTIVE_CHARGING_MIN_EXECUTABLE_CHARGE_WH
ToleranceWh == 50   \* a plan whose target moved by no more goes on

\* The start of a charge of wh that ends at e.
StartFor(wh, w, e) == (e * w - wh * Hour) \div w

-----------------------------------------------------------------------------
SlotAt(slots, now) == First(slots, LAMBDA s : s.start <= now /\ now < s.end)

\* No more than the charger delivers until the slot ends, started late enough to
\* end with it; nothing below the minimum.
CapToRemaining(slot, watts, now) ==
  LET w == Or(slot.watts, watts)
      target == Least(Most(0, slot.targetWh), Most(0, Energy(w, slot.end - now)))
  IN IF slot.end <= now \/ w <= 0 \/ target < MinimumWh THEN Absent
     ELSE [slot EXCEPT !.start = Most(now, StartFor(target, w, slot.end)), !.targetWh = target]

Identity(slot) == <<slot.windowStart, Or(slot.windowEnd, slot.end), slot.end, slot.rate, slot.label>>

Match(a, b) == IF a.id # Absent /\ b.id # Absent THEN a.id = b.id ELSE Identity(a) = Identity(b)

\* The slots that are done leave the plan and take their energy off its totals;
\* stored energy is counted in hundredths, by the ratio in percent.
ConsumeCompleted(plan, done) ==
  LET removed == Total([i \in DOMAIN plan.slots |->
                    IF Match(plan.slots[i], done) THEN Most(0, plan.slots[i].targetWh) ELSE 0])
      less(x, y) == Most(0, x - y)
      stored == removed * Least(150, Most(50, plan.ratio))
  IN IF removed = 0 THEN plan
     ELSE [plan EXCEPT
            !.slots = SelectSeq(@, LAMBDA s : ~Match(s, done)),
            !.planned = less(@, removed), !.stored = less(@, stored), !.required = less(@, removed),
            !.windows = [i \in DOMAIN @ |->
                           IF @[i].end # Or(done.windowEnd, done.end) THEN @[i]
                           ELSE [@[i] EXCEPT !.planned = less(@, removed),
                                             !.stored = less(@, stored),
                                             !.requested = less(@, removed)]]]

-----------------------------------------------------------------------------
(* A charge the guard interrupted: what is left of it stays in the plan, and a   *)
(* later plan may not ask for more.                                          *)
Interruption(slot, delivered) ==
  LET done == Most(0, Least(slot.targetWh, delivered))
      rest == Most(0, slot.targetWh - done)
  IN IF slot.targetWh <= 0 \/ rest = 0 THEN Absent
     ELSE [slotId |-> slot.id, slotEnd |-> slot.end, remaining |-> rest, delivered |-> done]

PreserveInterrupted(slots, slot, delivered) ==
  IF slot.targetWh <= 0 THEN slots
  ELSE LET kept == Interruption(slot, delivered)
           rest(s) == IF ~Match(s, slot) THEN <<s>>
                      ELSE IF kept = Absent THEN <<>> ELSE <<[s EXCEPT !.targetWh = kept.remaining]>>
       IN FoldLeft(LAMBDA all, s : all \o rest(s), <<>>, slots)

SameSlot(interruption, s) ==
  IF interruption.slotId # Absent /\ s.id # Absent THEN interruption.slotId = s.id
                                                   ELSE s.end = interruption.slotEnd

Capped(s, remaining, watts) ==
  LET w == Or(s.watts, watts)
      target == Least(Most(0, s.targetWh), remaining)
      begin == IF w > 0 THEN StartFor(target, w, s.end) ELSE s.start
  IN [s EXCEPT !.start = Most(@, begin), !.targetWh = target]

ApplyInterruption(slots, interruption, watts, now) ==
  LET same(s) == SameSlot(interruption, s)
  IN IF interruption.slotEnd <= now \/ First(slots, same) = Absent
       THEN [slots |-> slots, interruption |-> Absent]
       ELSE [slots |-> SelectSeq([i \in DOMAIN slots |->
                          IF same(slots[i]) THEN Capped(slots[i], interruption.remaining, watts) ELSE slots[i]],
                          LAMBDA s : ~same(s) \/ s.targetWh > 0),
             interruption |-> interruption]

-----------------------------------------------------------------------------
(* What a new plan does to the active charge.                                *)

SameWindow(a, b) ==
  a.windowStart = b.windowStart /\ a.windowEnd = b.windowEnd /\ a.rate = b.rate /\ a.label = b.label

Successor(active, plan, now) == First(plan.slots, LAMBDA s : SameWindow(s, active) /\ s.end > now)

\* activeAdaptiveChargingSlotStopReason; targets of SOC are in tenths of a percent.
StopReason(state, plan, discounted, usual, now) ==
  LET active == state.slot
      next == IF active.continuous THEN Successor(active, plan, now) ELSE SlotAt(plan.slots, now)
      rest == Most(0, active.targetWh - state.charged)
      moved == next.targetWh - rest
  IN CASE ~discounted -> "rate"
       [] next = Absent -> "period"
       [] OTHER ->
            CASE state.planOf # plan.created /\ (moved > ToleranceWh \/ -moved > ToleranceWh) -> "target"
              [] Or(next.soc, usual) < Or(active.soc, usual) - 1 -> "soc"
              [] next.end < active.end -> "shortened"
              [] OTHER -> Absent

\* updateActiveAdaptiveChargingObjective: a continuous charge takes over the slot of
\* the new plan, and the battery gets the new total unless it has reached its SOC.
UpdateObjective(state, plan, now, soc) ==
  LET active == state.slot
      changed == state.planOf # plan.created
      next == Successor(active, plan, now)
      target == IF changed THEN Most(0, state.charged) + next.targetWh ELSE active.targetWh
      sends == ~(soc # Absent /\ soc >= next.soc) /\ target # state.device
  IN IF \/ now >= active.end \/ (~changed /\ state.device # Absent)
        \/ next = Absent \/ ~active.continuous
     THEN [state |-> state, sent |-> Absent]
     ELSE IF next.targetWh <= 0 \/ target <= 0 THEN [state |-> state, sent |-> Absent]
     ELSE [state |-> [state EXCEPT
                        !.slot = [next EXCEPT !.start = active.start, !.targetWh = target, !.continuous = TRUE],
                        !.planOf = plan.created,
                        !.device = IF sends THEN target ELSE @],
           sent |-> IF sends THEN target ELSE Absent]

-----------------------------------------------------------------------------
(* optimizeDiscountedChargeSlots: the steps with a discounted rate, cheapest and  *)
(* then latest first, are filled until the energy is there; each charge ends     *)
(* with its step.  rate[t] is the discounted rate of the step at t, or Absent.   *)
Candidates(rate, step, end, watts) ==
  LET steps == {t \in DOMAIN rate : rate[t] # Absent /\ t < end}
      before(a, b) == rate[a] < rate[b] \/ (rate[a] = rate[b] /\ a > b)
  IN [i \in DOMAIN SetToSortSeq(steps, before) |->
        LET t == SetToSortSeq(steps, before)[i]
        IN [start |-> t, end |-> Least(t + step, end), rate |-> rate[t],
            capacity |-> Energy(watts, Least(t + step, end) - t)]]

OptimizeSlots(rate, step, end, watts, required) ==
  LET take(acc, c) ==
        LET wh == Least(c.capacity, acc.left)
        IN IF acc.left <= 0 THEN acc
           ELSE [slots |-> Append(acc.slots, [start |-> StartFor(wh, watts, c.end), end |-> c.end,
                                              rate |-> c.rate, targetWh |-> Most(1, wh)]),
                 left |-> acc.left - wh]
      all == FoldLeft(take, [slots |-> <<>>, left |-> Most(0, required)], Candidates(rate, step, end, watts))
  IN [slots |-> SortSeq(all.slots, LAMBDA a, b : a.start < b.start),
      planned |-> Most(0, required) - all.left, unmet |-> all.left]

-----------------------------------------------------------------------------
(* adaptiveChargingWindowSolarOpportunity and discountedWindowSolarOpportunity:   *)
(* enough sun and enough surplus in a window to plan around, sums in W x time.   *)
Overlap(i, window) == Most(0, Least(window.end, i.end) - Most(window.start, i.start))

SolarOpportunity(timeline, window, fuelCellActive) ==
  LET seen == SelectSeq(timeline, LAMBDA i : Overlap(i, window) > 0)
      surplus(i) == Most(0, Most(0, i.solar) + (IF fuelCellActive THEN Most(0, i.fuelCell) ELSE 0)
                            - Most(0, i.demand))
      sum(f(_)) == Total([n \in DOMAIN seen |-> f(seen[n]) * Overlap(seen[n], window)])
  IN /\ window.start < window.end
     /\ sum(LAMBDA i : Most(0, i.solar)) >= 100 * Hour
     /\ sum(surplus) >= 50 * Hour
     /\ \E n \in DOMAIN seen : surplus(seen[n]) >= 200
=============================================================================

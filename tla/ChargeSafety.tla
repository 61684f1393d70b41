----------------------------- MODULE ChargeSafety -----------------------------
(* When a charge may begin, go on and begin again, and when a new plan is due:    *)
(* src/lib/domain/adaptive-control/breaker.ts, solar.ts and planning.ts,         *)
(* adaptive-availability.ts and the demand guard of automation-rules.ts.  A         *)
(* guard rule has its limits and the reading it watches; power is in W.          *)
EXTENDS ChargePlan

SafetyMargin == 200
SafeChecks == 3
ExportThreshold == 50

-----------------------------------------------------------------------------
(* Headroom under the breaker.                                               *)

Headroom(import, watts, guards) ==
  LET limit == BreakerLimit(guards)
  IN IF Absent \in {limit, import, watts} THEN FALSE ELSE import <= limit - watts - SafetyMargin

ImportSafe(import, guards) ==
  LET limit == BreakerLimit(guards)
  IN IF Absent \in {limit, import} THEN FALSE ELSE import < limit

\* A charge the guard stopped waits three minutes and for three checks in a row;
\* checks at one time are one check.
BeginRecovery(now) == [until |-> now + MinutesOf(3), safe |-> 0, checkedAt |-> Absent]

AdvanceRecoveryForgiving(recovery, available, now) ==
  IF recovery = Absent \/ recovery.checkedAt = now THEN recovery
  ELSE [recovery EXCEPT !.safe = IF available THEN @ + 1 ELSE @, !.checkedAt = now]

AdvanceRecovery(recovery, available, now) ==
  IF recovery = Absent \/ recovery.checkedAt = now THEN recovery
  ELSE [recovery EXCEPT !.safe = IF available THEN @ + 1 ELSE 0, !.checkedAt = now]

RecoveryReady(recovery, now) ==
  IF recovery = Absent THEN FALSE ELSE now >= recovery.until /\ recovery.safe >= SafeChecks

MayRestart(recovery, available, now) == recovery = Absent \/ (available /\ RecoveryReady(recovery, now))

\* shouldHoldGuardStandbyForAdaptiveCharging
HoldsStandby(interruption, recovery, now) ==
  IF interruption = Absent THEN FALSE ELSE interruption.slotEnd > now /\ ~RecoveryReady(recovery, now)

\* chargingStartGuard: what a charge would make of the demand stays under the limit
\* of every guard that is on; a limit, power or reading that is missing refuses.
RuleLimit(g) == Most(0, (g.amps - g.reserve) * g.voltage)

Projected(g, demand, charging, watts) ==
  IF g.source = "import" THEN Most(0, demand - Most(0, Or(charging, 0))) + watts ELSE demand + watts

RuleRefuses(g, reading, charging, watts) ==
  \/ RuleLimit(g) = 0 \/ watts = Absent \/ reading[g.source] = Absent
  \/ watts <= 0 \/ Projected(g, reading[g.source], charging, watts) >= RuleLimit(g)

StartAllowed(guards, reading, charging, watts) ==
  ~\E g \in guards : g.enabled /\ RuleRefuses(g, reading, charging, watts)

\* shouldTriggerDemandGuard
GuardTriggers(mode, charging, demand, limit) ==
  /\ mode # "standby" /\ charging # Absent /\ demand # Absent
  /\ charging > 0 /\ demand >= limit

-----------------------------------------------------------------------------
(* Export: room for the sun is held until two checks in a row ask for none, and    *)
(* an export counts after two readings that agree with the balance of the house  *)
(* or three of the meter alone.                                              *)
UpdateHold(hold, exporting, now) ==
  IF hold.until = Absent \/ Or(hold.until, now) <= now THEN [until |-> Absent, clear |-> 0]
  ELSE IF exporting THEN [hold EXCEPT !.clear = 0]
  ELSE IF hold.clear + 1 < 2 THEN [hold EXCEPT !.clear = @ + 1]
  ELSE [until |-> Absent, clear |-> 0]

\* adaptiveChargingExportEvidence: the meter against demand, battery and sun.
Evidence(m) ==
  LET above == m.export # Absent /\ Or(m.export, 0) > ExportThreshold
      balance == Absent \notin {m.import, m.demand, m.battery, m.solar}
      expected == m.demand + m.battery - m.solar - Or(m.fuelCell, 0)
      measured == m.import - m.export
      tolerance == Most(300, Most(Distance(expected, 0), Distance(measured, 0)) \div 4)
  IN [above |-> above, balance |-> balance,
      coherent |-> IF above /\ balance
                   THEN expected < -ExportThreshold /\ Distance(expected, measured) <= tolerance
                   ELSE FALSE]

Confirm(confirmation, e) ==
  LET same == confirmation.count > 0 /\ confirmation.coherent = e.coherent
  IN IF ~e.above \/ (e.balance /\ ~e.coherent) THEN [count |-> 0, coherent |-> FALSE]
     ELSE [count |-> IF same THEN confirmation.count + 1 ELSE 1, coherent |-> e.coherent]

Confirmed(confirmation, e) ==
  /\ e.above /\ (e.balance => e.coherent)
  /\ confirmation.count >= IF e.coherent THEN 2 ELSE 3

-----------------------------------------------------------------------------
(* New plans.  An occurrence of a band is [key, start, end], in order of time.    *)

ScheduledEvent(occurrences, now) ==
  LET active == First(occurrences, LAMBDA o : o.start <= now /\ now < o.end)
      next == First(occurrences, LAMBDA o : o.start > now)
  IN IF active # Absent THEN <<"window", active.key, (now - active.start) \div MinutesOf(30)>>
     ELSE IF next = Absent THEN Absent
     ELSE IF next.start - now > MinutesOf(30) THEN Absent ELSE <<"prewindow", next.key>>

SolarReplanEvent(occurrences, solar, now) ==
  LET active == First(occurrences, LAMBDA o : o.start <= now /\ now < o.end)
  IN IF active = Absent \/ ~solar THEN ScheduledEvent(occurrences, now)
     ELSE <<"solar", active.key, (now - active.start) \div MinutesOf(5)>>

\* adaptiveChargingPlanRefreshDecision: what asks for a new plan, or Absent.  state
\* has the request pending, the plan with the forecast it used, and the last event.
RefreshDecision(state, forecast, occurrences, solar, now) ==
  LET scheduled == ScheduledEvent(occurrences, now)
      event == SolarReplanEvent(occurrences, solar, now)
  IN CASE state.pending # Absent -> <<"pending", state.pending>>
       [] state.pending = Absent /\ state.plan = Absent -> Or(scheduled, <<"initial", forecast>>)
       [] OTHER ->
            IF forecast # Absent /\ state.plan.forecast # forecast THEN Or(scheduled, <<"forecast", forecast>>)
            ELSE IF event # Absent /\ state.lastEvent # event THEN event ELSE Absent

\* consumeBatteryLearningModelSwitch: a model learned during a slot asks once for a
\* plan when the slot has ended.
ConsumeSwitch(state, now) ==
  IF state.switchAfter = Absent THEN state
  ELSE IF state.switchAfter > now THEN state
  ELSE IF state.consumed = state.switchAfter THEN [state EXCEPT !.switchAfter = Absent]
  ELSE [state EXCEPT !.switchAfter = Absent, !.consumed = state.switchAfter,
                     !.pending = <<"model", state.switchAfter>>]

-----------------------------------------------------------------------------
(* Availability.                                                             *)

ForecastFresh(fetchedAt, now) ==
  IF fetchedAt = Absent THEN FALSE ELSE fetchedAt <= now /\ now - fetchedAt <= 6 * Hour

\* cachedForecastIsUsable
ForecastUsable(fetchedAt, incompatible, now) == ForecastFresh(fetchedAt, now) /\ ~incompatible

BaseAvailable(config) ==
  /\ config.solarEnabled /\ config.enabled /\ config.rateMode # "simple" /\ config.smartCosmo
  /\ Absent \notin {config.latitude, config.longitude, config.peak, config.capacity, config.watts}
  /\ config.peak > 0 /\ config.capacity > 0 /\ config.watts > 0

Available(config, guards) == BaseAvailable(config) /\ BreakerLimit(guards) # Absent
=============================================================================

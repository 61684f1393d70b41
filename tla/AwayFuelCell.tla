----------------------------- MODULE AwayFuelCell -----------------------------
(* Whether the fuel cell is off while nobody is home: src/lib/domain/            *)
(* away-fuel-cell.ts.  A reading has the time it was taken, its power and state,   *)
(* the cells it is from, and, when it is a roll-up, the time it is of and how     *)
(* much of that was covered; a trip has an id and its times; evidence of a trip    *)
(* is kept from one evaluation to the next.                                     *)
EXTENDS Numbers

CONSTANT RawGap     \* how long a single reading speaks for, at most: 90 s

DeviceKey(config) ==
  IF ~config.enabled THEN Absent ELSE Or(config.primary, First(config.hosts, LAMBDA h : TRUE))

\* cleanAwayFuelCellEvidence: evidence that contradicts itself counts for nothing, and
\* what would be later than its evaluation is left out.
CleanEvidence(e) ==
  LET known(t) == IF t = Absent THEN Absent ELSE IF t <= e.evaluated THEN t ELSE Absent
  IN IF e = Absent THEN Absent
     ELSE IF e.until <= e.from \/ e.observed < e.from \/ e.observed > e.evaluated THEN Absent
     ELSE [e EXCEPT !.lastReading = known(@), !.lastGenerating = known(@),
                    !.intervals = SelectSeq(@, LAMBDA i : /\ i.start < i.end /\ i.end <= e.evaluated
                                                          /\ i.coverage \in 1..100)]

\* unionIntervals: what overlaps is covered once, and a generating one wins.
UnionPiece(active) ==
  IF active = {} THEN Absent
  ELSE [coverage |-> Max({i.coverage : i \in active}), generating |-> \E i \in active : i.generating]

UnionRuns(cuts, pieces) ==
  LET joins(n) == IF n = 1 THEN FALSE ELSE pieces[n] = pieces[n - 1]
      last(n) == Max({m \in n..Len(pieces) : \A k \in (n + 1)..m : joins(k)})
      run(n) == [start |-> cuts[n], end |-> cuts[last(n) + 1], coverage |-> pieces[n].coverage,
                 generating |-> pieces[n].generating]
  IN Each(Ascending({n \in DOMAIN pieces : pieces[n] # Absent /\ ~joins(n)}), run)

UnionAt(cuts, intervals) ==
  UnionRuns(cuts, Each([n \in 1..Most(0, Len(cuts) - 1) |-> n], LAMBDA n :
                    UnionPiece({i \in intervals : i.start <= cuts[n] /\ cuts[n + 1] <= i.end})))

UnionOf(intervals) == UnionAt(Ascending({i.start : i \in intervals} \cup {i.end : i \in intervals}), intervals)

Union(intervals, from, to) ==
  LET within == {[i EXCEPT !.start = Most(from, @), !.end = Least(to, @)] : i \in intervals}
  IN UnionOf({i \in within : i.start < i.end})

-----------------------------------------------------------------------------
(* The readings of the trip's cell and its proxies that were there at `now`.  One   *)
(* without power counts for nothing while the cell says it runs.                *)
Generating(r) == r.watts > 10
Reliable(r) == Generating(r) \/ r.state \notin {"generating", "starting", "stopping"}

Readings(samples, hosts, from, to, now) ==
  SortSeq(SelectSeq(samples, LAMBDA r :
            /\ r.at <= now /\ r.end <= now /\ r.end >= from /\ r.start <= to
            /\ r.watts # Absent /\ r.sources \subseteq hosts),
          LAMBDA a, b : a.at < b.at)

\* What a reading, with the one after it, tells of an interval.
Measured(readings, n) ==
  LET r == readings[n]
      length == r.end - r.start
      alone == IF n = Len(readings) \/ r.rollup THEN TRUE ELSE readings[n + 1].rollup
      told(end, coverage) == {[start |-> r.start, end |-> end, coverage |-> coverage, generating |-> Generating(r)]}
  IN IF ~Reliable(r) THEN {}
     ELSE IF r.rollup
       THEN IF length > 0 /\ 2 * length <= Hour /\ Or(r.covered, 0) > 0
            THEN told(r.end, Least(100, Share(r.covered, length))) ELSE {}
     ELSE IF alone THEN {}
     ELSE IF readings[n + 1].at - r.at \in 1..RawGap THEN told(readings[n + 1].at, 100) ELSE {}

Latest(times) == LET known == times \ {Absent} IN IF known = {} THEN Absent ELSE Max(known)

\* inferAwayFuelCell: the last day of the trip.  Another cell begins a new observation.
Observation(trip, device, prior, now) ==
  LET sameTrip == IF prior = Absent THEN FALSE ELSE prior.trip = trip.id /\ prior.from = trip.from
      same == IF sameTrip THEN prior.device = device /\ prior.evaluated <= now ELSE FALSE
      observed == IF same THEN prior.observed ELSE IF sameTrip THEN now ELSE trip.from
  IN [trip |-> trip, device |-> device, now |-> now, observed |-> observed,
      from |-> Most(observed, now - Day), to |-> Least(now, trip.until),
      lastReading |-> IF same THEN prior.lastReading ELSE Absent,
      lastGenerating |-> IF same THEN prior.lastGenerating ELSE Absent,
      intervals |-> IF same THEN Range(prior.intervals) ELSE {},
      running |-> IF same THEN prior.regime = "normal-model" ELSE FALSE]

\* What the readings that count tell, and the intervals they cover.
Told(o, counted, merged) ==
  LET ends == <<o.from>> \o Each(merged, LAMBDA i : i.end)
      starts == Each(merged, LAMBDA i : i.start) \o <<o.to>>
  IN [reading |-> Latest({r.at : r \in {c \in counted : Reliable(c) /\ c.at >= o.observed}} \cup {o.lastReading}),
      conflicting |-> Latest({r.at : r \in {c \in counted : ~Reliable(c) /\ c.at >= o.observed}}),
      generated |-> Latest({r.end : r \in {c \in counted : Generating(c) /\ c.start >= o.observed}}
                           \cup {o.lastGenerating}),
      merged |-> merged, duration |-> Most(0, o.to - o.from),
      covered |-> Total(Each(merged, LAMBDA i : (i.end - i.start) * i.coverage)),
      gap |-> Max({0} \cup {starts[n] - ends[n] : n \in DOMAIN starts}),
      generating |-> \E i \in Range(merged) : i.generating,
      sustained |-> \E i \in Range(merged) : i.generating /\ (i.end - i.start) * i.coverage >= 50 * Hour]

Verdict(o, t) ==
  LET whole == t.duration >= Day
      thin == t.covered < 90 * t.duration \/ t.gap > Hour
      fresh == IF t.reading = Absent THEN FALSE ELSE 4 * (o.now - t.reading) <= 3 * Hour
      since(time) == IF t.generated = Absent THEN FALSE ELSE t.generated >= time
      quiet == whole /\ ~thin /\ ~t.generating /\ ~since(o.from + 1)
      contradicted == IF t.conflicting = Absent THEN FALSE ELSE t.conflicting >= Or(t.reading, 0)
  IN IF contradicted THEN <<"uncertain", "insufficient-coverage">>
     ELSE IF o.now >= o.observed /\ ~fresh THEN <<"uncertain", "stale-readings">>
     ELSE IF o.now >= o.observed /\ whole /\ thin THEN <<"uncertain", "insufficient-coverage">>
     ELSE IF t.sustained \/ (o.running /\ ~quiet) THEN <<"normal-model", "sustained-generation">>
     ELSE IF quiet THEN <<"off-supported", "quiet-cycle">>
     ELSE IF t.generating \/ since(o.from) THEN <<"uncertain", "generation-detected">>
     ELSE IF whole THEN <<"uncertain", "insufficient-coverage">>
     ELSE <<"provisional-off", "observing">>

EvidenceOf(o, t, verdict) ==
  [trip |-> o.trip.id, device |-> o.device, from |-> o.trip.from, until |-> o.trip.until, regime |-> verdict[1],
   reason |-> verdict[2], observed |-> o.observed, lastReading |-> t.reading, lastGenerating |-> t.generated,
   evaluated |-> o.now, retained |-> verdict[1] # "off-supported", intervals |-> t.merged,
   review |-> Most(o.now, o.observed) + IF t.duration >= Day THEN Hour ELSE Day - t.duration]

Judged(o, t) == EvidenceOf(o, t, Verdict(o, t))

InferOn(o, readings) ==
  Judged(o, Told(o,
    {r \in Range(readings) : r.end <= o.to /\ IF r.rollup THEN r.end > o.observed ELSE r.end >= o.observed},
    Union(UNION {Measured(readings, n) : n \in DOMAIN readings} \cup o.intervals, o.from, o.to)))

InferFrom(o, samples, hosts) == InferOn(o, Readings(samples, hosts, o.from, o.to, o.now))

Infer(trip, device, samples, now, previous, hosts) ==
  InferFrom(Observation(trip, device, CleanEvidence(previous), now), samples, hosts)

ActiveTrip(trips, now) == First(trips, LAMBDA p : p.from <= now /\ now < p.until)

ActiveEvidence(config, trips, samples, now, previous) ==
  LET device == DeviceKey(config)
      trip == ActiveTrip(trips, now)
  IN IF device = Absent \/ trip = Absent THEN Absent
     ELSE Infer(trip, device, samples, now, previous, {device} \cup config.proxies)
=============================================================================

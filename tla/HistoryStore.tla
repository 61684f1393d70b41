------------------------------ MODULE HistoryStore ------------------------------
(* The history of the house: src/lib/history-store.ts with its query and retention *)
(* repositories.  A sample is compared with the one before it, stored as it was read, *)
(* and what it tells of energies is added to the roll-up of its half hour (and of its *)
(* day, which is made of the same samples and left out), in one transaction.  A query  *)
(* tells the samples that are still stored again, and takes the roll-ups for the rest. *)
(* Here a roll-up is the set of the interpreted samples it is made of; what it sums up *)
(* of them is AddRollupSample in Meters.  Contexts of 5000 rows are whole.            *)
EXTENDS Meters

CONSTANTS
  Samples,    \* the samples of the devices, each with its time
  Cutoffs,    \* the times before which a retention may delete
  MaxUndone   \* bound: appends that are rolled back

VARIABLES
  now,        \* the time of the last thing that happened: the clock does not go back
  samples,    \* the table of samples, as they were read
  rolled,     \* the interpreted samples the roll-ups of the database are made of
  previous,   \* previousSample
  baselines,  \* metricBaselines
  cached,     \* those that only the roll-ups in memory (rollupStates) have
  undone      \* those whose append was rolled back

historyVars == <<now, samples, rolled, previous, baselines, cached, undone>>

\* The fields of a sample that compactHistorySample, the comparison with the last one
\* and the integration of powers write.
Derivations ==
  {"energy", "coverage", "quality", "from", "seconds", "average", "issues", "cellQuality", "operating",
   "starts", "solarSaving", "offPeakSaving", "guards"}

ASSUME SampleAssumption ==
  /\ Absent \notin Int \cup {"counter", "integrated"}
  /\ Hour \in Nat \ {0}
  /\ Cutoffs \subseteq Int
  /\ MaxUndone \in Nat
  /\ \A s \in Samples : /\ {"t", "watts"} \cup Derivations \subseteq DOMAIN s
                        /\ s.t \in Int
                        /\ CompactHistorySample(s) # Absent

NoBaselines == [w \in Powers |-> Absent]

HistoryTypeOK ==
  /\ now \in Int
  /\ samples \subseteq {CompactHistorySample(s) : s \in Samples}
  /\ \A a \in rolled \cup cached \cup undone : a.t \in Int /\ a.t <= now
  /\ cached \subseteq undone
  /\ previous = Absent \/ previous \in {CompactHistorySample(s) : s \in Samples}
  /\ \A w \in Powers : baselines[w] = Absent \/ baselines[w].t \in Int

HistoryInit ==
  /\ now = 0
  /\ samples = {} /\ rolled = {}
  /\ previous = Absent /\ baselines = NoBaselines
  /\ cached = {} /\ undone = {}

-----------------------------------------------------------------------------
(* Appending a sample.                                                       *)

\* localBucketStart of the half hour.
HalfHour(t) == t \div (Hour \div 2)

Stored(t) == \E s \in samples : s.t = t
Told(sample) == InterpretHistorySample(CompactHistorySample(sample), previous, baselines)

\* The roll-up in memory is written whole, with what a rolled back append left there.
AppendSample(sample) ==
  LET compact == CompactHistorySample(sample)
      written == {a \in cached : HalfHour(a.t) = HalfHour(sample.t)}
  IN /\ sample.t >= now /\ ~Stored(sample.t)
     /\ now' = sample.t
     /\ samples' = samples \cup {compact}
     /\ rolled' = rolled \cup written \cup {Told(sample)}
     /\ previous' = compact
     /\ baselines' = UpdateMetricBaselines(baselines, compact)
     /\ cached' = cached \ written
     /\ UNCHANGED undone

\* The write of a roll-up fails, or the commit after all of it: the database is as
\* before, the roll-up in memory is not.
AppendFails(sample) ==
  /\ Cardinality(undone) < MaxUndone
  /\ sample.t >= now /\ ~Stored(sample.t)
  /\ now' = sample.t
  /\ cached' = cached \cup {Told(sample)}
  /\ undone' = undone \cup {Told(sample)}
  /\ \/ UNCHANGED <<previous, baselines>>
     \/ /\ previous' = CompactHistorySample(sample)
        /\ baselines' = UpdateMetricBaselines(baselines, CompactHistorySample(sample))
  /\ UNCHANGED <<samples, rolled>>

-----------------------------------------------------------------------------
(* What is read back.                                                        *)

Newest(set) == IF set = {} THEN Absent ELSE CHOOSE s \in set : \A other \in set : other.t <= s.t
Before(t) == {s \in samples : s.t < t}
With(set, w) == {s \in set : s.watts[w] # Absent}

\* latestRawSample and recentMetricBaselines.
RecentMetricBaselines(set) ==
  [w \in Powers |-> IF With(set, w) = {} THEN Absent
                    ELSE [t |-> Newest(With(set, w)).t, watts |-> Newest(With(set, w)).watts[w]]]

\* The store is closed, by a stop of the process or for a restore, and opened again.
Initialize ==
  /\ previous' = Newest(samples)
  /\ baselines' = RecentMetricBaselines(samples)
  /\ cached' = {}
  /\ UNCHANGED <<now, samples, rolled, undone>>

\* applyRetention: samples and roll-ups are kept for a day at least.
Retain(t, cutoff) ==
  /\ t >= now /\ cutoff <= t - Day
  /\ now' = t

RetainSamples(t, cutoff) ==
  /\ Retain(t, cutoff)
  /\ samples' = {s \in samples : s.t >= cutoff}
  /\ UNCHANGED <<rolled, previous, baselines, cached, undone>>

RetainRollups(t, cutoff) ==
  /\ Retain(t, cutoff)
  /\ rolled' = {a \in rolled : (HalfHour(a.t) + 1) * (Hour \div 2) >= cutoff}
  /\ UNCHANGED <<samples, previous, baselines, cached, undone>>

HistoryNext ==
  \/ \E s \in Samples : AppendSample(s) \/ AppendFails(s)
  \/ Initialize
  \/ \E t \in {s.t : s \in Samples}, cutoff \in Cutoffs : RetainSamples(t, cutoff) \/ RetainRollups(t, cutoff)

HistorySpec == HistoryInit /\ [][HistoryNext]_historyVars

-----------------------------------------------------------------------------
(* A query.                                                                  *)

InRange(start, end) == {s \in samples : start <= s.t /\ s.t <= end}

\* interpretedRawPayloads: the first sample of the range is compared with none.
Queried(raw, start) ==
  LET last == Newest(Before(raw.t))
  IN IF last # Absent /\ last.t < start
       THEN InterpretHistorySample(raw, Absent, NoBaselines)
       ELSE InterpretHistorySample(raw, last, RecentMetricBaselines(Before(raw.t)))

\* The roll-ups of the range that end before the first stored sample of it, as the
\* samples they are made of.
RetainedRollups(start, end) ==
  {a \in rolled : /\ (HalfHour(a.t) + 1) * (Hour \div 2) > start
                  /\ HalfHour(a.t) * (Hour \div 2) <= end
                  /\ \A b \in rolled, raw \in InRange(start, end) :
                       HalfHour(b.t) = HalfHour(a.t) => b.t < raw.t}

DetailedAvailableRows(start, end) ==
  RetainedRollups(start, end) \cup {Queried(raw, start) : raw \in InRange(start, end)}

-----------------------------------------------------------------------------
\* No two samples tell of one time, and no two energies of one kind and one source are
\* counted over the same time.
Apart(told) ==
  \A a, b \in told :
    /\ a # b => a.t # b.t
    /\ a.t < b.t =>
         \A k \in Keys : a.energy[k] # Absent /\ b.energy[k] # Absent /\ a.quality[k] = b.quality[k]
                           => a.t <= b.from[k]

(* An energy is counted once, in the roll-ups as in what any query tells, whatever is    *)
(* missing of the readings, however often the store is opened again and whatever the    *)
(* retention has deleted of the samples or of the roll-ups (insertSample,               *)
(* interpretedRawPayloads, detailedAvailableRows).  Appends that were rolled back are    *)
(* left out: the roll-up in memory keeps them, and is written with the next sample.      *)
EnergyCountedOnce ==
  /\ Apart(rolled \ undone)
  /\ \A start, end \in {s.t : s \in Samples} : Apart(DetailedAvailableRows(start, end) \ undone)
=============================================================================

------------------------------- MODULE Numbers -------------------------------
(* What the calculations share: src/lib/domain/statistics.ts and numbers.ts.   *)
(* Quantities are integers, fractions are percentages and divisions round       *)
(* down; a value that may be missing (null, undefined, not a number) is Absent. *)
EXTENDS Integers, FiniteSetsExt, SequencesExt

CONSTANTS
  Absent,
  Hour        \* units of time in an hour

Day == 24 * Hour

\* The energy of w watts over t units of time.
Energy(w, t) == (w * t) \div Hour

Least(a, b) == Min({a, b})
Most(a, b) == Max({a, b})
Clamp(x, low, high) == Most(low, Least(high, x))
Or(a, b) == IF a # Absent THEN a ELSE b
First(s, Test(_)) == LET i == SelectInSeq(s, Test) IN IF i = 0 THEN Absent ELSE s[i]
\* FoldLeft for TLC, which is recursive in the length of the sequence and leaves the
\* steps to the last one: eight at a time, and each worked out before the next.
Folded(op(_, _), base, s) ==
  LET strict(f(_, _), acc, x) == CHOOSE y \in {f(a, x) : a \in {acc}} : TRUE
      eight(acc, n) == FoldLeft(LAMBDA a, x : strict(op, a, x), acc, SubSeq(s, 8 * n - 7, Min({8 * n, Len(s)})))
  IN FoldLeft(LAMBDA acc, n : strict(eight, acc, n), base, [n \in 1..((Len(s) + 7) \div 8) |-> n])
Total(s) == FoldLeft(LAMBDA sum, x : sum + x, 0, s)
Each(s, F(_)) == <<>> \o [i \in DOMAIN s |-> F(s[i])]    \* (worked out once, and not at every use)
Leading(s, n) == SubSeq(s, 1, Least(n, Len(s)))
Trailing(s, n) == SubSeq(s, Most(1, Len(s) - n + 1), Len(s))
Listed(set, Before(_, _)) == SortSeq(FoldSet(LAMBDA x, s : Append(s, x), <<>>, set), Before)
Ascending(set) == Listed(set, LAMBDA a, b : a < b)
Share(part, whole) == (100 * part) \div whole
Distance(a, b) == Most(a - b, b - a)

Sorted(values) == SortSeq(SelectSeq(values, LAMBDA v : v # Absent), LAMBDA a, b : a < b)

Median(values) ==
  LET s == Sorted(values)
      middle == Len(s) \div 2
  IN IF s = <<>> THEN Absent
     ELSE IF Len(s) % 2 = 1 THEN s[middle + 1] ELSE (s[middle] + s[middle + 1]) \div 2

Percentile(values, percent) ==
  LET s == Sorted(values)
  IN IF s = <<>> THEN Absent
     ELSE s[1 + Clamp((Len(s) * percent) \div 100, 0, Len(s) - 1)]

\* The spread of the middle half, in percent of the middle.
Dispersion(values) ==
  LET m == Median(values)
  IN IF m = Absent THEN Absent
     ELSE IF m <= 0 THEN Absent
     ELSE Share(Percentile(values, 75) - Percentile(values, 25), m)

\* Items have a value and a weight.
WeightedMedian(items) ==
  LET s == SortSeq(SelectSeq(items, LAMBDA x : x.value # Absent /\ x.weight > 0),
                   LAMBDA a, b : a.value < b.value)
      before(i) == Total([j \in 1..i |-> s[j].weight])
      i == SelectInSeq([n \in DOMAIN s |-> n], LAMBDA n : 2 * before(n) >= before(Len(s)))
  IN IF s = <<>> THEN Absent ELSE s[i].value
=============================================================================

----------------------------- MODULE TimeBuckets -----------------------------
(***************************************************************************)
(* Rounding of times to an interval (src/storage/time_buckets.hpp) and the *)
(* three parts into which the repository splits a queried range.           *)
(***************************************************************************)
EXTENDS Integers

\* value % interval of C++, which truncates towards zero.
CppRem(value, interval) ==
  IF value >= 0 THEN value % interval ELSE -((-value) % interval)

AlignDown(value, interval) ==
  LET remainder == CppRem(value, interval)
  IN  IF remainder < 0 THEN value - remainder - interval ELSE value - remainder

AlignUp(value, interval) ==
  LET aligned == AlignDown(value, interval)
  IN  IF aligned = value THEN value ELSE aligned + interval

\* Mutant: the range is rounded outwards.
RollupStartEarly(start, end, interval) == AlignDown(start, interval)

\* Where the rollups that a query of [start, end) reads begin and end: minutes
\* are read one by one before rollup_start and from rollup_end on.
RollupStart(start, end, interval) ==
  LET up == AlignUp(start, interval) IN IF up < end THEN up ELSE end

\* Mutant: the rollup of a block that is cut off is read whole.
RollupEndLate(start, end, interval) ==
  LET up == AlignUp(end, interval) IN IF start < up THEN up ELSE start

RollupEnd(start, end, interval) ==
  LET down  == AlignDown(end, interval)
      first == RollupStart(start, end, interval)
  IN  IF down > first THEN down ELSE first
=============================================================================

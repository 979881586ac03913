--------------------------- MODULE ChartGeometry ---------------------------
(***************************************************************************)
(* display/qt/qt_chart_geometry.{h,cpp}, and the figures of                *)
(* display/metric_format.cpp that end up on an axis: round scales, their   *)
(* ticks and labels, and the way from samples to pixels.                   *)
(*                                                                         *)
(* A double is a whole multiple of 1/One here, and arithmetic is exact:    *)
(* the rounding of doubles, which kTickEpsilon is about, is left out, as   *)
(* are values that are not finite.  A label is the number it shows.        *)
(***************************************************************************)
EXTENDS Integers, Sequences, FiniteSetsExt, SequencesExt

CONSTANTS One,          \* 1.0
          MaxPower,     \* largest power of ten a step is made of
          BytesPerMiB, NsPerUs  \* 2^20 and 1000, or smaller

kMaxTicks == 64
kDefaultTickCount == 5

\* A value divided by a unit is still a multiple of 1/One, and large enough
\* for a step.
ASSUME ChartAssumption ==
  /\ MaxPower \in Nat /\ One \in {10 ^ n : n \in 1 .. MaxPower}
  /\ BytesPerMiB \in Nat \ {0}
  /\ One % BytesPerMiB = 0 /\ One \div BytesPerMiB >= kDefaultTickCount
  /\ NsPerUs \in Nat \ {0}
  /\ One % NsPerUs = 0 /\ One \div NsPerUs >= kDefaultTickCount

\* Arithmetic the provers have no rules for.
ASSUME PowersOfTen ==
  \A n \in 0 .. MaxPower : 10 ^ n > 0 /\ 10 ^ (n + 1) = 10 * 10 ^ n

\* The largest range whose step is made of these powers of ten.
LargestRange == 25 * 10 ^ MaxPower

Kinds == {"iops", "bandwidth", "latency"}

\* The metrics of a sub plot, in the order they are drawn.
ChartKindMetrics(kind) ==
  CASE kind = "iops" -> <<"iops_instant">>
    [] kind = "bandwidth" -> <<"bw_instant">>
    [] kind = "latency" -> <<"lat_p50", "lat_p95", "lat_p99">>

\* What one of the drawn unit is in the stored one.
UnitOf(kind) == CASE kind = "iops" -> 1
                  [] kind = "bandwidth" -> BytesPerMiB
                  [] kind = "latency" -> NsPerUs

-----------------------------------------------------------------------------
\* round, llround of a value that is not negative; floor and ceil to a step.
Round(value) == (2 * value + One) \div (2 * One)
FloorTo(value, step) == (value \div step) * step
CeilTo(value, step) == -FloorTo(-value, step)

\* FormatCount, FormatRate and FormatLatencyUs cut to the drawn unit.
FormatAxisTick(kind, value) == Round(Max({value, 0})) \div UnitOf(kind)

\* FormatDuration: minutes and seconds.
FormatTimeTick(seconds) == LET whole == Round(Max({seconds, 0}))
                           IN  <<whole \div 60, whole % 60>>

\* ComputePlotRect: what the margins leave, at least one pixel each way.
ComputePlotRect(width, height, margins) ==
  [left |-> margins.left, top |-> margins.top,
   width |-> Max({width - margins.left - margins.right, 1}),
   height |-> Max({height - margins.top - margins.bottom, 1})]

-----------------------------------------------------------------------------
\* 10^floor(log10(range / ticks)), which is at least 1/One for these ranges.
PowerBelow(range) ==
  Max({p \in {10 ^ n : n \in 0 .. MaxPower} : kDefaultTickCount * p <= range})

NiceTickStep(range) ==
  IF range <= 0 THEN One
  ELSE LET power == PowerBelow(range)
           nice == {n \in {1, 2, 5, 10} : range <= kDefaultTickCount * n * power}
       IN  Min(nice) * power

MakeAxisScale(min_value, max_value) ==
  LET low == Min({min_value, max_value})
      high == Max({min_value, max_value})
      flat == high <= low
      from == IF flat THEN Min({low, 0}) ELSE low
      to == IF flat /\ high <= 0 THEN One ELSE high
      step == NiceTickStep(to - from)
      bottom == FloorTo(from, step)
  IN  [min |-> bottom, tick_step |-> step,
       max |-> Max({CeilTo(to, step), bottom + step})]

Scaled(scale, factor) == [min |-> scale.min * factor,
                          max |-> scale.max * factor,
                          tick_step |-> scale.tick_step * factor]

\* faulty variant: steps below one drawn unit are kept
UnitAxisScaleFine(kind, min_value, max_value) ==
  Scaled(MakeAxisScale(min_value \div UnitOf(kind), max_value \div UnitOf(kind)),
         UnitOf(kind))

\* Labels are whole drawn units: a finer step becomes one.
MakeUnitAxisScale(kind, min_value, max_value) ==
  LET unit == UnitOf(kind)
      scale == MakeAxisScale(min_value \div unit, max_value \div unit)
      bottom == FloorTo(scale.min, One)
      whole == [min |-> bottom, tick_step |-> One,
                max |-> Max({CeilTo(scale.max, One), bottom + One})]
  IN  Scaled(IF scale.tick_step < One THEN whole ELSE scale, unit)

AxisTicks(scale) ==
  IF scale.tick_step <= 0 \/ scale.max < scale.min THEN <<>>
  ELSE LET count == (scale.max - scale.min) \div scale.tick_step
       IN  [i \in 1 .. Min({count, kMaxTicks}) + 1 |->
              scale.min + (i - 1) * scale.tick_step]

-----------------------------------------------------------------------------
Span(scale) == scale.max - scale.min

\* std::clamp of the ratio, as a numerator over the span.
Along(value, scale) == Max({0, Min({value - scale.min, Span(scale)})})

\* A pixel column and a pixel row, as numerators over the span of the scale.
MapX(value, scale, plot) ==
  plot.left * Span(scale) + Along(value, scale) * plot.width

MapY(value, scale, plot) ==
  (plot.top + plot.height) * Span(scale) - Along(value, scale) * plot.height

MapPoints(points, x, y, plot) ==
  [i \in DOMAIN points |-> [x |-> MapX(points[i].x, x, plot),
                            y |-> MapY(points[i].y, y, plot)]]

\* The aggregate's samples, led by a zero at the start of the run.
ExtractSeries(history, metric) ==
  IF history = <<>> THEN <<>>
  ELSE (IF Head(history).elapsed > 0 THEN <<[x |-> 0, y |-> 0]>> ELSE <<>>)
       \o [i \in DOMAIN history |-> [x |-> history[i].elapsed,
                                     y |-> history[i][metric] * One]]

\* faulty variant: the last, unfinished second is cut off
SeriesDurationCut(history) ==
  IF history = <<>> THEN 0 ELSE FloorTo(Last(history).elapsed, One)

SeriesDurationSeconds(history) ==
  IF history = <<>> THEN 0 ELSE Max({Round(Last(history).elapsed) * One, 0})

MaxY(series) ==
  Max({0} \cup UNION {{p.y : p \in ToSet(points)} : points \in ToSet(series)})
=============================================================================

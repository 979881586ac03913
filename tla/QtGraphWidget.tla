--------------------------- MODULE QtGraphWidget ---------------------------
(***************************************************************************)
(* cfio::QtGraphWidget (display/qt/qt_graph_widget.{h,cpp}): one sub plot  *)
(* of the window.  The window hands it the rows of the run so far; Qt      *)
(* resizes it and asks it to paint at any time in between.  What is        *)
(* painted is a function of the state and is defined below as such; pens,  *)
(* colours, legend and titles are left out.  The width of a text is        *)
(* Qt's: a character is CharWidth pixels wide (external), the font one     *)
(* that a widget of the size it asks for has room for.                     *)
(***************************************************************************)
EXTENDS ChartGeometry

CONSTANTS Rows(_),      \* the rows considered for a kind of sub plot
          MaxRows,      \* bound: rows of a run
          Sizes,        \* the sizes of the widget considered
          CharWidth, CharHeight

kMinWidth == 320
kMinHeight == 140
kLabelPadding == 6
kRightMargin == 12
kTitleGap == 4

\* Times and values have a step.  MaxPower makes room for all there are: with
\* the program's units and One = 10^20, 38 is enough for any uint64_t.
ASSUME GraphAssumption ==
  /\ \A k \in Kinds : \A row \in Rows(k) :
       /\ row.elapsed \in Nat /\ row.elapsed + One <= LargestRange
       /\ \A i \in DOMAIN ChartKindMetrics(k) :
            LET value == row[ChartKindMetrics(k)[i]]
            IN  value \in Nat /\ value * One <= LargestRange
  /\ MaxRows \in Nat
  /\ \A s \in Sizes : s.width \in Nat /\ s.height \in Nat
  /\ CharWidth \in 1 .. 16 /\ CharHeight \in 1 .. 35

VARIABLES kind,                 \* kind_
          history,              \* the rows the window gave last
          series,               \* series_
          x_scale, y_scale,     \* x_scale_, y_scale_
          size                  \* width() and height()

graphVars == <<kind, history, series, x_scale, y_scale, size>>

Default == [min |-> 0, max |-> One, tick_step |-> One]

GraphInit == /\ kind \in Kinds
             /\ history = <<>> /\ series = <<>>
             /\ x_scale = Default /\ y_scale = Default
             /\ size \in Sizes

\* SetSeries: the run has one row more than when the window last called it,
\* which may be the last row again.
SetSeries ==
  /\ Len(history) < MaxRows
  /\ \E row \in Rows(kind) :
       /\ history # <<>> => Last(history).elapsed <= row.elapsed
       /\ history' = Append(history, row)
  /\ series' = [i \in DOMAIN ChartKindMetrics(kind) |->
                  ExtractSeries(history', ChartKindMetrics(kind)[i])]
  /\ x_scale' = MakeAxisScale(0, SeriesDurationSeconds(history'))
  /\ y_scale' = MakeUnitAxisScale(kind, 0, MaxY(series'))
  /\ UNCHANGED <<kind, size>>

Resize == /\ size' \in Sizes \ {size}
          /\ UNCHANGED <<kind, history, series, x_scale, y_scale>>

GraphNext == SetSeries \/ Resize

GraphSpec == GraphInit /\ [][GraphNext]_graphVars

-----------------------------------------------------------------------------
\* What paintEvent draws, once there is a row.

YTicks == AxisTicks(y_scale)
XTicks == AxisTicks(x_scale)
YLabels == [i \in DOMAIN YTicks |-> FormatAxisTick(kind, YTicks[i])]
XLabels == [i \in DOMAIN XTicks |-> FormatTimeTick(XTicks[i])]

\* The digits of a number on an axis.
Digits(n) == Min({d \in 1 .. MaxPower + 1 : n < 10 ^ d})

\* FormatCount's separators, or the characters of the unit.
Extra(digits) == CASE kind = "iops" -> (digits - 1) \div 3
                   [] kind = "bandwidth" -> 5
                   [] kind = "latency" -> 3

TextWidth(n) == CharWidth * (Digits(n) + Extra(Digits(n)))

\* Two digits of seconds, a colon, and two digits of minutes or more.
TimeWidth(text) == CharWidth * (3 + Max({2, Digits(text[1])}))

Margins ==
  [left |-> Max({TextWidth(YLabels[i]) : i \in DOMAIN YLabels})
              + 2 * kLabelPadding,
   top |-> CharHeight + kLabelPadding + kTitleGap
             + (IF Len(series) > 1 THEN CharHeight + kTitleGap ELSE 0),
   right |-> Max({kRightMargin,
                  TimeWidth(XLabels[Len(XTicks)]) \div 2 + kLabelPadding}),
   bottom |-> CharHeight + 2 * kLabelPadding]

Plot == ComputePlotRect(size.width, size.height, Margins)

Line(points) == MapPoints(points, x_scale, y_scale, Plot)

-----------------------------------------------------------------------------
\* Properties.

\* The round steps there are, in the unit a scale is drawn in.
NiceSteps == {n * 10 ^ p : n \in {1, 2, 5}, p \in 0 .. MaxPower}

\* An axis of this scale for values up to top, in steps of whole units of the
\* size unit, is as fine as five round steps allow, ends within a step of the
\* values, and its ticks reach from one end to the other.
Fits(scale, ticks, top, unit) ==
  /\ scale.min = 0 /\ top <= scale.max
  /\ top > 0 => scale.max - top < scale.tick_step
  /\ \E step \in NiceSteps : scale.tick_step = step * unit
  /\ \A step \in NiceSteps :
       step * unit < scale.tick_step =>
         \/ kDefaultTickCount * step * unit < top
         \/ scale.tick_step <= One * unit
  /\ ticks[1] = 0 /\ Last(ticks) = scale.max
  /\ Len(ticks) \in 2 .. kDefaultTickCount + 1

\* qt_chart_geometry.cpp:116, "a finer step would repeat the same text on every
\* tick": both axes are round, close to the data and complete, whatever was
\* measured; no two ticks of the vertical one have the same text, nor, from
\* three seconds on, of the time axis, whose texts never go back.
AxisReadable ==
  history # <<>> =>
    /\ Fits(y_scale, YTicks, MaxY(series), UnitOf(kind))
    /\ Fits(x_scale, XTicks, SeriesDurationSeconds(history), 1)
    /\ \A i \in 1 .. Len(YTicks) - 1 : YLabels[i] < YLabels[i + 1]
    /\ \A i \in 1 .. Len(XTicks) - 1 :
         LET now == 60 * XLabels[i][1] + XLabels[i][2]
             next == 60 * XLabels[i + 1][1] + XLabels[i + 1][2]
         IN  IF Last(history).elapsed >= 3 * One THEN now < next
                                                 ELSE now <= next

ShortLabels == /\ \A i \in DOMAIN YLabels : YLabels[i] < 10 ^ 9
               /\ \A i \in DOMAIN XLabels : XLabels[i][1] < 10 ^ 5

\* Every sample is drawn, after a start at zero, in the order of time and at
\* its own height: a curve never leaves the plot and never runs backwards, a
\* larger value is never drawn lower, and a sample is moved along the time
\* axis, whose end is a rounded one, by half a second at most.  A widget of the
\* size it asks for has room for the whole plot beside labels below a billion
\* of the drawn unit and times below 100000 minutes.
PointsInPlot ==
  history # <<>> =>
    /\ \A i \in DOMAIN series :
         LET points == series[i]
             line == Line(points)
         IN  /\ Len(line) >= Len(history) /\ points[1].x = 0
             /\ \A m \in DOMAIN line :
                  /\ y_scale.min <= points[m].y /\ points[m].y <= y_scale.max
                  /\ 2 * (points[m].x - x_scale.max) <= One
                  /\ line[m].x >= Plot.left * Span(x_scale)
                  /\ line[m].x <= (Plot.left + Plot.width) * Span(x_scale)
                  /\ \A n \in DOMAIN line :
                       /\ m < n => line[m].x <= line[n].x
                       /\ points[m].y < points[n].y => line[m].y > line[n].y
    /\ size.width >= kMinWidth /\ size.height >= kMinHeight /\ ShortLabels =>
         /\ Plot.left + Plot.width + Margins.right = size.width
         /\ Plot.top + Plot.height + Margins.bottom = size.height
=============================================================================

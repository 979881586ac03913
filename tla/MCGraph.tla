------------------------------ MODULE MCGraph ------------------------------
(***************************************************************************)
(* Runs of up to two rows for QtGraphWidget: times around the changes of   *)
(* the time axis up to an hour, rates and latencies below, at and above    *)
(* one drawn unit and around the powers of ten a step changes at.          *)
(***************************************************************************)
EXTENDS QtGraphWidget

\* In tenths of a second.
Times == {(One \div 10) * n :
            n \in {0, 5, 10, 14, 19, 24, 25, 30, 34, 55, 100, 600, 36005}}

Rates == {0, 1, 3, 4, 5, 6, 8, 10, 11, 40, 41, 80, 100, 399, 1001}

LatencyValues == {0, 9, 10, 51, 1001}

MCRows(k) ==
  IF k = "latency"
    THEN {r \in [elapsed : {0, One, (5 * One) \div 2, 60 * One},
                 lat_p50 : LatencyValues, lat_p95 : LatencyValues, lat_p99 : LatencyValues] :
            r.lat_p50 <= r.lat_p95 /\ r.lat_p95 <= r.lat_p99}
    ELSE LET metric == ChartKindMetrics(k)[1] IN
         {[m \in {"elapsed", metric} |-> IF m = metric THEN v ELSE t] :
            t \in Times, v \in Rates}

MCSizes == {[width |-> w, height |-> h] : w \in {1, 320}, h \in {140}}
=============================================================================

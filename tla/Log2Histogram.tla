--------------------------- MODULE Log2Histogram ---------------------------
(***************************************************************************)
(* cfio::Log2Histogram and its readers: every worker records latencies     *)
(* while TakeSnapshot computes three percentiles of each job, merges the   *)
(* job into the total, bucket by bucket and without a lock, and computes   *)
(* the total's percentiles; BuildResults reads the histograms again when   *)
(* the workers have been joined.  A percentile takes two passes over the   *)
(* buckets, one for the total and one up to the target, and more values    *)
(* may be recorded during and between the two.                             *)
(***************************************************************************)
EXTENDS Integers, Sequences, FiniteSets, FiniteSetsExt, Functions

CONSTANTS JobCount,     \* number of workers
          BucketCount,  \* template parameter, 64 in every use
          Width,        \* bits of a latency, 64 in the code
          kP50, kP95, kP99,     \* in percent; a run with few values needs
                        \* smaller ones than the code's to tell them apart
          Latencies,    \* latencies the workers record
          MaxRecords    \* bound: values recorded by all workers

ASSUME HistogramAssumption == /\ Width \in Nat \ {0}
                              /\ BucketCount \in 1 .. Width
                              /\ JobCount \in Nat \ {0}
                              /\ {kP50, kP95, kP99} \subseteq 1 .. 100
                              /\ kP50 <= kP95 /\ kP95 <= kP99
                              /\ Latencies \subseteq 0 .. 2 ^ Width - 1
                              /\ MaxRecords \in Nat

\* Arithmetic the provers have no rules for.
ASSUME PowersOfTwo ==
  \A k \in 0 .. Width : 2 ^ k > 0 /\ 2 ^ (k + 1) = 2 * 2 ^ k

VARIABLES buckets,      \* per job: buckets_ of its histogram_
          recorded,     \* history, per job: how often each value was recorded
          joined,       \* the workers have been joined
          reader_pc,    \* where the thread in TakeSnapshot is
          job, q,       \* the job it reads, which percentile it computes
          index,        \* the bucket it reads next
          total,        \* TotalCount, the sum of the first pass
          cumulative,   \* the sum of the second pass
          before,       \* history: recorded[job] when Percentile was entered
          global,       \* local of TakeSnapshot: the merged histogram
          answers,      \* per job and percentile: what the snapshot shows
          totals,       \* per percentile: what the snapshot's total shows
          final,        \* the snapshot was begun after the join
          results       \* per job: what BuildResults computed

reading == <<reader_pc, job, q, index, total, cumulative, before, global>>
shown == <<answers, totals, final, results>>
histogramVars == <<buckets, recorded, joined, reading, shown>>

JobIds == 1 .. JobCount
Indices == 0 .. BucketCount - 1
kMaxBucket == BucketCount - 1

Quantiles == <<kP50, kP95, kP99>>

Zeroes == [i \in Indices |-> 0]
NoLatency == [v \in Latencies |-> 0]

-----------------------------------------------------------------------------
(***************************************************************************)
(* The histogram's arithmetic.                                             *)
(***************************************************************************)

\* 63 - clz(value | 1): the position of the highest bit, and 0 for 0.
HighestBit(value) ==
  LET odd == IF value % 2 = 0 THEN value + 1 ELSE value
  IN  CHOOSE k \in 0 .. Width - 1 : odd \in 2 ^ k .. 2 ^ (k + 1) - 1

BucketOf(value) == Min({HighestBit(value), kMaxBucket})

BucketLowerBound(i) == IF i = 0 THEN 0 ELSE 2 ^ i

BucketUpperBound(i) == IF i >= Width - 1 THEN 2 ^ Width - 1
                       ELSE 2 ^ (i + 1) - 1

\* faulty variant: rounded down
TargetFloor(p, n) == Min({n, Max({1, (p * n) \div 100})})

\* ceil(p * n), at least 1 and at most n.
Target(p, n) == Min({n, Max({1, (p * n + 99) \div 100})})

UpTo(counts, i) == SumFunctionOnSet(counts, 0 .. i)

\* Percentile of a histogram nobody records into.
Percentile(counts, p) ==
  LET n == SumFunction(counts)
      reached == {i \in Indices : UpTo(counts, i) >= Target(p, n)}
  IN  IF n = 0 THEN 0 ELSE BucketUpperBound(Min(reached))

NonEmpty(counts) == {i \in Indices : counts[i] # 0}

MinValue(counts) == IF NonEmpty(counts) = {} THEN 0
                    ELSE BucketLowerBound(Min(NonEmpty(counts)))

\* faulty variant: the bounds of the first bucket
MaxValueOfFirst(counts) == IF NonEmpty(counts) = {} THEN 0
                           ELSE BucketUpperBound(Min(NonEmpty(counts)))

MaxValue(counts) == IF NonEmpty(counts) = {} THEN 0
                    ELSE BucketUpperBound(Max(NonEmpty(counts)))

-----------------------------------------------------------------------------
NoResults == [j \in JobIds |-> [min |-> 0, max |-> 0, p |-> <<0, 0, 0>>]]

HistogramInit == /\ buckets = [j \in JobIds |-> Zeroes]
        /\ recorded = [j \in JobIds |-> NoLatency]
        /\ joined = FALSE
        /\ reader_pc = "idle" /\ job = 1 /\ q = 1
        /\ index = 0 /\ total = 0 /\ cumulative = 0
        /\ before = NoLatency
        /\ global = Zeroes
        /\ answers = [j \in JobIds |-> <<0, 0, 0>>]
        /\ totals = <<0, 0, 0>>
        /\ final = FALSE
        /\ results = NoResults

\* Record: a worker's fetch_add on one bucket.
Record(j, value) ==
  /\ ~joined
  /\ SumFunction([k \in JobIds |-> SumFunction(recorded[k])]) < MaxRecords
  /\ buckets' = [buckets EXCEPT ![j][BucketOf(value)] = @ + 1]
  /\ recorded' = [recorded EXCEPT ![j][value] = @ + 1]
  /\ UNCHANGED <<joined, reading, shown>>

\* The orchestrator joins the workers: nobody records any more.
JoinWorkers == /\ ~joined
               /\ joined' = TRUE
               /\ UNCHANGED <<buckets, recorded, reading, shown>>

\* Percentile(Quantiles[n]) of job j begins.
Enter(j, n) == /\ reader_pc' = "total" /\ job' = j /\ q' = n
               /\ index' = 0 /\ total' = 0 /\ cumulative' = 0
               /\ before' = recorded[j]

\* TakeSnapshot, on the sampling thread or, after Stop, on the main thread.
BeginSnapshot == /\ reader_pc = "idle"
                 /\ Enter(1, 1)
                 /\ global' = Zeroes
                 /\ final' = joined
                 /\ UNCHANGED <<buckets, recorded, joined, answers, totals,
                                results>>

\* Percentile returns: the next one begins, or the job is merged.
Return(value) == /\ answers' = [answers EXCEPT ![job][q] = value]
                 /\ IF q < Len(Quantiles)
                    THEN Enter(job, q + 1)
                    ELSE /\ reader_pc' = "merge" /\ index' = 0
                         /\ total' = 0 /\ cumulative' = 0
                         /\ before' = NoLatency
                         /\ UNCHANGED <<job, q>>

\* One load of the first pass.
LoadForTotal ==
  /\ reader_pc = "total"
  /\ LET sum == total + buckets[job][index]
     IN  \/ /\ index < kMaxBucket
            /\ index' = index + 1 /\ total' = sum
            /\ UNCHANGED <<reader_pc, job, q, cumulative, before, answers>>
         \/ /\ index = kMaxBucket /\ sum > 0
            /\ reader_pc' = "scan" /\ index' = 0 /\ total' = sum
            /\ UNCHANGED <<job, q, cumulative, before, answers>>
         \/ /\ index = kMaxBucket /\ sum = 0
            /\ Return(0)
  /\ UNCHANGED <<buckets, recorded, joined, global, totals, final, results>>

AtTarget(sum) == sum >= Target(Quantiles[q], total)

\* One load of the second pass; it ends at the target or after the last one.
LoadForScan ==
  /\ reader_pc = "scan"
  /\ LET sum == cumulative + buckets[job][index]
     IN  IF AtTarget(sum) \/ index = kMaxBucket
         THEN Return(BucketUpperBound(index))
         ELSE /\ index' = index + 1 /\ cumulative' = sum
              /\ UNCHANGED <<reader_pc, job, q, total, before, answers>>
  /\ UNCHANGED <<buckets, recorded, joined, global, totals, final, results>>

Merged(i) == global[i] + buckets[job][i]

\* Merge: one load of the job's bucket, added to the total's.  After the last
\* job nobody else sees the total, whose percentiles are computed at once.
MergeBucket ==
  /\ reader_pc = "merge"
  /\ global' = [global EXCEPT ![index] = Merged(index)]
  /\ \/ /\ index < kMaxBucket
        /\ index' = index + 1
        /\ UNCHANGED <<reader_pc, job, q, total, cumulative, before, totals>>
     \/ /\ index = kMaxBucket /\ job < JobCount
        /\ Enter(job + 1, 1)
        /\ UNCHANGED totals
     \/ /\ index = kMaxBucket /\ job = JobCount
        /\ reader_pc' = "idle" /\ job' = 1 /\ q' = 1 /\ index' = 0
        /\ totals' = [n \in DOMAIN Quantiles |->
                        Percentile(global', Quantiles[n])]
        /\ UNCHANGED <<total, cumulative, before>>
  /\ UNCHANGED <<buckets, recorded, joined, answers, final, results>>

\* BuildResults, after TakeFinalSnapshot: the histograms are read once more.
BuildResults ==
  /\ reader_pc = "idle" /\ final
  /\ reader_pc' = "built"
  /\ results' = [j \in JobIds |->
       [min |-> MinValue(buckets[j]), max |-> MaxValue(buckets[j]),
        p |-> [n \in DOMAIN Quantiles |->
                 Percentile(buckets[j], Quantiles[n])]]]
  /\ UNCHANGED <<buckets, recorded, joined, job, q, index, total, cumulative,
                 before, global, answers, totals, final>>

HistogramDone == reader_pc = "built" /\ UNCHANGED histogramVars

HistogramNext == \/ \E j \in JobIds, value \in Latencies : Record(j, value)
        \/ JoinWorkers \/ BeginSnapshot \/ LoadForTotal \/ LoadForScan
        \/ MergeBucket \/ BuildResults \/ HistogramDone

HistogramSpec == HistogramInit /\ [][HistogramNext]_histogramVars

-----------------------------------------------------------------------------
\* The values of a bag that lie in a set.
Count(bag, Within) == SumFunctionOnSet(bag, Latencies \cap Within)

\* How an answer v > 0 relates to the values themselves: p percent of the
\* values recorded at the start are at most v by now, less than p percent of
\* today's were, at the start, below the bucket that v is the bound of, and
\* that bucket holds a value.
Brackets(v, p, old, new) ==
  LET least == IF v = 1 THEN 0 ELSE (v + 1) \div 2
  IN  /\ 100 * Count(new, 0 .. v) >= p * SumFunction(old)
      /\ 100 * Count(old, 0 .. least - 1) < p * SumFunction(new)
      /\ Count(new, least .. v) > 0

\* However the passes of a percentile are interleaved with recording, it names
\* a bucket that holds a value, and it is a percentile of what was recorded
\* when it was asked for and when it was answered, with nothing but the values
\* recorded in between as its error: Percentile's two passes agree.
PercentileBracketed ==
  [][\A j \in JobIds, n \in DOMAIN Quantiles :
       reader_pc \in {"total", "scan"} /\ job = j /\ q = n
         /\ <<reader_pc, q>>' # <<reader_pc, q>> /\ reader_pc' # "scan"
       => LET v == answers'[j][n]
          IN  IF v = 0 THEN SumFunction(before) = 0
              ELSE Brackets(v, Quantiles[n], before, recorded[j])]_histogramVars

\* test_metrics_aggregator.cpp:324: what BuildResults reports is ordered,
\* min <= p50 <= p95 <= p99 and p99 <= max; it encloses every value, and it
\* is what the last snapshot has shown.  The total of that snapshot summarises
\* the jobs: each of its percentiles lies between the smallest and the largest
\* of the jobs that did any I/O.
ResultsOrdered ==
  reader_pc = "built" =>
    /\ \A j \in JobIds :
         LET r == results[j]
         IN  /\ r.min <= r.p[1] /\ r.p[1] <= r.p[2]
             /\ r.p[2] <= r.p[3] /\ r.p[3] <= r.max
             /\ Count(recorded[j], r.min .. r.max) = SumFunction(recorded[j])
             /\ r.p = answers[j]
    /\ \A n \in DOMAIN Quantiles :
         LET p == {answers[j][n] : j \in JobIds} \ {0}
         IN  IF p = {} THEN totals[n] = 0 ELSE totals[n] \in Min(p) .. Max(p)
=============================================================================

---------------------------- MODULE MetricHistory ----------------------------
(***************************************************************************)
(* The graphs of a target: getTargetHistory (targets.service.ts) puts the  *)
(* readings of a range into time buckets, [id].vue picks the series of     *)
(* each metric's chart and MetricChart.vue lays their points on one slot   *)
(* per bucket, between axes that fit them and the thresholds.  Times are   *)
(* in milliseconds since the epoch.  A point holds the readings whose      *)
(* average and maximum it gives, and the empty set is a gap in the line.   *)
(***************************************************************************)
EXTENDS Integers, FiniteSets

CONSTANTS MetricNames, Interfaces,
          Host,             \* the series of a metric that is not per device
          Null              \* no threshold, no data

HistoryRange == {"1h", "6h", "24h", "7d"}

Span == [range \in HistoryRange |->
            CASE range = "1h"  -> 3600000
              [] range = "6h"  -> 21600000
              [] range = "24h" -> 86400000
              [] range = "7d"  -> 604800000]

Bucket == [range \in HistoryRange |->
            CASE range = "1h"  -> 60000
              [] range = "6h"  -> 120000
              [] range = "24h" -> 300000
              [] range = "7d"  -> 1800000]

Series == MetricNames \X (Interfaces \cup {Host})

\* A row of metric_readings of the target.  The agent may send recorded_at.
Reading == [id : Nat, series : Series, at : Nat, value : Int]

BucketStart(time, bucket) == (time \div bucket) * bucket

-----------------------------------------------------------------------------
(* The API. *)

\* The rows the query selects, `asked' being the database's now().
Selected(readings, range, asked) == {r \in readings : r.at >= asked - Span[range]}

\* The points of a series, by the start of their bucket.
Points(readings, range, asked, series) ==
    LET own == {r \in Selected(readings, range, asked) : r.series = series}
    IN [t \in {BucketStart(r.at, Bucket[range]) : r \in own} |->
           {r \in own : BucketStart(r.at, Bucket[range]) = t}]

\* The answer.  Its ends are two later readings of the server's clock.
History(readings, range, asked, answered, ended) ==
    [range |-> range, bucket |-> Bucket[range],
     from |-> answered - Span[range], to |-> ended,
     metrics |-> [series \in {r.series : r \in Selected(readings, range, asked)} |->
                     Points(readings, range, asked, series)]]

-----------------------------------------------------------------------------
(* The page. *)

\* The range in the URL; the API refuses any other.
ShownRange(query) == IF query \in HistoryRange THEN query ELSE "1h"

\* The series of a metric's chart: an interface is of one kind, and a metric
\* without a kind is the host's.
Sources(metric, kindOf, monitored, deviceKind) ==
    IF deviceKind[metric] = Host THEN {Host}
    ELSE {i \in monitored : kindOf[i] = deviceKind[metric]}

Drawn(history, metric, sources) ==
    {<<metric, source>> : source \in {i \in sources : <<metric, i>> \in DOMAIN history.metrics}}

\* One slot per bucket across the whole range.
Slots(history) ==
    LET first == BucketStart(history.from, history.bucket)
    IN {first + k * history.bucket : k \in 0 .. (history.to - first) \div history.bucket}

\* "Buckets without readings stay null, so the line breaks at an outage
\* instead of bridging it."
Line(history, series) ==
    LET points == history.metrics[series]
    IN [t \in Slots(history) |-> IF t \in DOMAIN points THEN points[t] ELSE {}]

Lower(a, b) == IF a = Null THEN b ELSE IF b = Null \/ a <= b THEN a ELSE b
Higher(a, b) == IF a = Null THEN b ELSE IF b = Null \/ a >= b THEN a ELSE b

\* The ends of the vertical axis, in twentieths: "Fits the data and the
\* threshold lines, so the lines are always visible."
YRange(warning, critical, dataMin, dataMax) ==
    LET low == Lower(0, Lower(Lower(warning, critical), Lower(dataMin, dataMax)))
        high == Higher(Higher(warning, critical), Higher(dataMin, dataMax))
    IN IF high = Null THEN [from |-> 0, to |-> 20]
       ELSE [from |-> 20 * low, to |-> IF high = low THEN 20 * (low + 1) ELSE 21 * high]

Visible(value, axis) == axis.from <= 20 * value /\ 20 * value <= axis.to
=============================================================================

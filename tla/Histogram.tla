----------------------------- MODULE Histogram -----------------------------
(***************************************************************************)
(* The ring of latency samples (internal/metrics/histogram.go).  Record is *)
(* called at the end of every request, Percentiles by GET /metrics at the  *)
(* same time: it copies the samples under the read lock and computes on    *)
(* the copy after it has released the lock.                                *)
(*                                                                         *)
(* Samples are whole milliseconds.  The code computes a rank with float64, *)
(* which for the percentages and ring sizes in use gives the same integer. *)
(***************************************************************************)
EXTENDS Integers, Sequences, SequencesExt, FiniteSetsExt

CONSTANTS
  RingSize,    \* ringSize (10000)
  Durations,   \* the durations of requests, in microseconds
  Usual,       \* the duration of most of them
  MaxRecords,  \* bound: calls of Record
  UnusualAt,   \* bound: the calls of Record that may have another duration
  MaxLag       \* bound: calls of Record while a Percentiles computes

ASSUME HistogramAssumption ==
  /\ RingSize \in Nat \ {0}
  /\ Durations \subseteq Nat /\ Usual \in Durations
  /\ MaxRecords \in Nat /\ UnusualAt \subseteq Nat /\ MaxLag \in Nat

VARIABLES
  samples,   \* the ring
  head,      \* where the next sample goes
  count,     \* how many samples the ring holds
  snapshot,  \* the copy a call of Percentiles works on
  answer,    \* what the last call of Percentiles returned
  reader,    \* where Percentiles is
  recorded,  \* history: the samples of every Record, in order
  copied     \* history: how many of them there were when the copy was made

vars == <<samples, head, count, snapshot, answer, reader, recorded, copied>>

Positions == 0 .. RingSize - 1

Percents == {50, 95, 99}

\* Percentiles{}
ZeroPercentiles == [p \in Percents |-> 0]

-----------------------------------------------------------------------------
\* Duration.Milliseconds drops the fraction.
Milliseconds(d) == d \div 1000

StoppedHead(i) ==   \* mutant: a full ring keeps overwriting its last sample
  IF i + 1 < RingSize THEN i + 1 ELSE i

UnwrappedHead(i) == i + 1   \* mutant: the head leaves the ring

NextHead(i) == (i + 1) % RingSize

WithinBounds(d) ==
  /\ Len(recorded) < MaxRecords
  /\ d # Usual => Len(recorded) + 1 \in UnusualAt
  /\ reader = "copied" => Len(recorded) < copied + MaxLag

Record(d) ==
  /\ WithinBounds(d)
  /\ samples' = [samples EXCEPT ![head] = Milliseconds(d)]
  /\ head' = NextHead(head)
  /\ count' = IF count < RingSize THEN count + 1 ELSE count
  /\ recorded' = Append(recorded, Milliseconds(d))
  /\ UNCHANGED <<snapshot, answer, reader, copied>>

\* Percentiles, up to RUnlock.
Snapshot ==
  /\ reader # "copied"
  /\ snapshot' = [i \in 1 .. count |-> samples[i - 1]]
  /\ reader' = "copied"
  /\ copied' = Len(recorded)
  /\ UNCHANGED <<samples, head, count, answer, recorded>>

Below(s, x) == Cardinality({i \in DOMAIN s : s[i] < x})

AtMost(s, x) == Cardinality({i \in DOMAIN s : s[i] <= x})

\* sort.Float64s: fewer than i of the samples are less than the i-th of the result,
\* and at least i are not greater.
InOrder(s) ==
  [i \in DOMAIN s |-> CHOOSE x \in Range(s) : Below(s, x) < i /\ i <= AtMost(s, x)]

SortedInPlace(s) ==   \* mutant: snapshot is a slice of the ring, not a copy
  InOrder([i \in DOMAIN s |-> samples[i - 1]])

Sorted(s) == InOrder(s)

\* ceil(p / 100 * n), the position from 1 of percentile p of n sorted samples.
Rank(p, n) == (p * n + 99) \div 100

\* The rest of Percentiles.
Answer ==
  /\ reader = "copied"
  /\ answer' = IF snapshot = <<>> THEN ZeroPercentiles
               ELSE [p \in Percents |-> Sorted(snapshot)[Rank(p, Len(snapshot))]]
  /\ reader' = "answered"
  /\ UNCHANGED <<samples, head, count, snapshot, recorded, copied>>

-----------------------------------------------------------------------------
Init ==
  /\ samples = [i \in Positions |-> 0] /\ head = 0 /\ count = 0
  /\ snapshot = <<>> /\ answer = ZeroPercentiles /\ reader = "idle"
  /\ recorded = <<>> /\ copied = 0

Next ==
  \/ \E d \in Durations : Record(d)
  \/ Snapshot \/ Answer

Spec == Init /\ [][Next]_vars
=============================================================================

------------------------ MODULE HistogramProperties ------------------------
(***************************************************************************)
(* What the latency histogram guarantees.                                  *)
(***************************************************************************)
EXTENDS Histogram

\* Types: the ring, its indices and the copy are what the code can make them.
TypeOK ==
  /\ samples \in [Positions -> Nat]
  /\ head \in Positions /\ count \in 0 .. RingSize
  /\ snapshot \in Seq(Nat) /\ Len(snapshot) <= RingSize
  /\ answer \in [Percents -> Nat]
  /\ reader \in {"idle", "copied", "answered"}
  /\ recorded \in Seq(Nat) /\ copied \in 0 .. Len(recorded)

\* The samples in the ring after n calls of Record, by the definition.
Window(n) == SubSeq(recorded, Max({0, n - RingSize}) + 1, n)

Occurrences(s, x) == Cardinality({i \in DOMAIN s : s[i] = x})

\* The ring holds exactly the last RingSize samples, in whatever order, before
\* and after it wraps (histogram.go:54-58).
RingHoldsLatest ==
  LET ring   == [i \in 1 .. count |-> samples[i - 1]]
      window == Window(Len(recorded))
  IN  \A x \in Range(ring) \cup Range(window) :
        Occurrences(ring, x) = Occurrences(window, x)

\* The nearest-rank percentile: the least sample that at least p percent of the
\* samples do not exceed.
Percentile(s, p) == Min({x \in Range(s) : 100 * AtMost(s, x) >= p * Len(s)})

\* GET /metrics reports the percentiles of the samples that were in the ring at
\* one moment of the call, whatever is recorded while it computes
\* (histogram.go:61-83).
PercentilesOfAMoment ==
  reader = "answered" =>
    IF copied = 0 THEN answer = ZeroPercentiles
    ELSE \A p \in Percents : answer[p] = Percentile(Window(copied), p)
=============================================================================

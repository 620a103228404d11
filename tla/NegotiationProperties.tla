----------------------- MODULE NegotiationProperties -----------------------
(***************************************************************************)
(* What the handlers' judgement of a header means.                         *)
(***************************************************************************)
EXTENDS Negotiation

\* Types: the loop stays in the header until it has judged it.
TypeOK ==
  /\ handler \in {"GetValue", "GetMetrics", "SetValue"}
  /\ header \in Header(handler)
  /\ position \in 1 .. Len(header) + 1
  /\ verdict \in {"none", "accepted", "missing", "malformed", "type", "charset"}

\* What the client said is compatible with text in UTF-8 of the served type.
Included ==
  \E m \in Range(header) :
    \/ m.type = "any"
    \/ m.type = "served" /\ m.charset # "other"

\* A request that is served accepts, or declares, what the handler serves
\* (get_value.go:33-77, get_metrics.go:33-79, set_value.go:33-75).
AcceptedIsAcceptable ==
  verdict = "accepted" =>
    IF handler = "SetValue" THEN Included /\ Last(header).type = "served"
    ELSE header = <<>> \/ Included

\* A handler that complains of the media type was not offered its own, nor */*
\* (get_metrics.go:73-78, set_value.go:55-62).
RefusedType(h) ==
  handler = h /\ verdict = "type" =>
    \A m \in Range(header) :
      m.type # "served" /\ (m.type = "any" => handler = "SetValue")

\* GET /metrics and PUT refuse a type only when theirs is not in the header,
\* wherever in a list it stands (GET /kv/{key} does not hold to this).
RefusalsJustified == RefusedType("GetMetrics") /\ RefusedType("SetValue")
=============================================================================

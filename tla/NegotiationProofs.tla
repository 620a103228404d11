-------------------------- MODULE NegotiationProofs --------------------------
(***************************************************************************)
(* Theorems about Negotiation, for headers of any length.                  *)
(***************************************************************************)
EXTENDS NegotiationProperties, TLAPS

-----------------------------------------------------------------------------
(* The inductive invariant *)

\* The media types that GetValue's loop goes past are served as they are; those
\* that GetMetrics' loop goes past are of other types.
Passed(m) ==
  CASE handler = "GetValue"   -> m.type = "served" /\ IsUTF8(m.charset)
    [] handler = "GetMetrics" -> m.type = "other"
    [] OTHER                  -> FALSE

\* So long as there is no verdict, the loop has gone past all it has looked at.
PassedSoFar ==
  verdict = "none" => \A i \in 1 .. position - 1 : Passed(header[i])

Invariant == TypeOK /\ PassedSoFar /\ AcceptedIsAcceptable /\ RefusalsJustified

-----------------------------------------------------------------------------
\* A header is a sequence of media types; that of a PUT has at most one.
LEMMA HeaderIsSequence ==
  ASSUME TypeOK
  PROVE  /\ header \in Seq(MediaType) /\ Len(header) \in Nat
         /\ DOMAIN header = 1 .. Len(header)
         /\ \A i \in 1 .. Len(header) : header[i] \in MediaType
         /\ handler = "SetValue" => Len(header) <= 1
<1>1. CASE handler = "SetValue"
  <2>1. header = <<>> \/ \E m \in MediaType : header = <<m>>
    BY <1>1 DEF TypeOK, Header
  <2>2. CASE header = <<>>
    BY <2>2
  <2>3. ASSUME NEW m \in MediaType, header = <<m>>
        PROVE  /\ header \in Seq(MediaType) /\ Len(header) = 1
               /\ DOMAIN header = 1 .. 1 /\ header[1] \in MediaType
    BY <2>3
  <2> QED
    BY <2>1, <2>2, <2>3
<1>2. CASE handler # "SetValue"
  <2>1. PICK n \in 0 .. MaxParts : header \in [1 .. n -> MediaType]
    BY <1>2 DEF TypeOK, Header
  <2>2. n \in Nat
    BY <2>1, NegotiationAssumption
  <2>3. header \in Seq(MediaType)
    BY <2>1, <2>2
  <2>4. Len(header) = n /\ DOMAIN header = 1 .. n
    BY <2>1, <2>2, <2>3
  <2> QED
    BY <1>2, <2>1, <2>2, <2>3, <2>4
<1> QED
  BY <1>1, <1>2

\* What Range and Last say of a header.
LEMMA PartsOfHeader ==
  ASSUME TypeOK
  PROVE  /\ Range(header) = {header[i] : i \in 1 .. Len(header)}
         /\ header # <<>> => /\ Len(header) >= 1
                             /\ Last(header) = header[Len(header)]
BY HeaderIsSequence DEF Range, Last

\* A round of a loop keeps the types.
LEMMA TypeStep == ASSUME TypeOK, [Next]_vars PROVE TypeOK'
<1> USE HeaderIsSequence DEF TypeOK
<1>1. CASE GetValue
  BY <1>1 DEF GetValue, Judge, NextPart, AtEnd
<1>2. CASE GetMetrics
  BY <1>2 DEF GetMetrics, Judge, NextPart, AtEnd
<1>3. CASE SetValue
  BY <1>3 DEF SetValue, Judge
<1>4. CASE UNCHANGED vars
  BY <1>4 DEF vars
<1> QED
  BY <1>1, <1>2, <1>3, <1>4 DEF Next

\* The loop of GET /kv/{key}: it accepts what it has not refused to the end, or a
\* media type of any kind.
LEMMA GetValueStep ==
  ASSUME Invariant, GetValue
  PROVE  PassedSoFar' /\ AcceptedIsAcceptable' /\ RefusalsJustified'
<1> USE HeaderIsSequence, PartsOfHeader
<1>1. /\ handler = "GetValue" /\ handler' = handler /\ header' = header /\ TypeOK
      /\ verdict = "none" /\ position \in Nat /\ position >= 1
      /\ \A i \in 1 .. position - 1 : Passed(header[i])
  BY DEF Invariant, GetValue, Judge, NextPart, PassedSoFar, TypeOK
<1>2. RefusalsJustified'
  BY <1>1 DEF RefusalsJustified, RefusedType
<1>3. CASE verdict' # "accepted"
  <2>1. PassedSoFar'
    <3>1. CASE verdict' = "none"
      <4>1. Passed(header[position]) /\ position' = position + 1
        BY <1>1, <3>1 DEF GetValue, Judge, NextPart, Passed, Part
      <4>2. \A i \in 1 .. position' - 1 : i \in 1 .. position - 1 \/ i = position
        BY <1>1, <4>1
      <4> QED
        BY <1>1, <4>1, <4>2 DEF PassedSoFar, Passed
    <3> QED
      BY <3>1 DEF PassedSoFar
  <2> QED
    BY <1>2, <1>3, <2>1 DEF AcceptedIsAcceptable
<1>4. CASE verdict' = "accepted"
  <2>1. header = <<>> \/ Included
    <3>1. CASE AtEnd(position) /\ header # <<>>
      <4>1. Len(header) >= 1 /\ 1 \in 1 .. position - 1
        BY <1>1, <3>1 DEF AtEnd
      <4>2. Passed(header[1]) /\ header[1] \in Range(header)
        BY <1>1, <4>1
      <4> QED
        BY <1>1, <4>2 DEF Passed, Included, IsUTF8
    <3>2. CASE ~ AtEnd(position)
      <4>1. Part.type = "any" /\ position \in 1 .. Len(header)
        BY <1>1, <1>4, <3>2 DEF GetValue, Judge, NextPart, AtEnd
      <4> QED
        BY <1>1, <4>1 DEF Included, Part
    <3> QED
      BY <3>1, <3>2
  <2> QED
    BY <1>1, <1>2, <1>4, <2>1 DEF PassedSoFar, AcceptedIsAcceptable, Included
<1> QED
  BY <1>3, <1>4

\* The loop of GET /metrics: the first media type that could be meant decides.
LEMMA GetMetricsStep ==
  ASSUME Invariant, GetMetrics
  PROVE  PassedSoFar' /\ AcceptedIsAcceptable' /\ RefusalsJustified'
<1> USE HeaderIsSequence, PartsOfHeader
<1>1. /\ handler = "GetMetrics" /\ handler' = handler /\ header' = header /\ TypeOK
      /\ verdict = "none" /\ position \in Nat /\ position >= 1
      /\ \A i \in 1 .. position - 1 : header[i].type = "other"
  BY DEF Invariant, GetMetrics, Judge, NextPart, PassedSoFar, TypeOK, Passed
<1>2. CASE AtEnd(position)
  <2>1. \A m \in Range(header) : m.type = "other"
    BY <1>1, <1>2 DEF AtEnd
  <2>2. verdict' = IF header = <<>> THEN "accepted" ELSE "type"
    BY <1>2 DEF GetMetrics, Judge
  <2> QED
    BY <1>1, <2>1, <2>2
       DEF PassedSoFar, AcceptedIsAcceptable, RefusalsJustified, RefusedType
<1>3. CASE ~ AtEnd(position)
  <2>1. position \in 1 .. Len(header) /\ Part = header[position] /\ Part \in Range(header)
    BY <1>1, <1>3 DEF AtEnd, Part
  <2>2. RefusalsJustified' /\ (verdict' = "accepted" => Included)
    BY <1>1, <1>3, <2>1
       DEF GetMetrics, Judge, NextPart, RefusalsJustified, RefusedType, Included
  <2>3. PassedSoFar'
    <3>1. CASE verdict' = "none"
      <4>1. Part.type = "other" /\ position' = position + 1
        BY <1>1, <1>3, <3>1 DEF GetMetrics, Judge, NextPart
      <4>2. \A i \in 1 .. position' - 1 : i \in 1 .. position - 1 \/ i = position
        BY <1>1, <4>1
      <4> QED
        BY <1>1, <2>1, <4>1, <4>2 DEF PassedSoFar, Passed
    <3> QED
      BY <3>1 DEF PassedSoFar
  <2> QED
    BY <1>1, <2>2, <2>3 DEF AcceptedIsAcceptable, Included
<1> QED
  BY <1>2, <1>3

\* PUT has one media type to judge.
LEMMA SetValueStep ==
  ASSUME Invariant, SetValue
  PROVE  PassedSoFar' /\ AcceptedIsAcceptable' /\ RefusalsJustified'
<1> USE HeaderIsSequence, PartsOfHeader
<1>1. /\ handler = "SetValue" /\ handler' = handler /\ header' = header /\ TypeOK
      /\ verdict' # "none"
  BY DEF Invariant, SetValue, Judge
<1>2. CASE header = <<>>
  BY <1>1, <1>2
     DEF SetValue, Judge, PassedSoFar, AcceptedIsAcceptable, RefusalsJustified, RefusedType
<1>3. CASE header # <<>>
  <2>1. Len(header) = 1 /\ Last(header) = header[1] /\ Range(header) = {header[1]}
        /\ header[1] \in MediaType
    BY <1>1, <1>3
  <2>2. /\ verdict' = "accepted" => header[1].type = "served" /\ header[1].charset # "other"
        /\ verdict' = "type" => header[1].type \in {"any", "other"}
    BY <1>1, <1>3, <2>1 DEF SetValue, Judge, IsUTF8, MediaType
  <2> QED
    BY <1>1, <2>1, <2>2
       DEF PassedSoFar, AcceptedIsAcceptable, RefusalsJustified, RefusedType, Included
<1> QED
  BY <1>2, <1>3

\* The invariant is inductive.
LEMMA InvariantStep == Invariant /\ [Next]_vars => Invariant'
<1> SUFFICES ASSUME Invariant, [Next]_vars PROVE Invariant'
  OBVIOUS
<1>1. TypeOK'
  BY TypeStep DEF Invariant
<1>2. CASE UNCHANGED vars
  BY <1>1, <1>2
     DEF vars, Invariant, PassedSoFar, Passed, AcceptedIsAcceptable, Included,
         RefusalsJustified, RefusedType
<1> QED
  BY <1>1, <1>2, GetValueStep, GetMetricsStep, SetValueStep DEF Invariant, Next

\* It holds when a handler begins.
LEMMA InvariantInit == Init => Invariant
<1> SUFFICES ASSUME Init PROVE Invariant
  OBVIOUS
<1>1. Len(header) \in Nat
  <2>1. header = <<>> \/ (\E m \in MediaType : header = <<m>>)
          \/ \E n \in 0 .. MaxParts : header \in [1 .. n -> MediaType]
    BY DEF Init, Header
  <2> QED
    BY <2>1, NegotiationAssumption
<1> QED
  BY <1>1
     DEF Init, Invariant, TypeOK, PassedSoFar, AcceptedIsAcceptable, RefusalsJustified,
         RefusedType

\* The loops stay in the header.
THEOREM TypeCorrect == Spec => []TypeOK
<1>1. Invariant => TypeOK
  BY DEF Invariant
<1> QED
  BY <1>1, InvariantInit, InvariantStep, PTL DEF Spec

\* Whatever the length of the header and the order of its media types, a request
\* that is served accepts, or declares, what the handler serves
\* (get_value.go:33-77, get_metrics.go:33-79, set_value.go:33-75).
THEOREM AcceptedIsOffered == Spec => []AcceptedIsAcceptable
<1>1. Invariant => AcceptedIsAcceptable
  BY DEF Invariant
<1> QED
  BY <1>1, InvariantInit, InvariantStep, PTL DEF Spec

\* GET /metrics and PUT refuse a type only if theirs is nowhere in the header
\* (get_metrics.go:73-78, set_value.go:55-62).
THEOREM RefusedIsElsewhere == Spec => []RefusalsJustified
<1>1. Invariant => RefusalsJustified
  BY DEF Invariant
<1> QED
  BY <1>1, InvariantInit, InvariantStep, PTL DEF Spec
=============================================================================

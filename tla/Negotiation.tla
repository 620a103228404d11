---------------------------- MODULE Negotiation ----------------------------
(***************************************************************************)
(* How the handlers of internal/api judge the Accept header of a GET and   *)
(* the Content-Type of a PUT.  Server only knows that a request may be     *)
(* refused here (RefuseHeader).                                            *)
(*                                                                         *)
(* A header is the sequence of its media types, as mime.ParseMediaType     *)
(* reads them: type and charset, or malformed.                             *)
(***************************************************************************)
EXTENDS Naturals, Sequences, SequencesExt

CONSTANT MaxParts  \* bound: the media types of an Accept header

ASSUME NegotiationAssumption == MaxParts \in Nat \ {0}

VARIABLES
  handler,   \* who reads the header
  header,
  position,  \* the media type the loop is at
  verdict

vars == <<handler, header, position, verdict>>

\* The type is the one the handler serves (text/plain, or application/json for
\* the metrics), */*, or another one.  "UTF-8" has an upper-case letter.
Charset == {"none", "empty", "utf-8", "UTF-8", "other"}

MediaType ==
  [type : {"served"}, charset : Charset]
    \cup [type : {"any", "other", "malformed"}, charset : {"none"}]

\* No header, one media type, or for Accept a list.
Header(h) ==
  IF h = "SetValue" THEN {<<>>} \cup {<<m>> : m \in MediaType}
  ELSE UNION {[1 .. n -> MediaType] : n \in 0 .. MaxParts}

-----------------------------------------------------------------------------
Part == header[position]

SkipsLastPart(p) == p >= Len(header)   \* mutant: the loop ends one part early

AtEnd(p) == p > Len(header)

AnyCharset(charset) == TRUE   \* mutant: the charset is not looked at

\* GET and PUT lower the case of the charset; an empty one is as good as none.
IsUTF8(charset) == charset # "other"

Judge(v) == verdict' = v /\ UNCHANGED <<handler, header, position>>

PartSkipped ==   \* mutant: the loop takes every other part
  position' = position + 2 /\ UNCHANGED <<handler, header, verdict>>

NextPart == position' = position + 1 /\ UNCHANGED <<handler, header, verdict>>

\* A round of the loop of GetValue's validateAcceptHeader: every media type is
\* judged, until one is refused or is */*.
GetValue ==
  /\ handler = "GetValue" /\ verdict = "none"
  /\ IF AtEnd(position) THEN Judge("accepted")
     ELSE \/ Part.type = "malformed" /\ Judge("malformed")
          \/ Part.type = "any" /\ Judge("accepted")
          \/ Part.type = "other" /\ Judge("type")
          \/ /\ Part.type = "served"
             /\ IF IsUTF8(Part.charset) THEN NextPart ELSE Judge("charset")

\* A round of the loop of GetMetrics' validateAcceptHeader: the first media type
\* that is application/json or */* decides.
GetMetrics ==
  /\ handler = "GetMetrics" /\ verdict = "none"
  /\ IF AtEnd(position)
       THEN Judge(IF header = <<>> THEN "accepted" ELSE "type")
       ELSE \/ Part.type = "malformed" /\ Judge("malformed")
            \/ Part.type = "any" /\ Judge("accepted")
            \/ Part.type = "other" /\ NextPart
            \/ /\ Part.type = "served"
               /\ Judge(IF Part.charset \in {"none", "utf-8"} THEN "accepted"
                                                             ELSE "charset")

\* validateContentTypeHeader.
SetValue ==
  /\ handler = "SetValue" /\ verdict = "none"
  /\ Judge(CASE header = <<>>                   -> "missing"
             [] Last(header).type = "malformed" -> "malformed"
             [] Last(header).type \in {"any", "other"} -> "type"
             [] OTHER -> IF IsUTF8(Last(header).charset) THEN "accepted"
                                                         ELSE "charset")

-----------------------------------------------------------------------------
Init ==
  /\ handler \in {"GetValue", "GetMetrics", "SetValue"}
  /\ header \in Header(handler)
  /\ position = 1
  /\ verdict = "none"

Next == GetValue \/ GetMetrics \/ SetValue

Spec == Init /\ [][Next]_vars
=============================================================================

-------------------------- MODULE ServerProperties --------------------------
(***************************************************************************)
(* What the server guarantees.                                             *)
(***************************************************************************)
EXTENDS Server

Stages ==
  {"idle", "sent", "handler", "body", "call", "write", "return", "answered"}

\* Types: the process, its goroutines and the mutex are where the code can be.
TypeOK ==
  /\ main \in {"down", "serving", "draining", "closing"}
  /\ holder \in Connections \cup {Nobody}
  /\ conn \in [Connections ->
       [stage : Stages, request : KVRequest \cup {MetricsRequest},
        answer : [status : {0, 200, 201, 204, 400, 404, 500},
                  content : Values \cup {Empty}]]]
  /\ up \in BOOLEAN
  /\ up <=> main # "down"

Callers == {c \in Connections : conn[c].stage \in {"call", "write"}}

\* The store, which has no lock of its own, is never called by two goroutines
\* at once; the Close of main() is a call, too (main.go:87-102, :138).
StoreHasOneCaller ==
  Cardinality(Callers) + (IF main = "closing" THEN 1 ELSE 0) <= 1

-----------------------------------------------------------------------------
(* The server implements KVService.  A write has reached the map when the map
   holds its content: with the mutex no other write can have put it there since
   the store was called. *)

CallOf(c) ==
  LET q == conn[c]
  IN  IF q.request.op = "metrics" THEN [state |-> "none"]
      ELSE CASE q.stage \in {"sent", "handler", "body", "call"} ->
                  [state |-> "asked", request |-> q.request]
             [] q.stage = "write" ->
                  [state |-> IF kv[q.request.key] = q.request.content
                               THEN "applied" ELSE "asked",
                   request |-> q.request]
             [] q.stage \in {"return", "answered"} ->
                  [state |-> "decided", request |-> q.request, answer |-> q.answer]

CallsNow == [c \in Connections |-> CallOf(c)]

Service == INSTANCE KVService WITH Clients <- Connections, calls <- CallsNow

\* Refinement: concurrent clients see one crash-safe map (main.go:88-94 and the
\* handlers).
ImplementsKVService == Service!Spec

-----------------------------------------------------------------------------
Answered(c, ops) ==
  conn[c].stage = "sent" /\ conn[c].request.op \in ops ~> conn[c] = Idle

\* GET /metrics is answered whatever the requests under /kv/ wait for.
MetricsAnswered == \A c \in Connections : Answered(c, {"metrics"})

\* Every request is answered, if every client that begins a PUT sends its body
\* or goes away (set_value.go:87 reads it with the mutex held).
AnsweredIfBodiesArrive ==
  (\A c \in Connections : conn[c].stage = "body" ~> conn[c].stage # "body")
    => \A c \in Connections : Answered(c, {"get", "put", "delete"})

\* After a signal the process ends, whatever its clients do (main.go:132-140).
ShutdownEnds == main = "draining" ~> main = "down"
=============================================================================

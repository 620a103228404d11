------------------------------ MODULE Handlers ------------------------------
(***************************************************************************)
(* What the HTTP handlers (internal/api) answer to what the store replies. *)
(* The replies are those of KVStore.                                       *)
(***************************************************************************)
CONSTANT Empty  \* a body that holds nothing, or only the text of an error

Answer(status, content) == [status |-> status, content |-> content]

\* A header the handler does not accept.  400 stands for 400, 406 and 415.
Refused == Answer(400, Empty)

\* The body of a PUT could not be read, or the store returned an error.
ServerError == Answer(500, Empty)

\* Only ErrKeyNotFound is looked for: with any other error the value is "".
GetAnswer(reply) ==
  CASE reply.status = "notfound" -> Answer(404, Empty)
    [] reply.status = "found"    -> Answer(200, reply.content)
    [] OTHER                     -> Answer(200, Empty)

IgnoredError(reply) == Answer(201, Empty)   \* mutant: the error is not tested

SetAnswer(reply) ==
  IF reply.status = "error" THEN ServerError ELSE Answer(201, Empty)

DeleteAnswer(reply) ==
  IF reply.status = "error" THEN ServerError ELSE Answer(204, Empty)
=============================================================================

----------------------------- MODULE KVService -----------------------------
(***************************************************************************)
(* What the server promises its clients, who call it concurrently: every   *)
(* call takes effect at one moment between its request and its answer, on  *)
(* one map; what was acknowledged outlives every stop.  Clients know       *)
(* nothing of the mutex, of the order of the handlers or of the store.     *)
(***************************************************************************)
EXTENDS Handlers

CONSTANTS
  Clients, Keys, Values,
  Absent     \* the content of a key that was never set, or was deleted

VARIABLES
  calls,     \* the call of every client
  kv,        \* the map
  outcomes   \* the maps that a stop may leave in its place

vars == <<calls, kv, outcomes>>

Request == [op : {"get", "delete"}, key : Keys, content : {Absent}]
             \cup [op : {"put"}, key : Keys, content : Values]

NoCall == [state |-> "none"]

Init ==
  /\ calls = [c \in Clients |-> NoCall]
  /\ kv = [k \in Keys |-> Absent]
  /\ outcomes = {kv}

-----------------------------------------------------------------------------
Open == {"asked", "applied"}

Writes == {c \in Clients : calls[c].state \in Open /\ calls[c].request.op # "get"}

After(map, r) == [map EXCEPT ![r.key] = r.content]

\* Some of the maps are the outcomes from now on.
SomeOf(maps) == outcomes' \in (SUBSET maps) \ {{}}

\* Any write in progress may reach the disk at any moment.
OutcomesMove ==
  LET before == outcomes \cup {kv}
  IN  SomeOf(before \cup
              {After(map, calls[c].request) : map \in before, c \in Writes})

Become(c, call) == calls' = [calls EXCEPT ![c] = call]

Decided(c, answer) ==
  Become(c, [state |-> "decided", request |-> calls[c].request, answer |-> answer])

\* A call reaches the map once.
ApplyOnce(c) ==
  kv' = IF calls[c].state = "applied" THEN kv ELSE After(kv, calls[c].request)

\* An acknowledged write is in every map that a stop may leave, unless another
\* write of the same key, still in progress, has taken its place.
Lasting(c) ==
  LET r == calls[c].request
  IN  \A map \in {kv'} \cup outcomes' :
        map[r.key] \in {r.content} \cup
          {calls[d].request.content :
             d \in {x \in Writes \ {c} : calls[x].request.key = r.key}}

-----------------------------------------------------------------------------
Ask(c, r) ==
  /\ calls[c] = NoCall
  /\ Become(c, [state |-> "asked", request |-> r])
  /\ UNCHANGED <<kv, outcomes>>

Effect(c) ==
  /\ c \in Writes /\ calls[c].state = "asked"
  /\ Become(c, [calls[c] EXCEPT !.state = "applied"])
  /\ ApplyOnce(c)
  /\ OutcomesMove

Background ==
  /\ UNCHANGED <<calls, kv>>
  /\ OutcomesMove

Succeed(c) ==
  /\ c \in Writes
  /\ Decided(c, Answer(IF calls[c].request.op = "put" THEN 201 ELSE 204, Empty))
  /\ ApplyOnce(c)
  /\ OutcomesMove
  /\ Lasting(c)

\* The write may have happened, may still happen at a restart, or never.
Fail(c) ==
  /\ c \in Writes
  /\ Decided(c, ServerError)
  /\ ApplyOnce(c) \/ UNCHANGED kv
  /\ OutcomesMove

\* 200 without a body says nothing: the handler answers so for a deleted key and
\* for an error, too.
Read(c) ==
  /\ calls[c].state = "asked" /\ calls[c].request.op = "get"
  /\ LET content == kv[calls[c].request.key]
     IN  \/ Decided(c, Answer(200, Empty))
         \/ Decided(c, IF content = Absent THEN Answer(404, Empty)
                                           ELSE Answer(200, content))
  /\ UNCHANGED <<kv, outcomes>>

Refuse(c) ==
  /\ calls[c].state = "asked"
  /\ Decided(c, Refused)
  /\ UNCHANGED <<kv, outcomes>>

Return(c) ==
  /\ calls[c].state = "decided"
  /\ Become(c, NoCall)
  /\ UNCHANGED <<kv, outcomes>>

\* The server or the machine stops; no call of before takes effect afterwards.
Stop ==
  /\ calls' = [c \in Clients |-> NoCall]
  /\ kv' \in outcomes
  /\ SomeOf(outcomes)

Next ==
  \/ \E c \in Clients :
       \/ \E r \in Request : Ask(c, r)
       \/ Effect(c) \/ Succeed(c) \/ Fail(c)
       \/ Read(c) \/ Refuse(c) \/ Return(c)
  \/ Background \/ Stop

Spec == Init /\ [][Next]_vars
=============================================================================

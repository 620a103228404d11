---------------------------- MODULE ServerProofs ----------------------------
(***************************************************************************)
(* Theorems about Server, for every set of connections, keys and values.   *)
(***************************************************************************)
EXTENDS ServerProperties, FiniteSetTheorems, TLAPS

-----------------------------------------------------------------------------
(* The inductive invariant *)

\* What the store holds.
Maps == [Keys -> Values \cup {Absent}]

StoreType ==
  /\ kv \in Maps
  /\ outcomes \subseteq Maps /\ outcomes # {}

\* Where a handler that holds the mutex can be.
Critical == {"handler", "body", "call", "write", "return"}

InStore(c) == conn[c].stage \in Critical /\ SingleThreaded(conn[c].request)

\* A handler under /kv/ that runs holds the mutex; the others never come near the
\* store; a goroutine without a request is idle.
MutexHeld ==
  \A c \in Connections :
    /\ InStore(c) => holder = c
    /\ conn[c].stage \in {"body", "call", "write"} => SingleThreaded(conn[c].request)
    /\ conn[c].stage = "body" => conn[c].request.op = "put"
    /\ conn[c].stage = "idle" => conn[c] = Idle

\* The store works on the write of the connection that called it.
Writing ==
  /\ \A c \in Connections :
       conn[c].stage = "write" =>
         /\ pending = [key |-> conn[c].request.key, content |-> conn[c].request.content]
         /\ conn[c].request.op # "get"
  /\ pending # NoWrite => \E c \in Connections : conn[c].stage = "write"

\* When main() closes the store, no goroutine has a request.
ClosedIdle == main \in {"closing", "down"} => Drained

Invariant == TypeOK /\ StoreType /\ MutexHeld /\ Writing /\ ClosedIdle

-----------------------------------------------------------------------------
(* The types *)

\* What the handlers can answer.
Answers == [status : {0, 200, 201, 204, 400, 404, 500}, content : Values \cup {Empty}]

Requests == KVRequest \cup {MetricsRequest}

Calls == [stage : Stages, request : Requests, answer : Answers]

\* The types of the goroutines.
LEMMA IdleType == Idle \in Calls
BY DEF Idle, Calls, Stages, Requests, Answers, NoAnswer, Answer

\* A goroutine that moves on, or that replies.
LEMMA EnterType ==
  ASSUME conn \in [Connections -> Calls], NEW c \in Connections
  PROVE  /\ \A stage \in Stages : Enter(c, stage) => conn' \in [Connections -> Calls]
         /\ \A answer \in Answers : Reply(c, answer) => conn' \in [Connections -> Calls]
BY DEF Enter, Reply, Calls, Stages

\* The fixed answers.
LEMMA AnswerTypes ==
  /\ Refused \in Answers /\ ServerError \in Answers
  /\ \A status \in {200, 201, 204, 404} : Answer(status, Empty) \in Answers
  /\ \A v \in Values : Answer(200, v) \in Answers
BY DEF Refused, ServerError, Answer, Answers

\* The operations of a request.
LEMMA RequestTypes ==
  ASSUME NEW r \in Requests
  PROVE  /\ r.op \in {"get", "put", "delete", "metrics"}
         /\ SingleThreaded(r) <=> r.op # "metrics"
         /\ SingleThreaded(r) => /\ r \in KVRequest /\ r.key \in Keys
                                 /\ r.content \in Values \cup {Absent}
BY DEF Requests, KVRequest, MetricsRequest, SingleThreaded

\* The store's own steps keep its types.
LEMMA StoreTypes ==
  ASSUME StoreType
  PROVE  /\ UNCHANGED <<kv, outcomes>> => StoreType'
         /\ Store!Crash => StoreType'
         /\ Store!Progress /\ pending.content \in Values \cup {Absent} => StoreType'
<1>1. UNCHANGED <<kv, outcomes>> => StoreType'
  BY DEF StoreType
<1>2. Store!Crash => StoreType'
  BY DEF StoreType, Store!Crash, Store!SomeOf
<1>3. ASSUME Store!Progress, pending.content \in Values \cup {Absent}
      PROVE  StoreType'
  <2>1. \A map \in Maps : Store!Written(map) \in Maps
    BY <1>3 DEF Maps, Store!Written
  <2> DEFINE before == outcomes \cup {kv}
  <2>2. before \subseteq Maps
    BY DEF StoreType
  <2>3. /\ kv' \in {kv, Store!Written(kv)} /\ outcomes' # {}
        /\ outcomes' \subseteq before \cup {Store!Written(map) : map \in before}
    BY <1>3 DEF Store!Progress, Store!SomeOf
  <2> QED
    BY <2>1, <2>2, <2>3 DEF StoreType
<1> QED
  BY <1>1, <1>2, <1>3

\* The steps of one connection.
StepOf(c) == Client(c) \/ Lock(c) \/ Handle(c)

\* What a goroutine does, it does where its handler is.
LEMMA ConnectionType ==
  ASSUME Invariant, NEW c \in Connections, StepOf(c)
  PROVE  /\ conn' \in [Connections -> Calls]
         /\ holder' \in Connections \cup {Nobody}
         /\ main' = main /\ up' = up /\ StoreType'
         /\ \A d \in Connections \ {c} : conn'[d] = conn[d]
<1> USE DEF Invariant
<1>1. conn \in [Connections -> Calls] /\ holder \in Connections \cup {Nobody}
  BY DEF TypeOK, Calls, Requests, Answers
<1>2. conn[c].request \in Requests /\ conn[c] \in Calls
  BY <1>1 DEF Calls
<1>3. ASSUME NEW r \in Requests, Arrive(c, r)
      PROVE  /\ conn' \in [Connections -> Calls]
             /\ \A d \in Connections \ {c} : conn'[d] = conn[d]
  BY <1>1, <1>3 DEF Arrive, Calls, Stages
<1>4. CASE Get(c)
  <2>1. StoreType' /\ up' = up
    BY <1>4, StoreTypes DEF Get, Store!Read, Store!ReadFails
  <2>2. GetAnswer(reply') \in Answers
    <3>1. conn[c].request.key \in Keys
      BY <1>2, <1>4, RequestTypes DEF Get, At
    <3>2. kv[conn[c].request.key] \in Values \cup {Absent}
      BY <3>1 DEF StoreType, Maps
    <3>3. reply'.status = "found" => reply'.content \in Values
      BY <1>4, <3>2 DEF Get, Store!Read, Store!ReadFails, Store!Failure
    <3> QED
      BY <3>3, AnswerTypes DEF GetAnswer
  <2> QED
    BY <1>1, <1>4, <2>1, <2>2, EnterType DEF Get, Reply
<1>5. CASE BeginWrite(c)
  BY <1>1, <1>5, EnterType, StoreTypes DEF BeginWrite, Enter, Stages, Store!Begin
<1>6. CASE EndWrite(c)
  <2>1. StoreType' /\ up' = up
    <3>1. Store!Progress /\ up' = up
      BY <1>6 DEF EndWrite, Store!Acknowledge, Store!Reject
    <3>2. pending.content \in Values \cup {Absent}
      BY <1>2, <1>6, RequestTypes DEF EndWrite, Writing, MutexHeld
    <3> QED
      BY <3>1, <3>2, StoreTypes
  <2>2. SetAnswer(reply') \in Answers /\ DeleteAnswer(reply') \in Answers
    BY AnswerTypes DEF SetAnswer, DeleteAnswer
  <2> QED
    BY <1>1, <1>6, <2>1, <2>2, EnterType DEF EndWrite, Reply
<1>7. CASE RefuseHeader(c) \/ BodyFails(c) \/ Metrics(c)
  BY <1>1, <1>7, EnterType, AnswerTypes, StoreTypes
     DEF RefuseHeader, BodyFails, Metrics, Reply, storeVars
<1>8. CASE ReadBody(c) \/ BodyArrives(c) \/ CallStore(c)
  BY <1>1, <1>8, EnterType, StoreTypes
     DEF ReadBody, BodyArrives, CallStore, Enter, Stages, storeVars
<1>9. CASE Lock(c) \/ Unlock(c)
  BY <1>1, <1>9, EnterType, StoreTypes
     DEF Lock, Unlock, Enter, Stages, storeVars, HolderAfter
<1>10. CASE Finish(c)
  BY <1>1, <1>10, IdleType, StoreTypes DEF Finish, storeVars
<1>11. CASE \E r \in Requests : Arrive(c, r)
  BY <1>1, <1>3, <1>11, StoreTypes DEF Arrive, storeVars
<1> QED
  BY <1>4, <1>5, <1>6, <1>7, <1>8, <1>9, <1>10, <1>11
     DEF StepOf, Client, Handle, Requests

\* Every step keeps the types.
LEMMA TypeStep ==
  ASSUME Invariant, [Next]_vars
  PROVE  TypeOK' /\ StoreType'
<1> USE DEF Invariant
<1>1. CASE UNCHANGED vars
  BY <1>1 DEF vars, storeVars, TypeOK, StoreType
<1>2. CASE \E c \in Connections : StepOf(c)
  <2>1. /\ conn' \in [Connections -> Calls] /\ holder' \in Connections \cup {Nobody}
        /\ main' = main /\ up' = up /\ StoreType'
    BY <1>2, ConnectionType
  <2> QED
    BY <2>1 DEF TypeOK, Calls, Requests, Answers
<1>3. CASE Write
  <2>1. PICK c \in Connections : conn[c].stage = "write"
    BY <1>3 DEF Write, Store!Advance, Store!Progress, Writing
  <2>2. pending.content \in Values \cup {Absent}
    BY <2>1, RequestTypes DEF TypeOK, Requests, Writing, MutexHeld
  <2>3. StoreType' /\ up' = up
    BY <1>3, <2>2, StoreTypes DEF Write, Store!Advance
  <2> QED
    BY <1>3, <2>3 DEF Write, TypeOK
<1>4. CASE Start \/ Signal \/ ShutDown
  <2>1. UNCHANGED <<holder, conn, kv, outcomes>>
    BY <1>4 DEF Start, Signal, ShutDown, Store!Start, storeVars
  <2>2. /\ main' \in {"serving", "draining", "closing"}
        /\ up' = TRUE
    BY <1>4 DEF Start, Signal, ShutDown, Store!Start, storeVars, TypeOK
  <2> QED
    BY <2>1, <2>2, StoreTypes DEF TypeOK
<1>5. CASE Exit
  <2>1. conn' \in [Connections -> Calls]
    BY <1>5, IdleType DEF Exit
  <2>2. StoreType' /\ up' = FALSE /\ main' = "down" /\ holder' = Nobody
    BY <1>5, StoreTypes DEF Exit, Store!Crash
  <2> QED
    BY <2>1, <2>2 DEF TypeOK, Calls, Requests, Answers
<1> QED
  BY <1>1, <1>2, <1>3, <1>4, <1>5 DEF Next, StepOf, Main, Close, Deadline, Crash

-----------------------------------------------------------------------------
(* The mutex *)

\* Where a connection is after it moved or replied.
LEMMA Moves ==
  ASSUME TypeOK, NEW c \in Connections
  PROVE  /\ \A stage : Enter(c, stage) =>
              /\ conn'[c].stage = stage /\ conn'[c].request = conn[c].request
              /\ conn'[c].answer = conn[c].answer
              /\ \A d \in Connections \ {c} : conn'[d] = conn[d]
         /\ \A answer : Reply(c, answer) =>
              /\ conn'[c].stage = "return" /\ conn'[c].request = conn[c].request
              /\ conn'[c].answer = answer
              /\ \A d \in Connections \ {c} : conn'[d] = conn[d]
BY DEF TypeOK, Enter, Reply

\* A connection that holds the mutex is the only one to do so.
LEMMA OneHolder ==
  ASSUME Invariant, NEW c \in Connections, InStore(c), NEW d \in Connections, InStore(d)
  PROVE  c = d
BY DEF Invariant, MutexHeld

\* The steps of a connection keep what the mutex is for: it is locked before a
\* handler under /kv/ runs and unlocked after.
LEMMA MutexOfConnection ==
  ASSUME Invariant, NEW c \in Connections, StepOf(c)
  PROVE  MutexHeld'
<1> USE DEF Invariant
<1>0. /\ conn[c].request \in Requests /\ TypeOK /\ Nobody \notin Connections
      /\ \A d \in Connections \ {c} : conn'[d] = conn[d]
  BY ConnectionType, ServerAssumption DEF TypeOK, Requests
<1>1. ASSUME NEW d \in Connections \ {c}
      PROVE  /\ InStore(d)' => holder' = d
             /\ conn'[d].stage \in {"body", "call", "write"} =>
                  SingleThreaded(conn'[d].request)
             /\ conn'[d].stage = "body" => conn'[d].request.op = "put"
             /\ conn'[d].stage = "idle" => conn'[d] = Idle
  <2>1. conn'[d] = conn[d]
    BY <1>0, <1>1
  <2>2. CASE holder' = holder
    BY <2>1, <2>2 DEF MutexHeld, InStore
  <2>3. CASE Lock(c)
    BY <1>0, <2>1, <2>3 DEF MutexHeld, InStore, Lock, Free
  <2>4. CASE Unlock(c)
    BY <1>0, <2>1, <2>4 DEF MutexHeld, InStore, Unlock, Critical
  <2> QED
    BY <2>2, <2>3, <2>4 DEF StepOf, Client, Handle, Arrive, BodyArrives, BodyFails,
       RefuseHeader, ReadBody, CallStore, Metrics, Get, BeginWrite, EndWrite, Finish
<1>2. /\ InStore(c)' => holder' = c
      /\ conn'[c].stage \in {"body", "call", "write"} => SingleThreaded(conn'[c].request)
      /\ conn'[c].stage = "body" => conn'[c].request.op = "put"
      /\ conn'[c].stage = "idle" => conn'[c] = Idle
  <2>1. CASE Client(c)
    <3>1. CASE \E r \in Requests : Arrive(c, r)
      BY <1>0, <3>1 DEF Arrive, TypeOK, InStore, Critical
    <3>2. CASE BodyArrives(c) \/ BodyFails(c)
      BY <1>0, <3>2, Moves DEF BodyArrives, BodyFails, MutexHeld, InStore, Critical
    <3> QED
      BY <2>1, <3>1, <3>2 DEF Client, Requests
  <2>2. CASE Lock(c)
    BY <1>0, <2>2, Moves DEF Lock, InStore, Critical
  <2>3. CASE RefuseHeader(c) \/ ReadBody(c) \/ CallStore(c) \/ Metrics(c)
    <3>1. /\ conn[c].stage = "handler" /\ holder' = holder
          /\ conn'[c].stage \in {"body", "call"} => conn[c].request.op # "metrics"
          /\ conn'[c].stage = "body" => conn[c].request.op = "put"
          /\ conn'[c].stage \in {"body", "call", "return"}
          /\ conn'[c].request = conn[c].request
      BY <1>0, <2>3, Moves DEF RefuseHeader, ReadBody, CallStore, Metrics, At
    <3> QED
      BY <1>0, <3>1, RequestTypes DEF MutexHeld, InStore, Critical
  <2>4. CASE Get(c) \/ BeginWrite(c) \/ EndWrite(c)
    <3>1. /\ conn[c].stage \in {"call", "write"} /\ holder' = holder
          /\ conn'[c].stage \in {"write", "return"}
          /\ conn'[c].request = conn[c].request
      BY <1>0, <2>4, Moves DEF Get, BeginWrite, EndWrite, At
    <3> QED
      BY <1>0, <3>1 DEF MutexHeld, InStore, Critical
  <2>5. CASE Unlock(c)
    BY <1>0, <2>5, Moves DEF Unlock, InStore, Critical
  <2>6. CASE Finish(c)
    BY <1>0, <2>6 DEF Finish, TypeOK, Idle, InStore, Critical
  <2> QED
    BY <2>1, <2>2, <2>3, <2>4, <2>5, <2>6 DEF StepOf, Handle
<1> QED
  BY <1>1, <1>2 DEF MutexHeld, InStore

\* Every step does.
LEMMA MutexStep ==
  ASSUME Invariant, [Next]_vars
  PROVE  MutexHeld'
<1>1. CASE \E c \in Connections : StepOf(c)
  BY <1>1, MutexOfConnection
<1>2. CASE Write \/ Start \/ Signal \/ ShutDown \/ UNCHANGED vars
  BY <1>2 DEF Write, Start, Signal, ShutDown, vars, Invariant, MutexHeld, InStore
<1>3. CASE Exit
  BY <1>3 DEF Exit, MutexHeld, InStore, Critical, Idle
<1> QED
  BY <1>1, <1>2, <1>3 DEF Next, StepOf, Main, Close, Deadline, Crash

-----------------------------------------------------------------------------
(* The store *)

\* The store begins a write for one connection and ends it for that connection.
LEMMA WritingStep ==
  ASSUME Invariant, [Next]_vars
  PROVE  Writing'
<1> USE DEF Invariant
<1>1. ASSUME NEW c \in Connections, StepOf(c)
      PROVE  Writing'
  <2>0. \A d \in Connections \ {c} : conn'[d] = conn[d]
    BY <1>1, ConnectionType
  <2>1. CASE BeginWrite(c)
    <3>1. \A d \in Connections : conn[d].stage # "write"
      BY <2>1, OneHolder DEF BeginWrite, At, Writing, Store!Begin, MutexHeld, InStore, Critical
    <3>2. /\ pending' = [key |-> conn[c].request.key, content |-> conn[c].request.content]
          /\ conn[c].request.op # "get"
          /\ conn'[c].stage = "write" /\ conn'[c].request = conn[c].request
      BY <1>1, <2>1, Moves DEF BeginWrite, At, Store!Begin
    <3> QED
      BY <1>1, <2>0, <3>1, <3>2 DEF Writing
  <2>2. CASE EndWrite(c)
    <3>1. conn'[c].stage = "return" /\ pending' = NoWrite /\ conn[c].stage = "write"
      BY <1>1, <2>2, Moves DEF EndWrite, Store!Acknowledge, Store!Reject
    <3>2. \A d \in Connections \ {c} : conn[d].stage # "write"
      BY <1>1, <3>1, OneHolder DEF MutexHeld, InStore, Critical
    <3> QED
      BY <2>0, <3>1, <3>2 DEF Writing
  <2>3. CASE ~ BeginWrite(c) /\ ~ EndWrite(c)
    <3>1. conn[c].stage # "write" /\ conn'[c].stage # "write" /\ pending' = pending
      <4>1. CASE \E r \in Requests : Arrive(c, r)
        BY <1>1, <4>1 DEF Arrive, TypeOK, Idle, storeVars
      <4>2. CASE Lock(c) \/ BodyArrives(c) \/ BodyFails(c) \/ RefuseHeader(c)
                 \/ ReadBody(c) \/ CallStore(c) \/ Metrics(c) \/ Unlock(c)
        BY <1>1, <4>2, Moves DEF Lock, BodyArrives, BodyFails, RefuseHeader, ReadBody,
           CallStore, Metrics, Unlock, At, storeVars
      <4>3. CASE Get(c)
        BY <1>1, <4>3, Moves DEF Get, At, Store!Read, Store!ReadFails
      <4>4. CASE Finish(c)
        BY <1>1, <4>4 DEF Finish, TypeOK, Idle, storeVars
      <4> QED
        BY <1>1, <2>3, <4>1, <4>2, <4>3, <4>4 DEF StepOf, Client, Handle, Requests
    <3> QED
      BY <1>1, <2>0, <3>1 DEF Writing
  <2> QED
    BY <2>1, <2>2, <2>3
<1>2. CASE Write \/ Start \/ Signal \/ ShutDown \/ UNCHANGED vars
  BY <1>2 DEF Write, Start, Signal, ShutDown, Store!Advance, Store!Start, vars, storeVars,
     Writing
<1>3. CASE Exit
  BY <1>3 DEF Exit, Store!Crash, Writing, Idle
<1> QED
  BY <1>1, <1>2, <1>3 DEF Next, StepOf, Main, Close, Deadline, Crash

\* No request arrives once main() is about to close the store.
LEMMA ClosedStep ==
  ASSUME Invariant, [Next]_vars
  PROVE  ClosedIdle'
<1> USE DEF Invariant
<1>1. ASSUME NEW c \in Connections, StepOf(c)
      PROVE  ClosedIdle'
  <2>1. main' = main
    BY <1>1, ConnectionType
  <2>2. main \notin {"closing", "down"}
    <3>1. CASE \E r \in Requests : Arrive(c, r)
      BY <3>1 DEF Arrive
    <3>2. CASE ~ \E r \in Requests : Arrive(c, r)
      <4>1. conn[c] # Idle
        BY <1>1, <3>2 DEF StepOf, Client, Handle, Requests, Lock, BodyArrives, BodyFails,
           RefuseHeader, ReadBody, CallStore, Metrics, Get, BeginWrite, EndWrite, Unlock,
           Finish, At, Idle
      <4> QED
        BY <1>1, <4>1 DEF ClosedIdle, Drained
    <3> QED
      BY <3>1, <3>2
  <2> QED
    BY <2>1, <2>2 DEF ClosedIdle
<1>2. CASE Write \/ Start \/ Signal \/ UNCHANGED vars
  BY <1>2 DEF Write, Start, Signal, vars, ClosedIdle, Drained
<1>3. CASE ShutDown
  BY <1>3 DEF ShutDown, ClosedIdle, Drained
<1>4. CASE Exit
  BY <1>4 DEF Exit, ClosedIdle, Drained
<1> QED
  BY <1>1, <1>2, <1>3, <1>4 DEF Next, StepOf, Main, Close, Deadline, Crash

\* The invariant is inductive.
LEMMA InvariantStep == Invariant /\ [Next]_vars => Invariant'
BY TypeStep, MutexStep, WritingStep, ClosedStep DEF Invariant

\* A server that was never started.
LEMMA InvariantInit == Init => Invariant
<1> SUFFICES ASSUME Init PROVE Invariant
  OBVIOUS
<1>1. TypeOK
  <2>1. conn \in [Connections -> Calls]
    BY IdleType DEF Init
  <2> QED
    BY <2>1 DEF Init, Store!Init, TypeOK, Calls, Requests, Answers
<1>2. StoreType
  BY DEF Init, Store!Init, StoreType, Maps
<1>3. MutexHeld /\ Writing /\ ClosedIdle
  BY DEF Init, Store!Init, MutexHeld, InStore, Critical, Idle, Writing, ClosedIdle, Drained
<1> QED
  BY <1>1, <1>2, <1>3 DEF Invariant

\* The process, its goroutines and the mutex stay where the code can be.
THEOREM TypeCorrect == Spec => []TypeOK
<1>1. Invariant => TypeOK
  BY DEF Invariant
<1> QED
  BY <1>1, InvariantInit, InvariantStep, PTL DEF Spec

\* The store, which is not safe for concurrent use, is called by one goroutine at
\* a time, however many connections there are, and main() closes it when there is
\* none: GET /metrics, which runs without the mutex, never calls it, and no
\* handler under /kv/ calls it without (main.go:87-102, :138).
THEOREM CallsAreSerialized == Spec => []StoreHasOneCaller
<1>1. Invariant => StoreHasOneCaller
  <2> SUFFICES ASSUME Invariant PROVE StoreHasOneCaller
    OBVIOUS
  <2>1. Callers \subseteq {holder}
    BY DEF Invariant, Callers, MutexHeld, InStore, Critical
  <2>2. Cardinality(Callers) \in {0, 1}
    <3>1. Callers = {} \/ Callers = {holder}
      BY <2>1
    <3> QED
      BY <3>1, FS_EmptySet, FS_Singleton
  <2>3. main = "closing" => Callers = {}
    BY DEF Invariant, ClosedIdle, Drained, Callers, Idle
  <2> QED
    BY <2>2, <2>3, FS_EmptySet DEF StoreHasOneCaller
<1> QED
  BY <1>1, InvariantInit, InvariantStep, PTL DEF Spec

-----------------------------------------------------------------------------
(* The server implements KVService *)

\* The calls as KVService sees them.
Asked(c)    == [state |-> "asked", request |-> conn[c].request]
Applied(c)  == [state |-> "applied", request |-> conn[c].request]
Replied(c)  ==
  [state |-> "decided", request |-> conn[c].request, answer |-> conn[c].answer]

\* Where a connection is says which.
LEMMA CallIs ==
  ASSUME NEW c \in Connections
  PROVE  /\ conn[c].request.op = "metrics" => CallOf(c) = Service!NoCall
         /\ conn[c].request.op # "metrics" =>
              /\ conn[c].stage \in {"sent", "handler", "body", "call"} => CallOf(c) = Asked(c)
              /\ conn[c].stage = "write" =>
                   CallOf(c) = IF kv[conn[c].request.key] = conn[c].request.content
                                 THEN Applied(c) ELSE Asked(c)
              /\ conn[c].stage \in {"return", "answered"} => CallOf(c) = Replied(c)
BY DEF CallOf, Service!NoCall, Asked, Applied, Replied

\* The same of the next state.
LEMMA CallIsNext ==
  ASSUME NEW c \in Connections
  PROVE  /\ conn'[c].request.op = "metrics" => CallOf(c)' = Service!NoCall
         /\ conn'[c].request.op # "metrics" =>
              /\ conn'[c].stage \in {"sent", "handler", "body", "call"} => CallOf(c)' = Asked(c)'
              /\ conn'[c].stage = "write" =>
                   CallOf(c)' = IF kv'[conn'[c].request.key] = conn'[c].request.content
                                  THEN Applied(c)' ELSE Asked(c)'
              /\ conn'[c].stage \in {"return", "answered"} => CallOf(c)' = Replied(c)'
BY DEF CallOf, Service!NoCall, Asked, Applied, Replied

\* An idle connection has no call.
LEMMA IdleCall ==
  ASSUME NEW c \in Connections
  PROVE  /\ conn[c] = Idle => CallOf(c) = Service!NoCall
         /\ conn'[c] = Idle => CallOf(c)' = Service!NoCall
BY CallIs, CallIsNext DEF Idle, MetricsRequest

\* A step of one connection that does not change the map, or is the only write, is
\* a step of one call.
LEMMA OneCall ==
  ASSUME Invariant, NEW c \in Connections, \A d \in Connections \ {c} : conn'[d] = conn[d],
         \/ kv' = kv
         \/ \A d \in Connections \ {c} : conn[d].stage # "write"
  PROVE  /\ \A call : CallOf(c)' = call => Service!Become(c, call)
         /\ CallOf(c)' = CallOf(c) => CallsNow' = CallsNow
<1>1. \A d \in Connections \ {c} : CallOf(d)' = CallOf(d)
  <2> SUFFICES ASSUME NEW d \in Connections \ {c} PROVE CallOf(d)' = CallOf(d)
    OBVIOUS
  <2>1. conn[d].stage \in Stages /\ (conn[d].stage = "idle" => conn[d] = Idle)
    BY DEF Invariant, TypeOK, MutexHeld
  <2>2. conn'[d] = conn[d] /\ (kv' = kv \/ conn[d].stage # "write")
    OBVIOUS
  <2>3. CASE conn[d].stage = "idle" \/ conn[d].request.op = "metrics"
    BY <2>1, <2>2, <2>3, IdleCall, CallIs, CallIsNext
  <2>4. CASE conn[d].stage # "idle" /\ conn[d].request.op # "metrics"
    BY <2>1, <2>2, <2>4, CallIs, CallIsNext DEF Stages, Asked, Applied, Replied
  <2> QED
    BY <2>3, <2>4
<1>2. CallsNow' = [d \in Connections |-> CallOf(d)']
  BY DEF CallsNow
<1>3. ASSUME NEW call, CallOf(c)' = call
      PROVE  Service!Become(c, call)
  BY <1>1, <1>2, <1>3 DEF CallsNow, Service!Become
<1>4. CallOf(c)' = CallOf(c) => CallsNow' = CallsNow
  BY <1>1, <1>2 DEF CallsNow
<1> QED
  BY <1>3, <1>4

\* The outcomes stay where they are.
LEMMA OutcomesRest ==
  ASSUME StoreType, outcomes' = outcomes
  PROVE  Service!OutcomesMove
BY DEF StoreType, Service!OutcomesMove, Service!SomeOf

\* A request arrives, and an answer leaves.
LEMMA EndsRefine ==
  ASSUME Invariant, NEW c \in Connections,
         Finish(c) \/ \E r \in Requests : Arrive(c, r)
  PROVE  [Service!Next]_Service!vars
<1>1. UNCHANGED <<kv, outcomes>> /\ conn[c].request \in Requests /\ conn[c] \in Calls
      /\ \A d \in Connections \ {c} : conn'[d] = conn[d]
  BY DEF Invariant, TypeOK, Finish, Arrive, storeVars, Requests, Calls, Answers
<1>2. ASSUME NEW r \in Requests, Arrive(c, r)
      PROVE  [Service!Next]_Service!vars
  <2>1. CallOf(c) = Service!NoCall
    BY <1>2, IdleCall DEF Arrive
  <2>2. conn'[c].stage = "sent" /\ conn'[c].request = r
    <3>1. conn \in [Connections -> Calls]
      BY DEF Invariant, TypeOK, Calls, Requests, Answers
    <3> QED
      BY <1>2, <3>1 DEF Arrive, Calls
  <2>3. CASE r.op = "metrics"
    <3>1. CallsNow' = CallsNow
      BY <1>1, <2>1, <2>2, <2>3, CallIsNext, OneCall
    <3> QED
      BY <1>1, <3>1 DEF Service!vars
  <2>4. CASE r.op # "metrics"
    <3>1. CallOf(c)' = [state |-> "asked", request |-> r]
      BY <2>2, <2>4, CallIsNext DEF Asked
    <3>2. Service!Become(c, [state |-> "asked", request |-> r])
      BY <1>1, <3>1, OneCall
    <3>3. r \in Service!Request
      BY <2>4 DEF Requests, KVRequest, MetricsRequest, Service!Request
    <3>4. Service!Ask(c, r)
      BY <1>1, <2>1, <3>2 DEF Service!Ask, CallsNow
    <3> QED
      BY <3>3, <3>4 DEF Service!Next
  <2> QED
    BY <2>3, <2>4
<1>3. CASE Finish(c)
  <2>1. conn'[c] = Idle /\ conn[c].stage = "answered"
    BY <1>3 DEF Finish, Invariant, TypeOK
  <2>2. CallOf(c)' = Service!NoCall
    BY <2>1, IdleCall
  <2>3. CASE conn[c].request.op = "metrics"
    <3>1. CallsNow' = CallsNow
      BY <1>1, <2>2, <2>3, CallIs, OneCall
    <3> QED
      BY <1>1, <3>1 DEF Service!vars
  <2>4. CASE conn[c].request.op # "metrics"
    <3>1. CallsNow[c].state = "decided"
      BY <2>1, <2>4, CallIs DEF Replied, CallsNow
    <3>2. Service!Return(c)
      BY <1>1, <2>2, <3>1, OneCall DEF Service!Return
    <3> QED
      BY <3>2 DEF Service!Next
  <2> QED
    BY <2>3, <2>4
<1> QED
  BY <1>2, <1>3

\* A request moves on without an answer.
LEMMA MovesRefine ==
  ASSUME Invariant, NEW c \in Connections,
         Lock(c) \/ ReadBody(c) \/ BodyArrives(c) \/ CallStore(c) \/ Unlock(c) \/ Metrics(c)
  PROVE  UNCHANGED Service!vars
<1>1. UNCHANGED <<kv, outcomes>> /\ StepOf(c)
  BY DEF Lock, ReadBody, BodyArrives, CallStore, Unlock, Metrics, storeVars, StepOf, Client,
     Handle
<1>2. \A d \in Connections \ {c} : conn'[d] = conn[d]
  BY <1>1, ConnectionType
<1>3. CASE Metrics(c)
  <2>1. conn[c].request.op = "metrics" /\ conn'[c].request = conn[c].request
    BY <1>3, Moves DEF Metrics, At, Invariant
  <2> QED
    BY <1>1, <1>2, <2>1, CallIs, CallIsNext, OneCall DEF Service!vars
<1>4. CASE Unlock(c)
  <2>1. /\ conn[c].stage = "return" /\ conn'[c].stage = "answered"
        /\ conn'[c].request = conn[c].request /\ conn'[c].answer = conn[c].answer
    BY <1>4, Moves DEF Unlock, Invariant
  <2>2. CallOf(c)' = CallOf(c)
    BY <2>1, CallIs, CallIsNext DEF Replied
  <2> QED
    BY <1>1, <1>2, <2>2, OneCall DEF Service!vars
<1>5. CASE Lock(c) \/ ReadBody(c) \/ BodyArrives(c) \/ CallStore(c)
  <2>1. /\ conn[c].stage \in {"sent", "handler", "body"}
        /\ conn'[c].stage \in {"handler", "body", "call"}
        /\ conn'[c].request = conn[c].request
    BY <1>5, Moves DEF Lock, ReadBody, BodyArrives, CallStore, At, Invariant
  <2>2. CallOf(c)' = CallOf(c)
    BY <2>1, CallIs, CallIsNext DEF Asked
  <2> QED
    BY <1>1, <1>2, <2>2, OneCall DEF Service!vars
<1> QED
  BY <1>3, <1>4, <1>5

\* A request is answered without a write.
LEMMA AnswersRefine ==
  ASSUME Invariant, NEW c \in Connections, RefuseHeader(c) \/ BodyFails(c) \/ Get(c)
  PROVE  [Service!Next]_Service!vars
<1>1. /\ UNCHANGED <<kv, outcomes>> /\ StepOf(c) /\ StoreType
      /\ conn[c].request \in Requests
  BY DEF RefuseHeader, BodyFails, Get, Store!Read, Store!ReadFails, storeVars, StepOf, Client,
     Handle, Invariant, TypeOK, Requests
<1>2. \A d \in Connections \ {c} : conn'[d] = conn[d]
  BY <1>1, ConnectionType
<1>3. ASSUME NEW answer, Reply(c, answer), conn[c].request.op # "metrics",
             conn[c].stage \in {"handler", "body", "call"}
      PROVE  /\ CallsNow[c] = [state |-> "asked", request |-> conn[c].request]
             /\ Service!Decided(c, answer)
  <2>1. /\ conn'[c].stage = "return" /\ conn'[c].request = conn[c].request
        /\ conn'[c].answer = answer
    BY <1>3, Moves DEF Invariant
  <2>2. CallsNow[c] = [state |-> "asked", request |-> conn[c].request]
    BY <1>3, CallIs DEF CallsNow, Asked
  <2>3. CallOf(c)' = [state |-> "decided", request |-> conn[c].request, answer |-> answer]
    BY <1>3, <2>1, CallIsNext DEF Replied
  <2> QED
    BY <1>1, <1>2, <2>2, <2>3, OneCall DEF Service!Decided
<1>4. CASE RefuseHeader(c) /\ conn[c].request.op = "metrics"
  <2>1. conn'[c].request = conn[c].request
    BY <1>4, Moves DEF RefuseHeader, Invariant
  <2>2. CallsNow' = CallsNow
    BY <1>1, <1>2, <1>4, <2>1, CallIs, CallIsNext, OneCall
  <2> QED
    BY <1>1, <2>2 DEF Service!vars
<1>5. CASE RefuseHeader(c) /\ conn[c].request.op # "metrics"
  <2>1. CallsNow[c].state = "asked" /\ Service!Decided(c, Refused)
    BY <1>3, <1>5 DEF RefuseHeader, At
  <2> QED
    BY <1>1, <2>1 DEF Service!Next, Service!Refuse, Service!Refused, Service!Answer,
       Refused, Answer
<1>6. CASE BodyFails(c)
  <2>1. conn[c].request.op = "put" /\ conn[c].stage = "body"
    BY <1>6 DEF BodyFails, Invariant, MutexHeld
  <2>2. Service!Decided(c, ServerError)
    BY <1>3, <1>6, <2>1 DEF BodyFails
  <2>3. c \in Service!Writes
    BY <1>3, <1>6, <2>1
       DEF BodyFails, Service!Writes, Service!Open
  <2> QED
    BY <1>1, <2>2, <2>3, OutcomesRest
       DEF Service!Next, Service!Fail, Service!ServerError, Service!Answer,
           ServerError, Answer
<1>7. CASE Get(c)
  <2>1. conn[c].request.op = "get" /\ conn[c].stage = "call"
    BY <1>7 DEF Get, At
  <2>2. /\ CallsNow[c] = [state |-> "asked", request |-> conn[c].request]
        /\ Service!Decided(c, GetAnswer(reply'))
    BY <1>3, <1>7, <2>1 DEF Get
  <2> DEFINE content == kv[conn[c].request.key]
  <2>3. GetAnswer(reply') \in
          {Answer(200, Empty),
           IF content = Absent THEN Answer(404, Empty) ELSE Answer(200, content)}
    BY <1>7 DEF Get, Store!Read, Store!ReadFails, Store!Failure, GetAnswer
  <2> QED
    BY <1>1, <2>1, <2>2, <2>3
       DEF Service!Next, Service!Read, Service!Answer, Answer
<1> QED
  BY <1>4, <1>5, <1>6, <1>7

\* What a write in the store does to the outcomes, KVService allows.
LEMMA OutcomesProgress ==
  ASSUME Invariant, NEW c \in Connections, conn[c].stage = "write", Store!Progress
  PROVE  /\ c \in Service!Writes /\ Service!OutcomesMove
         /\ Store!Written(kv) = Service!After(kv, conn[c].request)
         /\ kv' \in {kv, Store!Written(kv)}
         /\ kv[conn[c].request.key] = conn[c].request.content => Store!Written(kv) = kv
<1> DEFINE r == conn[c].request
<1>1. /\ pending = [key |-> r.key, content |-> r.content] /\ StoreType
      /\ r \in Requests /\ r.op \notin {"get", "metrics"} /\ r.key \in Keys
  BY RequestTypes DEF Invariant, TypeOK, Requests, Writing, MutexHeld
<1>2. CallsNow[c] \in {Asked(c), Applied(c)}
  BY <1>1, CallIs DEF CallsNow
<1>3. c \in Service!Writes /\ CallsNow[c].request = r
  BY <1>1, <1>2 DEF Asked, Applied, Service!Writes, Service!Open
<1>4. \A map : Store!Written(map) = Service!After(map, r)
  BY <1>1 DEF Store!Written, Service!After
<1>5. Service!OutcomesMove
  <2> DEFINE before == outcomes \cup {kv}
  <2>1. outcomes' # {} /\ outcomes' \subseteq before \cup {Store!Written(map) : map \in before}
    BY DEF Store!Progress, Store!SomeOf
  <2>2. {Store!Written(map) : map \in before} \subseteq
          {Service!After(map, CallsNow[d].request) : map \in before, d \in Service!Writes}
    BY <1>3, <1>4
  <2> QED
    BY <2>1, <2>2 DEF Service!OutcomesMove, Service!SomeOf
<1>6. kv[r.key] = r.content => Store!Written(kv) = kv
  BY <1>1 DEF Store!Written, StoreType, Maps
<1> QED
  BY <1>3, <1>4, <1>5, <1>6 DEF Store!Progress

\* A write begins, which may change nothing, or reaches the map.
LEMMA WritesRefine ==
  ASSUME Invariant, Write \/ \E c \in Connections : BeginWrite(c)
  PROVE  [Service!Next]_Service!vars
<1>1. ASSUME NEW c \in Connections, BeginWrite(c)
      PROVE  [Service!Next]_Service!vars
  <2> DEFINE r == conn[c].request
  <2>1. /\ UNCHANGED <<kv, outcomes>> /\ StepOf(c) /\ StoreType
        /\ r \in Requests /\ r.key \in Keys /\ r.op \in {"put", "delete"}
        /\ conn[c].stage = "call"
    BY <1>1, RequestTypes DEF BeginWrite, At, Store!Begin, StepOf, Handle, Invariant,
       TypeOK, Requests
  <2>2. \A d \in Connections \ {c} : conn'[d] = conn[d]
    BY <2>1, ConnectionType
  <2>3. conn'[c].stage = "write" /\ conn'[c].request = r
    BY <1>1, Moves DEF BeginWrite, Invariant
  <2>4. CallOf(c) = Asked(c)
    BY <2>1, CallIs
  <2>5. CASE kv[r.key] = r.content
    <3>1. CallOf(c)' = Applied(c)
      BY <2>1, <2>3, <2>5, CallIsNext DEF Applied
    <3>2. c \in Service!Writes /\ CallsNow[c] = Asked(c)
      BY <2>1, <2>4 DEF CallsNow, Asked, Service!Writes, Service!Open
    <3>3. Service!Become(c, [CallsNow[c] EXCEPT !.state = "applied"])
      BY <2>1, <2>2, <3>1, <3>2, OneCall DEF Asked, Applied
    <3>4. Service!ApplyOnce(c)
      BY <2>1, <2>5, <3>2 DEF Service!ApplyOnce, Service!After, Asked, StoreType, Maps
    <3>5. Service!Effect(c)
      BY <2>1, <3>2, <3>3, <3>4, OutcomesRest DEF Service!Effect, Asked
    <3> QED
      BY <3>5 DEF Service!Next
  <2>6. CASE kv[r.key] # r.content
    <3>1. CallOf(c)' = CallOf(c)
      BY <2>1, <2>3, <2>4, <2>6, CallIsNext DEF Asked
    <3> QED
      BY <2>1, <2>2, <3>1, OneCall DEF Service!vars
  <2> QED
    BY <2>5, <2>6
<1>2. CASE Write
  <2>1. PICK c \in Connections : conn[c].stage = "write"
    BY <1>2 DEF Write, Store!Advance, Store!Progress, Invariant, Writing
  <2>2. /\ Store!Progress /\ conn' = conn
        /\ \A d \in Connections \ {c} : conn[d].stage # "write"
    BY <1>2, <2>1, OneHolder
       DEF Write, Store!Advance, Invariant, MutexHeld, InStore, Critical
  <2> DEFINE r == conn[c].request
  <2>3. /\ c \in Service!Writes /\ Service!OutcomesMove
        /\ kv' \in {kv, Service!After(kv, r)}
        /\ kv[r.key] = r.content => kv' = kv
        /\ r.op # "metrics" /\ r.key \in Keys /\ StoreType
    BY <2>1, <2>2, OutcomesProgress, RequestTypes
       DEF Invariant, TypeOK, Requests, MutexHeld
  <2>4. CASE kv' = kv
    <3>1. CallsNow' = CallsNow
      BY <2>2, <2>4 DEF CallsNow, CallOf
    <3> QED
      BY <2>3, <2>4, <3>1 DEF Service!Next, Service!Background
  <2>5. CASE kv' # kv
    <3>1. kv' = Service!After(kv, r) /\ kv[r.key] # r.content /\ kv'[r.key] = r.content
      BY <2>3, <2>5 DEF Service!After, StoreType, Maps
    <3>2. CallOf(c) = Asked(c) /\ CallOf(c)' = Applied(c)
      BY <2>1, <2>2, <2>3, <3>1, CallIs, CallIsNext DEF Applied
    <3>3. Service!Become(c, [CallsNow[c] EXCEPT !.state = "applied"])
      BY <2>2, <3>2, OneCall DEF CallsNow, Asked, Applied
    <3>4. Service!Effect(c)
      BY <2>3, <3>1, <3>2, <3>3 DEF CallsNow, Service!Effect, Service!ApplyOnce, Asked
    <3> QED
      BY <3>4 DEF Service!Next
  <2> QED
    BY <2>4, <2>5
<1> QED
  BY <1>1, <1>2

\* A write is answered: acknowledged, it is in every map that a stop may leave.
LEMMA EndWriteRefines ==
  ASSUME Invariant, NEW c \in Connections, EndWrite(c)
  PROVE  Service!Next
<1> DEFINE r == conn[c].request
<1>1. /\ Store!Progress /\ StepOf(c) /\ conn[c].stage = "write"
      /\ pending = [key |-> r.key, content |-> r.content] /\ StoreType
      /\ r \in Requests /\ r.key \in Keys /\ r.op \in {"put", "delete"}
  BY RequestTypes DEF EndWrite, Store!Acknowledge, Store!Reject, StepOf, Handle, Invariant,
     TypeOK, Requests, Writing, MutexHeld
<1>2. /\ \A d \in Connections \ {c} : conn'[d] = conn[d] /\ conn[d].stage # "write"
  BY <1>1, ConnectionType, OneHolder DEF Invariant, MutexHeld, InStore, Critical
<1>3. /\ c \in Service!Writes /\ Service!OutcomesMove
      /\ kv' \in {kv, Service!After(kv, r)}
      /\ kv[r.key] = r.content => kv' = kv
  BY <1>1, OutcomesProgress
<1>4. /\ CallsNow[c].request = r
      /\ CallsNow[c].state = IF kv[r.key] = r.content THEN "applied" ELSE "asked"
  BY <1>1, CallIs DEF CallsNow, Asked, Applied
<1>5. Service!ApplyOnce(c) \/ (kv' = kv /\ kv[r.key] # r.content)
  BY <1>3, <1>4 DEF Service!ApplyOnce
<1>6. ASSUME NEW answer, Reply(c, answer)
      PROVE  Service!Decided(c, answer)
  <2>1. /\ conn'[c].stage = "return" /\ conn'[c].request = r /\ conn'[c].answer = answer
    BY <1>6, Moves DEF Invariant
  <2>2. CallOf(c)' = [state |-> "decided", request |-> r, answer |-> answer]
    BY <1>1, <2>1, CallIsNext DEF Replied
  <2> QED
    BY <1>2, <1>4, <2>2, OneCall DEF Service!Decided
<1>7. CASE Store!Acknowledge
  <2>1. Reply(c, Answer(IF r.op = "put" THEN 201 ELSE 204, Empty))
    BY <1>1, <1>7 DEF EndWrite, Store!Acknowledge, SetAnswer, DeleteAnswer
  <2>2. Service!Decided(c, Service!Answer(IF r.op = "put" THEN 201 ELSE 204, Empty))
    BY <1>6, <2>1 DEF Answer, Service!Answer
  <2>3. \A map \in {kv'} \cup outcomes' : map[r.key] = r.content
    BY <1>1, <1>7 DEF Store!Acknowledge
  <2>4. Service!Lasting(c)
    BY <1>4, <2>3 DEF Service!Lasting
  <2>5. Service!ApplyOnce(c)
    BY <1>5, <2>3
  <2>6. Service!Succeed(c)
    BY <1>3, <1>4, <2>2, <2>4, <2>5 DEF Service!Succeed
  <2> QED
    BY <2>6 DEF Service!Next
<1>8. CASE Store!Reject
  <2>1. Reply(c, ServerError)
    BY <1>8 DEF EndWrite, Store!Reject, Store!Failure, SetAnswer, DeleteAnswer
  <2>2. Service!Decided(c, Service!ServerError)
    BY <1>6, <2>1 DEF ServerError, Answer, Service!ServerError, Service!Answer
  <2>3. Service!Fail(c)
    BY <1>3, <1>5, <2>2 DEF Service!Fail
  <2> QED
    BY <2>3 DEF Service!Next
<1> QED
  BY <1>7, <1>8 DEF EndWrite

\* The process starts, is told to stop, and stops.
LEMMA ProcessRefines ==
  ASSUME Invariant, Main
  PROVE  [Service!Next]_Service!vars
<1>1. CASE Start \/ Signal \/ ShutDown
  <2>1. UNCHANGED <<conn, kv, outcomes>>
    BY <1>1 DEF Start, Signal, ShutDown, Store!Start, storeVars
  <2> QED
    BY <2>1 DEF CallsNow, CallOf, Service!vars
<1>2. CASE Exit
  <2>1. \A d \in Connections : CallOf(d)' = Service!NoCall
    BY <1>2, IdleCall DEF Exit
  <2>2. CallsNow' = [d \in Connections |-> Service!NoCall]
    BY <2>1 DEF CallsNow
  <2>3. Service!Stop
    BY <1>2, <2>2 DEF Exit, Store!Crash, Store!SomeOf, Service!Stop, Service!SomeOf
  <2> QED
    BY <2>3 DEF Service!Next
<1> QED
  BY <1>1, <1>2 DEF Main, Close, Deadline, Crash

\* Concurrent clients see one map, on which every request takes effect at one
\* moment between its arrival and its answer, and which keeps what was
\* acknowledged when the process stops: the mutex (main.go:88-94) makes of
\* handlers that interleave, and of a store for one caller, a service for many.
THEOREM ServerIsAMapService == Spec => ImplementsKVService
<1>1. Init => Service!Init
  <2> SUFFICES ASSUME Init PROVE Service!Init
    OBVIOUS
  <2>1. \A d \in Connections : CallOf(d) = Service!NoCall
    BY IdleCall DEF Init
  <2> QED
    BY <2>1 DEF Init, Store!Init, CallsNow, Service!Init
<1>2. Invariant /\ [Next]_vars => [Service!Next]_Service!vars
  <2> SUFFICES ASSUME Invariant, [Next]_vars PROVE [Service!Next]_Service!vars
    OBVIOUS
  <2>1. CASE UNCHANGED vars
    BY <2>1 DEF vars, storeVars, CallsNow, CallOf, Service!vars
  <2>2. CASE \E c \in Connections : Client(c) \/ Lock(c) \/ Handle(c)
    BY <2>2, EndsRefine, MovesRefine, AnswersRefine, WritesRefine, EndWriteRefines
       DEF Client, Handle, Requests
  <2>3. CASE Write \/ Main
    BY <2>3, WritesRefine, ProcessRefines
  <2> QED
    BY <2>1, <2>2, <2>3 DEF Next
<1> QED
  BY <1>1, <1>2, InvariantInit, InvariantStep, PTL DEF Spec, ImplementsKVService, Service!Spec
=============================================================================

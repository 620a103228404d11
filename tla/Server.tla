------------------------------- MODULE Server -------------------------------
(***************************************************************************)
(* The server process (cmd/server/main.go) with the handlers of            *)
(* internal/api, over the store as KVStore describes it.  Every connection *)
(* has a goroutine that runs one request after another; all requests under *)
(* /kv/ run their handler with one mutex held, GET /metrics runs without.  *)
(*                                                                         *)
(* External: net/http (a goroutine for each connection; Shutdown, which    *)
(* returns when no connection has a request, or at its deadline; it reads  *)
(* the request head before the handler runs, the body when the handler     *)
(* reads it) and sync.Mutex.                                               *)
(***************************************************************************)
EXTENDS Handlers, FiniteSets, Naturals

CONSTANTS
  Connections,
  Keys, Values,
  Absent,    \* the content of a key that was never set, or was deleted
  NoWrite,   \* the store has no write in progress
  Nobody,    \* no connection holds the mutex
  NoKey      \* a request that is not for a key

ASSUME ServerAssumption ==
  /\ Nobody \notin Connections
  /\ Absent \notin Values
  /\ NoWrite \notin [key : Keys, content : Values \cup {Absent}]

VARIABLES
  main,      \* where main() is
  holder,    \* the connection that holds mu
  conn,      \* the goroutines
  up, kv, outcomes, pending, reply  \* the store, see KVStore

storeVars == <<up, kv, outcomes, pending, reply>>
vars == <<main, holder, conn, storeVars>>

Store == INSTANCE KVStore

KVRequest ==
  [op : {"get", "delete"}, key : Keys, content : {Absent}]
    \cup [op : {"put"}, key : Keys, content : Values]

MetricsRequest == [op |-> "metrics", key |-> NoKey, content |-> Absent]

NoAnswer == Answer(0, Empty)

Idle == [stage |-> "idle", request |-> MetricsRequest, answer |-> NoAnswer]

-----------------------------------------------------------------------------
\* Connection c moves to a stage; Reply(c, answer) is the end of its handler.
Enter(c, stage) == conn' = [conn EXCEPT ![c].stage = stage]

Reply(c, answer) ==
  conn' = [conn EXCEPT ![c].stage = "return", ![c].answer = answer]

At(c, stage, ops) == conn[c].stage = stage /\ conn[c].request.op \in ops

EveryRoute(r) == TRUE   \* mutant: GET /metrics is single-threaded as well

\* singleThreaded wraps the routes under /kv/ only.
SingleThreaded(r) == r.op # "metrics"

AlwaysFree == TRUE   \* mutant: the handlers run without the mutex

Free == holder = Nobody

ForgottenUnlock(answer) ==   \* mutant: an early return of the handler skips it
  IF answer = Refused THEN holder ELSE Nobody

HolderAfter(answer) == Nobody

-----------------------------------------------------------------------------
(* Requests *)

\* The head of a request has been read and routed; latency has begun to count.
Arrive(c, r) ==
  /\ main \in {"serving", "draining"}
  /\ conn[c] = Idle
  /\ conn' = [conn EXCEPT ![c].stage = "sent", ![c].request = r]
  /\ UNCHANGED <<main, holder, storeVars>>

\* mu.Lock returns, or there is none.
Lock(c) ==
  /\ conn[c].stage = "sent"
  /\ SingleThreaded(conn[c].request) => Free
  /\ holder' = IF SingleThreaded(conn[c].request) THEN c ELSE holder
  /\ Enter(c, "handler")
  /\ UNCHANGED <<main, storeVars>>

\* A header is not acceptable (DELETE looks at none).
RefuseHeader(c) ==
  /\ At(c, "handler", {"get", "put", "metrics"})
  /\ Reply(c, Refused)
  /\ UNCHANGED <<main, holder, storeVars>>

\* io.ReadAll begins; the client sends the body in its own time, or never, or
\* goes away.
ReadBody(c) ==
  /\ At(c, "handler", {"put"})
  /\ Enter(c, "body")
  /\ UNCHANGED <<main, holder, storeVars>>

BodyArrives(c) ==
  /\ conn[c].stage = "body"
  /\ Enter(c, "call")
  /\ UNCHANGED <<main, holder, storeVars>>

BodyFails(c) ==
  /\ conn[c].stage = "body"
  /\ Reply(c, ServerError)
  /\ UNCHANGED <<main, holder, storeVars>>

\* GET and DELETE call the store at once.
CallStore(c) ==
  /\ At(c, "handler", {"get", "delete"})
  /\ Enter(c, "call")
  /\ UNCHANGED <<main, holder, storeVars>>

\* The percentiles are those of Histogram; here they do not matter.
Metrics(c) ==
  /\ At(c, "handler", {"metrics"})
  /\ Reply(c, Answer(200, Empty))
  /\ UNCHANGED <<main, holder, storeVars>>

Get(c) ==
  /\ At(c, "call", {"get"})
  /\ Store!Read(conn[c].request.key) \/ Store!ReadFails
  /\ Reply(c, GetAnswer(reply'))
  /\ UNCHANGED <<main, holder>>

BeginWrite(c) ==
  /\ At(c, "call", {"put", "delete"})
  /\ Store!Begin(conn[c].request.key, conn[c].request.content)
  /\ Enter(c, "write")
  /\ UNCHANGED <<main, holder>>

\* The store is at work on the write of the one connection that called it.
Write ==
  /\ Store!Advance
  /\ UNCHANGED <<main, holder, conn>>

EndWrite(c) ==
  /\ conn[c].stage = "write"
  /\ Store!Acknowledge \/ Store!Reject
  /\ Reply(c, IF conn[c].request.op = "put" THEN SetAnswer(reply')
                                            ELSE DeleteAnswer(reply'))
  /\ UNCHANGED <<main, holder>>

\* mu.Unlock
Unlock(c) ==
  /\ conn[c].stage = "return"
  /\ holder' = IF SingleThreaded(conn[c].request) THEN HolderAfter(conn[c].answer)
                                                  ELSE holder
  /\ Enter(c, "answered")
  /\ UNCHANGED <<main, storeVars>>

\* The latency is recorded, and the answer leaves.
Finish(c) ==
  /\ conn[c].stage = "answered"
  /\ conn' = [conn EXCEPT ![c] = Idle]
  /\ UNCHANGED <<main, holder, storeVars>>

-----------------------------------------------------------------------------
(* The process *)

ListenFirst ==   \* mutant: requests are served before the store is open
  main = "down" /\ main' = "serving" /\ UNCHANGED <<holder, conn, storeVars>>

\* NewStore succeeds and the server listens.
Start ==
  /\ main = "down"
  /\ Store!Start
  /\ main' = "serving"
  /\ UNCHANGED <<holder, conn>>

\* SIGINT or SIGTERM: srv.Shutdown begins.
Signal ==
  /\ main = "serving"
  /\ main' = "draining"
  /\ UNCHANGED <<holder, conn, storeVars>>

Drained == \A c \in Connections : conn[c] = Idle

\* srv.Shutdown returns nil; main() is about to return, which closes the store.
ShutDown ==
  /\ main = "draining"
  /\ Drained
  /\ main' = "closing"
  /\ UNCHANGED <<holder, conn, storeVars>>

Exit ==
  /\ main' = "down"
  /\ Store!Crash
  /\ holder' = Nobody
  /\ conn' = [c \in Connections |-> Idle]

\* The deferred store.Close, and the end of the process.
Close == main = "closing" /\ Exit

WaitForever == FALSE /\ Exit   \* mutant: Shutdown without a deadline

\* The 10 seconds are over: log.Fatalf, which runs no deferred call.
Deadline == main = "draining" /\ Exit

\* The process is killed, ListenAndServe fails, or the machine stops.
Crash == main # "down" /\ Exit

-----------------------------------------------------------------------------
Init ==
  /\ main = "down"
  /\ holder = Nobody
  /\ conn = [c \in Connections |-> Idle]
  /\ Store!Init

\* What a goroutine does without waiting for the mutex or for its client.
Handle(c) ==
  \/ RefuseHeader(c) \/ ReadBody(c) \/ CallStore(c) \/ Metrics(c)
  \/ Get(c) \/ BeginWrite(c) \/ EndWrite(c)
  \/ Unlock(c) \/ Finish(c)

Client(c) ==
  \/ \E r \in KVRequest \cup {MetricsRequest} : Arrive(c, r)
  \/ BodyArrives(c) \/ BodyFails(c)

Main == Start \/ Signal \/ ShutDown \/ Close \/ Deadline \/ Crash

Next ==
  \/ \E c \in Connections : Client(c) \/ Lock(c) \/ Handle(c)
  \/ Write
  \/ Main

Spec == Init /\ [][Next]_vars

\* Goroutines run, calls of the store return (LSMTreeStore's liveness), a
\* sync.Mutex that is unlocked again and again goes to every waiter in turn, and
\* the deadline passes.  Clients owe nothing.
Fairness ==
  /\ \A c \in Connections : WF_vars(Handle(c)) /\ SF_vars(Lock(c))
  /\ WF_vars(ShutDown \/ Deadline) /\ WF_vars(Close)

FairSpec == Spec /\ Fairness
=============================================================================

------------------------------ MODULE KVStore ------------------------------
(***************************************************************************)
(* What the Store interface (internal/kvstore/store.go) promises a caller  *)
(* that makes one call at a time: a map, and the maps that a crash may     *)
(* leave in its place.  The maps differ only in the writes that were never *)
(* acknowledged; an acknowledged write is in every one of them.            *)
(***************************************************************************)
CONSTANTS
  Keys, Values,
  Absent,    \* the content of a key that was never set, or was deleted
  NoWrite    \* no write in progress

Content == Values \cup {Absent}

VARIABLES
  up,        \* the store is open
  kv,        \* the map
  outcomes,  \* the maps that a crash may leave
  pending,   \* the Set or Delete in progress
  reply      \* what the last call returned

vars == <<up, kv, outcomes, pending, reply>>

NoReply == [status |-> "none"]
Failure == [status |-> "error"]

Init ==
  /\ up = FALSE
  /\ kv = [k \in Keys |-> Absent]
  /\ outcomes = {kv}
  /\ pending = NoWrite
  /\ reply = NoReply

\* The store opens with the map as the last run left it.
Start ==
  /\ ~ up
  /\ up' = TRUE
  /\ UNCHANGED <<kv, outcomes, pending, reply>>

\* A caller is told that a key was deleted, or that it was not found, as long as
\* the store remembers which; it promises neither.
Read(k) ==
  /\ up /\ pending = NoWrite
  /\ reply' \in IF kv[k] = Absent
                  THEN [status : {"notfound", "deleted"}, key : {k}]
                  ELSE {[status |-> "found", key |-> k, content |-> kv[k]]}
  /\ UNCHANGED <<up, kv, outcomes, pending>>

ReadFails ==
  /\ up /\ pending = NoWrite
  /\ reply' = Failure
  /\ UNCHANGED <<up, kv, outcomes, pending>>

Begin(k, c) ==
  /\ up /\ pending = NoWrite
  /\ pending' = [key |-> k, content |-> c]
  /\ reply' = NoReply
  /\ UNCHANGED <<up, kv, outcomes>>

\* Some of the maps are the outcomes from now on.
SomeOf(maps) == outcomes' \in (SUBSET maps) \ {{}}

Written(map) == [map EXCEPT ![pending.key] = pending.content]

\* The write reaches the map, and some of the outcomes, at any moment of the
\* call; the map itself may become one of them; nothing else changes, whatever
\* the call does with the files.
Progress ==
  /\ pending # NoWrite
  /\ kv' \in {kv, Written(kv)}
  /\ LET before == outcomes \cup {kv}
     IN  SomeOf(before \cup {Written(map) : map \in before})

\* The call goes on.
Advance ==
  /\ UNCHANGED <<up, pending, reply>>
  /\ Progress

\* The call returns nil: the write is in the map, and it is there for good.
Acknowledge ==
  /\ pending # NoWrite /\ pending' = NoWrite
  /\ reply' = [status |-> "stored", key |-> pending.key,
               content |-> pending.content]
  /\ UNCHANGED up
  /\ Progress
  /\ \A map \in {kv'} \cup outcomes' : map[pending.key] = pending.content

\* The call returns an error: the write may or may not have happened.
Reject ==
  /\ pending # NoWrite /\ pending' = NoWrite
  /\ reply' = Failure
  /\ UNCHANGED up
  /\ Progress

\* The process or the machine stops, in a call or between two.
Crash ==
  /\ up' = FALSE
  /\ pending' = NoWrite
  /\ reply' = NoReply
  /\ kv' \in outcomes
  /\ SomeOf(outcomes)

Next ==
  \/ Start \/ Crash
  \/ \E k \in Keys : Read(k)
  \/ ReadFails
  \/ \E k \in Keys, c \in Content : Begin(k, c)
  \/ Advance \/ Acknowledge \/ Reject

Spec == Init /\ [][Next]_vars
=============================================================================

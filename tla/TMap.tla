-------------------------------- MODULE TMap --------------------------------
(***************************************************************************)
(* CTMap (base/src/TMap.h), a map from keys to pointers behind a CMutex    *)
(* (base/src/Mutex.cpp), as an object: Call begins a call of a thread,     *)
(* MapStep takes it one step on, and it has returned when pc is "idle".    *)
(*                                                                         *)
(* findex, remove_free, size and swap are left out: CInetTable calls none. *)
(***************************************************************************)
EXTENDS Integers, FiniteSets, Functions

CONSTANTS
  Threads,
  Keys,
  Null,       \* no key, no pointer
  NoThread    \* "the mutex is free"

ASSUME MapAssumption == NoThread \notin Threads /\ Null \notin Keys

VARIABLES
  vmap,       \* the pointers of the keys that are in the map
  m_mutex,    \* the owner of the pthread mutex of m_Lock
  m_blocked,  \* m_Lock.m_blocked
  pc,         \* pc[t]: the next step of t's call
  call,       \* call[t]: the function and its arguments
  ret         \* ret[t]: the pointer found, or the set of the pointers found

mapVars == <<vmap, m_mutex, m_blocked, pc, call, ret>>

NoCall == [op |-> "none", key |-> Null, value |-> Null]

MapInit ==
  /\ vmap = [k \in {} |-> Null]
  /\ m_mutex = NoThread
  /\ m_blocked = FALSE
  /\ pc = [t \in Threads |-> "idle"]
  /\ call = [t \in Threads |-> NoCall]
  /\ ret = [t \in Threads |-> {}]

Call(t, op, key, value) ==
  /\ pc[t] = "idle"
  /\ pc' = [pc EXCEPT ![t] = "block"]
  /\ call' = [call EXCEPT ![t] = [op |-> op, key |-> key, value |-> value]]
  /\ ret' = [ret EXCEPT ![t] = {}]
  /\ UNCHANGED <<vmap, m_mutex, m_blocked>>

MapGo(t, from, to) == pc[t] = from /\ pc' = [pc EXCEPT ![t] = to]

-----------------------------------------------------------------------------
(* CMutex::lock sets m_blocked before it has the mutex, CMutex::unlock     *)
(* clears it after it has given it back.                                   *)
SetBlocked(t) ==
  /\ MapGo(t, "block", "lock")
  /\ m_blocked' = TRUE
  /\ UNCHANGED <<vmap, m_mutex, call, ret>>

Acquire(t) ==
  /\ m_mutex = NoThread
  /\ MapGo(t, "lock", "body")
  /\ m_mutex' = t
  /\ UNCHANGED <<vmap, m_blocked, call, ret>>

Release(t) ==
  /\ MapGo(t, "unlock", "unblock")
  /\ m_mutex' = NoThread
  /\ UNCHANGED <<vmap, m_blocked, call, ret>>

(* Mutant: the flag is left as it is.                                      *)
KeepBlocked(t) ==
  /\ MapGo(t, "unblock", "idle")
  /\ UNCHANGED <<vmap, m_mutex, m_blocked, call, ret>>

ClearBlocked(t) ==
  /\ MapGo(t, "unblock", "idle")
  /\ m_blocked' = FALSE
  /\ UNCHANGED <<vmap, m_mutex, call, ret>>

-----------------------------------------------------------------------------
(* What each function does under the guard.                                *)
Body(t, op) == call[t].op = op /\ MapGo(t, "body", "unlock")

find(t) ==
  /\ Body(t, "find")
  /\ ret' = [ret EXCEPT ![t] = {vmap[k] : k \in {call[t].key} \cap DOMAIN vmap}]
  /\ UNCHANGED <<vmap, m_mutex, m_blocked, call>>

set(t) ==
  /\ Body(t, "set")
  /\ vmap' = [k \in DOMAIN vmap \cup {call[t].key} |->
                IF k = call[t].key THEN call[t].value ELSE vmap[k]]
  /\ UNCHANGED <<m_mutex, m_blocked, call, ret>>

get_all_values(t) ==
  /\ Body(t, "get_all_values")
  /\ ret' = [ret EXCEPT ![t] = Range(vmap)]
  /\ UNCHANGED <<vmap, m_mutex, m_blocked, call>>

remove(t) ==
  /\ Body(t, "remove")
  /\ vmap' = Restrict(vmap, DOMAIN vmap \ {call[t].key})
  /\ UNCHANGED <<m_mutex, m_blocked, call, ret>>

clear(t) ==
  /\ Body(t, "clear")
  /\ vmap' = [k \in {} |-> Null]
  /\ UNCHANGED <<m_mutex, m_blocked, call, ret>>

MapStep(t) ==
  \/ SetBlocked(t) \/ Acquire(t) \/ Release(t) \/ ClearBlocked(t)
  \/ find(t) \/ set(t) \/ get_all_values(t) \/ remove(t) \/ clear(t)
=============================================================================

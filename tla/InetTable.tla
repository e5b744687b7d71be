------------------------------ MODULE InetTable -----------------------------
(***************************************************************************)
(* CInetTable (net/src/InetTable.cpp): addresses on the heap, found by a   *)
(* name in the CTMap m_iptables.  Its functions make two calls of the map  *)
(* each, with nothing that holds them together.  Any thread calls any of   *)
(* them for any name at any time; two history variables record whether     *)
(* calls that change a name have overlapped.                               *)
(***************************************************************************)
EXTENDS TMap

CONSTANTS
  Uses,       \* Uses[t]: what t calls: "get", "add", "remove", "clear"
  MaxCalls    \* bound: MaxCalls[t] is how many calls t makes

ASSUME TableAssumption ==
  /\ Uses \in [Threads -> SUBSET {"get", "add", "remove", "clear"}]
  /\ MaxCalls \in [Threads -> Nat]

VARIABLES
  at,         \* at[t]: what t does next, between its calls of the map
  doing,      \* doing[t]: the function t is in
  key,        \* key[t]: the name t was called with
  hand,       \* hand[t]: the addresses in t's local variables
  alive,      \* the addresses that are allocated
  allocated,  \* how many have been
  calls,      \* calls[t]: the calls that t has made
  faulted,    \* an address was deleted or written to that was not allocated
  met,        \* two calls that change the same name have overlapped
  metDelete   \* ... and one of them deletes what it finds

history == <<met, metDelete>>
tableVars == <<at, doing, key, hand, alive, allocated, calls, faulted, history>>
vars == <<mapVars, tableVars>>

TableInit ==
  /\ MapInit
  /\ at = [t \in Threads |-> "idle"]
  /\ doing = [t \in Threads |-> "none"]
  /\ key = [t \in Threads |-> Null]
  /\ hand = [t \in Threads |-> {}]
  /\ alive = {}
  /\ allocated = 0
  /\ calls = [t \in Threads |-> 0]
  /\ faulted = FALSE
  /\ met = FALSE
  /\ metDelete = FALSE

Go(t, from, to) == at[t] = from /\ at' = [at EXCEPT ![t] = to]

(* The threads inside a call that changes what a call f for k changes.     *)
Changers(f, k) ==
  {s \in Threads : \/ doing[s] = "clear"
                   \/ doing[s] \in {"add", "remove"} /\ (f = "clear" \/ key[s] = k)}

(* t calls f, whose first call of the map is op.                           *)
Enter(t, f, to, op, k) ==
  /\ f \in Uses[t]
  /\ calls[t] < MaxCalls[t]
  /\ calls' = [calls EXCEPT ![t] = @ + 1]
  /\ Go(t, "idle", to)
  /\ doing' = [doing EXCEPT ![t] = f]
  /\ key' = [key EXCEPT ![t] = k]
  /\ Call(t, op, k, Null)
  /\ met' = (met \/ (f # "get" /\ Changers(f, k) # {}))
  /\ metDelete' = (metDelete \/ (f # "get" /\ \E s \in Changers(f, k) : {f, doing[s]} # {"add"}))
  /\ UNCHANGED <<hand, alive, allocated, faulted>>

(* The map's call has returned.                                            *)
Returned(t) == pc[t] = "idle"

Leave(t) ==
  /\ Returned(t)
  /\ Go(t, "leave", "idle")
  /\ doing' = [doing EXCEPT ![t] = "none"]
  /\ key' = [key EXCEPT ![t] = Null]
  /\ hand' = [hand EXCEPT ![t] = {}]
  /\ UNCHANGED <<mapVars, alive, allocated, calls, faulted, history>>

-----------------------------------------------------------------------------
(* The address found stays in a parameter passed by value.                 *)
GetIpAddr(t) == \E k \in Keys : Enter(t, "get", "leave", "find", k)

AddIpAddr(t) == \E k \in Keys : Enter(t, "add", "add", "find", k)

(* Mutant: an address is made whether or not there is one.                 *)
AlwaysNew(t) ==
  /\ Returned(t)
  /\ Go(t, "add", "set")
  /\ hand' = [hand EXCEPT ![t] = {allocated + 1}]
  /\ alive' = alive \cup hand'[t]
  /\ allocated' = allocated + 1
  /\ UNCHANGED <<mapVars, doing, key, calls, faulted, history>>

(* A name that is not there gets an address of its own; that of one that is*)
(* there is overwritten.                                                   *)
NewOrOld(t) ==
  /\ Returned(t)
  /\ Go(t, "add", "set")
  /\ hand' = [hand EXCEPT ![t] = IF ret[t] = {} THEN {allocated + 1} ELSE ret[t]]
  /\ IF ret[t] = {}
     THEN /\ alive' = alive \cup hand'[t]
          /\ allocated' = allocated + 1
          /\ UNCHANGED faulted
     ELSE /\ faulted' = (faulted \/ ~(ret[t] \subseteq alive))
          /\ UNCHANGED <<alive, allocated>>
  /\ UNCHANGED <<mapVars, doing, key, calls, history>>

SetIpAddr(t) ==
  /\ Go(t, "set", "leave")
  /\ Call(t, "set", key[t], CHOOSE p \in hand[t] : TRUE)
  /\ UNCHANGED <<doing, key, hand, alive, allocated, calls, faulted, history>>

-----------------------------------------------------------------------------
RemoveIpAddr(t) == \E k \in Keys : Enter(t, "remove", "removing", "find", k)

RemoveFound(t) ==
  /\ Returned(t)
  /\ ret[t] # {}
  /\ Go(t, "removing", "delete")
  /\ hand' = [hand EXCEPT ![t] = ret[t]]
  /\ Call(t, "remove", key[t], Null)
  /\ UNCHANGED <<doing, key, alive, allocated, calls, faulted, history>>

NotFound(t) ==
  /\ Returned(t)
  /\ ret[t] = {}
  /\ Go(t, "removing", "leave")
  /\ UNCHANGED <<mapVars, doing, key, hand, alive, allocated, calls, faulted, history>>

delete_memory(t) ==
  /\ Returned(t)
  /\ Go(t, "delete", "leave")
  /\ faulted' = (faulted \/ ~(hand[t] \subseteq alive))
  /\ alive' = alive \ hand[t]
  /\ hand' = [hand EXCEPT ![t] = {}]
  /\ UNCHANGED <<mapVars, doing, key, allocated, calls, history>>

-----------------------------------------------------------------------------
(* Called by the destructor too.                                           *)
ClearIpAddr(t) == Enter(t, "clear", "values", "get_all_values", Null)

TakeValues(t) ==
  /\ Returned(t)
  /\ Go(t, "values", "freeing")
  /\ hand' = [hand EXCEPT ![t] = ret[t]]
  /\ UNCHANGED <<mapVars, doing, key, alive, allocated, calls, faulted, history>>

FreeOne(t) ==
  /\ at[t] = "freeing"
  /\ \E p \in hand[t] :
       /\ faulted' = (faulted \/ p \notin alive)
       /\ alive' = alive \ {p}
       /\ hand' = [hand EXCEPT ![t] = @ \ {p}]
  /\ UNCHANGED <<mapVars, at, doing, key, allocated, calls, history>>

ClearMap(t) ==
  /\ hand[t] = {}
  /\ Go(t, "freeing", "leave")
  /\ Call(t, "clear", Null, Null)
  /\ UNCHANGED <<doing, key, hand, alive, allocated, calls, faulted, history>>

-----------------------------------------------------------------------------
Inner(t) == MapStep(t) /\ UNCHANGED tableVars

Enters(t) == GetIpAddr(t) \/ AddIpAddr(t) \/ RemoveIpAddr(t) \/ ClearIpAddr(t)

Continues(t) ==
  \/ Inner(t) \/ Leave(t) \/ NewOrOld(t) \/ SetIpAddr(t)
  \/ RemoveFound(t) \/ NotFound(t) \/ delete_memory(t)
  \/ TakeValues(t) \/ FreeOne(t) \/ ClearMap(t)

TableNext == \E t \in Threads : Enters(t) \/ Continues(t)

TableSpec == TableInit /\ [][TableNext]_vars
=============================================================================

-------------------------- MODULE InetTableProofs ---------------------------
(***************************************************************************)
(* For any threads, names and numbers of calls: the mutex of the map has   *)
(* the owner that is inside it, and its flag goes out with the last user;  *)
(* and what calls that change the table do to its addresses, before they   *)
(* overlap and after.                                                      *)
(***************************************************************************)
EXTENDS InetTableProps, TLAPS

(* The owner is the one thread between lock and unlock, and somebody is    *)
(* between the flag and its reset when the flag is true.                   *)
LockInv ==
  /\ DOMAIN pc = Threads
  /\ m_blocked \in BOOLEAN
  /\ m_mutex \in Threads \cup {NoThread}
  /\ \A t \in Threads : pc[t] \in {"body", "unlock"} <=> m_mutex = t
  /\ m_blocked => \E t \in Threads : pc[t] # "idle"

LEMMA LockInit == TableInit => LockInv
<1> SUFFICES ASSUME MapInit
             PROVE  LockInv
  BY DEF TableInit
<1>1. m_blocked = FALSE
  BY DEF MapInit
<1>2. pc = [t \in Threads |-> "idle"] /\ m_mutex = NoThread
  BY DEF MapInit
<1> QED
  BY <1>1, <1>2, MapAssumption DEF LockInv

(* A call of the map begins outside the lock.                              *)
LEMMA CallStep ==
  ASSUME LockInv, NEW t \in Threads, NEW o, NEW k, NEW v, Call(t, o, k, v)
  PROVE  LockInv'
BY DEF LockInv, Call

LEMMA MapStepKeeps ==
  ASSUME LockInv, NEW t \in Threads, MapStep(t)
  PROVE  LockInv'
<1> USE MapAssumption DEF LockInv, MapGo
<1>1. CASE SetBlocked(t)
  BY <1>1 DEF SetBlocked
<1>2. CASE Acquire(t)
  BY <1>2 DEF Acquire
<1>3. CASE Release(t)
  BY <1>3 DEF Release
<1>4. CASE ClearBlocked(t)
  BY <1>4 DEF ClearBlocked
<1>5. CASE find(t) \/ set(t) \/ get_all_values(t) \/ remove(t) \/ clear(t)
  BY <1>5 DEF find, set, get_all_values, remove, clear, Body
<1> QED
  BY <1>1, <1>2, <1>3, <1>4, <1>5 DEF MapStep

LEMMA LockStep == LockInv /\ [TableNext]_vars => LockInv'
<1> SUFFICES ASSUME LockInv, [TableNext]_vars
             PROVE  LockInv'
  OBVIOUS
<1>1. CASE UNCHANGED mapVars
  BY <1>1 DEF mapVars, LockInv
<1>2. ASSUME NEW t \in Threads, Enters(t)
      PROVE  LockInv'
  <2>1. PICK o, k : Call(t, o, k, Null)
    BY <1>2 DEF Enters, GetIpAddr, AddIpAddr, RemoveIpAddr, ClearIpAddr, Enter
  <2> QED
    BY <2>1, CallStep
<1>3. ASSUME NEW t \in Threads, Continues(t)
      PROVE  LockInv'
  <2>1. CASE Inner(t)
    BY <2>1, MapStepKeeps DEF Inner
  <2>2. CASE SetIpAddr(t) \/ RemoveFound(t) \/ ClearMap(t)
    BY <2>2, CallStep DEF SetIpAddr, RemoveFound, ClearMap
  <2>3. CASE Leave(t) \/ NewOrOld(t) \/ NotFound(t) \/ delete_memory(t) \/ TakeValues(t) \/ FreeOne(t)
    BY <2>3, <1>1 DEF Leave, NewOrOld, NotFound, delete_memory, TakeValues, FreeOne
  <2> QED
    BY <1>3, <2>1, <2>2, <2>3 DEF Continues
<1> QED
  BY <1>1, <1>2, <1>3 DEF TableNext, vars

(* islocked never stays true behind the last user of the mutex             *)
(* (Mutex.cpp:27, 39), and the mutex is free then.                         *)
THEOREM BlockedSettlesCorrect == TableSpec => []BlockedSettles
<1>1. LockInv => BlockedSettles
  BY DEF LockInv, BlockedSettles
<1> QED
  BY <1>1, LockInit, LockStep, PTL DEF TableSpec
-----------------------------------------------------------------------------
(* Where a thread is, whatever the others do.                              *)

Places == {"idle", "leave", "add", "set", "removing", "delete", "values", "freeing"}
Functs == {"none", "get", "add", "remove", "clear"}
Addresses == 1..allocated

(* The body of the map's function has run.                                 *)
Told(t) == pc[t] \in {"unlock", "unblock", "idle"}

Types ==
  /\ DOMAIN vmap \subseteq Keys
  /\ allocated \in Nat
  /\ \A k \in DOMAIN vmap : vmap[k] \in Addresses
  /\ alive \subseteq Addresses
  /\ met \in BOOLEAN /\ metDelete \in BOOLEAN

Locals ==
  /\ at \in [Threads -> Places]
  /\ doing \in [Threads -> Functs]
  /\ key \in [Threads -> Keys \cup {Null}]
  /\ pc \in [Threads -> {"idle", "block", "lock", "body", "unlock", "unblock"}]
  /\ DOMAIN call = Threads
  /\ ret \in [Threads -> SUBSET Addresses]
  /\ hand \in [Threads -> SUBSET Addresses]

(* A function of the table leaves when its last call of the map is done.   *)
LeaveFits(t) ==
  /\ doing[t] # "none"
  /\ doing[t] = "get" => call[t].op = "find" /\ hand[t] = {}
  /\ doing[t] = "add" => /\ call[t].op = "set" /\ call[t].key = key[t]
                         /\ hand[t] = {call[t].value}
  /\ doing[t] = "remove" => pc[t] = "idle" /\ hand[t] = {}
  /\ doing[t] = "clear" => call[t].op = "clear" /\ hand[t] = {}

(* The call of the map that t is in, or was in last, is that of the        *)
(* statement it is at.                                                     *)
AtFits(t) ==
  /\ at[t] = "idle" => doing[t] = "none" /\ pc[t] = "idle" /\ hand[t] = {}
  /\ at[t] = "add" => doing[t] = "add" /\ call[t].op = "find" /\ hand[t] = {}
  /\ at[t] = "removing" => doing[t] = "remove" /\ call[t].op = "find" /\ hand[t] = {}
  /\ at[t] = "set" => doing[t] = "add" /\ pc[t] = "idle" /\ \E p \in Addresses : hand[t] = {p}
  /\ at[t] = "delete" => doing[t] = "remove" /\ call[t].op = "remove"
  /\ at[t] = "values" => doing[t] = "clear" /\ call[t].op = "get_all_values" /\ hand[t] = {}
  /\ at[t] = "freeing" => doing[t] = "clear" /\ pc[t] = "idle"
  /\ at[t] = "leave" => LeaveFits(t)
  /\ at[t] \in {"add", "removing", "delete"} => call[t].key = key[t]
  /\ doing[t] \in {"add", "remove"} => key[t] \in Keys

RetFits(t) ==
  /\ pc[t] \in {"block", "lock", "body"} => ret[t] = {}
  /\ call[t].op = "find" => ret[t] = {} \/ \E p \in Addresses : ret[t] = {p}

Shape ==
  /\ Types
  /\ Locals
  /\ \A t \in Threads : AtFits(t) /\ RetFits(t)

Same(s) ==
  /\ at'[s] = at[s] /\ doing'[s] = doing[s] /\ key'[s] = key[s] /\ hand'[s] = hand[s]
  /\ pc'[s] = pc[s] /\ call'[s] = call[s] /\ ret'[s] = ret[s]

LEMMA ShapeInit == TableInit => Shape
<1> SUFFICES ASSUME TableInit
             PROVE  Shape
  OBVIOUS
<1>1. /\ vmap = [k \in {} |-> Null] /\ allocated = 0 /\ alive = {}
      /\ pc = [t \in Threads |-> "idle"] /\ call = [t \in Threads |-> NoCall]
      /\ ret = [t \in Threads |-> {}] /\ hand = [t \in Threads |-> {}]
      /\ at = [t \in Threads |-> "idle"] /\ doing = [t \in Threads |-> "none"]
      /\ key = [t \in Threads |-> Null]
  BY DEF TableInit, MapInit
<1>2. met \in BOOLEAN /\ metDelete \in BOOLEAN
  BY DEF TableInit
<1>3. Types
  BY <1>1, <1>2 DEF Types, Addresses
<1>4. Locals
  BY <1>1 DEF Locals, Places, Functs, Addresses
<1>5. \A t \in Threads : AtFits(t) /\ RetFits(t)
  BY <1>1 DEF AtFits, RetFits, NoCall
<1> QED
  BY <1>3, <1>4, <1>5 DEF Shape

LEMMA OthersKeep ==
  ASSUME Locals, NEW t \in Threads, NEW s \in Threads, s # t, Enters(t) \/ Continues(t)
  PROVE  Same(s)
<1> USE DEF Locals, Same
<1>1. CASE Enters(t)
  BY <1>1 DEF Enters, GetIpAddr, AddIpAddr, RemoveIpAddr, ClearIpAddr, Enter, Go, Call
<1>2. CASE Inner(t)
  BY <1>2 DEF Inner, tableVars, MapStep, SetBlocked, Acquire, Release, ClearBlocked, find, set,
     get_all_values, remove, clear, Body, MapGo
<1>3. CASE Leave(t) \/ NewOrOld(t) \/ SetIpAddr(t) \/ RemoveFound(t) \/ NotFound(t) \/ delete_memory(t)
  BY <1>3 DEF Leave, NewOrOld, SetIpAddr, RemoveFound, NotFound, delete_memory, mapVars, Go, Call
<1>4. CASE TakeValues(t) \/ FreeOne(t) \/ ClearMap(t)
  BY <1>4 DEF TakeValues, FreeOne, ClearMap, mapVars, Go, Call
<1> QED
  BY <1>1, <1>2, <1>3, <1>4 DEF Continues

LEMMA ShapeOthers ==
  ASSUME Shape, NEW t \in Threads, Enters(t) \/ Continues(t), allocated' \in Nat, allocated' >= allocated,
         AtFits(t)', RetFits(t)'
  PROVE  \A s \in Threads : AtFits(s)' /\ RetFits(s)'
<1> SUFFICES ASSUME NEW s \in Threads, s # t
             PROVE  AtFits(s)' /\ RetFits(s)'
  OBVIOUS
<1>1. Same(s)
  BY OthersKeep DEF Shape
<1>2. AtFits(s) /\ RetFits(s) /\ Addresses \subseteq Addresses'
  BY DEF Shape, Types, Addresses
<1>3. AtFits(s)'
  BY <1>1, <1>2 DEF AtFits, LeaveFits, Same
<1>4. RetFits(s)'
  BY <1>1, <1>2 DEF RetFits, Same
<1> QED
  BY <1>3, <1>4

(* The steps of the map, but for the bodies.                               *)
LockMove(t) == SetBlocked(t) \/ Acquire(t) \/ Release(t) \/ ClearBlocked(t)

LEMMA LockMoveShape ==
  ASSUME Shape, NEW t \in Threads, LockMove(t), UNCHANGED tableVars
  PROVE  /\ Types' /\ Locals' /\ AtFits(t)' /\ RetFits(t)'
         /\ UNCHANGED <<vmap, call, ret>> /\ Told(t)' = Told(t) /\ at[t] # "idle"
<1>1. /\ UNCHANGED <<vmap, call, ret, tableVars>>
      /\ \E to \in {"idle", "lock", "body", "unblock"} : pc' = [pc EXCEPT ![t] = to]
      /\ pc[t] \in {"block", "lock", "unlock", "unblock"}
      /\ pc[t] \in {"block", "lock"} <=> pc'[t] \in {"lock", "body"}
  BY DEF LockMove, SetBlocked, Acquire, Release, ClearBlocked, MapGo, Shape, Locals, tableVars
<1>2. Types' /\ Locals'
  BY <1>1 DEF Shape, Types, Locals, Addresses, tableVars, history
<1>3. AtFits(t) /\ RetFits(t) /\ pc[t] # "idle"
  BY <1>1 DEF Shape
<1>4. AtFits(t)' /\ RetFits(t)'
  BY <1>1, <1>3 DEF AtFits, LeaveFits, RetFits, Addresses, tableVars, Shape, Locals
<1>5. Told(t)' = Told(t)
  BY <1>1 DEF Told, Shape, Locals
<1> QED
  BY <1>1, <1>2, <1>3, <1>4, <1>5 DEF AtFits

BodyMove(t) == find(t) \/ set(t) \/ get_all_values(t) \/ remove(t) \/ clear(t)

(* What a body does, and where its thread is in the table.                 *)
LEMMA BodyFacts ==
  ASSUME Shape, NEW t \in Threads, BodyMove(t), UNCHANGED tableVars
  PROVE  /\ pc[t] = "body" /\ pc' = [pc EXCEPT ![t] = "unlock"] /\ call' = call
         /\ ~Told(t) /\ Told(t)' /\ ret[t] = {}
         /\ find(t) => /\ call[t].op = "find" /\ vmap' = vmap
                       /\ at[t] \in {"leave", "add", "removing"}
                       /\ at[t] = "leave" => doing[t] = "get"
         /\ set(t) => /\ call[t].op = "set" /\ ret' = ret
                      /\ at[t] = "leave" /\ doing[t] = "add"
         /\ get_all_values(t) => /\ call[t].op = "get_all_values" /\ vmap' = vmap
                                 /\ at[t] = "values"
         /\ remove(t) => call[t].op = "remove" /\ ret' = ret /\ at[t] = "delete"
         /\ clear(t) => /\ call[t].op = "clear" /\ ret' = ret
                        /\ at[t] = "leave" /\ doing[t] = "clear"
<1>1. /\ pc[t] = "body" /\ pc' = [pc EXCEPT ![t] = "unlock"] /\ call' = call
      /\ find(t) => call[t].op = "find" /\ vmap' = vmap
      /\ set(t) => call[t].op = "set" /\ ret' = ret
      /\ get_all_values(t) => call[t].op = "get_all_values" /\ vmap' = vmap
      /\ remove(t) => call[t].op = "remove" /\ ret' = ret
      /\ clear(t) => call[t].op = "clear" /\ ret' = ret
  BY DEF BodyMove, find, set, get_all_values, remove, clear, Body, MapGo
<1>2. AtFits(t) /\ RetFits(t) /\ at[t] \in Places /\ doing[t] \in Functs
  BY DEF Shape, Locals
<1>3. ~Told(t) /\ Told(t)' /\ ret[t] = {}
  BY <1>1, <1>2 DEF Told, RetFits, Shape, Locals
<1>4. at[t] \notin {"idle", "set", "freeing"}
  BY <1>1, <1>2 DEF AtFits
<1>5. at[t] = "leave" => LeaveFits(t) /\ doing[t] \in {"get", "add", "clear"}
  BY <1>1, <1>2 DEF AtFits, LeaveFits, Functs
<1>6. /\ at[t] \in {"add", "removing"} => call[t].op = "find"
      /\ at[t] = "delete" => call[t].op = "remove"
      /\ at[t] = "values" => call[t].op = "get_all_values"
  BY <1>2 DEF AtFits
<1>7. at[t] = "leave" => /\ doing[t] = "get" => call[t].op = "find"
                         /\ doing[t] = "add" => call[t].op = "set"
                         /\ doing[t] = "clear" => call[t].op = "clear"
  BY <1>5 DEF LeaveFits
<1> QED
  BY <1>1, <1>2, <1>3, <1>4, <1>5, <1>6, <1>7 DEF Places

(* What the map has for k: the address, or nothing.                        *)
Entry(k) == {vmap[l] : l \in {k} \cap DOMAIN vmap}

LEMMA BodyShape ==
  ASSUME Shape, NEW t \in Threads, BodyMove(t), UNCHANGED tableVars
  PROVE  Types' /\ Locals' /\ AtFits(t)' /\ RetFits(t)'
<1> USE BodyFacts
<1>1. AtFits(t) /\ RetFits(t) /\ Types /\ Locals
  BY DEF Shape
<1>2. Addresses' = Addresses
  BY DEF Addresses, tableVars
<1>3. AtFits(t)'
  <2>1. UNCHANGED <<at, doing, key, hand, call>> /\ pc[t] # "idle"
    BY DEF tableVars
  <2>2. /\ at[t] \notin {"idle", "set", "freeing"}
        /\ ~(at[t] = "leave" /\ doing[t] = "remove")
    BY <1>1, <2>1 DEF AtFits, LeaveFits
  <2> QED
    BY <1>1, <1>2, <2>1, <2>2 DEF AtFits, LeaveFits
<1>4. CASE find(t)
  <2>1. ret' = [ret EXCEPT ![t] = Entry(call[t].key)] /\ vmap' = vmap
    BY <1>4 DEF find, Entry
  <2>2. Entry(call[t].key) = {} \/ \E p \in Addresses : Entry(call[t].key) = {p}
    BY <1>1 DEF Entry, Types
  <2>3. Entry(call[t].key) \in SUBSET Addresses
    BY <2>2
  <2>4. ret' \in [Threads -> SUBSET Addresses] /\ ret'[t] = Entry(call[t].key)
    BY <1>1, <2>1, <2>3 DEF Locals
  <2> QED
    BY <1>1, <1>2, <1>3, <2>1, <2>2, <2>4 DEF Types, Locals, RetFits, tableVars, history
<1>5. CASE get_all_values(t)
  <2>1. ret' = [ret EXCEPT ![t] = Range(vmap)] /\ vmap' = vmap /\ call[t].op = "get_all_values"
    BY <1>5 DEF get_all_values
  <2>2. Range(vmap) \in SUBSET Addresses
    BY <1>1 DEF Types, Range
  <2> QED
    BY <1>1, <1>2, <1>3, <2>1, <2>2 DEF Types, Locals, RetFits, tableVars, history
<1>6. CASE set(t)
  <2>1. call[t].key \in Keys /\ call[t].value \in Addresses
    BY <1>1, <1>6 DEF AtFits, LeaveFits, Locals
  <2>2. DOMAIN vmap' \subseteq Keys /\ \A k \in DOMAIN vmap' : vmap'[k] \in Addresses
    BY <1>1, <1>6, <2>1 DEF set, Types
  <2> QED
    BY <1>1, <1>2, <1>3, <1>6, <2>2 DEF Types, Locals, RetFits, tableVars, history
<1>7. CASE remove(t) \/ clear(t)
  <2>1. DOMAIN vmap' \subseteq Keys /\ \A k \in DOMAIN vmap' : vmap'[k] \in Addresses
    BY <1>1, <1>7 DEF remove, clear, Types, Restrict
  <2> QED
    BY <1>1, <1>2, <1>3, <1>7, <2>1 DEF Types, Locals, RetFits, tableVars, history
<1> QED
  BY <1>4, <1>5, <1>6, <1>7 DEF BodyMove

LEMMA EnterShape ==
  ASSUME Shape, NEW t \in Threads, Enters(t)
  PROVE  Types' /\ Locals' /\ AtFits(t)' /\ RetFits(t)' /\ UNCHANGED allocated
<1>1. /\ at[t] = "idle" /\ pc[t] = "idle" /\ hand[t] = {}
      /\ Types /\ Locals /\ AtFits(t) /\ RetFits(t)
  BY DEF Enters, GetIpAddr, AddIpAddr, RemoveIpAddr, ClearIpAddr, Enter, Go, Shape, AtFits
<1>2. PICK f \in Functs, to \in Places, o \in {"find", "get_all_values"}, k \in Keys \cup {Null} :
        /\ Enter(t, f, to, o, k)
        /\ \/ f = "get" /\ to = "leave" /\ o = "find"
           \/ f = "add" /\ to = "add" /\ o = "find" /\ k \in Keys
           \/ f = "remove" /\ to = "removing" /\ o = "find" /\ k \in Keys
           \/ f = "clear" /\ to = "values" /\ o = "get_all_values"
  BY DEF Enters, GetIpAddr, AddIpAddr, RemoveIpAddr, ClearIpAddr, Functs, Places
<1>3. /\ UNCHANGED <<vmap, hand, alive, allocated>>
      /\ at' = [at EXCEPT ![t] = to] /\ doing' = [doing EXCEPT ![t] = f]
      /\ key' = [key EXCEPT ![t] = k] /\ pc' = [pc EXCEPT ![t] = "block"]
      /\ call' = [call EXCEPT ![t] = [op |-> o, key |-> k, value |-> Null]]
      /\ ret' = [ret EXCEPT ![t] = {}]
  BY <1>2 DEF Enter, Go, Call
<1>4. met' \in BOOLEAN /\ metDelete' \in BOOLEAN
  BY <1>2 DEF Enter
<1>5. Types' /\ Locals'
  BY <1>1, <1>3, <1>4 DEF Types, Locals, Addresses
<1>6. AtFits(t)' /\ RetFits(t)'
  BY <1>1, <1>2, <1>3 DEF AtFits, LeaveFits, RetFits, Locals
<1> QED
  BY <1>3, <1>5, <1>6

(* What the functions of the table do between two calls of the map.        *)
Between(t) ==
  \/ Leave(t) \/ NewOrOld(t) \/ SetIpAddr(t) \/ RemoveFound(t) \/ NotFound(t)
  \/ delete_memory(t) \/ TakeValues(t) \/ FreeOne(t) \/ ClearMap(t)

LEMMA BetweenShape ==
  ASSUME Shape, NEW t \in Threads, Between(t)
  PROVE  /\ Types' /\ Locals' /\ AtFits(t)' /\ RetFits(t)' /\ UNCHANGED <<vmap, history>>
         /\ allocated' \in Nat /\ allocated' >= allocated
<1>1. Types /\ Locals /\ AtFits(t) /\ RetFits(t)
  BY DEF Shape
<1>2. UNCHANGED <<vmap, history>>
  BY DEF Between, Leave, NewOrOld, SetIpAddr, RemoveFound, NotFound, delete_memory,
     TakeValues, FreeOne, ClearMap, mapVars, Call
<1> USE <1>1, <1>2 DEF Types, Locals, history, mapVars, Go, Places, Functs
<1>3. CASE Leave(t) \/ NotFound(t)
  <2>0. Addresses' = Addresses /\ allocated' = allocated /\ Types'
    BY <1>3 DEF Leave, NotFound, Addresses
  <2>1. Types' /\ Locals' /\ Addresses' = Addresses /\ allocated' = allocated
    <3>1. CASE Leave(t)
      BY <3>1, <2>0 DEF Leave
    <3>2. CASE NotFound(t)
      BY <3>2, <2>0 DEF NotFound
    <3> QED
      BY <1>3, <2>0, <3>1, <3>2
  <2>2. AtFits(t)'
    BY <1>3 DEF Leave, NotFound, Returned, AtFits, LeaveFits
  <2>3. RetFits(t)'
    BY <1>3, <2>1 DEF Leave, NotFound, RetFits
  <2> QED
    BY <2>1, <2>2, <2>3
<1>4. CASE NewOrOld(t)
  <2>1. at[t] = "add" /\ at' = [at EXCEPT ![t] = "set"] /\ pc[t] = "idle"
        /\ UNCHANGED <<pc, call, ret, doing, key>>
    BY <1>4 DEF NewOrOld, Returned
  <2>2. /\ hand' = [hand EXCEPT ![t] = IF ret[t] = {} THEN {allocated + 1} ELSE ret[t]]
        /\ allocated' = IF ret[t] = {} THEN allocated + 1 ELSE allocated
        /\ alive' = IF ret[t] = {} THEN alive \cup {allocated + 1} ELSE alive
    BY <1>4 DEF NewOrOld
  <2>3. allocated' \in Nat /\ allocated' >= allocated /\ Addresses \subseteq Addresses'
    BY <2>2 DEF Addresses
  <2>4. \E p \in Addresses' : hand'[t] = {p}
    BY <2>1, <2>2, <2>3 DEF AtFits, RetFits, Addresses
  <2>5. alive' \subseteq Addresses'
    BY <2>2, <2>3 DEF Addresses
  <2>6. hand' \in [Threads -> SUBSET Addresses']
    BY <2>2, <2>3, <2>4
  <2>7. Types'
    BY <2>3, <2>5
  <2>8. Locals'
    BY <2>1, <2>3, <2>6
  <2>9. AtFits(t)' /\ RetFits(t)'
    BY <2>1, <2>3, <2>4 DEF AtFits, RetFits
  <2> QED
    BY <2>3, <2>7, <2>8, <2>9
<1>5. CASE SetIpAddr(t)
  <2>1. PICK p \in Addresses : hand[t] = {p}
    BY <1>5 DEF SetIpAddr, AtFits
  <2>2. /\ at[t] = "set" /\ at' = [at EXCEPT ![t] = "leave"]
        /\ pc' = [pc EXCEPT ![t] = "block"] /\ ret' = [ret EXCEPT ![t] = {}]
        /\ call' = [call EXCEPT ![t] = [op |-> "set", key |-> key[t], value |-> p]]
        /\ UNCHANGED <<doing, key, hand, alive, allocated>>
    BY <1>5, <2>1 DEF SetIpAddr, Call
  <2>3. Types' /\ Locals' /\ Addresses' = Addresses
    BY <2>2 DEF Addresses
  <2>4. AtFits(t)' /\ RetFits(t)'
    BY <2>1, <2>2 DEF AtFits, LeaveFits, RetFits
  <2> QED
    BY <2>2, <2>3, <2>4
<1>6. CASE RemoveFound(t)
  <2>1. /\ at[t] = "removing" /\ at' = [at EXCEPT ![t] = "delete"]
        /\ pc' = [pc EXCEPT ![t] = "block"] /\ ret' = [ret EXCEPT ![t] = {}]
        /\ call' = [call EXCEPT ![t] = [op |-> "remove", key |-> key[t], value |-> Null]]
        /\ hand' = [hand EXCEPT ![t] = ret[t]]
        /\ UNCHANGED <<doing, key, alive, allocated>>
    BY <1>6 DEF RemoveFound, Call
  <2>2. Types' /\ Locals' /\ Addresses' = Addresses
    BY <2>1 DEF Addresses
  <2>3. AtFits(t)' /\ RetFits(t)'
    BY <2>1 DEF AtFits, RetFits
  <2> QED
    BY <2>1, <2>2, <2>3
<1>7. CASE delete_memory(t)
  <2>1. /\ at[t] = "delete" /\ at' = [at EXCEPT ![t] = "leave"] /\ pc[t] = "idle"
        /\ hand' = [hand EXCEPT ![t] = {}] /\ alive' = alive \ hand[t]
        /\ UNCHANGED <<pc, call, ret, doing, key, allocated>>
    BY <1>7 DEF delete_memory, Returned
  <2>2. Types' /\ Locals' /\ Addresses' = Addresses
    BY <2>1 DEF Addresses
  <2>3. AtFits(t)' /\ RetFits(t)'
    BY <2>1, <2>2 DEF AtFits, LeaveFits, RetFits
  <2> QED
    BY <2>1, <2>2, <2>3
<1>8. CASE TakeValues(t)
  <2>1. /\ at[t] = "values" /\ at' = [at EXCEPT ![t] = "freeing"] /\ pc[t] = "idle"
        /\ hand' = [hand EXCEPT ![t] = ret[t]]
        /\ UNCHANGED <<pc, call, ret, doing, key, alive, allocated>>
    BY <1>8 DEF TakeValues, Returned
  <2>2. Types' /\ Locals' /\ Addresses' = Addresses
    BY <2>1 DEF Addresses
  <2>3. AtFits(t)' /\ RetFits(t)'
    BY <2>1, <2>2 DEF AtFits, RetFits
  <2> QED
    BY <2>1, <2>2, <2>3
<1>9. CASE FreeOne(t)
  <2>1. PICK p : /\ alive' = alive \ {p} /\ hand' = [hand EXCEPT ![t] = @ \ {p}]
                 /\ at[t] = "freeing"
                 /\ UNCHANGED <<at, pc, call, ret, doing, key, allocated>>
    BY <1>9 DEF FreeOne
  <2>2. Types' /\ Locals' /\ Addresses' = Addresses
    BY <2>1 DEF Addresses
  <2>3. AtFits(t)' /\ RetFits(t)'
    BY <2>1, <2>2 DEF AtFits, RetFits
  <2> QED
    BY <2>1, <2>2, <2>3
<1>10. CASE ClearMap(t)
  <2>1. /\ at[t] = "freeing" /\ at' = [at EXCEPT ![t] = "leave"] /\ hand[t] = {}
        /\ pc' = [pc EXCEPT ![t] = "block"] /\ ret' = [ret EXCEPT ![t] = {}]
        /\ call' = [call EXCEPT ![t] = [op |-> "clear", key |-> Null, value |-> Null]]
        /\ UNCHANGED <<doing, key, hand, alive, allocated>>
    BY <1>10 DEF ClearMap, Call
  <2>2. Types' /\ Locals' /\ Addresses' = Addresses
    BY <2>1 DEF Addresses
  <2>3. AtFits(t)' /\ RetFits(t)'
    BY <2>1 DEF AtFits, LeaveFits, RetFits
  <2> QED
    BY <2>1, <2>2, <2>3
<1> QED
  BY <1>3, <1>4, <1>5, <1>6, <1>7, <1>8, <1>9, <1>10 DEF Between

LEMMA ShapeStep == Shape /\ [TableNext]_vars => Shape'
<1> SUFFICES ASSUME Shape, [TableNext]_vars
             PROVE  Shape'
  OBVIOUS
<1>1. CASE UNCHANGED vars
  BY <1>1 DEF vars, mapVars, tableVars, history, Shape, Types, Locals, AtFits, LeaveFits, RetFits,
     Addresses
<1>2. ASSUME NEW t \in Threads, Enters(t) \/ Continues(t)
      PROVE  Shape'
  <2>1. /\ Types' /\ Locals' /\ AtFits(t)' /\ RetFits(t)'
        /\ allocated' \in Nat /\ allocated' >= allocated
    <3>1. CASE Enters(t)
      BY <3>1, EnterShape DEF Shape, Types
    <3>2. CASE Between(t)
      BY <3>2, BetweenShape
    <3>3. CASE Inner(t)
      BY <3>3, LockMoveShape, BodyShape
         DEF Inner, MapStep, LockMove, BodyMove, tableVars, Shape, Types
    <3> QED
      BY <1>2, <3>1, <3>2, <3>3 DEF Continues, Between
  <2> QED
    BY <1>2, <2>1, ShapeOthers DEF Shape
<1> QED
  BY <1>1, <1>2 DEF TableNext

LEMMA ShapeCorrect == TableSpec => []Shape
BY ShapeInit, ShapeStep, PTL DEF TableSpec

(* The map, the callers' variables and the addresses keep their types.     *)
THEOREM TableTypeCorrect == TableSpec => []TableTypeOK
<1>1. LockInv /\ Shape => TableTypeOK
  BY DEF LockInv, Shape, Types, Locals, TableTypeOK, Addresses, Range
<1>2. TableSpec => []LockInv
  BY LockInit, LockStep, PTL DEF TableSpec
<1> QED
  BY <1>1, <1>2, ShapeCorrect, PTL
-----------------------------------------------------------------------------
(* No call that deletes has met another change: nothing dangles.           *)

Changing(t) == doing[t] \in {"add", "remove"}

(* The addresses that t knows for the name it was called with.             *)
Knows(t) == IF at[t] \in {"add", "removing"} THEN ret[t] ELSE hand[t]

Has(k, p) ==
  \/ k \in DOMAIN vmap /\ vmap[k] = p
  \/ \E t \in Threads : Changing(t) /\ key[t] = k /\ p \in Knows(t)

(* c has begun to delete what the map has, and the map still has it.       *)
Clearing(c) == at[c] = "freeing" \/ (at[c] = "leave" /\ doing[c] = "clear" /\ ~Told(c))

(* Who deletes is alone: with a name, or with the table.                   *)
DeletesAlone ==
  \A s, t \in Threads :
    s # t /\ Changing(s) =>
      /\ doing[t] # "clear"
      /\ doing[t] = "remove" => key[s] # key[t]

ClearsAlone == \A s, t \in Threads : s # t /\ doing[s] = "clear" => doing[t] # "clear"

OneName == \A k, l \in Keys : \A p \in Addresses : Has(k, p) /\ Has(l, p) => k = l

NothingDangles ==
  (\A c \in Threads : ~Clearing(c)) => \A k \in Keys : \A p \in Addresses : Has(k, p) => p \in alive

DeleteFits(t) ==
  /\ at[t] = "delete" /\ Told(t) => key[t] \notin DOMAIN vmap
  /\ at[t] = "values" => ret[t] \subseteq alive
  /\ at[t] = "freeing" => hand[t] \subseteq alive

SafeParts ==
  /\ faulted = FALSE
  /\ DeletesAlone /\ ClearsAlone
  /\ OneName
  /\ NothingDangles
  /\ \A t \in Threads : DeleteFits(t)

SafeInv == ~metDelete => SafeParts

LEMMA SafeInit == TableInit => SafeInv
<1> SUFFICES ASSUME TableInit
             PROVE  SafeParts
  BY DEF SafeInv
<1>1. /\ vmap = [k \in {} |-> Null] /\ faulted = FALSE
      /\ hand = [t \in Threads |-> {}]
      /\ at = [t \in Threads |-> "idle"] /\ doing = [t \in Threads |-> "none"]
  BY DEF TableInit, MapInit
<1> QED
  BY <1>1 DEF SafeParts, DeletesAlone, ClearsAlone, OneName, NothingDangles, DeleteFits, Has, Changing

(* A step after which less is known, and nothing else has changed.         *)
LEMMA LessKnown ==
  ASSUME Shape, Shape', SafeParts, NEW t \in Threads, \A s \in Threads \ {t} : Same(s),
         UNCHANGED <<faulted, alive, allocated>>,
         DOMAIN vmap' \subseteq DOMAIN vmap, \A k \in DOMAIN vmap' : vmap'[k] = vmap[k],
         Changing(t)' => Changing(t) /\ key'[t] = key[t] /\ Knows(t)' \subseteq Knows(t),
         Clearing(t)' <=> Clearing(t)
  PROVE  OneName' /\ NothingDangles'
<1>1. \A s \in Threads \ {t} : /\ Changing(s)' = Changing(s) /\ Knows(s)' = Knows(s)
                               /\ (Clearing(s)' <=> Clearing(s)) /\ key'[s] = key[s]
  BY DEF Same, Changing, Knows, Clearing, Told
<1>2. ASSUME NEW k, NEW p, Has(k, p)'
      PROVE  Has(k, p)
  BY <1>1, <1>2 DEF Has
<1>3. Addresses' = Addresses
  BY DEF Addresses
<1> QED
  BY <1>1, <1>2, <1>3 DEF OneName, NothingDangles, SafeParts

(* Who is alone stays alone.                                               *)
LEMMA StillAlone ==
  ASSUME SafeParts, NEW t \in Threads, \A s \in Threads \ {t} : Same(s),
         doing'[t] \in {"none", "get"} \/ (doing'[t] = doing[t] /\ key'[t] = key[t])
  PROVE  DeletesAlone' /\ ClearsAlone'
BY DEF SafeParts, DeletesAlone, ClearsAlone, Changing, Same

LEMMA EnterAlone ==
  ASSUME Shape, SafeParts, NEW t \in Threads, \A s \in Threads \ {t} : Same(s), Enters(t), ~metDelete'
  PROVE  DeletesAlone' /\ ClearsAlone'
<1>1. PICK f \in {"get", "add", "remove", "clear"}, to \in {"leave", "add", "removing", "values"},
            o \in {"find", "get_all_values"}, k \in Keys \cup {Null} :
        Enter(t, f, to, o, k)
  BY DEF Enters, GetIpAddr, AddIpAddr, RemoveIpAddr, ClearIpAddr
<1>2. at[t] = "idle" /\ doing'[t] = f /\ key'[t] = k /\ doing[t] = "none"
  BY <1>1 DEF Enter, Go, Shape, Locals, AtFits
<1>3. CASE f = "get"
  BY <1>2, <1>3, StillAlone
<1>4. CASE f # "get"
  <2>1. \A s \in Changers(f, k) : {f, doing[s]} = {"add"}
    BY <1>1, <1>4 DEF Enter
  <2>2. \A s \in Changers(f, k) : f = "add" /\ doing[s] = "add"
    BY <2>1
  <2>3. \A s \in Threads : doing[s] # "clear"
    BY <2>2 DEF Changers
  <2>4. f = "clear" => \A s \in Threads : ~Changing(s)
    BY <2>2 DEF Changers, Changing
  <2>5. \A s \in Threads : Changing(s) /\ key[s] = k => f = "add" /\ doing[s] = "add"
    BY <2>2 DEF Changers, Changing
  <2>6. \A s \in Threads \ {t} : doing'[s] = doing[s] /\ key'[s] = key[s] /\ Changing(s)' = Changing(s)
    BY DEF Same, Changing
  <2>7. DeletesAlone'
    BY <1>2, <2>3, <2>4, <2>5, <2>6 DEF DeletesAlone, SafeParts, Changing
  <2>8. ClearsAlone'
    BY <1>2, <2>3, <2>6 DEF ClearsAlone
  <2> QED
    BY <2>7, <2>8
<1> QED
  BY <1>3, <1>4

LEMMA EnterSafe ==
  ASSUME Shape, Shape', SafeParts, NEW t \in Threads, \A s \in Threads \ {t} : Same(s), Enters(t), ~metDelete'
  PROVE  SafeParts'
<1>1. PICK f \in {"get", "add", "remove", "clear"}, to \in {"leave", "add", "removing", "values"},
            o \in {"find", "get_all_values"}, k \in Keys \cup {Null} :
        Enter(t, f, to, o, k) /\ (to = "leave" => f = "get")
  BY DEF Enters, GetIpAddr, AddIpAddr, RemoveIpAddr, ClearIpAddr
<1>2. /\ at[t] = "idle" /\ at'[t] = to /\ doing'[t] = f /\ hand'[t] = {} /\ ret'[t] = {}
      /\ UNCHANGED <<vmap, alive, allocated, faulted>>
  BY <1>1 DEF Enter, Go, Call, Shape, Locals, AtFits
<1>3. Knows(t)' = {} /\ (Clearing(t)' <=> Clearing(t))
  BY <1>1, <1>2 DEF Knows, Clearing
<1>4. \A s \in Threads \ {t} : /\ Changing(s)' = Changing(s) /\ Knows(s)' = Knows(s)
                               /\ (Clearing(s)' <=> Clearing(s)) /\ key'[s] = key[s]
                               /\ (DeleteFits(s)' <=> DeleteFits(s))
  BY <1>2 DEF Same, Changing, Knows, Clearing, Told, DeleteFits
<1>5. ASSUME NEW l, NEW p, Has(l, p)'
      PROVE  Has(l, p)
  <2>1. CASE l \in DOMAIN vmap' /\ vmap'[l] = p
    BY <1>2, <2>1 DEF Has
  <2>2. CASE \E s \in Threads : Changing(s)' /\ key'[s] = l /\ p \in Knows(s)'
    BY <1>3, <1>4, <2>2 DEF Has
  <2> QED
    BY <1>5, <2>1, <2>2 DEF Has
<1>6. Addresses' = Addresses
  BY <1>2 DEF Addresses
<1>7. OneName' /\ NothingDangles'
  BY <1>2, <1>3, <1>4, <1>5, <1>6 DEF OneName, NothingDangles, SafeParts
<1>8. DeleteFits(t)'
  BY <1>1, <1>2 DEF DeleteFits
<1>9. faulted' = FALSE
  BY <1>2 DEF SafeParts
<1> QED
  BY <1>4, <1>7, <1>8, <1>9, EnterAlone DEF SafeParts

(* The bodies.  What find gives out, the map has.                          *)
LEMMA BodySafe ==
  ASSUME Shape, Shape', SafeParts, NEW t \in Threads, \A s \in Threads \ {t} : Same(s),
         BodyMove(t), UNCHANGED tableVars
  PROVE  SafeParts'
<1> USE BodyFacts
<1>1. UNCHANGED <<at, doing, key, hand, alive, allocated, faulted>> /\ Addresses' = Addresses
  BY DEF tableVars, Addresses
<1>2. DeletesAlone' /\ ClearsAlone' /\ faulted' = FALSE
  BY <1>1, StillAlone DEF SafeParts
<1>3. AtFits(t) /\ RetFits(t) /\ Types
  BY DEF Shape
<1>4. CASE find(t)
  <2>1. ret' = [ret EXCEPT ![t] = Entry(call[t].key)]
    BY <1>4 DEF find, Entry
  <2>2. Clearing(t)' <=> Clearing(t)
    BY <1>1, <1>4 DEF Clearing
  <2>3. \A s \in Threads \ {t} : /\ Changing(s)' = Changing(s) /\ Knows(s)' = Knows(s)
                                 /\ (Clearing(s)' <=> Clearing(s)) /\ key'[s] = key[s]
    BY DEF Same, Changing, Knows, Clearing, Told
  <2>4. Changing(t) => at[t] \in {"add", "removing"} /\ key[t] = call[t].key
    BY <1>3, <1>4 DEF Changing, AtFits
  <2>5. Changing(t)' = Changing(t) /\ key'[t] = key[t]
    BY <1>1 DEF Changing
  <2>6. Changing(t) => Knows(t)' = Entry(key[t])
    BY <1>1, <2>1, <2>4 DEF Knows, Shape, Locals
  <2>7. ASSUME NEW k, NEW p, Has(k, p)'
        PROVE  Has(k, p)
    BY <1>4, <2>3, <2>5, <2>6, <2>7 DEF Has, Entry
  <2>8. OneName' /\ NothingDangles'
    BY <1>1, <2>2, <2>3, <2>7 DEF OneName, NothingDangles, SafeParts
  <2>9. \A s \in Threads : DeleteFits(s)'
    BY <1>1, <1>4 DEF SafeParts, DeleteFits, Same, Told
  <2> QED
    BY <1>2, <2>8, <2>9 DEF SafeParts
<1>5. CASE set(t)
  <2>1. /\ vmap' = [k \in DOMAIN vmap \cup {key[t]} |-> IF k = key[t] THEN call[t].value ELSE vmap[k]]
        /\ hand[t] = {call[t].value} /\ ret' = ret /\ Changing(t)
    BY <1>3, <1>5 DEF set, AtFits, LeaveFits, Changing
  <2>2. \A s \in Threads : /\ Changing(s)' = Changing(s) /\ Knows(s)' = Knows(s) /\ key'[s] = key[s]
    BY <1>1, <2>1 DEF Changing, Knows
  <2>3. \A s \in Threads : Clearing(s)' <=> Clearing(s)
    BY <1>1, <1>5 DEF Clearing, Told, Same
  <2>4. call[t].value \in Knows(t)
    BY <1>5, <2>1 DEF Knows
  <2>5. ASSUME NEW k, NEW p, Has(k, p)'
        PROVE  Has(k, p)
    BY <2>1, <2>2, <2>4, <2>5 DEF Has
  <2>6. OneName' /\ NothingDangles'
    BY <1>1, <2>3, <2>5 DEF OneName, NothingDangles, SafeParts
  <2>7. ASSUME NEW s \in Threads
        PROVE  DeleteFits(s)'
    <3>1. CASE s = t
      BY <1>1, <1>5, <3>1 DEF DeleteFits
    <3>2. CASE s # t /\ at[s] = "delete"
      <4>1. doing[s] = "remove" /\ key[s] # key[t]
        BY <2>1, <3>2 DEF SafeParts, DeletesAlone, Shape, AtFits
      <4>2. key[s] \in DOMAIN vmap' => key[s] \in DOMAIN vmap
        BY <2>1, <4>1
      <4>3. (Told(s)' <=> Told(s)) /\ at'[s] = "delete" /\ key'[s] = key[s]
        BY <1>1, <3>2 DEF Same, Told
      <4>4. Told(s) => key[s] \notin DOMAIN vmap
        BY <3>2 DEF SafeParts, DeleteFits
      <4> QED
        BY <4>2, <4>3, <4>4 DEF DeleteFits
    <3>3. CASE s # t /\ at[s] # "delete"
      <4>1. ret'[s] = ret[s] /\ at'[s] = at[s] /\ hand'[s] = hand[s]
        BY <3>3 DEF Same
      <4> QED
        BY <1>1, <3>3, <4>1 DEF SafeParts, DeleteFits
    <3> QED
      BY <3>1, <3>2, <3>3
  <2> QED
    BY <1>2, <2>6, <2>7 DEF SafeParts
<1>6. CASE get_all_values(t)
  <2>1. vmap' = vmap /\ ~Changing(t) /\ at[t] = "values"
    BY <1>3, <1>6 DEF AtFits, Changing
  <2>2. ~Changing(t)' /\ (Clearing(t)' <=> Clearing(t))
    BY <1>1, <2>1 DEF Changing, Clearing
  <2>3. OneName' /\ NothingDangles'
    BY <1>1, <2>1, <2>2, LessKnown
  <2>4. \A s \in Threads \ {t} : DeleteFits(s)'
    BY <1>1, <2>1 DEF SafeParts, DeleteFits, Same, Told
  <2>5. \A c \in Threads : ~Clearing(c)
    <3>1. \A c \in Threads \ {t} : doing[c] # "clear"
      BY <1>3, <2>1 DEF SafeParts, ClearsAlone, AtFits
    <3> QED
      BY <2>1, <3>1 DEF Clearing, Shape, AtFits
  <2>6. \A k \in DOMAIN vmap : vmap[k] \in alive
    BY <1>3, <2>5 DEF SafeParts, NothingDangles, Has, Types
  <2>7. ret' = [ret EXCEPT ![t] = Range(vmap)] /\ Range(vmap) \subseteq alive
    BY <1>6, <2>6 DEF get_all_values, Range
  <2>8. DeleteFits(t)'
    BY <1>1, <2>1, <2>7 DEF DeleteFits, Shape, Locals
  <2> QED
    BY <1>2, <2>3, <2>4, <2>8 DEF SafeParts
<1>7. CASE remove(t)
  <2>1. /\ vmap' = [k \in DOMAIN vmap \ {key[t]} |-> vmap[k]]
        /\ ret' = ret /\ at[t] = "delete"
    BY <1>3, <1>7 DEF remove, Restrict, AtFits
  <2>2. Changing(t)' = Changing(t) /\ Knows(t)' = Knows(t) /\ (Clearing(t)' <=> Clearing(t))
    BY <1>1, <2>1 DEF Changing, Knows, Clearing
  <2>3. OneName' /\ NothingDangles'
    BY <1>1, <2>1, <2>2, LessKnown
  <2>4. \A s \in Threads : DeleteFits(s)'
    BY <1>1, <2>1 DEF SafeParts, DeleteFits, Same, Told
  <2> QED
    BY <1>2, <2>3, <2>4 DEF SafeParts
<1>8. CASE clear(t)
  <2>1. vmap' = [k \in {} |-> Null] /\ doing[t] = "clear" /\ at[t] = "leave"
    BY <1>8 DEF clear
  <2>2. \A s \in Threads : ~Changing(s)'
    BY <1>1, <2>1 DEF SafeParts, DeletesAlone, Changing
  <2>3. \A k, p : ~Has(k, p)'
    BY <2>1, <2>2 DEF Has
  <2>4. OneName' /\ NothingDangles'
    BY <2>3 DEF OneName, NothingDangles
  <2>5. DOMAIN vmap' = {} /\ ret' = ret
    BY <1>8, <2>1
  <2>6. \A s \in Threads : DeleteFits(s)'
    BY <1>1, <2>5 DEF SafeParts, DeleteFits
  <2> QED
    BY <1>2, <2>4, <2>6 DEF SafeParts
<1> QED
  BY <1>4, <1>5, <1>6, <1>7, <1>8 DEF BodyMove

(* Between two calls of the map: only what AddIpAddr makes is new, and only*)
(* who has an address deletes it.                                          *)
LEMMA BetweenSafe ==
  ASSUME Shape, Shape', SafeParts, NEW t \in Threads, \A s \in Threads \ {t} : Same(s), Between(t)
  PROVE  SafeParts'
<1>1. Types /\ Locals /\ AtFits(t) /\ RetFits(t) /\ AtFits(t)'
  BY DEF Shape
<1>2. UNCHANGED <<vmap, history>> /\ (doing'[t] = "none" \/ (doing'[t] = doing[t] /\ key'[t] = key[t]))
  BY <1>1 DEF Between, Leave, NewOrOld, SetIpAddr, RemoveFound, NotFound, delete_memory,
     TakeValues, FreeOne, ClearMap, mapVars, Call, Locals
<1>3. DeletesAlone' /\ ClearsAlone'
  BY <1>2, StillAlone
<1>4. \A s \in Threads \ {t} : /\ Changing(s)' = Changing(s) /\ Knows(s)' = Knows(s)
                               /\ (Clearing(s)' <=> Clearing(s)) /\ key'[s] = key[s]
                               /\ (Told(s)' <=> Told(s))
  BY DEF Same, Changing, Knows, Clearing, Told
<1> USE <1>1 DEF Locals, Go, Returned
<1>5. CASE \/ Leave(t) \/ SetIpAddr(t) \/ RemoveFound(t) \/ NotFound(t) \/ ClearMap(t)
  <2>1. UNCHANGED <<faulted, alive, allocated>>
    BY <1>5 DEF Leave, SetIpAddr, RemoveFound, NotFound, ClearMap
  <2>2. Changing(t)' => Changing(t) /\ key'[t] = key[t] /\ Knows(t)' \subseteq Knows(t)
    <3>1. CASE Leave(t)
      BY <3>1 DEF Leave, Changing
    <3>2. CASE SetIpAddr(t)
      BY <3>2 DEF SetIpAddr, Changing, Knows, AtFits, Call
    <3>3. CASE RemoveFound(t)
      BY <3>3 DEF RemoveFound, Changing, Knows, AtFits, Call
    <3>4. CASE NotFound(t)
      BY <3>4 DEF NotFound, Changing, Knows, AtFits, mapVars
    <3>5. CASE ClearMap(t)
      BY <3>5 DEF ClearMap, Changing, AtFits
    <3> QED
      BY <1>5, <3>1, <3>2, <3>3, <3>4, <3>5
  <2>3. Clearing(t)' <=> Clearing(t)
    <3>1. CASE Leave(t)
      BY <3>1 DEF Leave, Clearing, Told
    <3>2. CASE SetIpAddr(t)
      BY <3>2 DEF SetIpAddr, Clearing, AtFits
    <3>3. CASE RemoveFound(t)
      BY <3>3 DEF RemoveFound, Clearing, AtFits
    <3>4. CASE NotFound(t)
      BY <3>4 DEF NotFound, Clearing, AtFits
    <3>5. CASE ClearMap(t)
      BY <3>5 DEF ClearMap, Clearing, AtFits, Told, Call
    <3> QED
      BY <1>5, <3>1, <3>2, <3>3, <3>4, <3>5
  <2>4. OneName' /\ NothingDangles'
    BY <1>2, <2>1, <2>2, <2>3, LessKnown
  <2>5. DeleteFits(t)'
    BY <1>5 DEF Leave, SetIpAddr, RemoveFound, NotFound, ClearMap, DeleteFits, Told, Call
  <2>6. \A s \in Threads \ {t} : DeleteFits(s)'
    BY <1>2, <1>4, <2>1 DEF SafeParts, DeleteFits, Same
  <2>7. faulted' = FALSE
    BY <2>1 DEF SafeParts
  <2> QED
    BY <1>3, <2>4, <2>5, <2>6, <2>7 DEF SafeParts
<1>6. CASE NewOrOld(t)
  <2>1. /\ at[t] = "add" /\ at' = [at EXCEPT ![t] = "set"] /\ doing[t] = "add"
        /\ hand' = [hand EXCEPT ![t] = IF ret[t] = {} THEN {allocated + 1} ELSE ret[t]]
        /\ UNCHANGED <<pc, call, ret, doing, key>>
    BY <1>6 DEF NewOrOld, mapVars, AtFits
  <2>2. Changing(t) /\ Changing(t)' /\ key[t] \in Keys /\ key'[t] = key[t]
    BY <2>1 DEF Changing, AtFits
  <2>3. Knows(t) = ret[t] /\ Knows(t)' = hand'[t]
    BY <2>1 DEF Knows
  <2>4. \A c \in Threads : ~Clearing(c) /\ ~Clearing(c)'
    <3>1. \A c \in Threads : doing[c] # "clear" /\ doing'[c] # "clear"
      BY <2>1, <2>2 DEF SafeParts, DeletesAlone
    <3>2. \A c \in Threads : at[c] # "freeing" /\ at'[c] # "freeing"
      BY <3>1 DEF Shape, AtFits
    <3> QED
      BY <3>1, <3>2 DEF Clearing
  <2>5. \A p \in ret[t] : Has(key[t], p)
    BY <2>2, <2>3 DEF Has
  <2>6. ret[t] \subseteq alive
    BY <2>2, <2>4, <2>5 DEF SafeParts, NothingDangles
  <2>7. faulted' = FALSE
    BY <1>6, <2>6 DEF NewOrOld, SafeParts
  <2>8. \A k, p : Has(k, p) /\ k \in Keys => p \in Addresses
    BY DEF Has, Knows, Types
  <2>9. /\ \A s \in Threads \ {t} : DeleteFits(s)' \/ doing[s] = "clear"
        /\ DeleteFits(t)'
    BY <1>2, <1>4, <2>1 DEF SafeParts, DeleteFits, Same, Shape, AtFits
  <2>10. \A s \in Threads : DeleteFits(s)'
    BY <2>2, <2>9 DEF SafeParts, DeletesAlone
  <2>11. CASE ret[t] = {}
    <3>1. alive' = alive \cup {allocated + 1} /\ Knows(t)' = {allocated + 1} /\ allocated + 1 \notin Addresses
      BY <1>6, <2>1, <2>3, <2>11 DEF NewOrOld, Addresses, Types
    <3>2. ASSUME NEW k \in Keys, NEW p, Has(k, p)'
          PROVE  (Has(k, p) /\ p # allocated + 1) \/ (k = key[t] /\ p = allocated + 1)
      <4>1. Has(k, p) \/ (k = key[t] /\ p = allocated + 1)
        BY <1>2, <1>4, <2>2, <3>1, <3>2 DEF Has
      <4> QED
        BY <2>8, <3>1, <4>1
    <3>3. OneName'
      BY <2>8, <3>2 DEF OneName, SafeParts
    <3>4. NothingDangles'
      BY <2>4, <2>8, <3>1, <3>2 DEF NothingDangles, SafeParts
    <3> QED
      BY <1>3, <2>7, <2>10, <3>3, <3>4 DEF SafeParts
  <2>12. CASE ret[t] # {}
    <3>1. UNCHANGED <<alive, allocated>> /\ Knows(t)' = Knows(t) /\ faulted' = faulted
      BY <1>6, <2>1, <2>3, <2>7, <2>12 DEF NewOrOld, SafeParts
    <3>2. OneName' /\ NothingDangles'
      BY <1>2, <2>2, <2>4, <3>1, LessKnown
    <3> QED
      BY <1>3, <2>7, <2>10, <3>2 DEF SafeParts
  <2> QED
    BY <2>11, <2>12
<1>7. CASE delete_memory(t)
  <2>1. /\ at[t] = "delete" /\ at' = [at EXCEPT ![t] = "leave"] /\ doing[t] = "remove" /\ pc[t] = "idle"
        /\ hand' = [hand EXCEPT ![t] = {}] /\ alive' = alive \ hand[t]
        /\ UNCHANGED <<pc, call, ret, doing, key, allocated>>
    BY <1>7 DEF delete_memory, mapVars, AtFits
  <2>2. /\ Changing(t) /\ Changing(t)' /\ key[t] \in Keys /\ key'[t] = key[t]
        /\ Knows(t) = hand[t] /\ Knows(t)' = {}
    BY <2>1 DEF Changing, AtFits, Knows
  <2>3. \A c \in Threads : ~Clearing(c) /\ ~Clearing(c)'
    <3>1. \A c \in Threads : doing[c] # "clear" /\ doing'[c] # "clear"
      BY <2>1, <2>2 DEF SafeParts, DeletesAlone
    <3>2. \A c \in Threads : at[c] # "freeing" /\ at'[c] # "freeing"
      BY <2>1, <3>1 DEF Shape, AtFits
    <3> QED
      BY <3>1, <3>2 DEF Clearing
  <2>4. \A p \in hand[t] : Has(key[t], p)
    BY <2>2 DEF Has
  <2>5. hand[t] \subseteq alive /\ hand[t] \subseteq Addresses
    BY <2>2, <2>3, <2>4 DEF SafeParts, NothingDangles
  <2>6. faulted' = FALSE
    BY <1>7, <2>5 DEF delete_memory, SafeParts
  <2>7. ASSUME NEW k \in Keys, NEW p, Has(k, p)'
        PROVE  Has(k, p)
    BY <1>2, <1>4, <2>2, <2>7 DEF Has
  <2>8. Addresses' = Addresses
    BY <2>1 DEF Addresses
  <2>9. OneName'
    BY <2>7, <2>8 DEF OneName, SafeParts
  <2>10. ~\E p \in hand[t] : Has(key[t], p)'
    <3>1. key[t] \notin DOMAIN vmap
      BY <2>1 DEF SafeParts, DeleteFits, Told
    <3>2. \A s \in Threads \ {t} : Changing(s) => key[s] # key[t]
      BY <2>1 DEF SafeParts, DeletesAlone
    <3> QED
      BY <1>2, <1>4, <2>2, <3>1, <3>2 DEF Has
  <2>11. ASSUME NEW k \in Keys, NEW p \in Addresses', Has(k, p)'
         PROVE  p \in alive'
    <3>1. p \in alive
      BY <2>3, <2>7, <2>8, <2>11 DEF SafeParts, NothingDangles
    <3>2. p \in hand[t] => k = key[t]
      BY <2>2, <2>4, <2>7, <2>8, <2>11 DEF SafeParts, OneName
    <3> QED
      BY <2>1, <2>10, <2>11, <3>1, <3>2
  <2>12. NothingDangles'
    BY <2>11 DEF NothingDangles
  <2>13. \A s \in Threads : DeleteFits(s)'
    <3>1. DeleteFits(t)'
      BY <2>1 DEF DeleteFits
    <3>2. \A s \in Threads \ {t} : at[s] \notin {"freeing", "values"}
      BY <2>2 DEF SafeParts, DeletesAlone, Shape, AtFits
    <3> QED
      BY <1>2, <1>4, <3>1, <3>2 DEF SafeParts, DeleteFits, Same
  <2> QED
    BY <1>3, <2>6, <2>9, <2>12, <2>13 DEF SafeParts
<1>8. CASE TakeValues(t)
  <2>1. /\ at[t] = "values" /\ at' = [at EXCEPT ![t] = "freeing"] /\ doing[t] = "clear" /\ pc[t] = "idle"
        /\ hand' = [hand EXCEPT ![t] = ret[t]]
        /\ UNCHANGED <<pc, call, ret, doing, key, alive, allocated, faulted>>
    BY <1>8 DEF TakeValues, mapVars, AtFits
  <2>2. ~Changing(t) /\ ~Changing(t)' /\ Clearing(t)'
    BY <2>1 DEF Changing, Clearing
  <2>3. ASSUME NEW k, NEW p, Has(k, p)'
        PROVE  Has(k, p)
    BY <1>2, <1>4, <2>2, <2>3 DEF Has
  <2>4. Addresses' = Addresses
    BY <2>1 DEF Addresses
  <2>5. OneName' /\ NothingDangles'
    BY <2>2, <2>3, <2>4 DEF OneName, NothingDangles, SafeParts
  <2>6. DeleteFits(t)'
    BY <2>1 DEF SafeParts, DeleteFits
  <2>7. \A s \in Threads \ {t} : DeleteFits(s)'
    BY <1>2, <1>4, <2>1 DEF SafeParts, DeleteFits, Same
  <2>8. faulted' = FALSE
    BY <2>1 DEF SafeParts
  <2> QED
    BY <1>3, <2>5, <2>6, <2>7, <2>8 DEF SafeParts
<1>9. CASE FreeOne(t)
  <2>1. PICK p \in hand[t] : /\ faulted' = (faulted \/ p \notin alive)
                             /\ alive' = alive \ {p}
                             /\ hand' = [hand EXCEPT ![t] = @ \ {p}]
    BY <1>9 DEF FreeOne
  <2>2. /\ at[t] = "freeing" /\ doing[t] = "clear"
        /\ UNCHANGED <<at, pc, call, ret, doing, key, allocated>>
    BY <1>9 DEF FreeOne, mapVars, AtFits
  <2>3. p \in alive
    BY <2>1, <2>2 DEF SafeParts, DeleteFits
  <2>4. faulted' = FALSE
    BY <2>1, <2>3 DEF SafeParts
  <2>5. Clearing(t)' /\ \A s \in Threads : ~Changing(s)'
    BY <2>2 DEF Clearing, SafeParts, DeletesAlone, Changing
  <2>6. ASSUME NEW k, NEW q, Has(k, q)'
        PROVE  Has(k, q)
    BY <1>2, <2>5, <2>6 DEF Has
  <2>7. Addresses' = Addresses
    BY <2>2 DEF Addresses
  <2>8. OneName' /\ NothingDangles'
    BY <2>5, <2>6, <2>7 DEF OneName, NothingDangles, SafeParts
  <2>9. DeleteFits(t)'
    BY <2>1, <2>2 DEF SafeParts, DeleteFits
  <2>10. \A s \in Threads \ {t} : at[s] \notin {"freeing", "values"}
    BY <2>2 DEF SafeParts, ClearsAlone, Shape, AtFits
  <2>11. \A s \in Threads \ {t} : DeleteFits(s)'
    BY <1>2, <1>4, <2>2, <2>10 DEF SafeParts, DeleteFits, Same
  <2> QED
    BY <1>3, <2>4, <2>8, <2>9, <2>11 DEF SafeParts
<1> QED
  BY <1>5, <1>6, <1>7, <1>8, <1>9 DEF Between

LEMMA SafeStep == Shape /\ Shape' /\ SafeInv /\ [TableNext]_vars => SafeInv'
<1> SUFFICES ASSUME Shape, Shape', SafeInv, [TableNext]_vars, ~metDelete'
             PROVE  SafeParts'
  BY DEF SafeInv
<1>1. CASE UNCHANGED vars
  <2>1. SafeParts
    BY <1>1 DEF SafeInv, vars, tableVars, history
  <2> QED
    BY <1>1, <2>1 DEF vars, mapVars, tableVars, SafeParts, DeletesAlone, ClearsAlone, OneName,
       NothingDangles, DeleteFits, Changing, Clearing, Knows, Has, Told, Addresses
<1>2. ASSUME NEW t \in Threads, Enters(t) \/ Continues(t)
      PROVE  SafeParts'
  <2>1. \A s \in Threads \ {t} : Same(s)
    BY <1>2, OthersKeep DEF Shape
  <2>2. CASE Enters(t)
    <3>1. ~metDelete
      BY <2>2 DEF Enters, GetIpAddr, AddIpAddr, RemoveIpAddr, ClearIpAddr, Enter
    <3> QED
      BY <2>1, <2>2, <3>1, EnterSafe DEF SafeInv
  <2>3. CASE Between(t)
    <3>1. ~metDelete
      BY <2>3, BetweenShape DEF history
    <3> QED
      BY <2>1, <2>3, <3>1, BetweenSafe DEF SafeInv
  <2>4. CASE Inner(t)
    <3>1. SafeParts /\ UNCHANGED tableVars
      BY <2>4 DEF Inner, SafeInv, tableVars, history
    <3>2. CASE BodyMove(t)
      BY <2>1, <3>1, <3>2, BodySafe
    <3>3. CASE LockMove(t)
      <4>1. /\ UNCHANGED <<at, doing, key, hand, alive, allocated, faulted, vmap, ret>>
            /\ \A s \in Threads : Told(s)' = Told(s)
        BY <2>1, <3>1, <3>3, LockMoveShape DEF tableVars, Same, Told
      <4> QED
        BY <3>1, <4>1 DEF SafeParts, DeletesAlone, ClearsAlone, OneName,
           NothingDangles, DeleteFits, Changing, Clearing, Knows, Has, Addresses
    <3> QED
      BY <2>4, <3>2, <3>3 DEF Inner, MapStep, BodyMove, LockMove
  <2> QED
    BY <1>2, <2>2, <2>3, <2>4 DEF Continues, Between
<1> QED
  BY <1>1, <1>2 DEF TableNext
-----------------------------------------------------------------------------
(* No two changes have met: nothing is leaked.                             *)

Hands == UNION {hand[t] : t \in Threads}

ChangesAlone ==
  \A s, t \in Threads :
    s # t /\ Changing(s) => /\ doing[t] # "clear"
                            /\ Changing(t) => key[s] # key[t]

(* What t was told is still so; what it is about to overwrite or to take   *)
(* out of the map it has in hand.                                          *)
KeepFits(t) ==
  /\ at[t] \in {"add", "removing"} /\ Told(t) => ret[t] = Entry(key[t])
  /\ at[t] = "values" /\ Told(t) => ret[t] = Range(vmap)
  /\ at[t] = "set" => Entry(key[t]) \subseteq hand[t]
  /\ at[t] = "leave" /\ doing[t] = "add" =>
       IF Told(t) THEN Entry(key[t]) = hand[t] ELSE Entry(key[t]) \subseteq hand[t]
  /\ at[t] = "delete" /\ ~Told(t) => Entry(key[t]) \subseteq hand[t]
  /\ at[t] = "freeing" => alive \subseteq hand[t]
  /\ at[t] = "leave" /\ doing[t] = "clear" /\ ~Told(t) => alive = {}

KeptParts ==
  /\ ChangesAlone /\ ClearsAlone
  /\ alive \subseteq Range(vmap) \cup Hands
  /\ \A t \in Threads : KeepFits(t)

KeptInv == ~met => KeptParts

LEMMA KeptInit == TableInit => KeptInv
<1> SUFFICES ASSUME TableInit
             PROVE  KeptParts
  BY DEF KeptInv
<1>1. /\ alive = {}
      /\ at = [t \in Threads |-> "idle"] /\ doing = [t \in Threads |-> "none"]
  BY DEF TableInit
<1> QED
  BY <1>1 DEF KeptParts, ChangesAlone, ClearsAlone, KeepFits, Changing

(* Nobody's hands but those of who changes have anything.                  *)
LEMMA HandsOf ==
  ASSUME Shape, NEW t \in Threads, hand[t] # {}
  PROVE  Changing(t) \/ doing[t] = "clear"
<1>1. AtFits(t) /\ at[t] \in Places /\ doing[t] \in Functs
  BY DEF Shape, Locals
<1> QED
  BY <1>1 DEF AtFits, LeaveFits, Changing, Places, Functs

LEMMA StillAloneToChange ==
  ASSUME KeptParts, NEW t \in Threads, \A s \in Threads \ {t} : Same(s),
         doing'[t] \in {"none", "get"} \/ (doing'[t] = doing[t] /\ key'[t] = key[t])
  PROVE  ChangesAlone' /\ ClearsAlone'
BY DEF KeptParts, ChangesAlone, ClearsAlone, Changing, Same

(* What the others know stays so if the map keeps what it has for every    *)
(* name but the one that t changes.                                        *)
LEMMA OthersKept ==
  ASSUME Shape, KeptParts, NEW t \in Threads, \A s \in Threads \ {t} : Same(s),
         alive' = alive \/ Changing(t) \/ doing[t] = "clear",
         vmap' = vmap \/ (Changing(t) /\ \A k \in Keys : k # key[t] => Entry(k)' = Entry(k))
                      \/ doing[t] = "clear"
  PROVE  \A s \in Threads \ {t} : KeepFits(s)'
<1> SUFFICES ASSUME NEW s \in Threads, s # t
             PROVE  KeepFits(s)'
  OBVIOUS
<1>1. Same(s) /\ KeepFits(s) /\ AtFits(s) /\ (Told(s)' <=> Told(s))
  BY DEF KeptParts, Shape, Same, Told
<1>2. doing[s] = "clear" => vmap' = vmap /\ alive' = alive
  BY DEF KeptParts, ChangesAlone, ClearsAlone
<1>3. Changing(s) => Entry(key[s])' = Entry(key[s])
  <2>1. CASE vmap' = vmap
    BY <1>1, <2>1 DEF Entry, Same
  <2>2. CASE Changing(t) /\ \A k \in Keys : k # key[t] => Entry(k)' = Entry(k)
    <3>1. Changing(s) => key[s] # key[t] /\ key[s] \in Keys /\ key'[s] = key[s]
      BY <1>1, <2>2 DEF KeptParts, ChangesAlone, AtFits, Changing, Same
    <3>2. ASSUME NEW k \in Keys, key[s] = k, key'[s] = k, k # key[t]
          PROVE  Entry(key[s])' = Entry(key[s])
      BY <2>2, <3>2 DEF Entry
    <3> QED
      BY <3>1, <3>2
  <2>3. CASE doing[t] = "clear"
    BY <2>3 DEF KeptParts, ChangesAlone
  <2> QED
    BY <2>1, <2>2, <2>3
<1>4. /\ at[s] \in {"add", "removing", "set", "delete"} => Changing(s)
      /\ at[s] \in {"values", "freeing"} => doing[s] = "clear"
      /\ doing[s] = "add" => Changing(s)
  BY <1>1 DEF AtFits, Changing
<1> QED
  BY <1>1, <1>2, <1>3, <1>4 DEF KeepFits, Same

LEMMA EnterKept ==
  ASSUME Shape, Shape', KeptParts, NEW t \in Threads, \A s \in Threads \ {t} : Same(s), Enters(t), ~met'
  PROVE  KeptParts'
<1>1. PICK f \in {"get", "add", "remove", "clear"}, to \in {"leave", "add", "removing", "values"},
            o \in {"find", "get_all_values"}, k \in Keys \cup {Null} :
        Enter(t, f, to, o, k) /\ (to = "leave" => f = "get")
  BY DEF Enters, GetIpAddr, AddIpAddr, RemoveIpAddr, ClearIpAddr
<1>2. /\ at[t] = "idle" /\ at'[t] = to /\ doing'[t] = f /\ key'[t] = k /\ doing[t] = "none"
      /\ pc'[t] = "block" /\ hand' = hand /\ UNCHANGED <<vmap, alive, allocated>>
  BY <1>1 DEF Enter, Go, Call, Shape, Locals, AtFits
<1>3. ChangesAlone' /\ ClearsAlone'
  <2>1. CASE f = "get"
    BY <1>2, <2>1, StillAloneToChange
  <2>2. CASE f # "get"
    <3>1. Changers(f, k) = {}
      BY <1>1, <2>2 DEF Enter
    <3>2. \A s \in Threads : doing[s] # "clear" /\ (Changing(s) => f # "clear" /\ key[s] # k)
      BY <3>1 DEF Changers, Changing
    <3>3. \A s \in Threads \ {t} : doing'[s] = doing[s] /\ key'[s] = key[s] /\ Changing(s)' = Changing(s)
      BY DEF Same, Changing
    <3>4. ChangesAlone'
      BY <1>2, <3>2, <3>3 DEF ChangesAlone, KeptParts, Changing
    <3>5. ClearsAlone'
      BY <1>2, <3>2, <3>3 DEF ClearsAlone
    <3> QED
      BY <3>4, <3>5
  <2> QED
    BY <2>1, <2>2
<1>4. \A s \in Threads \ {t} : KeepFits(s)'
  BY <1>2, OthersKept
<1>5. KeepFits(t)'
  BY <1>1, <1>2 DEF KeepFits, Told
<1>6. (alive \subseteq Range(vmap) \cup Hands)'
  BY <1>2 DEF KeptParts, Hands
<1> QED
  BY <1>3, <1>4, <1>5, <1>6 DEF KeptParts

LEMMA BodyKept ==
  ASSUME Shape, Shape', KeptParts, NEW t \in Threads, \A s \in Threads \ {t} : Same(s),
         BodyMove(t), UNCHANGED tableVars
  PROVE  KeptParts'
<1> USE BodyFacts
<1>1. UNCHANGED <<at, doing, key, hand, alive, allocated>> /\ Hands' = Hands
  BY DEF tableVars, Hands
<1>2. ChangesAlone' /\ ClearsAlone'
  BY <1>1, StillAloneToChange
<1>3. AtFits(t) /\ RetFits(t) /\ Types /\ Locals /\ KeepFits(t)
  BY DEF Shape, KeptParts
<1>4. CASE find(t)
  <2>1. vmap' = vmap /\ ret'[t] = Entry(call[t].key)
    BY <1>3, <1>4 DEF find, Entry, Locals
  <2>2. KeepFits(t)'
    <3>1. at[t] \in {"add", "removing"} => ret'[t] = Entry(key[t])'
      BY <1>1, <1>3, <2>1 DEF AtFits, Entry
    <3>2. at[t] \in {"leave", "add", "removing"} /\ (at[t] = "leave" => doing[t] = "get")
      BY <1>4
    <3> QED
      BY <1>1, <3>1, <3>2 DEF KeepFits
  <2>3. \A s \in Threads \ {t} : KeepFits(s)'
    BY <1>1, <2>1, OthersKept
  <2>4. (alive \subseteq Range(vmap) \cup Hands)'
    BY <1>1, <2>1 DEF KeptParts
  <2> QED
    BY <1>2, <2>2, <2>3, <2>4 DEF KeptParts
<1>5. CASE get_all_values(t)
  <2>1. vmap' = vmap /\ ret'[t] = Range(vmap) /\ at[t] = "values"
    BY <1>3, <1>5 DEF get_all_values, Locals
  <2>2. KeepFits(t)'
    BY <1>1, <2>1 DEF KeepFits
  <2>3. \A s \in Threads \ {t} : KeepFits(s)'
    BY <1>1, <2>1, OthersKept
  <2>4. (alive \subseteq Range(vmap) \cup Hands)'
    BY <1>1, <2>1 DEF KeptParts
  <2> QED
    BY <1>2, <2>2, <2>3, <2>4 DEF KeptParts
<1>6. CASE set(t)
  <2>1. /\ vmap' = [k \in DOMAIN vmap \cup {key[t]} |-> IF k = key[t] THEN call[t].value ELSE vmap[k]]
        /\ hand[t] = {call[t].value} /\ at[t] = "leave" /\ doing[t] = "add" /\ Changing(t)
    BY <1>3, <1>6 DEF set, AtFits, LeaveFits, Changing
  <2>2. Entry(key[t])' = hand'[t] /\ Entry(key[t]) \subseteq hand[t]
    BY <1>1, <1>3, <2>1 DEF Entry, KeepFits
  <2>3. KeepFits(t)'
    BY <1>1, <2>1, <2>2 DEF KeepFits
  <2>4. \A k \in Keys : k # key[t] => Entry(k)' = Entry(k)
    BY <2>1 DEF Entry
  <2>5. \A s \in Threads \ {t} : KeepFits(s)'
    BY <1>1, <2>1, <2>4, OthersKept
  <2>6. Range(vmap) \subseteq Range(vmap') \cup hand[t]
    <3>1. ASSUME NEW k \in DOMAIN vmap
          PROVE  vmap[k] \in Range(vmap') \cup hand[t]
      <4>1. CASE k = key[t]
        BY <2>2, <4>1 DEF Entry
      <4>2. CASE k # key[t]
        BY <2>1, <4>2 DEF Range
      <4> QED
        BY <4>1, <4>2
    <3> QED
      BY <3>1 DEF Range
  <2>7. hand[t] \subseteq Hands
    BY DEF Hands
  <2>8. (alive \subseteq Range(vmap) \cup Hands)'
    BY <1>1, <2>6, <2>7 DEF KeptParts
  <2> QED
    BY <1>2, <2>3, <2>5, <2>8 DEF KeptParts
<1>7. CASE remove(t)
  <2>1. /\ vmap' = [k \in DOMAIN vmap \ {key[t]} |-> vmap[k]]
        /\ at[t] = "delete" /\ Changing(t)
    BY <1>3, <1>7 DEF remove, Restrict, AtFits, Changing
  <2>2. Entry(key[t]) \subseteq hand[t]
    BY <1>3, <2>1 DEF KeepFits
  <2>3. KeepFits(t)'
    BY <1>1, <2>1 DEF KeepFits
  <2>4. \A k \in Keys : k # key[t] => Entry(k)' = Entry(k)
    BY <2>1 DEF Entry
  <2>5. \A s \in Threads \ {t} : KeepFits(s)'
    BY <1>1, <2>1, <2>4, OthersKept
  <2>6. Range(vmap) \subseteq Range(vmap') \cup hand[t]
    <3>1. ASSUME NEW k \in DOMAIN vmap
          PROVE  vmap[k] \in Range(vmap') \cup hand[t]
      <4>1. CASE k = key[t]
        BY <2>2, <4>1 DEF Entry
      <4>2. CASE k # key[t]
        BY <2>1, <4>2 DEF Range
      <4> QED
        BY <4>1, <4>2
    <3> QED
      BY <3>1 DEF Range
  <2>7. hand[t] \subseteq Hands
    BY DEF Hands
  <2>8. (alive \subseteq Range(vmap) \cup Hands)'
    BY <1>1, <2>6, <2>7 DEF KeptParts
  <2> QED
    BY <1>2, <2>3, <2>5, <2>8 DEF KeptParts
<1>8. CASE clear(t)
  <2>1. at[t] = "leave" /\ doing[t] = "clear" /\ alive = {}
    BY <1>3, <1>8 DEF KeepFits
  <2>2. KeepFits(t)'
    BY <1>1, <2>1 DEF KeepFits
  <2>3. \A s \in Threads \ {t} : KeepFits(s)'
    BY <1>1, <2>1, OthersKept
  <2>4. (alive \subseteq Range(vmap) \cup Hands)'
    BY <1>1, <2>1
  <2> QED
    BY <1>2, <2>2, <2>3, <2>4 DEF KeptParts
<1> QED
  BY <1>4, <1>5, <1>6, <1>7, <1>8 DEF BodyMove

LEMMA BetweenKept ==
  ASSUME Shape, Shape', KeptParts, NEW t \in Threads, \A s \in Threads \ {t} : Same(s), Between(t)
  PROVE  KeptParts'
<1>1. Types /\ Locals /\ AtFits(t) /\ RetFits(t) /\ AtFits(t)' /\ KeepFits(t)
  BY DEF Shape, KeptParts
<1>2. vmap' = vmap /\ (doing'[t] = "none" \/ (doing'[t] = doing[t] /\ key'[t] = key[t]))
  BY <1>1 DEF Between, Leave, NewOrOld, SetIpAddr, RemoveFound, NotFound, delete_memory,
     TakeValues, FreeOne, ClearMap, mapVars, Call, Locals
<1>3. ChangesAlone' /\ ClearsAlone'
  BY <1>2, StillAloneToChange
<1>4. /\ \A k : Entry(k)' = Entry(k)
      /\ Range(vmap)' = Range(vmap)
      /\ \A s \in Threads \ {t} : hand'[s] = hand[s]
  BY <1>2 DEF Entry, Same
<1> USE <1>1 DEF Locals, Go, Returned
<1>5. /\ KeepFits(t)'
      /\ alive' = alive \/ Changing(t) \/ doing[t] = "clear"
      /\ \/ alive' = alive /\ (hand[t] \subseteq hand'[t] \/ hand[t] \subseteq Range(vmap) \/ hand[t] \cap alive = {})
         \/ alive' = alive \cup hand'[t] /\ hand[t] = {}
         \/ alive' \subseteq alive /\ hand[t] \cap alive' \subseteq hand'[t]
  <2>1. CASE Leave(t)
    <3>1. /\ at[t] = "leave" /\ at'[t] = "idle" /\ pc[t] = "idle" /\ alive' = alive
      BY <2>1 DEF Leave
    <3>2. doing[t] = "add" => Entry(key[t]) = hand[t]
      BY <3>1 DEF KeepFits, Told
    <3>3. hand[t] \subseteq Range(vmap)
      BY <3>1, <3>2 DEF AtFits, LeaveFits, Functs, Entry, Range
    <3>4. KeepFits(t)'
      BY <3>1 DEF KeepFits
    <3> QED
      BY <3>1, <3>3, <3>4
  <2>2. CASE NewOrOld(t)
    <3>1. /\ at[t] = "add" /\ at'[t] = "set" /\ doing[t] = "add" /\ key'[t] = key[t] /\ hand[t] = {}
          /\ hand'[t] = IF ret[t] = {} THEN {allocated + 1} ELSE ret[t]
          /\ ret[t] = Entry(key[t])
          /\ alive' = alive \cup hand'[t] \/ alive' = alive
      BY <2>2 DEF NewOrOld, AtFits, KeepFits, Told
    <3>2. KeepFits(t)'
      BY <1>4, <3>1 DEF KeepFits
    <3> QED
      BY <3>1, <3>2 DEF Changing
  <2>3. CASE SetIpAddr(t)
    <3>1. /\ at[t] = "set" /\ at'[t] = "leave" /\ doing[t] = "add" /\ doing'[t] = "add" /\ key'[t] = key[t]
          /\ hand'[t] = hand[t] /\ alive' = alive /\ pc'[t] = "block"
      BY <2>3 DEF SetIpAddr, AtFits, Call
    <3>2. KeepFits(t)'
      BY <1>4, <3>1 DEF KeepFits, Told
    <3> QED
      BY <3>1, <3>2
  <2>4. CASE RemoveFound(t)
    <3>1. /\ at[t] = "removing" /\ at'[t] = "delete" /\ key'[t] = key[t] /\ hand[t] = {}
          /\ hand'[t] = ret[t] /\ alive' = alive /\ ret[t] = Entry(key[t])
      BY <2>4 DEF RemoveFound, AtFits, Call, KeepFits, Told
    <3>2. KeepFits(t)'
      BY <1>4, <3>1 DEF KeepFits
    <3> QED
      BY <3>1, <3>2
  <2>5. CASE NotFound(t)
    <3>1. /\ at[t] = "removing" /\ at'[t] = "leave" /\ doing'[t] = "remove"
          /\ hand'[t] = hand[t] /\ alive' = alive
      BY <2>5 DEF NotFound, AtFits, mapVars
    <3>2. KeepFits(t)'
      BY <3>1 DEF KeepFits
    <3> QED
      BY <3>1, <3>2
  <2>6. CASE delete_memory(t)
    <3>1. /\ at[t] = "delete" /\ at'[t] = "leave" /\ doing'[t] = "remove" /\ doing[t] = "remove"
          /\ hand'[t] = {} /\ alive' = alive \ hand[t]
      BY <2>6 DEF delete_memory, AtFits, mapVars
    <3>2. KeepFits(t)'
      BY <3>1 DEF KeepFits
    <3> QED
      BY <3>1, <3>2 DEF Changing
  <2>7. CASE TakeValues(t)
    <3>1. /\ at[t] = "values" /\ at'[t] = "freeing" /\ doing[t] = "clear" /\ hand[t] = {}
          /\ hand'[t] = ret[t] /\ alive' = alive /\ ret[t] = Range(vmap)
      BY <2>7 DEF TakeValues, AtFits, mapVars, KeepFits, Told
    <3>2. \A s \in Threads : hand[s] = {}
      BY <3>1, HandsOf DEF KeptParts, ChangesAlone, ClearsAlone
    <3>3. alive \subseteq Range(vmap)
      BY <3>2 DEF KeptParts, Hands
    <3>4. KeepFits(t)'
      BY <3>1, <3>3 DEF KeepFits
    <3> QED
      BY <3>1, <3>4
  <2>8. CASE FreeOne(t)
    <3>1. PICK p \in hand[t] : alive' = alive \ {p} /\ hand'[t] = hand[t] \ {p}
      BY <2>8 DEF FreeOne
    <3>2. at[t] = "freeing" /\ at'[t] = "freeing" /\ doing[t] = "clear" /\ alive \subseteq hand[t]
      BY <2>8 DEF FreeOne, AtFits, KeepFits
    <3>3. KeepFits(t)'
      BY <3>1, <3>2 DEF KeepFits
    <3> QED
      BY <3>1, <3>2, <3>3
  <2>9. CASE ClearMap(t)
    <3>1. /\ at[t] = "freeing" /\ at'[t] = "leave" /\ hand[t] = {} /\ doing'[t] = "clear"
          /\ hand'[t] = hand[t] /\ alive' = alive /\ alive = {}
      BY <2>9 DEF ClearMap, AtFits, KeepFits
    <3>2. KeepFits(t)'
      BY <3>1 DEF KeepFits
    <3> QED
      BY <3>1, <3>2
  <2> QED
    BY <2>1, <2>2, <2>3, <2>4, <2>5, <2>6, <2>7, <2>8, <2>9 DEF Between
<1>6. \A s \in Threads \ {t} : KeepFits(s)'
  BY <1>2, <1>5, OthersKept
<1>7. (alive \subseteq Range(vmap) \cup Hands)'
  <2>1. ASSUME NEW p \in alive', p \notin Range(vmap)
        PROVE  p \in Hands'
    <3>1. p \in hand'[t] \/ p \in alive
      BY <1>5, <2>1
    <3>2. CASE p \in hand'[t]
      BY <3>2 DEF Hands
    <3>3. CASE p \in alive /\ p \notin hand'[t]
      <4>1. PICK s \in Threads : p \in hand[s]
        BY <2>1, <3>3 DEF KeptParts, Hands
      <4>2. s # t
        BY <1>5, <2>1, <3>3, <4>1
      <4> QED
        BY <1>4, <4>1, <4>2 DEF Hands
    <3> QED
      BY <3>1, <3>2, <3>3
  <2> QED
    BY <1>4, <2>1
<1> QED
  BY <1>3, <1>5, <1>6, <1>7 DEF KeptParts

LEMMA KeptStep == Shape /\ Shape' /\ KeptInv /\ [TableNext]_vars => KeptInv'
<1> SUFFICES ASSUME Shape, Shape', KeptInv, [TableNext]_vars, ~met'
             PROVE  KeptParts'
  BY DEF KeptInv
<1>1. CASE UNCHANGED vars
  <2>1. KeptParts
    BY <1>1 DEF KeptInv, vars, tableVars, history
  <2> QED
    BY <1>1, <2>1 DEF vars, mapVars, tableVars, KeptParts, ChangesAlone, ClearsAlone, KeepFits,
       Changing, Told, Entry, Hands
<1>2. ASSUME NEW t \in Threads, Enters(t) \/ Continues(t)
      PROVE  KeptParts'
  <2>1. \A s \in Threads \ {t} : Same(s)
    BY <1>2, OthersKeep DEF Shape
  <2>2. CASE Enters(t)
    <3>1. ~met
      BY <2>2 DEF Enters, GetIpAddr, AddIpAddr, RemoveIpAddr, ClearIpAddr, Enter
    <3> QED
      BY <2>1, <2>2, <3>1, EnterKept DEF KeptInv
  <2>3. CASE Between(t)
    <3>1. ~met
      BY <2>3, BetweenShape DEF history
    <3> QED
      BY <2>1, <2>3, <3>1, BetweenKept DEF KeptInv
  <2>4. CASE Inner(t)
    <3>1. KeptParts /\ UNCHANGED tableVars
      BY <2>4 DEF Inner, KeptInv, tableVars, history
    <3>2. CASE BodyMove(t)
      BY <2>1, <3>1, <3>2, BodyKept
    <3>3. CASE LockMove(t)
      <4>1. /\ UNCHANGED <<at, doing, key, hand, alive, vmap, ret>>
            /\ \A s \in Threads : Told(s)' = Told(s)
        BY <2>1, <3>1, <3>3, LockMoveShape DEF tableVars, Same, Told
      <4> QED
        BY <3>1, <4>1 DEF KeptParts, ChangesAlone, ClearsAlone, KeepFits, Changing, Entry, Hands
    <3> QED
      BY <2>4, <3>2, <3>3 DEF Inner, MapStep, BodyMove, LockMove
  <2> QED
    BY <1>2, <2>2, <2>3, <2>4 DEF Continues, Between
<1> QED
  BY <1>1, <1>2 DEF TableNext

(* Whoever calls what for which name: nothing is deleted twice, used after *)
(* that or left dangling in the map until a RemoveIpAddr or ClearIpAddr has*)
(* met another change of the same name, and nothing is leaked until two    *)
(* changes have met (InetTable.cpp:39, 54, 66).                            *)
THEOREM OwnedOnceCorrect == TableSpec => []OwnedOnce
<1>1. Shape /\ SafeInv /\ KeptInv => OwnedOnce
  <2> SUFFICES ASSUME Shape, SafeInv, KeptInv
               PROVE  OwnedOnce
    OBVIOUS
  <2>1. ASSUME ~metDelete
        PROVE  /\ ~faulted
               /\ \A k, l \in DOMAIN vmap : vmap[k] = vmap[l] => k = l
    BY <2>1 DEF SafeInv, SafeParts, OneName, Has, Shape, Types
  <2>2. ASSUME ~metDelete, \A t \in Threads : doing[t] # "clear"
        PROVE  Range(vmap) \subseteq alive
    <3>1. \A c \in Threads : ~Clearing(c)
      BY <2>2 DEF Clearing, Shape, AtFits
    <3> QED
      BY <2>2, <3>1 DEF SafeInv, SafeParts, NothingDangles, Has, Shape, Types, Range
  <2>3. ~met => alive \subseteq Range(vmap) \cup UNION {hand[t] : t \in Threads}
    BY DEF KeptInv, KeptParts, Hands
  <2> QED
    BY <2>1, <2>2, <2>3 DEF OwnedOnce
<1>2. TableSpec => [](Shape /\ SafeInv)
  BY ShapeInit, ShapeStep, SafeInit, SafeStep, PTL DEF TableSpec
<1>3. TableSpec => [](Shape /\ KeptInv)
  BY ShapeInit, ShapeStep, KeptInit, KeptStep, PTL DEF TableSpec
<1> QED
  BY <1>1, <1>2, <1>3, PTL
=============================================================================

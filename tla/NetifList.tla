------------------------------- MODULE NetifList -------------------------------
(***************************************************************************)
(* The list of interfaces (esp_netif_objects.c).  Its mutex is created by  *)
(* the first call that finds none and deleted by every call that leaves an *)
(* empty list, with no other lock around either.                           *)
(***************************************************************************)
EXTENDS Integers, Sequences, FiniteSets

CONSTANTS
  Listers,  \* tasks that use the list
  Entries,  \* esp_netif_t objects, none of them used twice
  Locks     \* mutex objects, used again after they were deleted

VARIABLES
  list,      \* s_head, the first entry first
  counter,   \* s_esp_netif_counter
  listLock,  \* s_list_lock
  holder,    \* of each mutex that exists: its holder
  listers,   \* the call of each task
  gone,      \* objects that were freed
  raced      \* two calls went on while the list was empty (history)

listVars == <<list, counter, listLock, holder, listers, gone, raced>>

None == "NULL"
Free == "free"
IdleLister == [pc |-> "idle", op |-> "none", entry |-> None, lock |-> None]

Init ==
  /\ list = <<>> /\ counter = 0
  /\ listLock = None /\ holder = [l \in Locks |-> None]
  /\ listers = [t \in Listers |-> IdleLister]
  /\ gone = {} /\ raced = FALSE

InList(e) == \E i \in DOMAIN list : list[i] = e

At(t, pc) == listers[t].pc = pc

Goes(t, pc) == listers' = [listers EXCEPT ![t].pc = pc]

Busy == Cardinality({t \in Listers : listers'[t].pc # "idle"})
Watch == raced' = (raced \/ (counter' = 0 /\ Busy > 1))

-----------------------------------------------------------------------------
(* esp_netif_add_to_list of a new object, esp_netif_remove_from_list by    *)
(* the task that destroys it, or a walk from the first entry to the last.  *)
Enter(t, op, e) ==
  /\ At(t, "idle")
  /\ CASE op = "add" -> e \notin gone /\ ~InList(e) /\ \A u \in Listers : listers[u].entry # e
       [] op = "remove" -> InList(e) /\ \A u \in Listers : listers[u].op = "remove" => listers[u].entry # e
       [] op = "walk" -> e = None
  /\ listers' = [listers EXCEPT ![t] = [pc |-> "lock", op |-> op, entry |-> e, lock |-> None]]
  /\ UNCHANGED <<list, counter, listLock, holder, gone>>
  /\ Watch

(* esp_netif_list_lock *)
LockTest(t) ==
  /\ At(t, "lock")
  /\ Goes(t, IF listLock = None THEN "create" ELSE "take")
  /\ UNCHANGED <<list, counter, listLock, holder, gone>>
  /\ Watch

LockCreate(t) ==
  /\ At(t, "create")
  /\ \/ \E l \in Locks : /\ holder[l] = None
                         /\ holder' = [holder EXCEPT ![l] = Free]
                         /\ listLock' = l
                         /\ Goes(t, "take")
     \/ /\ listers' = [listers EXCEPT ![t] = IdleLister]    \* ESP_ERR_NO_MEM
        /\ UNCHANGED <<holder, listLock>>
  /\ UNCHANGED <<list, counter, gone>>
  /\ Watch

LockWait(t) ==
  /\ At(t, "take")
  /\ listers' = [listers EXCEPT ![t].pc = "wait", ![t].lock = listLock]
  /\ UNCHANGED <<list, counter, listLock, holder, gone>>
  /\ Watch

(* A mutex that was deleted, or none, is not given any more. *)
LockTake(t) ==
  /\ At(t, "wait") /\ listers[t].lock # None /\ holder[listers[t].lock] = Free
  /\ holder' = [holder EXCEPT ![listers[t].lock] = t]
  /\ Goes(t, "in")
  /\ UNCHANGED <<list, counter, listLock, gone>>
  /\ Watch

-----------------------------------------------------------------------------
Insert(t) ==
  /\ At(t, "in") /\ listers[t].op = "add"
  /\ list' = <<listers[t].entry>> \o list
  /\ counter' = counter + 1
  /\ Goes(t, "unlock")
  /\ UNCHANGED <<listLock, holder, gone>>
  /\ Watch

(* SLIST_REMOVE: the elements behind it move. *)
Without(s, i) == SubSeq(s, 1, i - 1) \o SubSeq(s, i + 1, Len(s))

Remove(t) ==
  /\ At(t, "in") /\ listers[t].op = "remove"
  /\ \E i \in DOMAIN list : list[i] = listers[t].entry /\ list' = Without(list, i)
  /\ counter' = counter - 1
  /\ Goes(t, "unlock")
  /\ UNCHANGED <<listLock, holder, gone>>
  /\ Watch

(* esp_netif_next_unsafe *)
Next_unsafe(e) ==
  IF e = None THEN (IF list = <<>> THEN None ELSE Head(list))
  ELSE LET later == {i \in DOMAIN list : i > 1 /\ list[i - 1] = e} IN
       IF later = {} THEN None ELSE list[CHOOSE i \in later : TRUE]

(* One step of a walk, which reads the entry; at the end the list is left. *)
Walk(t) ==
  /\ At(t, "in") /\ listers[t].op = "walk"
  /\ LET e == Next_unsafe(listers[t].entry) IN
     listers' = [listers EXCEPT ![t].entry = e, ![t].pc = IF e = None THEN "unlock" ELSE "in"]
  /\ UNCHANGED <<list, counter, listLock, holder, gone>>
  /\ Watch

-----------------------------------------------------------------------------
(* esp_netif_list_unlock.  Its assertion that there is a lock is a guard,  *)
(* as is that of FreeRTOS that the mutex which is given is not another's.  *)
Unlock(t) ==
  /\ At(t, "unlock") /\ listLock # None /\ holder[listLock] \in {t, Free}
  /\ holder' = [holder EXCEPT ![listLock] = Free]
  /\ Goes(t, "given")
  /\ UNCHANGED <<list, counter, listLock, gone>>
  /\ Watch

(* Whoever removed an entry frees the object after the call. *)
Return(t) ==
  /\ listers' = [listers EXCEPT ![t] = IdleLister]
  /\ gone' = IF listers[t].op = "remove" THEN gone \cup {listers[t].entry} ELSE gone

UnlockDelete_One(t) ==
  /\ At(t, "given")
  /\ \/ counter > 1 /\ UNCHANGED <<holder, listLock>>
     \/ /\ counter <= 1 /\ listLock # None
        /\ holder' = [holder EXCEPT ![listLock] = None] /\ listLock' = None
  /\ Return(t)
  /\ UNCHANGED <<list, counter>>
  /\ Watch

(* To delete none is an assertion of FreeRTOS too. *)
UnlockDelete(t) ==
  /\ At(t, "given")
  /\ \/ counter # 0 /\ UNCHANGED <<holder, listLock>>
     \/ /\ counter = 0 /\ listLock # None
        /\ holder' = [holder EXCEPT ![listLock] = None] /\ listLock' = None
  /\ Return(t)
  /\ UNCHANGED <<list, counter>>
  /\ Watch

Step(t) ==
  \/ LockTest(t) \/ LockCreate(t) \/ LockWait(t) \/ LockTake(t)
  \/ Insert(t) \/ Remove(t) \/ Walk(t) \/ Unlock(t) \/ UnlockDelete(t)

Next ==
  \E t \in Listers :
    \/ Step(t)
    \/ \E op \in {"add", "remove", "walk"}, e \in Entries \cup {None} : Enter(t, op, e)

Spec == Init /\ [][Next]_listVars

-----------------------------------------------------------------------------
(* Properties *)

(* As long as no two calls meet at an empty list, the mutex does its work: *)
(* one task at a time is in the list, a task that waits does so for the    *)
(* mutex that exists, and a walk reads no object that was freed, although  *)
(* the test in unlock reads the counter after the mutex was given back.    *)
ListIsProtected ==
  ~raced =>
    /\ Cardinality({t \in Listers : listers[t].pc \in {"in", "unlock"}}) <= 1
    /\ \A t \in Listers :
         /\ listers[t].pc \in {"take", "wait"} => listLock # None /\ holder[listLock] # None
         /\ listers[t].pc \in {"wait", "in", "unlock"} => listers[t].lock = listLock
         /\ listers[t].op = "walk" => listers[t].entry \notin gone
    /\ counter = Len(list)
=============================================================================

------------------------------ MODULE DefaultLoop ------------------------------
(***************************************************************************)
(* The default event loop (default_event_loop.c) and the legacy loop on    *)
(* top of it (event_loop_legacy.c, event_send.c): which loop each call     *)
(* uses.  What a loop does is in EventLoop.  s_default_loop has no lock;   *)
(* every call tests it and reads it again when it is used.                 *)
(***************************************************************************)
EXTENDS Integers, FiniteSets

CONSTANTS
  Clients,  \* tasks
  Loops     \* event loop objects, none of them used twice

VARIABLES
  dflt,         \* s_default_loop
  loops,        \* new, live or freed
  registered,   \* loops with the legacy handler
  initialized,  \* s_initialized
  legacyCb,     \* whether s_event_handler_cb is set
  clients,      \* the call of each task
  overlapped,   \* a call went on during a creation or deletion (history)
  deletedAlone  \* the default loop was deleted under the legacy loop (history)

defaultVars == <<dflt, loops, registered, initialized, legacyCb, clients, overlapped, deletedAlone>>

None == "NULL"
IdleClient == [pc |-> "idle", op |-> "none", loop |-> None]
Ops == {"create", "delete", "use", "init", "deinit", "send"}

Init ==
  /\ dflt = None
  /\ loops = [l \in Loops |-> "new"] /\ registered = {}
  /\ initialized = FALSE /\ legacyCb = FALSE
  /\ clients = [t \in Clients |-> IdleClient]
  /\ overlapped = FALSE /\ deletedAlone = FALSE

(* What calls do after an overlap is not followed. *)
At(t, pc) == clients[t].pc = pc /\ ~overlapped
Goes(t, pc, l) == clients' = [clients EXCEPT ![t].pc = pc, ![t].loop = l]
Return(t) == clients' = [clients EXCEPT ![t] = IdleClient]

Watch ==
  LET busy == {t \in Clients : clients'[t].pc # "idle"} IN
  overlapped' = (overlapped \/
    (Cardinality(busy) > 1 /\ \E t \in busy : clients'[t].op \in {"create", "delete", "init", "deinit"}))

-----------------------------------------------------------------------------
Call(t, op) ==
  /\ At(t, "idle")
  /\ clients' = [clients EXCEPT ![t] = [pc |-> op, op |-> op, loop |-> None]]
  /\ UNCHANGED <<dflt, loops, registered, initialized, legacyCb, deletedAlone>>
  /\ Watch

(* esp_event_loop_create_default; esp_event_loop_init goes on when there   *)
(* is a loop already, and returns when none could be created.              *)
CreateExists(t) ==
  /\ At(t, "create") /\ dflt # None
  /\ IF clients[t].op = "init" THEN Goes(t, "register", None) ELSE Return(t)
  /\ UNCHANGED <<dflt, loops, registered, initialized, legacyCb, deletedAlone>>
  /\ Watch

Create(t) ==
  /\ At(t, "create") /\ dflt = None
  /\ \/ \E l \in Loops : /\ loops[l] = "new"
                         /\ loops' = [loops EXCEPT ![l] = "live"]
                         /\ dflt' = l
                         /\ IF clients[t].op = "init" THEN Goes(t, "register", None) ELSE Return(t)
     \/ Return(t) /\ UNCHANGED <<dflt, loops>>
  /\ UNCHANGED <<registered, initialized, legacyCb, deletedAlone>>
  /\ Watch

(* esp_event_loop_delete_default *)
DeleteNone(t) ==
  /\ At(t, "delete") /\ dflt = None
  /\ IF clients[t].op = "deinit" THEN Goes(t, "reset", None) ELSE Return(t)
  /\ UNCHANGED <<dflt, loops, registered, initialized, legacyCb, deletedAlone>>
  /\ Watch

Delete(t) ==
  /\ At(t, "delete") /\ dflt # None
  /\ loops' = [loops EXCEPT ![dflt] = "freed"]
  /\ registered' = registered \ {dflt}
  /\ deletedAlone' = (deletedAlone \/ (initialized /\ clients[t].op = "delete"))
  /\ Goes(t, "clear", None)
  /\ UNCHANGED <<dflt, initialized, legacyCb>>
  /\ Watch

DeleteClear_Keeps(t) ==
  /\ At(t, "clear")
  /\ IF clients[t].op = "deinit" THEN Goes(t, "reset", None) ELSE Return(t)
  /\ UNCHANGED <<dflt, loops, registered, initialized, legacyCb, deletedAlone>>
  /\ Watch

DeleteClear(t) ==
  /\ At(t, "clear")
  /\ dflt' = None
  /\ IF clients[t].op = "deinit" THEN Goes(t, "reset", None) ELSE Return(t)
  /\ UNCHANGED <<loops, registered, initialized, legacyCb, deletedAlone>>
  /\ Watch

(* esp_event_post, esp_event_handler_register and the other wrappers.      *)
Test(t) ==
  /\ At(t, "use")
  /\ IF dflt = None THEN Return(t) ELSE Goes(t, "using", dflt)
  /\ UNCHANGED <<dflt, loops, registered, initialized, legacyCb, deletedAlone>>
  /\ Watch

Use(t) ==
  /\ At(t, "using")
  /\ Return(t)
  /\ UNCHANGED <<dflt, loops, registered, initialized, legacyCb, deletedAlone>>
  /\ Watch

(* esp_event_send_internal and esp_event_send_legacy: the legacy part is   *)
(* sent to the default loop when the legacy loop was initialized.          *)
Send(t) ==
  /\ At(t, "send")
  /\ IF initialized THEN Goes(t, "use", None) ELSE Return(t)
  /\ UNCHANGED <<dflt, loops, registered, initialized, legacyCb, deletedAlone>>
  /\ Watch

-----------------------------------------------------------------------------
(* esp_event_loop_init *)
LegacyInit(t) ==
  /\ At(t, "init")
  /\ IF initialized THEN Return(t) ELSE Goes(t, "create", None)
  /\ UNCHANGED <<dflt, loops, registered, initialized, legacyCb, deletedAlone>>
  /\ Watch

(* A registration that fails leaves the loop created. *)
LegacyRegister(t) ==
  /\ At(t, "register")
  /\ \/ /\ dflt # None
        /\ registered' = registered \cup {dflt}
        /\ initialized' = TRUE /\ legacyCb' = TRUE /\ deletedAlone' = FALSE
     \/ UNCHANGED <<registered, initialized, legacyCb, deletedAlone>>
  /\ Return(t)
  /\ UNCHANGED <<dflt, loops>>
  /\ Watch

(* esp_event_loop_deinit: without a default loop, the handler cannot be    *)
(* unregistered and the call fails.                                        *)
LegacyDeinit(t) ==
  /\ At(t, "deinit")
  /\ IF initialized /\ dflt # None
     THEN registered' = registered \ {dflt} /\ Goes(t, "delete", None)
     ELSE UNCHANGED registered /\ Return(t)
  /\ UNCHANGED <<dflt, loops, initialized, legacyCb, deletedAlone>>
  /\ Watch

LegacyReset(t) ==
  /\ At(t, "reset")
  /\ initialized' = FALSE /\ legacyCb' = FALSE /\ deletedAlone' = FALSE
  /\ Return(t)
  /\ UNCHANGED <<dflt, loops, registered>>
  /\ Watch

-----------------------------------------------------------------------------
Next ==
  \E t \in Clients :
    \/ \E op \in Ops : Call(t, op)
    \/ CreateExists(t) \/ Create(t) \/ DeleteNone(t) \/ Delete(t) \/ DeleteClear(t)
    \/ Test(t) \/ Use(t) \/ Send(t)
    \/ LegacyInit(t) \/ LegacyRegister(t) \/ LegacyDeinit(t) \/ LegacyReset(t)

Spec == Init /\ [][Next]_defaultVars

-----------------------------------------------------------------------------
(* Properties *)

(* As long as the application lets no call overlap a creation or deletion, *)
(* calls use the loop that exists and none is left behind, whatever the    *)
(* order of the two interfaces; and while the legacy loop is initialized,  *)
(* its handler is registered with the default loop and has its callback,   *)
(* unless the default loop was deleted on its own.                         *)
CallsUseTheLoop ==
  ~overlapped =>
    /\ \A t \in Clients : At(t, "using") => loops[clients[t].loop] = "live"
    /\ (\A t \in Clients : At(t, "idle")) =>
         /\ {l \in Loops : loops[l] = "live"} = {dflt} \ {None}
         /\ initialized /\ ~deletedAlone => dflt \in registered /\ legacyCb
=============================================================================

------------------------------ MODULE TcpipCalls ------------------------------
(***************************************************************************)
(* How other tasks reach the TCP/IP thread of lwIP: calls of the esp_netif *)
(* interface (esp_netif_lwip.c) wait for an answer, received frames        *)
(* (wlanif.c, ethernetif.c, esp_pbuf_ref.c) do not.  Both go through the   *)
(* one mailbox of the thread, which sys_arch.c builds on a FreeRTOS queue. *)
(* One interface is followed until it is destroyed, others stay.           *)
(***************************************************************************)
EXTENDS Integers, Sequences

CONSTANTS
  Callers,    \* tasks that call the interface
  Frames,     \* receive buffers of the driver
  MboxSize    \* TCPIP_MBOX_SIZE

VARIABLES
  calls,      \* a call of each task, with its message: the function and whether it ran
  mbox,       \* the mailbox
  core,       \* what the TCP/IP thread is doing
  apiLock,    \* api_lock_sem
  apiSync,    \* api_sync_sem
  rxcall,     \* the driver's call of esp_netif_receive
  where,      \* who has a frame
  interface,  \* up, down, removed from lwIP, freed
  late        \* frames whose esp_netif_receive met esp_netif_destroy (history)

tcpipVars == <<calls, mbox, core, apiLock, apiSync, rxcall, where, interface, late>>

Idle == [pc |-> "idle"]
NoCall == [pc |-> "idle", fn |-> "none", ran |-> FALSE]
Functions == {"up", "down", "remove", "other"}

(* After esp_netif_init: the thread runs and both semaphores exist. *)
TcpipInit ==
  /\ calls = [t \in Callers |-> NoCall]
  /\ mbox = <<>> /\ core = Idle
  /\ apiLock = 1 /\ apiSync = 0
  /\ rxcall = Idle
  /\ where = [f \in Frames |-> "driver"]
  /\ interface = "down" /\ late = {}

Destroying == \E t \in Callers : calls[t].fn = "remove"

-----------------------------------------------------------------------------
(* esp_netif_lwip_ipc_call.  The message is on the stack of the caller.    *)
(* Calls of another interface go on at any time; nobody uses this one      *)
(* during or after the call that destroys it.                              *)
Call(t, fn) ==
  /\ calls[t].pc = "idle"
  /\ fn # "other" => interface \in {"up", "down"} /\ ~Destroying
  /\ fn = "remove" => \A u \in Callers : calls[u].fn \in {"none", "other"}
  /\ calls' = [calls EXCEPT ![t] = [pc |-> "lock", fn |-> fn, ran |-> FALSE]]
  /\ late' = IF fn = "remove" /\ rxcall # Idle THEN late \cup {rxcall.frame} ELSE late
  /\ UNCHANGED <<mbox, core, apiLock, apiSync, rxcall, where, interface>>

CallLock_Free(t) ==
  /\ calls[t].pc = "lock"
  /\ calls' = [calls EXCEPT ![t].pc = "post"]
  /\ UNCHANGED <<mbox, core, apiLock, apiSync, rxcall, where, interface, late>>

(* sys_arch_sem_wait(&api_lock_sem, 0) *)
CallLock(t) ==
  /\ calls[t].pc = "lock" /\ apiLock = 1
  /\ apiLock' = 0
  /\ calls' = [calls EXCEPT ![t].pc = "post"]
  /\ UNCHANGED <<mbox, core, apiSync, rxcall, where, interface, late>>

(* sys_mbox_post waits for room. *)
CallPost(t) ==
  /\ calls[t].pc = "post" /\ Len(mbox) < MboxSize
  /\ mbox' = Append(mbox, [kind |-> "api", from |-> t])
  /\ calls' = [calls EXCEPT ![t].pc = "wait"]
  /\ UNCHANGED <<core, apiLock, apiSync, rxcall, where, interface, late>>

(* sys_arch_sem_wait(&api_sync_sem, 0) *)
CallWait(t) ==
  /\ calls[t].pc = "wait" /\ apiSync = 1
  /\ apiSync' = 0
  /\ calls' = [calls EXCEPT ![t].pc = "unlock"]
  /\ UNCHANGED <<mbox, core, apiLock, rxcall, where, interface, late>>

(* sys_sem_signal(&api_lock_sem), and the result is read from the message. *)
CallReturn(t) ==
  /\ calls[t].pc = "unlock"
  /\ apiLock' = 1
  /\ calls' = [calls EXCEPT ![t] = IF @.fn = "remove" THEN [@ EXCEPT !.pc = "free"] ELSE NoCall]
  /\ UNCHANGED <<mbox, core, apiSync, rxcall, where, interface, late>>

Destroy_Directly(t) ==
  /\ calls[t].pc = "free" \/ (calls[t].pc = "lock" /\ calls[t].fn = "remove")
  /\ interface' = "freed"
  /\ calls' = [calls EXCEPT ![t] = NoCall]
  /\ UNCHANGED <<mbox, core, apiLock, apiSync, rxcall, where, late>>

(* The rest of esp_netif_destroy. *)
Free(t) ==
  /\ calls[t].pc = "free"
  /\ interface' = "freed"
  /\ calls' = [calls EXCEPT ![t] = NoCall]
  /\ UNCHANGED <<mbox, core, apiLock, apiSync, rxcall, where, late>>

Caller(t) ==
  CallLock(t) \/ CallPost(t) \/ CallWait(t) \/ CallReturn(t) \/ Free(t)

-----------------------------------------------------------------------------
(* The TCP/IP thread: sys_arch_mbox_fetch, then the message.               *)
Fetch ==
  /\ core = Idle /\ mbox # <<>>
  /\ LET m == Head(mbox) IN
     /\ core' = IF m.kind = "api" THEN [pc |-> "run", from |-> m.from]
                ELSE [pc |-> "input", frame |-> m.frame]
     /\ where' = IF m.kind = "frame" THEN [where EXCEPT ![m.frame] = "core"] ELSE where
  /\ mbox' = Tail(mbox)
  /\ UNCHANGED <<calls, apiLock, apiSync, rxcall, interface, late>>

Applied(fn) ==
  CASE fn \in {"up", "down"} -> fn [] fn = "remove" -> "removed" [] fn = "other" -> interface

QueryHolder_Never(thread) == FALSE

(* sys_thread_tcpip(LWIP_CORE_LOCK_QUERY_HOLDER) *)
QueryHolder(thread) == thread = "tcpip"

(* esp_netif_api_cb: the function runs and its result is stored in the     *)
(* message.  The functions of the other interface call another one, which  *)
(* runs directly, as it is in the thread already.                          *)
CoreRun ==
  /\ core.pc = "run"
  /\ calls[core.from].fn = "other" => QueryHolder("tcpip")
  /\ interface' = Applied(calls[core.from].fn)
  /\ calls' = [calls EXCEPT ![core.from].ran = TRUE]
  /\ core' = [pc |-> "signal"]
  /\ UNCHANGED <<mbox, apiLock, apiSync, rxcall, where, late>>

CoreSignal ==
  /\ core.pc = "signal"
  /\ apiSync' = 1
  /\ core' = Idle
  /\ UNCHANGED <<calls, mbox, apiLock, rxcall, where, interface, late>>

(* ethernet_input: the frame is consumed, or kept for a socket. *)
CoreInput ==
  /\ core.pc = "input"
  /\ \E to \in {"driver", "socket"} : where' = [where EXCEPT ![core.frame] = to]
  /\ core' = Idle
  /\ UNCHANGED <<calls, mbox, apiLock, apiSync, rxcall, interface, late>>

Core == Fetch \/ CoreRun \/ CoreSignal \/ CoreInput

(* An application reads from its socket, which frees the pbuf. *)
SocketRead(f) ==
  /\ where[f] = "socket"
  /\ where' = [where EXCEPT ![f] = "driver"]
  /\ UNCHANGED <<calls, mbox, core, apiLock, apiSync, rxcall, interface, late>>

-----------------------------------------------------------------------------
(* esp_netif_receive and wlanif_input (ethernetif_input), in the task of   *)
(* the driver, which makes no new call once esp_netif_destroy was called.  *)
ReceiveFrame(f) ==
  /\ rxcall = Idle /\ where[f] = "driver"
  /\ interface \in {"up", "down"} /\ ~Destroying
  /\ rxcall' = [pc |-> "check", frame |-> f]
  /\ where' = [where EXCEPT ![f] = "rx"]
  /\ late' = late \ {f}
  /\ UNCHANGED <<calls, mbox, core, apiLock, apiSync, interface>>

ReceiveOver(to) ==
  /\ rxcall' = Idle
  /\ where' = [where EXCEPT ![rxcall.frame] = to]

(* netif_is_up, and the pbuf that refers to the buffer *)
ReceiveCheck ==
  /\ rxcall.pc = "check"
  /\ \/ interface = "up" /\ rxcall' = [rxcall EXCEPT !.pc = "input"] /\ UNCHANGED where
     \/ ReceiveOver("driver")    \* not up, or no memory: the buffer is freed
  /\ UNCHANGED <<calls, mbox, core, apiLock, apiSync, interface, late>>

(* tcpip_input: sys_mbox_trypost refuses a frame that has no room. *)
ReceiveInput ==
  /\ rxcall.pc = "input"
  /\ IF Len(mbox) < MboxSize
     THEN mbox' = Append(mbox, [kind |-> "frame", frame |-> rxcall.frame]) /\ ReceiveOver("mbox")
     ELSE UNCHANGED mbox /\ ReceiveOver("driver")
  /\ UNCHANGED <<calls, core, apiLock, apiSync, interface, late>>

TcpipNext ==
  \/ \E t \in Callers : Caller(t) \/ \E fn \in Functions : Call(t, fn)
  \/ Core
  \/ \E f \in Frames : ReceiveFrame(f) \/ SocketRead(f)
  \/ ReceiveCheck \/ ReceiveInput

TcpipSpec == TcpipInit /\ [][TcpipNext]_tcpipVars

(* The thread and the callers are scheduled.  A semaphore is given to the  *)
(* task that waits for it longest at its priority, and so is room in the   *)
(* mailbox; the driver does not take every free place before it.           *)
TcpipFairness ==
  /\ WF_tcpipVars(Core)
  /\ \A t \in Callers : /\ SF_tcpipVars(CallLock(t)) /\ SF_tcpipVars(CallPost(t))
                        /\ WF_tcpipVars(CallWait(t) \/ CallReturn(t) \/ Free(t))

-----------------------------------------------------------------------------
(* Properties *)

(* With one semaphore for the answers of all tasks, a call returns only    *)
(* after its own function ran, and the thread never has a message whose    *)
(* call returned already, as messages are on the stacks of their callers.  *)
CallIsAnswered ==
  /\ \A t \in Callers : calls[t].pc = "unlock" => calls[t].ran
  /\ \A i \in DOMAIN mbox : mbox[i].kind = "api" =>
       calls[mbox[i].from].pc = "wait" /\ ~calls[mbox[i].from].ran
  /\ core.pc = "run" => calls[core.from].pc = "wait" /\ ~calls[core.from].ran

(* The mailbox keeps its order, so that no frame is in it, in the thread   *)
(* or in the driver's call when the interface it refers to is freed; other *)
(* than one whose esp_netif_receive was going on when esp_netif_destroy    *)
(* was called, or one that a socket has kept.                              *)
InterfaceOutlivesFrames ==
  interface = "freed" =>
    \A f \in Frames : where[f] \in {"rx", "mbox", "core"} => f \in late

(* Every call returns, also one made inside the TCP/IP thread, whatever    *)
(* frames come in between.                                                 *)
CallReturns == \A t \in Callers : calls[t].pc = "lock" ~> calls[t].pc = "idle"
=============================================================================

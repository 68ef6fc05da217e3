------------------------------ MODULE SmartConfig ------------------------------
(***************************************************************************)
(* SmartConfig: starting and stopping it (smartconfig.c) and the tasks     *)
(* that acknowledge a configuration to the phone (smartconfig_ack.c).  One *)
(* flag tells every acknowledging task to go on; the event task sets it,   *)
(* the application clears it.                                              *)
(***************************************************************************)
EXTENDS Integers

CONSTANTS
  Acks,        \* sc_ack_send_task instances that may exist at once
  MaxCount     \* SC_ACK_MAX_COUNT

VARIABLES
  scApp,      \* the application in esp_smartconfig_start or _stop
  started,    \* the Wi-Fi library looks for a configuration
  scHandler,  \* handler_got_ssid_passwd is registered
  queued,     \* an SC_EVENT_GOT_SSID_PSWD is queued
  scEvt,      \* the event task in the handler
  ackSend,    \* s_sc_ack_send
  acks,       \* the tasks: where they are, their socket and their packet_count
  leaked,     \* a socket was replaced that nobody will close (history)
  again       \* the flag was set while a task was acknowledging (history)

scVars == <<scApp, started, scHandler, queued, scEvt, ackSend, acks, leaked, again>>

NoAck == [pc |-> "none", socket |-> FALSE, packet_count |-> 1]

Init ==
  /\ scApp = "idle" /\ started = FALSE /\ scHandler = FALSE
  /\ queued = FALSE /\ scEvt = "idle" /\ ackSend = FALSE
  /\ acks = [a \in Acks |-> NoAck]
  /\ leaked = FALSE /\ again = FALSE

-----------------------------------------------------------------------------
(* esp_smartconfig_start registers the handler, which takes the mutex of   *)
(* the event loop, then starts the library, which may fail.  Applications  *)
(* stop it before they start it again, as esp_smartconfig.h asks.          *)
Start ==
  /\ scApp = "idle" /\ ~started /\ scEvt = "idle"
  /\ scHandler' = TRUE
  /\ scApp' = "start"
  /\ UNCHANGED <<started, queued, scEvt, ackSend, acks, leaked, again>>

StartLibrary ==
  /\ scApp = "start"
  /\ \/ started' = TRUE /\ scApp' = "idle"
     \/ UNCHANGED started /\ scApp' = "unregister"
  /\ UNCHANGED <<scHandler, queued, scEvt, ackSend, acks, leaked, again>>

(* esp_smartconfig_stop: the library, the flag, the handler *)
Stop ==
  /\ scApp = "idle" /\ started
  /\ started' = FALSE
  /\ scApp' = "stop"
  /\ UNCHANGED <<scHandler, queued, scEvt, ackSend, acks, leaked, again>>

AckStop ==
  /\ scApp = "stop"
  /\ ackSend' = FALSE
  /\ scApp' = "unregister"
  /\ UNCHANGED <<started, scHandler, queued, scEvt, acks, leaked, again>>

(* Unregistering takes the mutex of the event loop: no handler runs. *)
Unregister ==
  /\ scApp = "unregister" /\ scEvt = "idle"
  /\ scHandler' = FALSE
  /\ scApp' = "idle"
  /\ UNCHANGED <<started, queued, scEvt, ackSend, acks, leaked, again>>

-----------------------------------------------------------------------------
(* The Wi-Fi library found a configuration; the event task handles it,     *)
(* perhaps after SmartConfig was stopped.                                  *)
GotSsid ==
  /\ started /\ ~queued
  /\ queued' = TRUE
  /\ UNCHANGED <<scApp, started, scHandler, scEvt, ackSend, acks, leaked, again>>

Dispatch ==
  /\ queued /\ scEvt = "idle"
  /\ queued' = FALSE
  /\ scEvt' = IF scHandler THEN "flag" ELSE "idle"
  /\ UNCHANGED <<scApp, started, scHandler, ackSend, acks, leaked, again>>

(* sc_send_ack_start: the flag, then the task, which may not be created *)
AckStart ==
  /\ scEvt = "flag"
  /\ ackSend' = TRUE
  /\ again' = (again \/ \E a \in Acks : acks[a].pc # "none")
  /\ scEvt' = "create"
  /\ UNCHANGED <<scApp, started, scHandler, queued, acks, leaked>>

AckCreate ==
  /\ scEvt = "create"
  /\ \/ \E a \in Acks : acks[a].pc = "none" /\ acks' = [acks EXCEPT ![a].pc = "outer"]
     \/ UNCHANGED acks
  /\ scEvt' = "idle"
  /\ UNCHANGED <<scApp, started, scHandler, queued, ackSend, leaked, again>>

-----------------------------------------------------------------------------
(* sc_ack_send_task: the outer loop waits for an address and makes a       *)
(* socket, in the place of one that it may have already.                   *)
AckOuter(a) ==
  /\ acks[a].pc = "outer" /\ ackSend
  /\ \/ UNCHANGED <<acks, leaked>>                      \* no address yet
     \/ \E made \in BOOLEAN, pc \in {"inner", "end"} :    \* any step may fail
          /\ pc = "inner" => made
          /\ leaked' = (leaked \/ acks[a].socket)
          /\ acks' = [acks EXCEPT ![a].pc = pc, ![a].socket = made]
  /\ UNCHANGED <<scApp, started, scHandler, queued, scEvt, ackSend, again>>

AckStopped(a) ==
  /\ acks[a].pc = "outer" /\ ~ackSend
  /\ acks' = [acks EXCEPT ![a].pc = "end"]
  /\ UNCHANGED <<scApp, started, scHandler, queued, scEvt, ackSend, leaked, again>>

AckInner(a) ==
  /\ acks[a].pc = "inner"
  /\ acks' = [acks EXCEPT ![a].pc = IF ackSend THEN "send" ELSE "outer"]
  /\ UNCHANGED <<scApp, started, scHandler, queued, scEvt, ackSend, leaked, again>>

AckSend_Retries(a) ==
  /\ acks[a].pc = "send"
  /\ \/ acks' = [acks EXCEPT ![a].pc = "outer"]
     \/ acks' = [acks EXCEPT ![a].packet_count = @ + 1,
                             ![a].pc = IF acks[a].packet_count >= MaxCount THEN "end" ELSE "inner"]
  /\ UNCHANGED <<scApp, started, scHandler, queued, scEvt, ackSend, leaked, again>>

AckSend_Uncounted(a) ==
  /\ acks[a].pc = "send"
  /\ acks' = [acks EXCEPT ![a].pc = "inner"]
  /\ UNCHANGED <<scApp, started, scHandler, queued, scEvt, ackSend, leaked, again>>

(* A packet, sent or not, counts; the count starts at 1 and is compared    *)
(* before it is raised, so that the task sends MaxCount packets.  After    *)
(* the last one the application gets SC_EVENT_SEND_ACK_DONE.               *)
AckSend(a) ==
  /\ acks[a].pc = "send"
  /\ acks' = [acks EXCEPT ![a].packet_count = @ + 1,
                          ![a].pc = IF acks[a].packet_count >= MaxCount THEN "end" ELSE "inner"]
  /\ UNCHANGED <<scApp, started, scHandler, queued, scEvt, ackSend, leaked, again>>

AckEnd(a) ==
  /\ acks[a].pc = "end"
  /\ acks' = [acks EXCEPT ![a] = NoAck]
  /\ UNCHANGED <<scApp, started, scHandler, queued, scEvt, ackSend, leaked, again>>

AckTask(a) == AckOuter(a) \/ AckStopped(a) \/ AckInner(a) \/ AckSend(a) \/ AckEnd(a)

-----------------------------------------------------------------------------
Next ==
  \/ Start \/ StartLibrary \/ Stop \/ AckStop \/ Unregister
  \/ GotSsid \/ Dispatch \/ AckStart \/ AckCreate
  \/ \E a \in Acks : AckTask(a)

Spec == Init /\ [][Next]_scVars

Fairness == \A a \in Acks : WF_scVars(AckTask(a))

-----------------------------------------------------------------------------
(* Properties *)

(* Unless a configuration arrives while an earlier one is still being      *)
(* acknowledged, every socket is closed by the task that made it, however  *)
(* stopping, losing the phone and failing to send interleave.              *)
SocketsAreClosed == ~again => ~leaked

(* An acknowledging task ends by itself, also when SmartConfig was stopped *)
(* while its handler was setting the flag, which leaves the flag on; or it *)
(* waits for an address of the station.                                    *)
AckTaskEnds ==
  \A a \in Acks :
    acks[a].pc # "none" ~> acks[a].pc = "none" \/ (acks[a].pc = "outer" /\ ackSend)
=============================================================================

------------------------------ MODULE CallsEnd -----------------------------
(***************************************************************************)
(* Calls and tasks that must come to an end: a timed run of an event loop  *)
(* (LoopRun), calls into the TCP/IP thread (TcpipCalls), ping sessions     *)
(* and the acknowledgements of SmartConfig.  Each is a part by itself:     *)
(* Init chooses one, the others stay in their initial states, where none   *)
(* of their fair actions is enabled.                                       *)
(***************************************************************************)
EXTENDS LoopRun, TcpipCalls

CONSTANTS
  Parts,
  Sessions, Pingers, Counts, PingWrap,
  Acks, MaxCount

VARIABLES
  part,
  session, rmw, res_fn, result, untold, lost,
  scApp, started, scHandler, queued, scEvt, ackSend, acks, leaked, again

Pings == INSTANCE Ping WITH Wrap <- PingWrap
Smart == INSTANCE SmartConfig

(* The sequence number of a ping session has a width, a thread of a        *)
(* session is no caller of the interface, and the application runs one     *)
(* session at a time: the counters of the result are shared by all.        *)
ASSUME SessionsAssumption ==
  /\ PingWrap \in Nat \ {0}
  /\ \A s \in Sessions, u \in Sessions : s = u
  /\ Sessions \cap Pingers = {}

pingVars == <<session, rmw, res_fn, result, untold, lost>>
scVars == <<scApp, started, scHandler, queued, scEvt, ackSend, acks, leaked, again>>
partVars == <<part, vars, tcpipVars, pingVars, scVars>>

PartsInit ==
  /\ part \in Parts
  /\ Init /\ TcpipInit /\ Pings!Init /\ Smart!Init

RunPart == part = "run" /\ Next /\ UNCHANGED <<part, tcpipVars, pingVars, scVars>>
TcpipPart == part = "tcpip" /\ TcpipNext /\ UNCHANGED <<part, vars, pingVars, scVars>>
PingPart == part = "ping" /\ Pings!Next /\ UNCHANGED <<part, vars, tcpipVars, scVars>>
SmartPart == part = "smart" /\ Smart!Next /\ UNCHANGED <<part, vars, tcpipVars, pingVars>>

PartsNext == RunPart \/ TcpipPart \/ PingPart \/ SmartPart

PartsSpec == PartsInit /\ [][PartsNext]_partVars

(* A fair action of a part is enabled in the behaviours of this part only. *)
FairPartsSpec == PartsSpec /\ TcpipFairness /\ Pings!Fairness /\ Smart!Fairness

-----------------------------------------------------------------------------
(* What the parts promise; each property is explained in its module.       *)

(* When a batch of pings is over, the result is that of this batch and of *)
(* those before it that nobody was told.                                  *)
ResultIsOfBatch == Pings!ResultIsOfBatch
(* A ping session that was deleted is freed. *)
DeletedSessionIsFreed == Pings!DeletedSessionIsFreed
(* Every socket for acknowledgements is closed. *)
SocketsAreClosed == Smart!SocketsAreClosed
(* An acknowledging task ends by itself or waits for an address. *)
AckTaskEnds == Smart!AckTaskEnds
=============================================================================

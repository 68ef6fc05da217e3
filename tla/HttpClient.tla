---------------------------- MODULE HttpClient -----------------------------
(***************************************************************************)
(* The requests of lwip/apps/http_client.c.  A request is the state block  *)
(* httpc_state_t and a TCP connection; lwIP calls it back from its one     *)
(* thread, and any callback may end it.                                    *)
(*                                                                         *)
(* The server's answer is a stream of units: the status line, the headers, *)
(* and the units of the body.  TCP cuts it into segments where it likes.   *)
(* lwIP itself is external: it delivers the stream in order, may report an *)
(* error at any time, and polls.                                           *)
(***************************************************************************)
EXTENDS Integers

CONSTANTS
  Requests,     \* identities of requests
  Responses,    \* answers servers give
  PollTimeout,  \* HTTPC_POLL_TIMEOUT
  Unknown,      \* HTTPC_CONTENT_LEN_INVALID, no Content-Length in the answer
  None

(* An answer: is its status line well-formed, what Content-Length does it  *)
(* announce, how many units does its body have.                            *)
ASSUME ResponsesAssumption ==
  /\ Responses \subseteq [good : BOOLEAN, announced : Nat \cup {Unknown}, body : Nat]
  /\ Unknown \notin Nat
ASSUME PollAssumption == PollTimeout \in Nat \ {0}

HeadLen == 2

VARIABLES
  state,     \* "none", "connecting", "open" or "freed"
  response,  \* what the server will send
  sent,      \* units of it that were delivered
  parse,     \* parse_state
  rx_hdrs,   \* units kept in rx_hdrs
  rx_len,    \* rx_content_len, the units given to recv_fn
  freed,     \* units of pbufs the client freed itself
  acked,     \* units given back to the receive window
  ticks,     \* timeout_ticks
  result     \* what result_fn was called with, or None

httpVars == <<state, response, sent, parse, rx_hdrs, rx_len, freed, acked, ticks, result>>

Results == {"OK", "ERR_CLOSED", "ERR_CONTENT_LEN", "ERR_TIMEOUT", "ERR_MEM", "LOCAL_ABORT"}

ASSUME NoneAssumption == None \notin Results

HttpTypeOK ==
  /\ state \in [Requests -> {"none", "connecting", "open", "freed"}]
  /\ response \in [Requests -> Responses]
  /\ sent \in [Requests -> Nat]
  /\ parse \in [Requests -> {"first_line", "headers", "data"}]
  /\ rx_hdrs \in [Requests -> Nat]
  /\ rx_len \in [Requests -> Nat]
  /\ freed \in [Requests -> Nat]
  /\ acked \in [Requests -> Nat]
  /\ ticks \in [Requests -> 0..PollTimeout]
  /\ result \in [Requests -> Results \cup {None}]

HttpInit ==
  /\ state = [r \in Requests |-> "none"]
  /\ response \in [Requests -> Responses]
  /\ sent = [r \in Requests |-> 0]
  /\ parse = [r \in Requests |-> "first_line"]
  /\ rx_hdrs = [r \in Requests |-> 0]
  /\ rx_len = [r \in Requests |-> 0]
  /\ freed = [r \in Requests |-> 0]
  /\ acked = [r \in Requests |-> 0]
  /\ ticks = [r \in Requests |-> PollTimeout]
  /\ result = [r \in Requests |-> None]

Live(r) == state[r] \in {"connecting", "open"}

-----------------------------------------------------------------------------
(* httpc_get_file, when it returns ERR_OK.  When it does not, it has freed *)
(* the request and never calls result_fn.                                  *)
GetFile(r) ==
  /\ state[r] = "none"
  /\ state' = [state EXCEPT ![r] = "connecting"]
  /\ UNCHANGED <<response, sent, parse, rx_hdrs, rx_len, freed, acked, ticks, result>>

GetFileFails(r) ==
  /\ state[r] = "none"
  /\ state' = [state EXCEPT ![r] = "freed"]
  /\ UNCHANGED <<response, sent, parse, rx_hdrs, rx_len, freed, acked, ticks, result>>

(* httpc_close: report the result, free the headers that are kept, detach  *)
(* the connection from the callbacks.                                      *)
Close(r, res) ==
  /\ result' = [result EXCEPT ![r] = res]
  /\ state' = [state EXCEPT ![r] = "freed"]

(* httpc_tcp_connected: the request may not fit into the send buffer. *)
Connected(r) ==
  /\ state[r] = "connecting"
  /\ state' = [state EXCEPT ![r] = "open"]
  /\ UNCHANGED <<response, sent, parse, rx_hdrs, rx_len, freed, acked, ticks, result>>

ConnectedButFull(r) ==
  /\ state[r] = "connecting"
  /\ Close(r, "ERR_MEM")
  /\ UNCHANGED <<response, sent, parse, rx_hdrs, rx_len, freed, acked, ticks>>

-----------------------------------------------------------------------------
(* httpc_tcp_recv with a segment of n units.                               *)
Deliver(r, n) ==
  /\ state[r] = "open"
  /\ n \in 1..(HeadLen + response[r].body - sent[r])
  /\ sent' = [sent EXCEPT ![r] = @ + n]

(* The parser's state after the segment, unless the callback refuses. *)
Parsed(r) ==
  CASE parse[r] = "data" -> "data"
    [] parse[r] # "data" /\ response[r].good /\ sent'[r] >= HeadLen -> "data"
    [] parse[r] # "data" /\ response[r].good /\ sent'[r] < HeadLen -> "headers"
    [] OTHER -> parse[r]

HeadersDone(r) == parse[r] # "data" /\ Parsed(r) = "data"

(* Nothing is known to be wrong with a status line that does not parse:    *)
(* the data is kept as headers.                                            *)
RecvHead(r, n) ==
  /\ Deliver(r, n)
  /\ Parsed(r) # "data"
  /\ rx_hdrs' = [rx_hdrs EXCEPT ![r] = @ + n]
  /\ parse' = [parse EXCEPT ![r] = Parsed(r)]
  /\ UNCHANGED <<state, response, rx_len, freed, acked, ticks, result>>

(* headers_done_fn refuses. *)
RecvRefused(r, n) ==
  /\ Deliver(r, n)
  /\ HeadersDone(r)
  /\ freed' = [freed EXCEPT ![r] = rx_hdrs[r] + n]
  /\ rx_hdrs' = [rx_hdrs EXCEPT ![r] = 0]
  /\ acked' = [acked EXCEPT ![r] = HeadLen]
  /\ parse' = [parse EXCEPT ![r] = "headers"]
  /\ Close(r, "LOCAL_ABORT")
  /\ UNCHANGED <<response, rx_len, ticks>>

(* What a segment with which or after which the headers are complete gives *)
(* to recv_fn.                                                             *)
Passed(r, n) == IF HeadersDone(r) THEN sent'[r] - HeadLen ELSE n

RecvBody_KeepsHeaders(r, n) ==
  /\ Deliver(r, n)
  /\ Parsed(r) = "data"
  /\ parse' = [parse EXCEPT ![r] = "data"]
  /\ rx_hdrs' = rx_hdrs
  /\ freed' = [freed EXCEPT ![r] = IF HeadersDone(r) THEN HeadLen ELSE @]
  /\ rx_len' = [rx_len EXCEPT ![r] = @ + Passed(r, n)]
  /\ acked' = [acked EXCEPT ![r] = @ + Passed(r, n) + IF HeadersDone(r) THEN HeadLen ELSE 0]
  /\ ticks' = [ticks EXCEPT ![r] = IF Passed(r, n) > 0 THEN PollTimeout ELSE @]
  /\ UNCHANGED <<state, response, result>>

RecvBody_HeadersNotAcked(r, n) ==
  /\ Deliver(r, n)
  /\ Parsed(r) = "data"
  /\ parse' = [parse EXCEPT ![r] = "data"]
  /\ rx_hdrs' = [rx_hdrs EXCEPT ![r] = 0]
  /\ freed' = [freed EXCEPT ![r] = IF HeadersDone(r) THEN HeadLen ELSE @]
  /\ rx_len' = [rx_len EXCEPT ![r] = @ + Passed(r, n)]
  /\ acked' = [acked EXCEPT ![r] = @ + Passed(r, n)]
  /\ ticks' = [ticks EXCEPT ![r] = IF Passed(r, n) > 0 THEN PollTimeout ELSE @]
  /\ UNCHANGED <<state, response, result>>

(* The headers are complete: their units are acknowledged and freed, and   *)
(* what follows them, if anything does, goes to recv_fn, which consumes    *)
(* and acknowledges it.                                                    *)
RecvBody(r, n) ==
  /\ Deliver(r, n)
  /\ Parsed(r) = "data"
  /\ parse' = [parse EXCEPT ![r] = "data"]
  /\ rx_hdrs' = [rx_hdrs EXCEPT ![r] = 0]
  /\ freed' = [freed EXCEPT ![r] = IF HeadersDone(r) THEN HeadLen ELSE @]
  /\ rx_len' = [rx_len EXCEPT ![r] = @ + Passed(r, n)]
  /\ acked' = [acked EXCEPT ![r] = @ + Passed(r, n) + IF HeadersDone(r) THEN HeadLen ELSE 0]
  /\ ticks' = [ticks EXCEPT ![r] = IF Passed(r, n) > 0 THEN PollTimeout ELSE @]
  /\ UNCHANGED <<state, response, result>>

FinResult(r) ==
  CASE parse[r] # "data" -> "ERR_CLOSED"
    [] parse[r] = "data" /\ response[r].announced \notin {Unknown, rx_len[r]} ->
         "ERR_CONTENT_LEN"
    [] OTHER -> "OK"

Abandon(r, res) ==
  /\ Close(r, res)
  /\ freed' = [freed EXCEPT ![r] = @ + rx_hdrs[r]]
  /\ rx_hdrs' = [rx_hdrs EXCEPT ![r] = 0]
  /\ UNCHANGED <<response, sent, parse, rx_len, acked>>

(* The server closes, at any point of its answer. *)
RecvFin(r) ==
  /\ state[r] = "open"
  /\ Abandon(r, FinResult(r))
  /\ UNCHANGED ticks

(* httpc_tcp_err: reset, or out of memory. *)
TcpErr(r) ==
  /\ Live(r)
  /\ Abandon(r, "ERR_CLOSED")
  /\ UNCHANGED ticks

Poll_OnlyWithData(r) ==
  /\ Live(r) /\ parse[r] = "data"
  /\ ticks' = [ticks EXCEPT ![r] = @ - 1]
  /\ IF ticks[r] = 1
     THEN Abandon(r, "ERR_TIMEOUT")
     ELSE UNCHANGED <<state, response, sent, parse, rx_hdrs, rx_len, freed, acked, result>>

(* httpc_tcp_poll *)
Poll(r) ==
  /\ Live(r)
  /\ ticks' = [ticks EXCEPT ![r] = @ - 1]
  /\ IF ticks[r] = 1
     THEN Abandon(r, "ERR_TIMEOUT")
     ELSE UNCHANGED <<state, response, sent, parse, rx_hdrs, rx_len, freed, acked, result>>

-----------------------------------------------------------------------------
Recv(r) ==
  \E n \in 1..(HeadLen + response[r].body) :
    RecvHead(r, n) \/ RecvRefused(r, n) \/ RecvBody(r, n)

HttpNext ==
  \E r \in Requests :
    \/ GetFile(r) \/ GetFileFails(r)
    \/ Connected(r) \/ ConnectedButFull(r)
    \/ Recv(r) \/ RecvFin(r) \/ TcpErr(r) \/ Poll(r)

HttpSpec == HttpInit /\ [][HttpNext]_httpVars

-----------------------------------------------------------------------------
(* Properties *)

(* Every unit that was received is kept with the headers, was given to     *)
(* recv_fn or was freed: exactly one of these, also after the request was  *)
(* abandoned at any point.                                                 *)
EveryPbufOnce ==
  \A r \in Requests :
    /\ sent[r] = rx_hdrs[r] + rx_len[r] + freed[r]
    /\ ~Live(r) => rx_hdrs[r] = 0

(* While the body is received the whole receive window is given back, so   *)
(* that the server can go on sending.                                      *)
WindowReopened ==
  \A r \in Requests : state[r] = "open" /\ parse[r] = "data" => acked[r] = sent[r]

(* httpc_get_file, "callback_fn will be called later": whatever the server *)
(* does or omits, a request that was started reports a result.             *)
RequestEnds == \A r \in Requests : Live(r) ~> result[r] # None
=============================================================================

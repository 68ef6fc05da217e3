------------------------------ MODULE OtaHttp ------------------------------
(***************************************************************************)
(* esp_hosted_ota_http: an application task starts a request of HttpClient *)
(* and waits on a semaphore, while lwIP's thread runs the callbacks, which *)
(* begin the update on the coprocessor, write to it, and post the          *)
(* semaphore.  The coprocessor and its RPC are external: a call returns    *)
(* success or failure.                                                     *)
(*                                                                         *)
(* The k-th call uses the k-th request.  A unit of the body is one pbuf.   *)
(***************************************************************************)
EXTENDS HttpClient, Sequences

CONSTANTS
  Calls,  \* how many calls the application makes, one after the other
  Slow    \* whether a request may outlast OTA_TIMEOUT_SEC

ASSUME CallsAssumption ==
  /\ Calls \in Nat \ {0}
  /\ Requests = 1..Calls
  /\ Slow \in BOOLEAN

VARIABLES
  app,        \* where the application task is
  call,       \* the number of the current or last call
  sem,        \* the semaphore of each call: "none", "taken", "posted", "freed"
  ota_sem,    \* the call whose semaphore the global points to, 0 for NULL
  ota_state,  \* the global ota_state
  slave,      \* whether the coprocessor is in an update ("idle", "ota")
  written,    \* units of the body written in this update
  failed,     \* whether a write of this update failed (history)
  returned,   \* what each call returned
  misuse      \* calls made out of order (history)

otaVars == <<app, call, sem, ota_sem, ota_state, slave, written, failed, returned, misuse>>
vars == <<httpVars, otaVars>>

Init ==
  /\ HttpInit
  /\ app = "idle" /\ call = 0
  /\ sem = [r \in Requests |-> "none"] /\ ota_sem = 0
  /\ ota_state = "IDLE"
  /\ slave = "idle" /\ written = <<>> /\ failed = FALSE
  /\ returned = [r \in Requests |-> None]
  /\ misuse = {}

-----------------------------------------------------------------------------
(* The application task *)

(* The semaphore is created available and taken at once. *)
Start ==
  /\ app = "idle" /\ call < Calls
  /\ call' = call + 1
  /\ sem' = [sem EXCEPT ![call'] = "taken"] /\ ota_sem' = call'
  /\ ota_state' = "IDLE"
  /\ app' = "get_file"
  /\ UNCHANGED <<httpVars, slave, written, failed, returned, misuse>>

Request ==
  /\ app = "get_file"
  /\ GetFile(call)
  /\ app' = "waiting"
  /\ UNCHANGED <<call, sem, ota_sem, ota_state, slave, written, failed, returned, misuse>>

(* ESP_FAIL: the semaphore is not destroyed. *)
RequestFails ==
  /\ app = "get_file"
  /\ GetFileFails(call)
  /\ app' = "idle"
  /\ returned' = [returned EXCEPT ![call] = "FAIL"]
  /\ UNCHANGED <<call, sem, ota_sem, ota_state, slave, written, failed, misuse>>

(* hosted_get_semaphore with OTA_TIMEOUT_SEC: its result is not looked at. *)
Wake ==
  /\ app = "waiting"
  /\ sem[call] = "posted" \/ Slow
  /\ app' = "destroy"
  /\ UNCHANGED <<httpVars, call, sem, ota_sem, ota_state, slave, written, failed, returned, misuse>>

Destroy ==
  /\ app = "destroy"
  /\ sem' = [sem EXCEPT ![call] = "freed"]
  /\ app' = "forget"
  /\ UNCHANGED <<httpVars, call, ota_sem, ota_state, slave, written, failed, returned, misuse>>

Forget ==
  /\ app = "forget"
  /\ ota_sem' = 0
  /\ app' = "end"
  /\ UNCHANGED <<httpVars, call, sem, ota_state, slave, written, failed, returned, misuse>>

End_WhenDownloaded ==
  /\ app = "end"
  /\ app' = "idle"
  /\ IF ota_state = "IDLE" \/ result[call] # "OK"
     THEN /\ returned' = [returned EXCEPT ![call] = "FAIL"]
          /\ UNCHANGED slave
     ELSE \E ok \in BOOLEAN :
            /\ slave' = "idle"
            /\ returned' = [returned EXCEPT ![call] = IF ok THEN "OK" ELSE "FAIL"]
  /\ UNCHANGED <<httpVars, call, sem, ota_sem, ota_state, written, failed, misuse>>

(* Whether the image is complete is left to the coprocessor's verdict. *)
End ==
  /\ app = "end"
  /\ app' = "idle"
  /\ IF ota_state = "IDLE"
     THEN /\ returned' = [returned EXCEPT ![call] = "FAIL"]
          /\ UNCHANGED slave
     ELSE \E ok \in BOOLEAN :
            /\ slave' = "idle"
            /\ returned' = [returned EXCEPT ![call] = IF ok THEN "OK" ELSE "FAIL"]
  /\ UNCHANGED <<httpVars, call, sem, ota_sem, ota_state, written, failed, misuse>>

-----------------------------------------------------------------------------
(* The callbacks, in lwIP's thread *)

(* result_fn posts whatever semaphore the global points to. *)
ResultFn ==
  /\ sem' = IF ota_sem # 0 /\ sem[ota_sem] = "taken"
            THEN [sem EXCEPT ![ota_sem] = "posted"] ELSE sem
  /\ misuse' = misuse \cup IF ota_sem # 0 /\ sem[ota_sem] = "freed"
                           THEN {"semaphore"} ELSE {}

Segments(r) == 1..(HeadLen + response[r].body)

(* headers_done_fn when rpc_ota_begin fails: the state has been set before, *)
(* so that the call will end an update that was never begun.               *)
BeginFailed(r) ==
  /\ \E n \in Segments(r) : RecvRefused(r, n)
  /\ ota_state' = "STARTED"
  /\ ResultFn
  /\ UNCHANGED <<app, call, ota_sem, slave, written, failed, returned>>

Units(from, to) == [k \in 1..(to - from) |-> from + k]

Write_FirstPbuf(r, before, ok) ==
  /\ written' = before \o Units(rx_len[r], IF rx_len'[r] > rx_len[r]
                                          THEN rx_len[r] + 1 ELSE rx_len[r])
  /\ failed' = ~ok

(* recv_fn: rpc_ota_write for each pbuf of the segment, up to the first    *)
(* failure, after which the rest of the segment is dropped.  The next      *)
(* segment is written again: nothing aborts the connection when recv_fn    *)
(* returns ERR_ABRT.                                                       *)
Write(r, before, ok) ==
  \E last \in rx_len[r]..rx_len'[r] :
    /\ written' = before \o Units(rx_len[r], last)
    /\ failed' = (~ok \/ last < rx_len'[r])

(* A segment that completes the headers begins the update. *)
FirstBody(r) ==
  /\ \E n \in Segments(r) : RecvBody(r, n) /\ HeadersDone(r)
  /\ ota_state' = "STARTED" /\ slave' = "ota"
  /\ Write(r, <<>>, TRUE)
  /\ UNCHANGED <<app, call, sem, ota_sem, returned, misuse>>

Body(r) ==
  /\ \E n \in Segments(r) : RecvBody(r, n) /\ ~HeadersDone(r)
  /\ IF ota_state = "STARTED"
     THEN /\ Write(r, written, ~failed)
          /\ misuse' = misuse \cup IF slave = "idle" THEN {"write"} ELSE {}
     ELSE UNCHANGED <<written, failed, misuse>>
  /\ UNCHANGED <<app, call, sem, ota_sem, ota_state, slave, returned>>

Ends(r) ==
  /\ ConnectedButFull(r) \/ RecvFin(r) \/ TcpErr(r)
  /\ ResultFn
  /\ UNCHANGED <<app, call, ota_sem, ota_state, slave, written, failed, returned>>

Quiet(r) ==
  /\ Connected(r) \/ \E n \in Segments(r) : RecvHead(r, n)
  /\ UNCHANGED otaVars

Polled(r) ==
  /\ Poll(r)
  /\ IF Live(r)' THEN UNCHANGED <<sem, misuse>> ELSE ResultFn
  /\ UNCHANGED <<app, call, ota_sem, ota_state, slave, written, failed, returned>>

Next ==
  \/ Start \/ Request \/ RequestFails \/ Wake \/ Destroy \/ Forget \/ End
  \/ \E r \in Requests :
       BeginFailed(r) \/ FirstBody(r) \/ Body(r) \/ Ends(r) \/ Quiet(r) \/ Polled(r)

(* lwIP's timer polls every active connection. *)
Spec == Init /\ [][Next]_vars
FairSpec == Spec /\ \A r \in Requests : WF_vars(Polled(r))

-----------------------------------------------------------------------------
(* Properties *)

(* A call returns only when its request has ended, so that no callback     *)
(* meets the semaphore or the state of another call.                       *)
CallbacksDuringCall ==
  \A r \in Requests : Live(r) => r = call /\ app = "waiting"

(* The coprocessor gets writes only after a begin that succeeded and       *)
(* before the end, whatever the call before left behind or which call      *)
(* fails, and result_fn finds its semaphore.                               *)
NoMisuse == misuse = {}

(* What the server sent as body, in whichever segments, is written to the  *)
(* coprocessor in order, and as long as no write fails nothing is skipped; *)
(* when the client then reports HTTPC_RESULT_OK, the coprocessor has all   *)
(* that the server sent, which is what it announced.                       *)
ImageIsReceived ==
  slave = "ota" =>
    /\ \A i, j \in DOMAIN written : i < j => written[i] < written[j]
    /\ failed \/ written = Units(0, rx_len[call])
    /\ ~failed /\ result[call] = "OK" =>
         /\ written = Units(0, sent[call] - HeadLen)
         /\ response[call].announced \in {Unknown, sent[call] - HeadLen}

(* No call leaves the coprocessor waiting for the rest of an update. *)
UpdateIsClosed == app = "idle" => slave = "idle"

(* esp_hosted_ota.c:13-14: rpc_ota_end() comes after the writes. *)
EndComesLast == "write" \notin misuse
=============================================================================

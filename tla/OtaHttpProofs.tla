--------------------------- MODULE OtaHttpProofs ----------------------------
(***************************************************************************)
(* First the invariants of HttpClient, for any number of requests, any     *)
(* answers and any poll timeout.  Each request only depends on itself, so  *)
(* the inductive invariant is one on a single request, and every step of   *)
(* the proof shows it for the request that the step is about.              *)
(*                                                                         *)
(* Then the update over HTTP: it is a client of HttpClient, for it         *)
(* implements HttpSpec, so that the theorems of the first part hold of it. *)
(* And as long as no wait for the semaphore times out, each call has its   *)
(* callbacks for itself, whatever number of calls the application makes.   *)
(***************************************************************************)
EXTENDS OtaHttp, TLAPS

-----------------------------------------------------------------------------
(* The HTTP client *)

USE ResponsesAssumption, PollAssumption, NoneAssumption DEF HeadLen

(* Before the headers are complete everything received is kept with them   *)
(* and nothing has been acknowledged; afterwards nothing is kept and all   *)
(* is acknowledged.                                                        *)
RequestInv(r) ==
  /\ ~Live(r) => rx_hdrs[r] = 0
  /\ state[r] \in {"none", "connecting"} =>
       sent[r] = 0 /\ parse[r] = "first_line" /\ rx_len[r] = 0
  /\ state[r] = "none" => ticks[r] = PollTimeout
  /\ sent[r] = rx_hdrs[r] + rx_len[r] + freed[r]
  /\ state[r] # "freed" => result[r] = None
  /\ Live(r) => ticks[r] # 0
  /\ state[r] # "freed" /\ parse[r] # "data" => rx_len[r] = 0 /\ freed[r] = 0 /\ acked[r] = 0
  /\ Live(r) /\ parse[r] = "data" => rx_hdrs[r] = 0 /\ acked[r] = sent[r]
  /\ parse[r] = "data" => freed[r] = HeadLen
  /\ result[r] = "OK" => /\ parse[r] = "data"
                         /\ response[r].announced \in {Unknown, rx_len[r]}

Inv == HttpTypeOK /\ \A r \in Requests : RequestInv(r)

(* The fields of an answer. *)
LEMMA AnswerType ==
  ASSUME HttpTypeOK, NEW r \in Requests
  PROVE  /\ response[r].good \in BOOLEAN
         /\ response[r].announced \in Nat \cup {Unknown}
         /\ response[r].body \in Nat
  BY DEF HttpTypeOK

(* The client starts with nothing received. *)
LEMMA InvInit == HttpInit => Inv
  BY DEF HttpInit, Inv, HttpTypeOK, RequestInv, Live, Results

(* A step that leaves every variable of another request alone keeps its    *)
(* invariant.                                                              *)
Same(r) ==
  /\ state'[r] = state[r] /\ response'[r] = response[r] /\ sent'[r] = sent[r]
  /\ parse'[r] = parse[r] /\ rx_hdrs'[r] = rx_hdrs[r] /\ rx_len'[r] = rx_len[r]
  /\ freed'[r] = freed[r] /\ acked'[r] = acked[r] /\ ticks'[r] = ticks[r]
  /\ result'[r] = result[r]

(* The requests that a step is not about keep their invariant. *)
LEMMA SameKeeps ==
  ASSUME NEW r, RequestInv(r), Same(r)
  PROVE  RequestInv(r)'
  BY DEF RequestInv, Same, Live

(* Opening the request and its connection. *)
LEMMA OpeningKeeps ==
  ASSUME Inv, NEW q \in Requests,
         GetFile(q) \/ GetFileFails(q) \/ Connected(q) \/ ConnectedButFull(q)
  PROVE  Inv'
<1> USE DEF Inv
<1>1. HttpTypeOK'
  BY DEF HttpTypeOK, GetFile, GetFileFails, Connected, ConnectedButFull, Close, Results
<1>2. RequestInv(q)'
  <2>1. state[q] \in {"none", "connecting"}
    BY DEF GetFile, GetFileFails, Connected, ConnectedButFull
  <2>2. UNCHANGED <<response, sent, parse, rx_hdrs, rx_len, freed, acked, ticks>>
    BY DEF GetFile, GetFileFails, Connected, ConnectedButFull
  <2>3. \/ state'[q] \in {"connecting", "open"} /\ UNCHANGED result
        \/ state'[q] = "freed" /\ result'[q] \in {None, "ERR_MEM"}
    BY DEF GetFile, GetFileFails, Connected, ConnectedButFull, Close, HttpTypeOK, RequestInv
  <2>4. /\ sent[q] = 0 /\ rx_hdrs[q] = 0 /\ rx_len[q] = 0 /\ freed[q] = 0 /\ acked[q] = 0
        /\ parse[q] = "first_line" /\ ticks[q] # 0 /\ result[q] = None
    <3>1. RequestInv(q) /\ sent[q] \in Nat /\ rx_hdrs[q] \in Nat /\ freed[q] \in Nat
      BY DEF HttpTypeOK
    <3>2. parse[q] = "first_line" /\ sent[q] = 0 /\ rx_len[q] = 0 /\ result[q] = None
      BY <2>1, <3>1 DEF RequestInv
    <3>3. freed[q] = 0 /\ acked[q] = 0
      BY <2>1, <3>1, <3>2 DEF RequestInv
    <3>4. ticks[q] # 0
      BY <2>1, <3>1 DEF RequestInv, Live
    <3>5. rx_hdrs[q] = 0
      BY <3>1, <3>2, <3>3 DEF RequestInv
    <3> QED BY <3>2, <3>3, <3>4, <3>5
  <2>5. result'[q] # "OK" /\ (state'[q] # "freed" => result'[q] = None)
    BY <2>3, <2>4 DEF Results
  <2>6. ~(state'[q] = "none")
    BY <2>3
  <2> QED BY <2>2, <2>4, <2>5, <2>6 DEF RequestInv, Live
<1>3. ASSUME NEW r \in Requests, r # q PROVE RequestInv(r)'
  <2>1. Same(r)
    BY <1>3 DEF Same, HttpTypeOK, GetFile, GetFileFails, Connected, ConnectedButFull, Close
  <2> QED BY <2>1, SameKeeps
<1> QED BY <1>1, <1>2, <1>3

(* A segment of the headers is kept. *)
LEMMA RecvHeadKeeps ==
  ASSUME Inv, NEW q \in Requests, NEW n \in Nat, RecvHead(q, n)
  PROVE  Inv'
<1> USE DEF Inv
<1>0. parse[q] # "data" /\ parse'[q] # "data" /\ state[q] = "open"
  BY DEF RecvHead, Deliver, Parsed, HttpTypeOK
<1>1. HttpTypeOK'
  <2>1. Parsed(q) \in {"first_line", "headers", "data"}
    BY DEF Parsed, HttpTypeOK
  <2>2. sent' = [sent EXCEPT ![q] = @ + n] /\ rx_hdrs' = [rx_hdrs EXCEPT ![q] = @ + n]
    BY DEF RecvHead, Deliver
  <2>3. sent' \in [Requests -> Nat] /\ rx_hdrs' \in [Requests -> Nat]
    BY <2>2 DEF HttpTypeOK
  <2> QED BY <2>1, <2>3 DEF HttpTypeOK, RecvHead
<1>2. RequestInv(q)'
  BY <1>0 DEF RequestInv, HttpTypeOK, Live, RecvHead, Deliver
<1>3. ASSUME NEW r \in Requests, r # q PROVE RequestInv(r)'
  <2>1. Same(r) BY <1>3 DEF Same, HttpTypeOK, RecvHead, Deliver
  <2> QED BY <2>1, SameKeeps
<1> QED BY <1>1, <1>2, <1>3

(* A segment that the application refuses is freed with the headers. *)
LEMMA RecvRefusedKeeps ==
  ASSUME Inv, NEW q \in Requests, NEW n \in Nat, RecvRefused(q, n)
  PROVE  Inv'
<1> USE DEF Inv
<1>0. parse[q] # "data" /\ state[q] = "open"
  BY DEF RecvRefused, Deliver, HeadersDone
<1>1. HttpTypeOK'
  <2>1. sent' = [sent EXCEPT ![q] = @ + n] /\ freed' = [freed EXCEPT ![q] = rx_hdrs[q] + n]
    BY DEF RecvRefused, Deliver
  <2>2. sent' \in [Requests -> Nat] /\ freed' \in [Requests -> Nat]
    BY <2>1 DEF HttpTypeOK
  <2>3. UNCHANGED <<response, rx_len, ticks>>
    BY DEF RecvRefused
  <2>4. state' \in [Requests -> {"none", "connecting", "open", "freed"}]
        /\ result' \in [Requests -> Results \cup {None}]
    BY DEF HttpTypeOK, RecvRefused, Close, Results
  <2>5. rx_hdrs' \in [Requests -> Nat] /\ acked' \in [Requests -> Nat]
        /\ parse' \in [Requests -> {"first_line", "headers", "data"}]
    BY DEF HttpTypeOK, RecvRefused
  <2> QED BY <2>2, <2>3, <2>4, <2>5 DEF HttpTypeOK
<1>2. RequestInv(q)'
  BY <1>0 DEF RequestInv, HttpTypeOK, Live, RecvRefused, Deliver, Close, Results
<1>3. ASSUME NEW r \in Requests, r # q PROVE RequestInv(r)'
  <2>1. Same(r) BY <1>3 DEF Same, HttpTypeOK, RecvRefused, Deliver, Close
  <2> QED BY <2>1, SameKeeps
<1> QED BY <1>1, <1>2, <1>3

(* The rest goes to recv_fn, after the headers have been freed. *)
LEMMA RecvBodyKeeps ==
  ASSUME Inv, NEW q \in Requests, NEW n \in Nat, RecvBody(q, n)
  PROVE  Inv'
<1> USE DEF Inv
<1>0. state[q] = "open" /\ sent'[q] = sent[q] + n /\ sent'[q] \in Nat
  BY DEF RecvBody, Deliver, HttpTypeOK
<1>a. Passed(q, n) \in Nat /\ (HeadersDone(q) => sent'[q] >= HeadLen)
  BY <1>0 DEF Passed, HeadersDone, Parsed, HttpTypeOK
<1>b. HeadersDone(q) <=> parse[q] # "data"
  BY DEF RecvBody, HeadersDone
<1>1. HttpTypeOK'
  <2>1. sent' \in [Requests -> Nat]
    BY DEF HttpTypeOK, RecvBody, Deliver
  <2>2. rx_len' \in [Requests -> Nat]
    BY <1>a DEF HttpTypeOK, RecvBody
  <2>3. freed' \in [Requests -> Nat] /\ rx_hdrs' \in [Requests -> Nat]
        /\ parse' \in [Requests -> {"first_line", "headers", "data"}]
    BY DEF HttpTypeOK, RecvBody
  <2>4. acked' \in [Requests -> Nat]
    BY <1>a DEF HttpTypeOK, RecvBody
  <2>5. ticks' \in [Requests -> 0..PollTimeout]
    BY DEF HttpTypeOK, RecvBody
  <2> QED BY <2>1, <2>2, <2>3, <2>4, <2>5 DEF HttpTypeOK, RecvBody
<1>2. RequestInv(q)'
  <2>1. CASE parse[q] = "data"
    <3>1. /\ rx_len'[q] = rx_len[q] + n /\ freed'[q] = freed[q] /\ rx_hdrs'[q] = 0
          /\ acked'[q] = acked[q] + n /\ parse'[q] = "data"
      BY <1>b, <2>1 DEF RecvBody, Passed, HttpTypeOK
    <3>2. ticks'[q] # 0 /\ state' = state /\ result' = result /\ response' = response
      BY <1>0 DEF RecvBody, HttpTypeOK, RequestInv, Live
    <3> QED BY <1>0, <2>1, <3>1, <3>2 DEF RequestInv, HttpTypeOK, Live, Results
  <2>2. CASE parse[q] # "data"
    <3>1. /\ rx_len'[q] = rx_len[q] + (sent'[q] - HeadLen) /\ freed'[q] = HeadLen
          /\ rx_hdrs'[q] = 0 /\ parse'[q] = "data"
          /\ acked'[q] = acked[q] + (sent'[q] - HeadLen) + HeadLen
      BY <1>b, <2>2 DEF RecvBody, Passed, HttpTypeOK
    <3>2. ticks'[q] # 0 /\ state' = state /\ result' = result /\ response' = response
      BY <1>0 DEF RecvBody, HttpTypeOK, RequestInv, Live
    <3> QED BY <1>0, <2>2, <3>1, <3>2 DEF RequestInv, HttpTypeOK, Live, Results
  <2> QED BY <2>1, <2>2
<1>3. ASSUME NEW r \in Requests, r # q PROVE RequestInv(r)'
  <2>1. Same(r) BY <1>3 DEF Same, HttpTypeOK, RecvBody, Deliver
  <2> QED BY <2>1, SameKeeps
<1> QED BY <1>1, <1>2, <1>3

(* Every way to abandon the request frees the headers that are kept, and   *)
(* only the close of the server after the headers can report OK.           *)
LEMMA AbandonKeeps ==
  ASSUME Inv, NEW q \in Requests, NEW res \in Results, Live(q), Abandon(q, res),
         ticks' \in [Requests -> 0..PollTimeout], \A r \in Requests \ {q} : ticks'[r] = ticks[r],
         res = "OK" => /\ parse[q] = "data"
                       /\ response[q].announced \in {Unknown, rx_len[q]}
  PROVE  Inv'
<1> USE DEF Inv
<1>1. HttpTypeOK'
  <2>1. freed' \in [Requests -> Nat]
    BY DEF HttpTypeOK, Abandon
  <2>2. state' \in [Requests -> {"none", "connecting", "open", "freed"}]
        /\ result' \in [Requests -> Results \cup {None}] /\ rx_hdrs' \in [Requests -> Nat]
    BY DEF HttpTypeOK, Abandon, Close
  <2> QED BY <2>1, <2>2 DEF HttpTypeOK, Abandon
<1>2. RequestInv(q)'
  <2>1. /\ state'[q] = "freed" /\ result'[q] = res /\ rx_hdrs'[q] = 0
        /\ freed'[q] = freed[q] + rx_hdrs[q]
        /\ UNCHANGED <<response, sent, parse, rx_len, acked>>
    BY DEF Abandon, Close, HttpTypeOK
  <2> QED BY <2>1 DEF RequestInv, HttpTypeOK, Live
<1>3. ASSUME NEW r \in Requests, r # q PROVE RequestInv(r)'
  <2>1. Same(r) BY <1>3 DEF Same, HttpTypeOK, Abandon, Close
  <2> QED BY <2>1, SameKeeps
<1> QED BY <1>1, <1>2, <1>3

(* The timeout counts down to 1 and never below. *)
LEMMA PollKeeps ==
  ASSUME Inv, NEW q \in Requests, Poll(q)
  PROVE  Inv'
<1> USE DEF Inv
<1>1. Live(q) /\ ticks' = [ticks EXCEPT ![q] = @ - 1] /\ ticks[q] \in 1..PollTimeout
  BY DEF Poll, HttpTypeOK, RequestInv
<1>2. ticks' \in [Requests -> 0..PollTimeout] /\ ticks'[q] = ticks[q] - 1
  BY <1>1 DEF HttpTypeOK
<1>3. CASE ticks[q] = 1
  <2>1. Abandon(q, "ERR_TIMEOUT")
    BY <1>3 DEF Poll
  <2> QED BY <1>1, <1>2, <2>1, AbandonKeeps DEF Results, HttpTypeOK
<1>4. CASE ticks[q] # 1
  <2>1. UNCHANGED <<state, response, sent, parse, rx_hdrs, rx_len, freed, acked, result>>
    BY <1>4 DEF Poll
  <2>2. HttpTypeOK'
    BY <1>2, <2>1 DEF HttpTypeOK
  <2>3. RequestInv(q)'
    BY <1>1, <1>2, <1>4, <2>1 DEF RequestInv, HttpTypeOK, Live
  <2>4. ASSUME NEW r \in Requests, r # q PROVE RequestInv(r)'
    <3>1. Same(r) BY <1>1, <2>1, <2>4 DEF Same, HttpTypeOK
    <3> QED BY <3>1, SameKeeps
  <2> QED BY <2>2, <2>3, <2>4
<1> QED BY <1>3, <1>4

(* A server that closes early is never reported as OK. *)
LEMMA RecvFinKeeps ==
  ASSUME Inv, NEW q \in Requests, RecvFin(q)
  PROVE  Inv'
<1>1. Live(q) /\ Abandon(q, FinResult(q)) /\ UNCHANGED ticks
  BY DEF RecvFin, Live
<1>2. FinResult(q) \in Results
  BY DEF FinResult, Results
<1>3. FinResult(q) = "OK" =>
        parse[q] = "data" /\ response[q].announced \in {Unknown, rx_len[q]}
  BY DEF FinResult
<1> QED BY <1>1, <1>2, <1>3, AbandonKeeps DEF Inv, HttpTypeOK

(* Every step of the client preserves the invariant. *)
LEMMA InvNext == Inv /\ [HttpNext]_httpVars => Inv'
<1> SUFFICES ASSUME Inv, [HttpNext]_httpVars PROVE Inv'
  OBVIOUS
<1>1. CASE UNCHANGED httpVars
  BY <1>1 DEF httpVars, Inv, HttpTypeOK, RequestInv, Live
<1>2. ASSUME NEW q \in Requests,
             GetFile(q) \/ GetFileFails(q) \/ Connected(q) \/ ConnectedButFull(q)
      PROVE  Inv'
  BY <1>2, OpeningKeeps
<1>3. ASSUME NEW q \in Requests, Recv(q) PROVE Inv'
  <2>1. PICK n \in 1..(HeadLen + response[q].body) :
               RecvHead(q, n) \/ RecvRefused(q, n) \/ RecvBody(q, n)
    BY <1>3 DEF Recv
  <2>2. n \in Nat
    BY AnswerType DEF Inv
  <2> QED BY <2>1, <2>2, RecvHeadKeeps, RecvRefusedKeeps, RecvBodyKeeps
<1>4. ASSUME NEW q \in Requests, TcpErr(q) PROVE Inv'
  <2>1. Live(q) /\ Abandon(q, "ERR_CLOSED") /\ UNCHANGED ticks
    BY <1>4 DEF TcpErr
  <2> QED BY <2>1, AbandonKeeps DEF Results, Inv, HttpTypeOK
<1> QED BY <1>1, <1>2, <1>3, <1>4, RecvFinKeeps, PollKeeps DEF HttpNext

(* The client keeps the inductive invariant. *)
THEOREM InvHolds == HttpSpec => []Inv
  BY InvInit, InvNext, PTL DEF HttpSpec

(* All variables keep their types; in particular timeout_ticks, which the  *)
(* code decrements without a test for 0, never wraps.                      *)
THEOREM HttpTypeCorrect == HttpSpec => []HttpTypeOK
<1>1. Inv => HttpTypeOK
  BY DEF Inv
<1> QED BY <1>1, InvHolds, PTL

(* Every unit received is kept, given to recv_fn or freed, exactly one of  *)
(* these, also when the request is abandoned at any point.                 *)
THEOREM PbufsHaveOneFate == HttpSpec => []EveryPbufOnce
<1>1. Inv => EveryPbufOnce
  BY DEF Inv, RequestInv, EveryPbufOnce
<1> QED BY <1>1, InvHolds, PTL

(* While the body is received the window is as open as at the beginning. *)
THEOREM WindowIsReopened == HttpSpec => []WindowReopened
<1>1. Inv => WindowReopened
  BY DEF Inv, RequestInv, WindowReopened, Live
<1> QED BY <1>1, InvHolds, PTL

-----------------------------------------------------------------------------
(* The update *)

USE CallsAssumption

OtaTypeOK ==
  /\ app \in {"idle", "get_file", "waiting", "destroy", "forget", "end"}
  /\ call \in 0..Calls
  /\ app # "idle" => call \in Requests
  /\ sem \in [Requests -> {"none", "taken", "posted", "freed"}]
  /\ ota_sem \in 0..Calls

(* The initial state has the types of the update. *)
LEMMA OtaTypeInit == Init => OtaTypeOK
  BY DEF Init, OtaTypeOK

(* Every step keeps them. *)
LEMMA OtaTypeNext == OtaTypeOK /\ [Next]_vars => OtaTypeOK'
<1> SUFFICES ASSUME OtaTypeOK, [Next]_vars PROVE OtaTypeOK'
  OBVIOUS
<1> USE DEF OtaTypeOK
<1>1. CASE UNCHANGED vars
  BY <1>1 DEF vars, otaVars
<1>2. CASE Start
  BY <1>2 DEF Start
<1>3. CASE Request \/ RequestFails \/ Wake \/ Destroy \/ Forget \/ End
  BY <1>3 DEF Request, RequestFails, Wake, Destroy, Forget, End
<1>4. ASSUME ResultFn, UNCHANGED <<app, call, ota_sem>> PROVE OtaTypeOK'
  BY <1>4 DEF ResultFn
<1>5. ASSUME NEW r \in Requests, FirstBody(r) \/ Body(r) \/ Quiet(r) PROVE OtaTypeOK'
  BY <1>5 DEF FirstBody, Body, Quiet, otaVars
<1>6. ASSUME NEW r \in Requests, BeginFailed(r) \/ Ends(r) PROVE OtaTypeOK'
  BY <1>6, <1>4 DEF BeginFailed, Ends
<1>7. ASSUME NEW r \in Requests, Polled(r) PROVE OtaTypeOK'
  BY <1>7, <1>4 DEF Polled
<1> QED BY <1>1, <1>2, <1>3, <1>5, <1>6, <1>7 DEF Next

-----------------------------------------------------------------------------
(* Every step of the update is a step of the HTTP client, or none. *)

(* One step of the proof per action of the update. *)
LEMMA StepIsHttpStep == OtaTypeOK /\ [Next]_vars => [HttpNext]_httpVars
<1> SUFFICES ASSUME OtaTypeOK, [Next]_vars PROVE [HttpNext]_httpVars
  OBVIOUS
<1>1. CASE UNCHANGED vars
  BY <1>1 DEF vars
<1>2. CASE Start \/ Wake \/ Destroy \/ Forget \/ End
  BY <1>2 DEF Start, Wake, Destroy, Forget, End
<1>3. CASE Request \/ RequestFails
  <2>1. call \in Requests /\ (GetFile(call) \/ GetFileFails(call))
    BY <1>3 DEF Request, RequestFails, OtaTypeOK
  <2> QED BY <2>1 DEF HttpNext
<1>4. ASSUME NEW r \in Requests,
             BeginFailed(r) \/ FirstBody(r) \/ Body(r) \/ Ends(r) \/ Quiet(r) \/ Polled(r)
      PROVE  HttpNext
  <2>1. CASE BeginFailed(r) \/ FirstBody(r) \/ Body(r)
    BY <2>1 DEF BeginFailed, FirstBody, Body, Segments, Recv, HttpNext
  <2>2. CASE Ends(r) \/ Polled(r)
    BY <2>2 DEF Ends, Polled, HttpNext
  <2>3. CASE Quiet(r)
    BY <2>3 DEF Quiet, Segments, Recv, HttpNext
  <2> QED BY <1>4, <2>1, <2>2, <2>3
<1> QED BY <1>1, <1>2, <1>3, <1>4 DEF Next

(* The update drives the client as HttpSpec allows any application to. *)
THEOREM OtaImplementsHttp == Spec => HttpSpec
<1>1. Init => HttpInit
  BY DEF Init
<1> QED BY <1>1, OtaTypeInit, OtaTypeNext, StepIsHttpStep, PTL DEF Spec, HttpSpec

-----------------------------------------------------------------------------
(* A call and its request.  The semaphore says whether the request has     *)
(* ended, requests of later calls have not begun, and while the request is *)
(* alive the update has begun exactly when the headers are complete.       *)
CallInv ==
  /\ app = "get_file" => /\ state[call] = "none" /\ sem[call] = "taken"
                         /\ ota_sem = call /\ ota_state = "IDLE"
  /\ app = "waiting" => /\ state[call] # "none" /\ ota_sem = call
                        /\ sem[call] = IF Live(call) THEN "taken" ELSE "posted"
  /\ \A r \in Requests : Live(r) => r = call /\ app = "waiting"
  /\ \A r \in Requests : r > call => state[r] = "none"
  /\ slave \in {"idle", "ota"}
  /\ slave = "ota" => ota_state = "STARTED" /\ app \in {"waiting", "destroy", "forget", "end"}
  /\ \A r \in Requests :
       Live(r) => /\ ota_state = "STARTED" <=> parse[r] = "data"
                  /\ ota_state = "STARTED" => slave = "ota"
  /\ misuse = {}

OtaInv == Inv /\ OtaTypeOK /\ CallInv

(* The initial state has the invariant. *)
LEMMA OtaInvInit == Init => OtaInv
<1> SUFFICES ASSUME Init PROVE OtaInv
  OBVIOUS
<1>1. Inv
  BY InvInit DEF Init
<1>2. CallInv
  BY DEF Init, HttpInit, CallInv, Live
<1> QED BY <1>1, <1>2, OtaTypeInit DEF OtaInv

(* The steps of the application task. *)
LEMMA TaskKeeps ==
  ASSUME OtaInv, ~Slow,
         Start \/ Request \/ RequestFails \/ Wake \/ Destroy \/ Forget \/ End
  PROVE  CallInv'
<1> USE DEF OtaInv, OtaTypeOK, CallInv, Live
<1>1. CASE Start
  BY <1>1 DEF Start, httpVars
<1>2. CASE Request \/ RequestFails
  <2>1. app = "get_file" /\ call \in Requests /\ call # 0 /\ parse[call] = "first_line"
    BY <1>2 DEF Request, RequestFails, Inv, RequestInv
  <2>2. \A r \in Requests : ~Live(r)
    BY <2>1
  <2>3. PICK st \in {"connecting", "freed"} :
               /\ state' = [state EXCEPT ![call] = st] /\ UNCHANGED parse
               /\ app' = IF st = "connecting" THEN "waiting" ELSE "idle"
    BY <1>2 DEF Request, RequestFails, GetFile, GetFileFails
  <2>4. /\ state'[call] = st
        /\ \A r \in Requests : r # call => state'[r] = state[r]
    BY <2>1, <2>3 DEF Inv, HttpTypeOK
  <2>5. UNCHANGED <<call, sem, ota_sem, ota_state, slave, misuse>>
    BY <1>2 DEF Request, RequestFails
  <2>6. CASE st = "connecting"
    BY <2>1, <2>2, <2>3, <2>4, <2>5, <2>6
  <2>7. CASE st = "freed"
    BY <2>1, <2>2, <2>3, <2>4, <2>5, <2>7
  <2> QED BY <2>6, <2>7
<1>3. CASE Wake
  BY <1>3 DEF Wake, httpVars
<1>4. CASE Destroy \/ Forget \/ End
  BY <1>4 DEF Destroy, Forget, End, httpVars
<1> QED BY <1>1, <1>2, <1>3, <1>4

(* The end of a request, for whatever reason. *)
LEMMA EndingKeeps ==
  ASSUME OtaInv, NEW r \in Requests, Live(r),
         state' = [state EXCEPT ![r] = "freed"], ResultFn,
         UNCHANGED <<app, call, ota_sem, slave>>, ota_state' \in {ota_state, "STARTED"}
  PROVE  CallInv'
<1> USE DEF OtaInv, CallInv, Live
<1>1. /\ r = call /\ app = "waiting" /\ ota_sem = call /\ sem[call] = "taken" /\ call # 0
  BY DEF OtaTypeOK
<1>2. sem' = [sem EXCEPT ![call] = "posted"] /\ misuse' = {}
  BY <1>1 DEF ResultFn
<1>3. state'[call] = "freed" /\ \A s \in Requests : s # call => state'[s] = state[s]
  BY <1>1 DEF Inv, HttpTypeOK
<1>4. sem'[call] = "posted"
  BY <1>1, <1>2 DEF OtaTypeOK
<1>5. \A s \in Requests : ~Live(s)'
  BY <1>1, <1>3
<1> QED BY <1>1, <1>2, <1>3, <1>4, <1>5

(* The callbacks that leave the request alive. *)
LEMMA AliveKeeps ==
  ASSUME OtaInv, NEW r \in Requests, state[r] \in {"connecting", "open"},
         state'[r] \in {"connecting", "open"},
         \A s \in Requests : s # r => state'[s] = state[s],
         UNCHANGED <<app, call, sem, ota_sem>>,
         slave' \in {"idle", "ota"}, misuse' = {},
         slave' = "ota" => ota_state' = "STARTED",
         ota_state' = "STARTED" <=> parse'[r] = "data",
         ota_state' = "STARTED" => slave' = "ota"
  PROVE  CallInv'
<1> USE DEF OtaInv, CallInv, Live
<1>1. r = call /\ app = "waiting" /\ \A s \in Requests : s # r => ~Live(s)'
  OBVIOUS
<1>2. Live(call) /\ Live(call)' /\ sem'[call] = "taken"
  BY <1>1
<1> QED BY <1>1, <1>2

(* The steps of lwIP's thread. *)
LEMMA CallbackKeeps ==
  ASSUME OtaInv, NEW r \in Requests,
         BeginFailed(r) \/ FirstBody(r) \/ Body(r) \/ Ends(r) \/ Quiet(r) \/ Polled(r)
  PROVE  CallInv'
<1>0. /\ state \in [Requests -> {"none", "connecting", "open", "freed"}]
      /\ parse \in [Requests -> {"first_line", "headers", "data"}]
  BY DEF OtaInv, Inv, HttpTypeOK
<1>1. CASE BeginFailed(r)
  <2>1. Live(r) /\ state' = [state EXCEPT ![r] = "freed"]
    BY <1>1 DEF BeginFailed, RecvRefused, Deliver, Close, Live
  <2> QED BY <1>1, <2>1, EndingKeeps DEF BeginFailed
<1>2. CASE Ends(r)
  <2>1. Live(r) /\ state' = [state EXCEPT ![r] = "freed"]
    BY <1>2 DEF Ends, ConnectedButFull, RecvFin, TcpErr, Abandon, Close, Live
  <2> QED BY <1>2, <2>1, EndingKeeps DEF Ends
<1>3. CASE FirstBody(r)
  <2>1. state[r] = "open" /\ state' = state /\ parse' = [parse EXCEPT ![r] = "data"]
    BY <1>3 DEF FirstBody, RecvBody, Deliver
  <2>2. UNCHANGED <<app, call, sem, ota_sem, misuse>> /\ ota_state' = "STARTED" /\ slave' = "ota"
    BY <1>3 DEF FirstBody
  <2> QED BY <1>0, <2>1, <2>2, AliveKeeps DEF OtaInv, CallInv
<1>4. CASE Body(r)
  <2>1. state[r] = "open" /\ state' = state /\ parse' = [parse EXCEPT ![r] = "data"]
        /\ parse[r] = "data"
    BY <1>4 DEF Body, RecvBody, Deliver, HeadersDone
  <2>2. ota_state = "STARTED" /\ slave = "ota" /\ misuse = {}
    BY <2>1 DEF OtaInv, CallInv, Live
  <2>3. UNCHANGED <<app, call, sem, ota_sem, misuse, ota_state, slave>>
    BY <1>4, <2>2 DEF Body
  <2> QED BY <1>0, <2>1, <2>2, <2>3, AliveKeeps
<1>5. CASE Quiet(r)
  <2>1. UNCHANGED <<app, call, sem, ota_sem, misuse, ota_state, slave>>
    BY <1>5 DEF Quiet, otaVars
  <2>2. CASE Connected(r)
    <3>1. state[r] = "connecting" /\ state' = [state EXCEPT ![r] = "open"] /\ parse' = parse
      BY <2>2 DEF Connected
    <3> QED BY <1>0, <2>1, <3>1, AliveKeeps DEF OtaInv, CallInv, Live
  <2>3. CASE \E n \in Segments(r) : RecvHead(r, n)
    <3>1. state[r] = "open" /\ state' = state /\ parse[r] # "data" /\ parse'[r] # "data"
      BY <1>0, <2>3 DEF RecvHead, Deliver, Parsed
    <3> QED BY <1>0, <2>1, <3>1, AliveKeeps DEF OtaInv, CallInv, Live
  <2> QED BY <1>5, <2>2, <2>3 DEF Quiet
<1>6. CASE Polled(r)
  <2>0. Live(r)
    BY <1>6 DEF Polled, Poll
  <2>1. CASE ticks[r] = 1
    <3>1. state' = [state EXCEPT ![r] = "freed"]
      BY <1>6, <2>1 DEF Polled, Poll, Abandon, Close
    <3>2. ~Live(r)'
      BY <1>0, <3>1 DEF Live
    <3> QED BY <1>6, <2>0, <3>1, <3>2, EndingKeeps DEF Polled
  <2>2. CASE ticks[r] # 1
    <3>1. UNCHANGED <<state, parse>>
      BY <1>6, <2>2 DEF Polled, Poll
    <3>2. Live(r)'
      BY <2>0, <3>1 DEF Live
    <3>3. UNCHANGED <<app, call, sem, ota_sem, misuse, ota_state, slave>>
      BY <1>6, <3>2 DEF Polled
    <3> QED BY <1>0, <2>0, <3>1, <3>3, AliveKeeps DEF OtaInv, CallInv, Live
  <2> QED BY <2>1, <2>2
<1> QED BY <1>1, <1>2, <1>3, <1>4, <1>5, <1>6

(* Every step keeps it, as long as no wait for the semaphore times out. *)
LEMMA OtaInvNext == ~Slow /\ OtaInv /\ [Next]_vars => OtaInv'
<1> SUFFICES ASSUME ~Slow, OtaInv, [Next]_vars PROVE OtaInv'
  OBVIOUS
<1>1. Inv' /\ OtaTypeOK'
  BY StepIsHttpStep, InvNext, OtaTypeNext DEF OtaInv
<1>2. CASE UNCHANGED vars
  <2>1. CallInv'
    BY <1>2 DEF vars, otaVars, httpVars, OtaInv, CallInv, Live
  <2> QED BY <1>1, <2>1 DEF OtaInv
<1>3. CASE Next
  BY <1>1, <1>3, TaskKeeps, CallbackKeeps DEF Next, OtaInv
<1> QED BY <1>2, <1>3

(* When requests end within OTA_TIMEOUT_SEC the inductive invariant holds. *)
THEOREM OtaInvHolds ==
  ASSUME ~Slow
  PROVE  Spec => []OtaInv
  BY OtaInvInit, OtaInvNext, PTL DEF Spec

(* No callback runs outside the call that asked for it. *)
THEOREM CallbacksStayInCall ==
  ASSUME ~Slow
  PROVE  Spec => []CallbacksDuringCall
<1>1. OtaInv => CallbacksDuringCall
  BY DEF OtaInv, CallInv, CallbacksDuringCall
<1> QED BY <1>1, OtaInvHolds, PTL

(* Writes only come between a successful begin and the end, and result_fn  *)
(* finds its semaphore, for any number of calls that fail anywhere.        *)
THEOREM CoprocessorNotMisused ==
  ASSUME ~Slow
  PROVE  Spec => []NoMisuse
<1>1. OtaInv => NoMisuse
  BY DEF OtaInv, CallInv, NoMisuse
<1> QED BY <1>1, OtaInvHolds, PTL

(* Every call that begins an update on the coprocessor also ends it. *)
THEOREM UpdateAlwaysClosed ==
  ASSUME ~Slow
  PROVE  Spec => []UpdateIsClosed
<1>1. OtaInv => UpdateIsClosed
  BY DEF OtaInv, CallInv, UpdateIsClosed
<1> QED BY <1>1, OtaInvHolds, PTL

-----------------------------------------------------------------------------
(* The image.  What has been written is ascending and was received, and as *)
(* long as no write failed it is all that was received.                    *)
ImageInv ==
  slave = "ota" =>
    /\ call \in Requests
    /\ failed \in BOOLEAN
    /\ written \in Seq(Nat)
    /\ \A i \in DOMAIN written : written[i] <= rx_len[call]
    /\ \A i, j \in DOMAIN written : i < j => written[i] < written[j]
    /\ failed \/ written = Units(0, rx_len[call])

(* The units from one number to another are as many as their difference. *)
LEMMA UnitsType ==
  ASSUME NEW from \in Nat, NEW to \in Nat, from <= to
  PROVE  /\ Units(from, to) \in Seq(Nat)
         /\ Len(Units(from, to)) = to - from
         /\ \A k \in 1..(to - from) : Units(from, to)[k] = from + k
<1>1. to - from \in Nat /\ \A k \in 1..(to - from) : from + k \in Nat
  OBVIOUS
<1> QED BY <1>1 DEF Units

(* Consecutive ranges of units join, and an ascending sequence stays       *)
(* ascending when later units are appended.                                *)
LEMMA AppendUnits ==
  ASSUME NEW s \in Seq(Nat), NEW from \in Nat, NEW to \in Nat, from <= to,
         \A i \in DOMAIN s : s[i] <= from,
         \A i, j \in DOMAIN s : i < j => s[i] < s[j]
  PROVE  /\ s \o Units(from, to) \in Seq(Nat)
         /\ \A i \in DOMAIN (s \o Units(from, to)) : (s \o Units(from, to))[i] <= to
         /\ \A i, j \in DOMAIN (s \o Units(from, to)) :
              i < j => (s \o Units(from, to))[i] < (s \o Units(from, to))[j]
         /\ s = Units(0, from) => s \o Units(from, to) = Units(0, to)
<1> DEFINE u == Units(from, to)
           t == s \o u
<1>1. u \in Seq(Nat) /\ Len(u) = to - from /\ \A k \in 1..(to - from) : u[k] = from + k
  BY UnitsType
<1> HIDE DEF u
<1>2. /\ t \in Seq(Nat) /\ Len(t) = Len(s) + (to - from)
      /\ \A i \in 1..Len(t) : t[i] = IF i <= Len(s) THEN s[i] ELSE u[i - Len(s)]
  BY <1>1
<1>3. \A i \in 1..Len(t) : IF i <= Len(s) THEN t[i] = s[i] ELSE t[i] = from + (i - Len(s))
  <2> TAKE i \in 1..Len(t)
  <2>1. CASE i <= Len(s)
    BY <1>2, <2>1
  <2>2. CASE i > Len(s)
    <3>1. i - Len(s) \in 1..(to - from)
      BY <1>2, <2>2
    <3> QED BY <1>1, <1>2, <2>2, <3>1
  <2> QED BY <2>1, <2>2
<1> HIDE DEF t
<1>d. /\ DOMAIN s = 1..Len(s) /\ Len(s) \in Nat /\ \A i \in 1..Len(s) : s[i] \in Nat
      /\ DOMAIN t = 1..Len(t) /\ Len(t) \in Nat
  BY <1>2
<1>4. ASSUME NEW i \in DOMAIN t PROVE t[i] <= to
  <2>1. i \in 1..Len(t) /\ i \in Nat
    BY <1>d
  <2>2. CASE i <= Len(s)
    <3>1. i \in DOMAIN s /\ t[i] = s[i] /\ s[i] \in Nat
      BY <1>3, <1>d, <2>1, <2>2
    <3> QED BY <3>1
  <2>3. CASE i > Len(s)
    <3>1. t[i] = from + (i - Len(s))
      BY <1>3, <1>d, <2>1, <2>3
    <3>2. i <= Len(s) + (to - from)
      BY <1>2, <2>1
    <3> QED BY <1>d, <2>1, <3>1, <3>2
  <2> QED BY <1>d, <2>1, <2>2, <2>3
<1>5. ASSUME NEW i \in DOMAIN t, NEW j \in DOMAIN t, i < j PROVE t[i] < t[j]
  <2>1. i \in 1..Len(t) /\ j \in 1..Len(t) /\ i \in Nat /\ j \in Nat
    BY <1>d
  <2>2. CASE j <= Len(s)
    <3>1. i \in DOMAIN s /\ j \in DOMAIN s /\ t[i] = s[i] /\ t[j] = s[j]
      BY <1>3, <1>5, <1>d, <2>1, <2>2
    <3> QED BY <1>5, <3>1
  <2>3. CASE i <= Len(s) /\ j > Len(s)
    <3>1. i \in DOMAIN s /\ t[i] = s[i] /\ s[i] \in Nat /\ t[j] = from + (j - Len(s))
      BY <1>3, <1>d, <2>1, <2>3
    <3> QED BY <1>d, <2>1, <2>3, <3>1
  <2>4. CASE i > Len(s)
    <3>1. t[i] = from + (i - Len(s)) /\ t[j] = from + (j - Len(s))
      BY <1>3, <1>5, <1>d, <2>1, <2>4
    <3> QED BY <1>5, <1>d, <2>1, <3>1
  <2> QED BY <1>d, <2>1, <2>2, <2>3, <2>4
<1>6. ASSUME s = Units(0, from) PROVE t = Units(0, to)
  <2>1. Len(s) = from /\ \A k \in 1..from : s[k] = k
    <3>1. from - 0 = from /\ 0 <= from /\ \A k \in 1..from : 0 + k = k
      OBVIOUS
    <3> QED BY <1>6, <3>1, UnitsType
  <2>2. Len(t) = to
    BY <1>2, <2>1
  <2>3. ASSUME NEW k \in 1..to PROVE t[k] = k
    BY <1>3, <2>1, <2>2
  <2>4. Units(0, to) \in Seq(Nat) /\ Len(Units(0, to)) = to
        /\ \A k \in 1..to : Units(0, to)[k] = k
    <3>1. to - 0 = to /\ 0 <= to /\ \A k \in 1..to : 0 + k = k
      OBVIOUS
    <3> QED BY <3>1, UnitsType
  <2> QED BY <1>2, <2>2, <2>3, <2>4
<1> QED BY <1>2, <1>4, <1>5, <1>6 DEF t, u

(* Only recv_fn writes, and it writes what it has just received. *)
LEMMA WriteKeeps ==
  ASSUME NEW r \in Requests, NEW before \in Seq(Nat), NEW ok \in BOOLEAN,
         rx_len[r] \in Nat, rx_len'[r] \in Nat, Write(r, before, ok),
         call' = r,
         \A i \in DOMAIN before : before[i] <= rx_len[r],
         \A i, j \in DOMAIN before : i < j => before[i] < before[j],
         ~ok \/ before = Units(0, rx_len[r])
  PROVE  ImageInv'
<1>1. PICK last \in rx_len[r]..rx_len'[r] :
             /\ written' = before \o Units(rx_len[r], last)
             /\ failed' = (~ok \/ last < rx_len'[r])
  BY DEF Write
<1>2. last \in Nat /\ rx_len[r] <= last /\ last <= rx_len'[r]
  BY <1>1
<1>3. /\ written' \in Seq(Nat)
      /\ \A i \in DOMAIN written' : written'[i] <= last
      /\ \A i, j \in DOMAIN written' : i < j => written'[i] < written'[j]
      /\ ok => written' = Units(0, last)
  BY <1>1, <1>2, AppendUnits
<1>4. \A i \in DOMAIN written' : written'[i] <= rx_len'[r]
  BY <1>2, <1>3
<1>5. failed' \in BOOLEAN
  BY <1>1
<1>6. failed' \/ written' = Units(0, rx_len'[r])
  <2>1. CASE ok /\ last = rx_len'[r]
    BY <1>3, <2>1
  <2>2. CASE ~ok \/ last < rx_len'[r]
    BY <1>1, <2>2
  <2> QED BY <1>2, <2>1, <2>2
<1> QED BY <1>3, <1>4, <1>5, <1>6 DEF ImageInv, Units

(* A step that leaves the image and what was received alone. *)
LEMMA ImageFrame ==
  ASSUME ImageInv, UNCHANGED <<rx_len, call, written, failed>>, slave' \in {slave, "idle"}
  PROVE  ImageInv'
  BY DEF ImageInv, Units

(* Every step leaves what was written a part of what was received. *)
LEMMA ImageNext == OtaInv /\ ImageInv /\ [Next]_vars => ImageInv'
<1> SUFFICES ASSUME OtaInv, ImageInv, [Next]_vars PROVE ImageInv'
  OBVIOUS
<1>1. CASE UNCHANGED vars
  BY <1>1, ImageFrame DEF vars, otaVars, httpVars
<1>2. CASE Start
  <2>1. slave # "ota" /\ slave' = slave
    BY <1>2 DEF Start, OtaInv, CallInv
  <2> QED BY <2>1 DEF ImageInv
<1>3. CASE Request \/ RequestFails \/ Wake \/ Destroy \/ Forget
  BY <1>3, ImageFrame DEF Request, RequestFails, Wake, Destroy, Forget, GetFile, GetFileFails, httpVars
<1>4. CASE End
  BY <1>4, ImageFrame DEF End, httpVars
<1>5. ASSUME NEW r \in Requests, BeginFailed(r) \/ Ends(r) \/ Quiet(r) PROVE ImageInv'
  <2>1. UNCHANGED <<call, written, failed, slave>>
    BY <1>5 DEF BeginFailed, Ends, Quiet, otaVars
  <2>2. UNCHANGED rx_len
    BY <1>5 DEF BeginFailed, RecvRefused, Ends, ConnectedButFull, RecvFin, TcpErr, Abandon,
                Quiet, Connected, RecvHead
  <2> QED BY <2>1, <2>2, ImageFrame
<1>6. ASSUME NEW r \in Requests, Polled(r) PROVE ImageInv'
  BY <1>6, ImageFrame DEF Polled, Poll, Abandon
<1>7. ASSUME NEW r \in Requests, FirstBody(r) PROVE ImageInv'
  <2> DEFINE before == <<>>
  <2>1. PICK n \in Segments(r) : RecvBody(r, n) /\ HeadersDone(r)
    BY <1>7 DEF FirstBody
  <2>2. call = r /\ call' = r
    BY <1>7, <2>1 DEF FirstBody, RecvBody, Deliver, OtaInv, CallInv, Live
  <2>3. rx_len[r] = 0
    BY <2>1 DEF RecvBody, Deliver, HeadersDone, OtaInv, Inv, RequestInv
  <2>4. rx_len'[r] \in Nat
    BY StepIsHttpStep, InvNext DEF OtaInv, Inv, HttpTypeOK
  <2>5. before \in Seq(Nat) /\ TRUE \in BOOLEAN
    OBVIOUS
  <2>6. /\ \A i \in DOMAIN before : before[i] <= rx_len[r]
        /\ \A i, j \in DOMAIN before : i < j => before[i] < before[j]
    OBVIOUS
  <2>7. before = Units(0, rx_len[r])
    BY <2>3 DEF Units
  <2>8. Write(r, before, TRUE)
    BY <1>7, Zenon DEF FirstBody
  <2>9. rx_len[r] \in Nat
    BY <2>3
  <2> HIDE DEF before
  <2> QED BY <2>2, <2>4, <2>5, <2>6, <2>7, <2>8, <2>9, WriteKeeps
<1>8. ASSUME NEW r \in Requests, Body(r) PROVE ImageInv'
  <2>1. PICK n \in Segments(r) : RecvBody(r, n) /\ ~HeadersDone(r)
    BY <1>8 DEF Body
  <2>2. state[r] = "open" /\ parse[r] = "data"
    BY <2>1 DEF RecvBody, Deliver, HeadersDone
  <2>3. call = r /\ ota_state = "STARTED" /\ slave = "ota"
    BY <2>2 DEF OtaInv, CallInv, Live
  <2>4. call' = r /\ Write(r, written, ~failed)
    BY <1>8, <2>3 DEF Body
  <2>5. rx_len[r] \in Nat /\ rx_len'[r] \in Nat
    BY StepIsHttpStep, InvNext DEF OtaInv, Inv, HttpTypeOK
  <2>6. /\ written \in Seq(Nat) /\ (~failed) \in BOOLEAN
        /\ \A i \in DOMAIN written : written[i] <= rx_len[r]
        /\ \A i, j \in DOMAIN written : i < j => written[i] < written[j]
        /\ ~(~failed) \/ written = Units(0, rx_len[r])
    BY <2>3 DEF ImageInv
  <2> QED BY <2>4, <2>5, <2>6, WriteKeeps
<1> QED BY <1>1, <1>2, <1>3, <1>4, <1>5, <1>6, <1>7, <1>8 DEF Next

(* What is written is the image as it was received: ascending, and, while  *)
(* no write fails, complete, for every way TCP cuts it into segments.      *)
(* When the client says OK it is the whole body that the server announced: *)
(* the client's accounts and what recv_fn writes are of the same units.    *)
THEOREM ImageWrittenAsReceived ==
  ASSUME ~Slow
  PROVE  Spec => []ImageIsReceived
<1>1. Init => ImageInv
  BY DEF Init, ImageInv
<1>2. OtaInv /\ ImageInv => ImageIsReceived
  <2>1. ASSUME OtaInv, ImageInv, slave = "ota", ~failed, result[call] = "OK"
        PROVE  /\ written = Units(0, sent[call] - HeadLen)
               /\ response[call].announced \in {Unknown, sent[call] - HeadLen}
    <3>1. call \in Requests /\ written = Units(0, rx_len[call])
      BY <2>1 DEF ImageInv
    <3>2. RequestInv(call) /\ sent[call] \in Nat /\ rx_len[call] \in Nat /\ freed[call] \in Nat
      BY <2>1, <3>1 DEF OtaInv, Inv, HttpTypeOK
    <3>3. ~Live(call)
      BY <2>1, <3>2 DEF RequestInv, Live, Results
    <3>4. sent[call] - HeadLen = rx_len[call]
      BY <2>1, <3>2, <3>3 DEF RequestInv
    <3>5. response[call].announced \in {Unknown, rx_len[call]}
      BY <2>1, <3>2 DEF RequestInv
    <3> QED BY <3>1, <3>4, <3>5
  <2> QED BY <2>1 DEF ImageInv, ImageIsReceived
<1> QED BY <1>1, <1>2, ImageNext, OtaInvHolds, PTL DEF Spec
=============================================================================

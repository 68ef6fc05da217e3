---------------------------- MODULE CallsEndProofs ----------------------------
(***************************************************************************)
(* What ends, and with what: the results of a batch of pings, the sockets  *)
(* for acknowledgements of SmartConfig, the bounds of a timed              *)
(* esp_event_loop_run, and the calls into the TCP/IP thread, each with its *)
(* inductive invariant.                                                    *)
(***************************************************************************)
EXTENDS CallsEnd, TLAPS

-----------------------------------------------------------------------------
(* Ping sessions (Ping).  While a batch runs, the counters of the result   *)
(* are what was left untold and what the batch has counted: its sequence   *)
(* number, its answers and the difference of the two, all modulo the width *)
(* of the counters.                                                        *)

(* A number below the width is its own remainder. *)
LEMMA ModBelow == ASSUME NEW W \in Nat \ {0}, NEW a \in 0 .. W - 1 PROVE a % W = a
  BY SMT

(* A number one width above is reduced. *)
LEMMA ModOver == ASSUME NEW W \in Nat \ {0}, NEW a \in 0 .. W - 1 PROVE (a + W) % W = a
  BY SMT

(* A number one width below is raised. *)
LEMMA ModUnder == ASSUME NEW W \in Nat \ {0}, NEW a \in 0 .. W - 1 PROVE (a - W) % W = a
  BY SMT

(* A counter of the width PingWrap counts and wraps. *)
LEMMA IncIs ==
  ASSUME NEW n \in 0 .. PingWrap - 1
  PROVE  Pings!Inc(n) = (IF n = PingWrap - 1 THEN 0 ELSE n + 1) /\ Pings!Inc(n) \in 0 .. PingWrap - 1
<1>1. CASE n = PingWrap - 1
  <2>1. 0 \in 0 .. PingWrap - 1 /\ n + 1 = 0 + PingWrap
    BY <1>1, SessionsAssumption
  <2>2. (0 + PingWrap) % PingWrap = 0
    BY <2>1, ModOver, SessionsAssumption
  <2> QED
    BY <1>1, <2>1, <2>2, SessionsAssumption DEF Pings!Inc
<1>2. CASE n # PingWrap - 1
  <2>1. n + 1 \in 0 .. PingWrap - 1
    BY <1>2, SessionsAssumption
  <2>2. (n + 1) % PingWrap = n + 1
    BY <2>1, ModBelow, SessionsAssumption
  <2> QED
    BY <1>2, <2>1, <2>2 DEF Pings!Inc
<1> QED
  BY <1>1, <1>2

(* The difference of two counters *)
LEMMA DifferenceIs ==
  ASSUME NEW m \in 0 .. PingWrap - 1, NEW n \in 0 .. PingWrap - 1
  PROVE  /\ (m - n) % PingWrap = (IF m >= n THEN m - n ELSE m - n + PingWrap)
         /\ (m - n) % PingWrap \in 0 .. PingWrap - 1
<1>1. CASE m >= n
  <2>1. m - n \in 0 .. PingWrap - 1
    BY <1>1, SessionsAssumption
  <2> QED
    BY <1>1, <2>1, ModBelow, SessionsAssumption
<1>2. CASE ~(m >= n)
  <2>1. m - n + PingWrap \in 0 .. PingWrap - 1
    BY <1>2, SessionsAssumption
  <2>2. (m - n + PingWrap) - PingWrap = m - n
    BY SessionsAssumption
  <2>3. ((m - n + PingWrap) - PingWrap) % PingWrap = m - n + PingWrap
    BY <2>1, ModUnder, SessionsAssumption
  <2> QED
    BY <1>2, <2>1, <2>2, <2>3
<1> QED
  BY <1>1, <1>2

(* The difference stays when both count, and counts when one does. *)
LEMMA BothCount ==
  ASSUME NEW m \in 0 .. PingWrap - 1, NEW n \in 0 .. PingWrap - 1
  PROVE  /\ (Pings!Inc(m) - Pings!Inc(n)) % PingWrap = (m - n) % PingWrap
         /\ (Pings!Inc(m) - n) % PingWrap = Pings!Inc((m - n) % PingWrap)
<1> DEFINE d == (m - n) % PingWrap
<1>1. d = (IF m >= n THEN m - n ELSE m - n + PingWrap) /\ d \in 0 .. PingWrap - 1
  BY DifferenceIs
<1> HIDE DEF d
<1>2. Pings!Inc(m) = (IF m = PingWrap - 1 THEN 0 ELSE m + 1) /\ Pings!Inc(m) \in 0 .. PingWrap - 1
  BY IncIs
<1>3. Pings!Inc(n) = (IF n = PingWrap - 1 THEN 0 ELSE n + 1) /\ Pings!Inc(n) \in 0 .. PingWrap - 1
  BY IncIs
<1>4. Pings!Inc(d) = (IF d = PingWrap - 1 THEN 0 ELSE d + 1)
  BY <1>1, IncIs
<1>5. (Pings!Inc(m) - Pings!Inc(n)) % PingWrap =
        (IF Pings!Inc(m) >= Pings!Inc(n) THEN Pings!Inc(m) - Pings!Inc(n)
         ELSE Pings!Inc(m) - Pings!Inc(n) + PingWrap)
  BY <1>2, <1>3, DifferenceIs
<1>6. (Pings!Inc(m) - n) % PingWrap =
        (IF Pings!Inc(m) >= n THEN Pings!Inc(m) - n ELSE Pings!Inc(m) - n + PingWrap)
  BY <1>2, DifferenceIs
<1>7. (Pings!Inc(m) - Pings!Inc(n)) % PingWrap = d
  BY <1>1, <1>2, <1>3, <1>5, SessionsAssumption
<1>8. (Pings!Inc(m) - n) % PingWrap = Pings!Inc(d)
  BY <1>1, <1>2, <1>4, <1>6, SessionsAssumption
<1> QED
  BY <1>7, <1>8 DEF d

(* Two counters added *)
LEMMA SumIs ==
  ASSUME NEW m \in 0 .. PingWrap - 1, NEW n \in 0 .. PingWrap - 1
  PROVE  /\ (m + n) % PingWrap = (IF m + n < PingWrap THEN m + n ELSE m + n - PingWrap)
         /\ (m + n) % PingWrap \in 0 .. PingWrap - 1
<1>1. CASE m + n < PingWrap
  <2>1. m + n \in 0 .. PingWrap - 1
    BY <1>1, SessionsAssumption
  <2> QED
    BY <1>1, <2>1, ModBelow, SessionsAssumption
<1>2. CASE ~(m + n < PingWrap)
  <2>1. m + n - PingWrap \in 0 .. PingWrap - 1 /\ (m + n - PingWrap) + PingWrap = m + n
    BY <1>2, SessionsAssumption
  <2>2. ((m + n - PingWrap) + PingWrap) % PingWrap = m + n - PingWrap
    BY <2>1, ModOver, SessionsAssumption
  <2> QED
    BY <1>2, <2>1, <2>2
<1> QED
  BY <1>1, <1>2

(* A sum counts when one of its terms does. *)
LEMMA SumCounts ==
  ASSUME NEW m \in 0 .. PingWrap - 1, NEW n \in 0 .. PingWrap - 1
  PROVE  (m + Pings!Inc(n)) % PingWrap = Pings!Inc((m + n) % PingWrap)
<1> DEFINE d == (m + n) % PingWrap
<1>1. d = (IF m + n < PingWrap THEN m + n ELSE m + n - PingWrap) /\ d \in 0 .. PingWrap - 1
  BY SumIs
<1> HIDE DEF d
<1>2. Pings!Inc(n) = (IF n = PingWrap - 1 THEN 0 ELSE n + 1) /\ Pings!Inc(n) \in 0 .. PingWrap - 1
  BY IncIs
<1>3. Pings!Inc(d) = (IF d = PingWrap - 1 THEN 0 ELSE d + 1)
  BY <1>1, IncIs
<1>4. (m + Pings!Inc(n)) % PingWrap =
        (IF m + Pings!Inc(n) < PingWrap THEN m + Pings!Inc(n) ELSE m + Pings!Inc(n) - PingWrap)
  BY <1>2, SumIs
<1>5. (m + Pings!Inc(n)) % PingWrap = Pings!Inc(d)
  BY <1>1, <1>2, <1>3, <1>4, SessionsAssumption
<1> QED
  BY <1>5 DEF d

Counters == 0 .. PingWrap - 1
SessionPcs == {"none", "take", "loop", "receive", "finish", "deleting"}
SessionRecords == [pc : SessionPcs, flags : SUBSET {"INIT", "START"}, notified : BOOLEAN, count : Counts \cup {0},
                   seqno : Counters, received : Counters, deleted : BOOLEAN, given : BOOLEAN]
Results == [send_count : Counters, recv_count : Counters, timeout_count : Counters]
Changes == [on : Sessions, op : {"start", "stop", "delete"}, read : SUBSET {"INIT", "START"}]

PingTypeOK ==
  /\ session \in [Sessions -> SessionRecords]
  /\ rmw \in [Pings!Actors -> {Pings!Idle} \cup Changes]
  /\ result \in Results /\ untold \in Results

(* A handle is used between its delivery and the end of the session. *)
HandlesAreGiven ==
  /\ \A s \in Sessions :
       /\ ~session[s].given => session[s].pc \in {"none", "take"} /\ ~session[s].notified
       /\ session[s].given => session[s].pc # "none"
  /\ \A a \in Pings!Actors : rmw[a] # Pings!Idle => session[rmw[a].on].given
  /\ \A s \in Sessions : rmw[s] # Pings!Idle => rmw[s].on = s /\ session[s].pc = "deleting"

(* What a batch adds after so many requests and answers *)
Part(sent, received) ==
  [send_count |-> sent, recv_count |-> received, timeout_count |-> (sent - received) % PingWrap]

Counted(sent, received) == result = Pings!Sum(untold, Part(sent, received))

ResultIsCounted ==
  \A s \in Sessions :
    /\ session[s].pc \in {"loop", "finish"} => Counted(session[s].seqno, session[s].received)
    /\ session[s].pc = "receive" =>
         \E sent \in Counters : session[s].seqno = Pings!Inc(sent) /\ Counted(sent, session[s].received)
    /\ session[s].pc \in {"none", "take", "deleting"} => result = untold

PingInv == PingTypeOK /\ HandlesAreGiven /\ ResultIsCounted

(* What a batch adds before its first request, and by one more *)
LEMMA PartIs ==
  ASSUME NEW u \in Results, NEW sent \in Counters, NEW received \in Counters
  PROVE  /\ Pings!Sum(u, Part(sent, received)) \in Results
         /\ Pings!Sum(u, Part(0, 0)) = u
         /\ Pings!Reported(Pings!Sum(u, Part(sent, received)), TRUE) =
              Pings!Sum(u, Part(Pings!Inc(sent), Pings!Inc(received)))
         /\ Pings!Reported(Pings!Sum(u, Part(sent, received)), FALSE) =
              Pings!Sum(u, Part(Pings!Inc(sent), received))
<1> DEFINE Added(b) == [send_count |-> (u.send_count + b.send_count) % PingWrap,
                        recv_count |-> (u.recv_count + b.recv_count) % PingWrap,
                        timeout_count |-> (u.timeout_count + b.timeout_count) % PingWrap]
<1> DEFINE d == (sent - received) % PingWrap
<1>1. /\ u = [send_count |-> u.send_count, recv_count |-> u.recv_count, timeout_count |-> u.timeout_count]
      /\ u.send_count \in Counters /\ u.recv_count \in Counters /\ u.timeout_count \in Counters
  BY DEF Results
<1>2. \A b : Pings!Sum(u, b) = Added(b)
  BY <1>1 DEF Pings!Sum
<1>3. \A m \in Counters, n \in Counters :
        Part(m, n) = [send_count |-> m, recv_count |-> n, timeout_count |-> (m - n) % PingWrap]
  BY DEF Part
<1>4. d \in Counters
  BY DifferenceIs DEF Counters
<1>5. \A m \in Counters, n \in Counters : (m + n) % PingWrap \in Counters
  BY SumIs DEF Counters
<1>6. Pings!Inc(sent) \in Counters /\ Pings!Inc(received) \in Counters /\ 0 \in Counters
  BY IncIs, SessionsAssumption DEF Counters
<1>7. Pings!Sum(u, Part(sent, received)) \in Results
  BY <1>1, <1>2, <1>3, <1>4, <1>5 DEF Results
<1>8. Pings!Sum(u, Part(0, 0)) = u
  <2>1. (0 - 0) % PingWrap = 0
    BY <1>6, DifferenceIs DEF Counters
  <2>2. ASSUME NEW m \in Counters PROVE (m + 0) % PingWrap = m
    <3>1. m + 0 = m
      BY SessionsAssumption DEF Counters
    <3> QED
      BY <3>1, ModBelow, SessionsAssumption DEF Counters
  <2> QED
    BY <1>1, <1>2, <1>3, <1>6, <2>1, <2>2
<1>9. \A m \in Counters, n \in Counters : (m + Pings!Inc(n)) % PingWrap = Pings!Inc((m + n) % PingWrap)
  BY SumCounts DEF Counters
<1>10. /\ (Pings!Inc(sent) - Pings!Inc(received)) % PingWrap = d
       /\ (Pings!Inc(sent) - received) % PingWrap = Pings!Inc(d)
  BY BothCount DEF Counters
<1>11. Pings!Sum(u, Part(sent, received)) =
         [send_count |-> (u.send_count + sent) % PingWrap, recv_count |-> (u.recv_count + received) % PingWrap,
          timeout_count |-> (u.timeout_count + d) % PingWrap]
  BY <1>2, <1>3
<1>12. Pings!Sum(u, Part(Pings!Inc(sent), Pings!Inc(received))) =
         [send_count |-> Pings!Inc((u.send_count + sent) % PingWrap),
          recv_count |-> Pings!Inc((u.recv_count + received) % PingWrap),
          timeout_count |-> (u.timeout_count + d) % PingWrap]
  BY <1>1, <1>2, <1>3, <1>6, <1>9, <1>10
<1>13. Pings!Sum(u, Part(Pings!Inc(sent), received)) =
         [send_count |-> Pings!Inc((u.send_count + sent) % PingWrap),
          recv_count |-> (u.recv_count + received) % PingWrap,
          timeout_count |-> Pings!Inc((u.timeout_count + d) % PingWrap)]
  <2>1. Pings!Sum(u, Part(Pings!Inc(sent), received)) =
          [send_count |-> (u.send_count + Pings!Inc(sent)) % PingWrap,
           recv_count |-> (u.recv_count + received) % PingWrap,
           timeout_count |-> (u.timeout_count + Pings!Inc(d)) % PingWrap]
    BY <1>2, <1>3, <1>6, <1>10
  <2>2. /\ (u.send_count + Pings!Inc(sent)) % PingWrap = Pings!Inc((u.send_count + sent) % PingWrap)
        /\ (u.timeout_count + Pings!Inc(d)) % PingWrap = Pings!Inc((u.timeout_count + d) % PingWrap)
    BY <1>1, <1>4, <1>9
  <2> QED
    BY <2>1, <2>2
<1> HIDE DEF d
<1> DEFINE r == Pings!Sum(u, Part(sent, received))
<1>14. r \in Results
  BY <1>7
<1>15. /\ r.send_count = (u.send_count + sent) % PingWrap
       /\ r.recv_count = (u.recv_count + received) % PingWrap
       /\ r.timeout_count = (u.timeout_count + d) % PingWrap
  BY <1>11
<1> HIDE DEF r
<1>16. /\ Pings!Reported(r, TRUE) = [send_count |-> Pings!Inc(r.send_count), recv_count |-> Pings!Inc(r.recv_count),
                                     timeout_count |-> r.timeout_count]
       /\ Pings!Reported(r, FALSE) = [send_count |-> Pings!Inc(r.send_count), recv_count |-> r.recv_count,
                                      timeout_count |-> Pings!Inc(r.timeout_count)]
  <2>1. \A n \in Counters : Pings!Inc(n) \in Counters
    BY IncIs DEF Counters
  <2>2. ASSUME NEW answered \in BOOLEAN
        PROVE  LET q == Pings!Reported(r, answered)
               IN  /\ q \in Results
                   /\ q.send_count = Pings!Inc(r.send_count)
                   /\ q.recv_count = (IF answered THEN Pings!Inc(r.recv_count) ELSE r.recv_count)
                   /\ q.timeout_count = (IF answered THEN r.timeout_count ELSE Pings!Inc(r.timeout_count))
    BY <1>14, <2>1 DEF Pings!Reported, Results
  <2>3. \A q \in Results : q = [send_count |-> q.send_count, recv_count |-> q.recv_count,
                               timeout_count |-> q.timeout_count]
    BY DEF Results
  <2> QED
    BY <2>2, <2>3
<1>17. Pings!Reported(r, TRUE) = Pings!Sum(u, Part(Pings!Inc(sent), Pings!Inc(received)))
  BY <1>12, <1>15, <1>16
<1>18. Pings!Reported(r, FALSE) = Pings!Sum(u, Part(Pings!Inc(sent), received))
  BY <1>13, <1>15, <1>16
<1> QED
  BY <1>7, <1>8, <1>17, <1>18 DEF r

(* A session that does not exist, and the result before a batch *)
LEMMA NoneIs ==
  /\ Pings!NoSession \in SessionRecords /\ Pings!NoSession.pc = "none"
  /\ ~Pings!NoSession.given /\ ~Pings!NoSession.notified
  /\ Pings!NoResult \in Results
  /\ Pings!NoResult.send_count = 0 /\ Pings!NoResult.recv_count = 0 /\ Pings!NoResult.timeout_count = 0
  /\ 0 \in Counters
BY SessionsAssumption DEF Pings!NoSession, Pings!NoResult, SessionRecords, SessionPcs, Results,
     Counters

(* A step of a session that has no result, before and after it *)
LEMMA BeforeOrAfter ==
  ASSUME PingInv, NEW s \in Sessions, NEW x \in SessionRecords,
         session' = [session EXCEPT ![s] = x], UNCHANGED <<rmw, result, untold>>,
         session[s].pc \in {"none", "take"}, x.pc \in {"none", "take"},
         ~x.given => ~x.notified, x.given => x.pc # "none",
         ~x.given => \A a \in Pings!Actors : rmw[a] = Pings!Idle
  PROVE  PingInv'
<1>1. /\ session' \in [Sessions -> SessionRecords] /\ session'[s] = x
      /\ \A u \in Sessions : u = s
  BY SessionsAssumption DEF PingInv, PingTypeOK
<1>2. result = untold
  BY DEF PingInv, ResultIsCounted
<1>3. \A a \in Pings!Actors : rmw[a] # Pings!Idle => rmw[a].on \in Sessions
  BY DEF PingInv, PingTypeOK, Changes
<1>4. PingTypeOK' /\ ResultIsCounted'
  BY <1>1, <1>2 DEF PingInv, PingTypeOK, ResultIsCounted
<1>5. HandlesAreGiven'
  <2>1. \A u \in Sessions : rmw[u] = Pings!Idle
    BY <1>1 DEF PingInv, HandlesAreGiven
  <2> QED
    BY <1>1, <1>3, <2>1 DEF PingInv, HandlesAreGiven
<1> QED
  BY <1>4, <1>5 DEF PingInv

(* A session begins, or ends in esp_ping_thread. *)
LEMMA SessionSteps ==
  ASSUME PingInv, NEW s \in Sessions,
         \/ \E count \in Counts : Pings!NewSession(s, count)
         \/ Pings!NewSessionDone(s) \/ Pings!NewSessionFails(s) \/ Pings!TakeTimeout(s)
  PROVE  PingInv'
<1>1. session[s] \in SessionRecords /\ UNCHANGED <<rmw, result, untold>>
  BY DEF PingInv, PingTypeOK, Pings!NewSession, Pings!NewSessionDone, Pings!NewSessionFails,
       Pings!TakeTimeout
<1>2. ASSUME ~session[s].given PROVE \A a \in Pings!Actors : rmw[a] = Pings!Idle
  BY <1>2, SessionsAssumption DEF PingInv, HandlesAreGiven, PingTypeOK, Changes
<1>3. ASSUME NEW count \in Counts, Pings!NewSession(s, count)
      PROVE  PingInv'
  <2> DEFINE x == [Pings!NoSession EXCEPT !.pc = "take", !.flags = {"INIT"}, !.count = count]
  <2>1. x \in SessionRecords /\ x.pc = "take" /\ ~x.given /\ ~x.notified
    BY NoneIs DEF Pings!NoSession, SessionRecords, SessionPcs
  <2>2. session[s].pc = "none" /\ session' = [session EXCEPT ![s] = x]
    BY <1>3 DEF Pings!NewSession, Pings!Exists
  <2> HIDE DEF x
  <2>3. ~session[s].given
    BY <2>2 DEF PingInv, HandlesAreGiven
  <2> QED
    BY <1>1, <1>2, <2>1, <2>2, <2>3, BeforeOrAfter
<1>4. CASE Pings!NewSessionDone(s)
  <2>1. ~session[s].given /\ session[s].pc = "take"
    BY <1>4 DEF Pings!NewSessionDone, Pings!Exists, PingInv, HandlesAreGiven
  <2> DEFINE x == [session[s] EXCEPT !.given = TRUE]
  <2>2. x \in SessionRecords /\ x.pc = "take" /\ x.given
    BY <1>1, <2>1 DEF SessionRecords, SessionPcs
  <2>3. session' = [session EXCEPT ![s] = x]
    BY <1>4 DEF Pings!NewSessionDone
  <2> HIDE DEF x
  <2> QED
    BY <1>1, <2>1, <2>2, <2>3, BeforeOrAfter
<1>5. CASE Pings!NewSessionFails(s)
  <2>1. ~session[s].given /\ session[s].pc = "take"
    BY <1>5 DEF Pings!NewSessionFails, Pings!Exists, PingInv, HandlesAreGiven
  <2> QED
    BY <1>1, <1>2, <1>5, <2>1, NoneIs, BeforeOrAfter DEF Pings!NewSessionFails
<1>6. CASE Pings!TakeTimeout(s)
  <2>1. session[s].pc = "take" /\ \A a \in Pings!Actors : rmw[a] = Pings!Idle
    BY <1>6, SessionsAssumption DEF Pings!TakeTimeout, Pings!Changing, PingInv, PingTypeOK,
         Changes
  <2> QED
    BY <1>1, <1>6, <2>1, NoneIs, BeforeOrAfter DEF Pings!TakeTimeout
<1> QED
  BY <1>3, <1>4, <1>5, <1>6

(* esp_ping_start, _stop and _delete_session read the flags. *)
LEMMA ReadStep ==
  ASSUME PingInv, NEW a \in Pingers, NEW s \in Sessions, NEW op \in {"start", "stop", "delete"},
         Pings!ReadFlags(a, s, op)
  PROVE  PingInv'
<1>1. /\ UNCHANGED <<session, result, untold>> /\ session[s].given
      /\ rmw' = [rmw EXCEPT ![a] = [on |-> s, op |-> op, read |-> session[s].flags]]
  BY DEF Pings!ReadFlags
<1>2. [on |-> s, op |-> op, read |-> session[s].flags] \in Changes
  BY DEF PingInv, PingTypeOK, SessionRecords, Changes
<1>3. /\ rmw' \in [Pings!Actors -> {Pings!Idle} \cup Changes] /\ rmw'[a].on = s
      /\ \A b \in Pings!Actors : b # a => rmw'[b] = rmw[b]
      /\ a \notin Sessions /\ Sessions \subseteq Pings!Actors /\ a \in Pings!Actors
  BY <1>1, <1>2, SessionsAssumption DEF PingInv, PingTypeOK, Pings!Actors
<1>4. PingTypeOK'
  BY <1>1, <1>3 DEF PingInv, PingTypeOK
<1>5. HandlesAreGiven'
  BY <1>1, <1>3 DEF PingInv, HandlesAreGiven
<1>6. ResultIsCounted'
  BY <1>1 DEF PingInv, ResultIsCounted, Counted
<1> QED
  BY <1>4, <1>5, <1>6 DEF PingInv

(* They write the flags changed. *)
LEMMA WriteStep ==
  ASSUME PingInv, NEW a \in Pings!Actors, Pings!WriteFlags(a)
  PROVE  PingInv'
<1>1. rmw[a] \in Changes /\ rmw[a].on \in Sessions
  BY DEF Pings!WriteFlags, PingInv, PingTypeOK, Changes
<1> DEFINE s == rmw[a].on
<1> DEFINE y == Pings!Written(session[s], Pings!Change(rmw[a].read, rmw[a].op), rmw[a].op)
<1> DEFINE x == [y EXCEPT !.pc = IF a = s THEN "take" ELSE y.pc]
<1>2. session[s] \in SessionRecords
  BY <1>1 DEF PingInv, PingTypeOK
<1>3. Pings!Change(rmw[a].read, rmw[a].op) \in SUBSET {"INIT", "START"}
  BY <1>1 DEF Pings!Change, Changes
<1>4. /\ y \in SessionRecords /\ y.pc = session[s].pc /\ y.given = session[s].given
      /\ y.seqno = session[s].seqno /\ y.received = session[s].received
  BY <1>2, <1>3 DEF Pings!Written, SessionRecords
<1>5. /\ session' = [session EXCEPT ![s] = x] /\ rmw' = [rmw EXCEPT ![a] = Pings!Idle]
      /\ UNCHANGED <<result, untold>>
  BY DEF Pings!WriteFlags
<1> HIDE DEF y
<1>6. /\ x \in SessionRecords /\ x.pc = (IF a = s THEN "take" ELSE session[s].pc)
      /\ x.given = session[s].given /\ x.seqno = session[s].seqno /\ x.received = session[s].received
  BY <1>2, <1>4 DEF SessionRecords, SessionPcs
<1> HIDE DEF x
<1>7. session[s].given /\ (a = s => session[s].pc = "deleting")
  BY <1>1 DEF PingInv, HandlesAreGiven, Pings!WriteFlags, Pings!Actors
<1>8. /\ session' \in [Sessions -> SessionRecords] /\ session'[s] = x
      /\ rmw' \in [Pings!Actors -> {Pings!Idle} \cup Changes] /\ rmw'[a] = Pings!Idle
      /\ \A b \in Pings!Actors : b # a => rmw'[b] = rmw[b]
      /\ \A u \in Sessions : u = s
      /\ Sessions \subseteq Pings!Actors /\ s \in Sessions
      /\ \A b \in Pings!Actors : rmw[b] # Pings!Idle => rmw[b].on \in Sessions
  BY <1>1, <1>5, <1>6, SessionsAssumption DEF PingInv, PingTypeOK, Pings!Actors, Changes
<1> HIDE DEF s
<1>9. PingTypeOK'
  BY <1>5, <1>8 DEF PingInv, PingTypeOK
<1>10. HandlesAreGiven'
  <2>1. HandlesAreGiven
    BY DEF PingInv
  <2>2. \A b \in Pings!Actors : rmw'[b] # Pings!Idle => session'[rmw'[b].on].given
    <3> SUFFICES ASSUME NEW b \in Pings!Actors, rmw'[b] # Pings!Idle
                 PROVE  session'[rmw'[b].on].given
      OBVIOUS
    <3>1. b # a /\ rmw'[b] = rmw[b] /\ rmw[b] # Pings!Idle
      BY <1>8
    <3>2. rmw[b].on = s
      BY <1>8, <3>1
    <3>3. session'[s] = x /\ x.given
      BY <1>5, <1>6, <1>7, <1>8
    <3> QED
      BY <3>1, <3>2, <3>3
  <2>3. \A u \in Sessions : rmw'[u] # Pings!Idle => rmw'[u].on = u /\ session'[u].pc = "deleting"
    BY <1>6, <1>8, <2>1 DEF HandlesAreGiven
  <2>4. session'[s].given /\ session'[s].pc # "none"
    <3>1. session[s].pc # "none"
      BY <1>7, <1>8, <2>1 DEF HandlesAreGiven
    <3>2. session'[s] = x
      BY <1>5, <1>8
    <3> QED
      BY <1>6, <1>7, <3>1, <3>2
  <2> QED
    BY <1>8, <2>2, <2>3, <2>4 DEF HandlesAreGiven
<1>11. ResultIsCounted'
  BY <1>5, <1>6, <1>7, <1>8 DEF PingInv, ResultIsCounted, Counted
<1> QED
  BY <1>9, <1>10, <1>11 DEF PingInv

(* A step of a thread that counts *)
LEMMA ThreadGoes ==
  ASSUME PingInv, NEW s \in Sessions, NEW x \in SessionRecords,
         session' = [session EXCEPT ![s] = x], UNCHANGED <<rmw, untold>>,
         session[s].pc \in {"take", "loop", "receive"}, session[s].given,
         x.given, x.pc \in {"loop", "receive", "finish"},
         x.pc = "receive" =>
           \E sent \in Counters : x.seqno = Pings!Inc(sent) /\ result' = Pings!Sum(untold, Part(sent, x.received)),
         x.pc # "receive" => result' = Pings!Sum(untold, Part(x.seqno, x.received)),
         result' \in Results
  PROVE  PingInv'
<1>1. /\ session' \in [Sessions -> SessionRecords] /\ session'[s] = x
      /\ \A u \in Sessions : u = s
  BY SessionsAssumption DEF PingInv, PingTypeOK
<1>2. PingTypeOK'
  BY <1>1 DEF PingInv, PingTypeOK
<1>3. ResultIsCounted'
  BY <1>1 DEF ResultIsCounted, Counted
<1>4. HandlesAreGiven'
  <2>1. \A b \in Pings!Actors : rmw[b] # Pings!Idle => rmw[b].on \in Sessions
    BY DEF PingInv, PingTypeOK, Changes
  <2>2. \A u \in Sessions : rmw[u] = Pings!Idle
    BY <1>1 DEF PingInv, HandlesAreGiven
  <2> QED
    BY <1>1, <2>1, <2>2 DEF HandlesAreGiven
<1> QED
  BY <1>2, <1>3, <1>4 DEF PingInv

(* The thread sends requests and waits for their answers. *)
LEMMA ThreadSteps ==
  ASSUME PingInv, NEW s \in Sessions, Pings!Take(s) \/ Pings!Send(s) \/ Pings!Receive(s)
         \/ Pings!BatchEnds(s)
  PROVE  PingInv'
<1>1. session[s] \in SessionRecords /\ UNCHANGED <<rmw, untold>> /\ result \in Results /\ untold \in Results
  BY DEF PingInv, PingTypeOK, Pings!Take, Pings!Send, Pings!Receive, Pings!BatchEnds
<1>2. session[s].pc \in {"take", "loop", "receive"} /\ session[s].given
  BY DEF Pings!Take, Pings!Send, Pings!Receive, Pings!BatchEnds, PingInv, HandlesAreGiven
<1>3. session[s].seqno \in Counters /\ session[s].received \in Counters
  BY <1>1 DEF SessionRecords
<1>4. CASE Pings!Take(s)
  <2> DEFINE x == [session[s] EXCEPT !.pc = "loop", !.notified = FALSE, !.seqno = 0, !.received = 0]
  <2>1. session' = [session EXCEPT ![s] = x] /\ UNCHANGED result /\ session[s].pc = "take"
    BY <1>4 DEF Pings!Take
  <2>2. x \in SessionRecords /\ x.pc = "loop" /\ x.given = session[s].given /\ x.seqno = 0 /\ x.received = 0
    BY <1>1, NoneIs DEF SessionRecords, SessionPcs
  <2> HIDE DEF x
  <2>3. result = untold
    BY <2>1 DEF PingInv, ResultIsCounted
  <2>4. result' = Pings!Sum(untold, Part(x.seqno, x.received))
    BY <1>1, <2>1, <2>2, <2>3, NoneIs, PartIs DEF Counted
  <2> QED
    BY <1>1, <1>2, <2>1, <2>2, <2>4, ThreadGoes
<1>5. CASE Pings!Send(s)
  <2> DEFINE x == [session[s] EXCEPT !.pc = "receive", !.seqno = Pings!Inc(@)]
  <2>1. session' = [session EXCEPT ![s] = x] /\ UNCHANGED result /\ session[s].pc = "loop"
    BY <1>5 DEF Pings!Send, PingInv, PingTypeOK
  <2>2. /\ x \in SessionRecords /\ x.pc = "receive" /\ x.given = session[s].given
        /\ x.seqno = Pings!Inc(session[s].seqno) /\ x.received = session[s].received
    BY <1>1, <1>3, IncIs DEF SessionRecords, SessionPcs, Counters
  <2> HIDE DEF x
  <2>3. \E sent \in Counters : x.seqno = Pings!Inc(sent) /\ result' = Pings!Sum(untold, Part(sent, x.received))
    <3>1. result' = Pings!Sum(untold, Part(session[s].seqno, session[s].received))
      BY <2>1 DEF PingInv, ResultIsCounted, Counted
    <3> QED
      BY <1>3, <2>2, <3>1
  <2> QED
    BY <1>1, <1>2, <2>1, <2>2, <2>3, ThreadGoes
<1>6. CASE Pings!Receive(s)
  <2>1. PICK answered \in BOOLEAN :
          /\ session' = [session EXCEPT ![s].pc = "loop", ![s].received = IF answered THEN Pings!Inc(@) ELSE @]
          /\ result' = Pings!Reported(result, answered)
    BY <1>6 DEF Pings!Receive
  <2>2. session[s].pc = "receive"
    BY <1>6 DEF Pings!Receive
  <2>3. PICK sent \in Counters :
          session[s].seqno = Pings!Inc(sent) /\ Counted(sent, session[s].received)
    BY <2>2 DEF PingInv, ResultIsCounted
  <2> DEFINE x == [session[s] EXCEPT !.pc = "loop", !.received = IF answered THEN Pings!Inc(@) ELSE @]
  <2>4. session' = [session EXCEPT ![s] = x]
    BY <2>1 DEF PingInv, PingTypeOK
  <2>5. /\ x \in SessionRecords /\ x.pc = "loop" /\ x.given = session[s].given
        /\ x.seqno = session[s].seqno
        /\ x.received = (IF answered THEN Pings!Inc(session[s].received) ELSE session[s].received)
    BY <1>1, <1>3, IncIs DEF SessionRecords, SessionPcs, Counters
  <2> HIDE DEF x
  <2>6. Pings!Inc(sent) \in Counters /\ x.received \in Counters
    BY <1>3, <2>5, IncIs DEF Counters
  <2>7. result' = Pings!Sum(untold, Part(Pings!Inc(sent), x.received))
    <3>1. result = Pings!Sum(untold, Part(sent, session[s].received))
      BY <2>3 DEF Counted
    <3> DEFINE received == session[s].received
    <3>2. /\ Pings!Reported(Pings!Sum(untold, Part(sent, received)), TRUE) =
               Pings!Sum(untold, Part(Pings!Inc(sent), Pings!Inc(received)))
          /\ Pings!Reported(Pings!Sum(untold, Part(sent, received)), FALSE) =
               Pings!Sum(untold, Part(Pings!Inc(sent), received))
      BY <1>1, <1>3, PartIs
    <3>3. CASE answered = TRUE
      BY <2>1, <2>5, <3>1, <3>2, <3>3
    <3>4. CASE answered = FALSE
      BY <2>1, <2>5, <3>1, <3>2, <3>4
    <3> QED
      BY <3>3, <3>4
  <2>8. result' = Pings!Sum(untold, Part(x.seqno, x.received)) /\ result' \in Results
    BY <1>1, <2>3, <2>5, <2>6, <2>7, PartIs
  <2> QED
    BY <1>1, <1>2, <2>4, <2>5, <2>8, ThreadGoes
<1>7. CASE Pings!BatchEnds(s)
  <2> DEFINE x == [session[s] EXCEPT !.pc = "finish"]
  <2>1. session' = [session EXCEPT ![s] = x] /\ UNCHANGED result /\ session[s].pc = "loop"
    BY <1>7 DEF Pings!BatchEnds, PingInv, PingTypeOK
  <2>2. /\ x \in SessionRecords /\ x.pc = "finish" /\ x.given = session[s].given
        /\ x.seqno = session[s].seqno /\ x.received = session[s].received
    BY <1>1 DEF SessionRecords, SessionPcs
  <2> HIDE DEF x
  <2>3. result' = Pings!Sum(untold, Part(x.seqno, x.received))
    BY <1>1, <2>1, <2>2 DEF PingInv, ResultIsCounted, Counted
  <2> QED
    BY <1>1, <1>2, <2>1, <2>2, <2>3, ThreadGoes
<1> QED
  BY <1>4, <1>5, <1>6, <1>7

(* A batch is over: the result is reported and reset, or left untold. *)
LEMMA FinishStep ==
  ASSUME PingInv, NEW s \in Sessions, Pings!Finish(s)
  PROVE  PingInv'
<1> DEFINE w == [on |-> s, op |-> "delete", read |-> session[s].flags]
<1> DEFINE x == [session[s] EXCEPT !.pc = "deleting"]
<1>1. /\ session' = [session EXCEPT ![s] = x] /\ rmw' = [rmw EXCEPT ![s] = w]
      /\ result' = (IF res_fn THEN Pings!NoResult ELSE result)
      /\ untold' = (IF res_fn THEN Pings!NoResult ELSE Pings!Sum(untold, Pings!Batch(session[s])))
      /\ session[s].pc = "finish"
  BY DEF Pings!Finish, Pings!Told, PingInv, PingTypeOK
<1>2. w \in Changes /\ w.on = s /\ x \in SessionRecords /\ x.pc = "deleting" /\ x.given = session[s].given
  BY DEF PingInv, PingTypeOK, SessionRecords, SessionPcs, Changes
<1> HIDE DEF w, x
<1>3. session[s].given
  BY <1>1 DEF PingInv, HandlesAreGiven
<1>4. /\ session' \in [Sessions -> SessionRecords] /\ session'[s] = x
      /\ rmw' \in [Pings!Actors -> {Pings!Idle} \cup Changes] /\ rmw'[s] = w
      /\ \A b \in Pings!Actors : b # s => rmw'[b] = rmw[b]
      /\ \A u \in Sessions : u = s
      /\ \A b \in Pings!Actors : rmw[b] # Pings!Idle => rmw[b].on \in Sessions
  BY <1>1, <1>2, SessionsAssumption DEF PingInv, PingTypeOK, Pings!Actors, Changes
<1>5. result = Pings!Sum(untold, Pings!Batch(session[s]))
  BY <1>1 DEF PingInv, ResultIsCounted, Counted, Part, Pings!Batch
<1>6. result' = untold' /\ result' \in Results
  BY <1>1, <1>5, NoneIs DEF PingInv, PingTypeOK
<1>7. PingTypeOK'
  BY <1>4, <1>6 DEF PingTypeOK
<1>8. HandlesAreGiven'
  BY <1>2, <1>3, <1>4 DEF HandlesAreGiven
<1>9. ResultIsCounted'
  BY <1>2, <1>4, <1>6 DEF ResultIsCounted
<1> QED
  BY <1>7, <1>8, <1>9 DEF PingInv

(* The application sets the result function or clears the result. *)
LEMMA TargetStep ==
  ASSUME PingInv, Pings!SetResFn \/ Pings!ResReset
  PROVE  PingInv'
<1>1. UNCHANGED <<session, rmw>>
  BY DEF Pings!SetResFn, Pings!ResReset
<1>2. HandlesAreGiven'
  BY <1>1 DEF PingInv, HandlesAreGiven
<1>3. CASE Pings!SetResFn
  BY <1>1, <1>2, <1>3 DEF Pings!SetResFn, PingInv, PingTypeOK, ResultIsCounted, Counted
<1>4. CASE Pings!ResReset
  <2>1. result' = untold' /\ result' \in Results /\ \A s \in Sessions : session[s].pc \in {"none", "take"}
    BY <1>4, NoneIs DEF Pings!ResReset
  <2> QED
    BY <1>1, <1>2, <2>1 DEF PingInv, PingTypeOK, ResultIsCounted
<1> QED
  BY <1>3, <1>4

(* The counters that a session reports at the end of a batch are those of  *)
(* this batch and of those before it that no result function was told, for *)
(* every limit and every width of the sequence number, whatever            *)
(* esp_ping_stop and esp_ping_delete_session do meanwhile.                 *)
THEOREM PingResultIsOfBatch == Pings!Spec => []ResultIsOfBatch
<1>1. Pings!Init => PingInv
  <2> SUFFICES ASSUME Pings!Init PROVE PingInv
    OBVIOUS
  <2>1. \A s \in Sessions : session[s] = Pings!NoSession
    BY DEF Pings!Init
  <2>2. \A a \in Pings!Actors : rmw[a] = Pings!Idle
    BY DEF Pings!Init
  <2>3. PingTypeOK
    BY NoneIs DEF Pings!Init, PingTypeOK
  <2>4. HandlesAreGiven
    BY <2>1, <2>2, NoneIs DEF HandlesAreGiven, Pings!Actors
  <2>5. ResultIsCounted
    BY <2>1, NoneIs DEF Pings!Init, ResultIsCounted
  <2> QED
    BY <2>3, <2>4, <2>5 DEF PingInv
<1>2. PingInv /\ [Pings!Next]_(Pings!pingVars) => PingInv'
  <2> SUFFICES ASSUME PingInv, [Pings!Next]_(Pings!pingVars) PROVE PingInv'
    OBVIOUS
  <2>1. CASE UNCHANGED Pings!pingVars
    BY <2>1 DEF Pings!pingVars, PingInv, PingTypeOK, HandlesAreGiven, ResultIsCounted, Counted
  <2>2. ASSUME NEW s \in Sessions, Pings!Thread(s) PROVE PingInv'
    BY <2>2, SessionSteps, ThreadSteps, FinishStep DEF Pings!Thread
  <2> QED
    BY <2>1, <2>2, SessionSteps, ReadStep, WriteStep, TargetStep DEF Pings!Next
<1>3. PingInv => ResultIsOfBatch
  BY DEF PingInv, ResultIsCounted, Counted, Part, Pings!Batch, ResultIsOfBatch, Pings!ResultIsOfBatch
<1> QED
  BY <1>1, <1>2, <1>3, PTL DEF Pings!Spec

-----------------------------------------------------------------------------
(* The acknowledging tasks of SmartConfig (SmartConfig).  As long as the   *)
(* flag is not set again, a task that has been stopped does not open a     *)
(* socket any more.                                                        *)

AckPcs == {"none", "outer", "inner", "send", "end"}
AckRecords == [pc : AckPcs, socket : BOOLEAN, packet_count : Int]
AcksOK == acks \in [Acks -> AckRecords]
FlagsOK == ackSend \in BOOLEAN /\ leaked \in BOOLEAN /\ again \in BOOLEAN

(* A task that does not run *)
LEMMA NoAckIs == Smart!NoAck \in AckRecords /\ Smart!NoAck.pc = "none" /\ Smart!NoAck.socket = FALSE
  BY DEF Smart!NoAck, AckRecords, AckPcs
FlagGoesOff ==
  /\ ~again => ~leaked
  /\ \A a \in Acks : acks[a].pc = "none" => ~acks[a].socket
  /\ ~again => \A a \in Acks : acks[a].pc = "outer" /\ acks[a].socket => ~ackSend

AckInv == AcksOK /\ FlagsOK /\ FlagGoesOff

(* Every step keeps the invariant. *)
LEMMA AckStep == AckInv /\ [Smart!Next]_(Smart!scVars) => AckInv'
<1> SUFFICES ASSUME AckInv, [Smart!Next]_(Smart!scVars)
             PROVE  AckInv'
  OBVIOUS
<1> USE DEF AckInv, AcksOK, FlagsOK, FlagGoesOff
<1>1. CASE Smart!Start \/ Smart!StartLibrary \/ Smart!Stop \/ Smart!Unregister
           \/ Smart!GotSsid \/ Smart!Dispatch
  BY <1>1 DEF Smart!Start, Smart!StartLibrary, Smart!Stop, Smart!Unregister, Smart!GotSsid,
       Smart!Dispatch
<1>2. CASE Smart!AckStop
  BY <1>2 DEF Smart!AckStop
<1>9. CASE Smart!AckStart
  <2>. /\ ackSend' = TRUE /\ UNCHANGED <<acks, leaked>>
       /\ again' \in BOOLEAN
       /\ ~again' => ~again /\ \A a \in Acks : acks[a].pc = "none"
    BY <1>9 DEF Smart!AckStart
  <2> QED
    OBVIOUS
<1>3. CASE Smart!AckCreate
  <2>. UNCHANGED <<ackSend, leaked, again>>
    BY <1>3 DEF Smart!AckCreate
  <2>1. CASE UNCHANGED acks
    BY <2>1
  <2>2. ASSUME NEW a \in Acks, acks[a].pc = "none", acks' = [acks EXCEPT ![a].pc = "outer"]
        PROVE  AckInv'
    BY <2>2 DEF AckRecords, AckPcs
  <2> QED
    BY <1>3, <2>1, <2>2 DEF Smart!AckCreate
<1>4. ASSUME NEW a \in Acks, Smart!AckOuter(a)
      PROVE  AckInv'
  BY <1>4 DEF Smart!AckOuter, AckRecords, AckPcs
<1>5. ASSUME NEW a \in Acks, Smart!AckStopped(a) \/ Smart!AckInner(a)
      PROVE  AckInv'
  BY <1>5 DEF Smart!AckStopped, Smart!AckInner, AckRecords, AckPcs
<1>6. ASSUME NEW a \in Acks, Smart!AckSend(a)
      PROVE  AckInv'
  BY <1>6 DEF Smart!AckSend, AckRecords, AckPcs
<1>7. ASSUME NEW a \in Acks, Smart!AckEnd(a)
      PROVE  AckInv'
  BY <1>7, NoAckIs DEF Smart!AckEnd
<1>8. CASE UNCHANGED Smart!scVars
  BY <1>8, <1>9 DEF Smart!scVars
<1> QED
  BY <1>1, <1>2, <1>3, <1>4, <1>5, <1>6, <1>7, <1>8, <1>9 DEF Smart!Next, Smart!AckTask

(* The initial state has it. *)
LEMMA AckInit == Smart!Init => AckInv
  BY NoAckIs DEF Smart!Init, AckInv, AcksOK, FlagsOK, FlagGoesOff

(* Every socket that a task opened for acknowledgements is closed, for     *)
(* every number of tasks, unless the flag that stops them is set again     *)
(* before a task has seen it.                                              *)
THEOREM AckSocketsAreClosed == Smart!Spec => []SocketsAreClosed
<1>1. Smart!Init => AckInv
  BY AckInit
<1>2. AckInv => SocketsAreClosed
  BY DEF AckInv, FlagGoesOff, SocketsAreClosed, Smart!SocketsAreClosed
<1> QED
  BY <1>1, <1>2, AckStep, PTL DEF Smart!Spec

-----------------------------------------------------------------------------
(* A timed esp_event_loop_run (LoopRun), for every ticks_to_run, every     *)
(* length of a dispatch and every width of the tick counter.  The          *)
(* inductive invariant says what remaining_ticks is: ticks_to_run less the *)
(* time at which the last wait began.                                      *)

USE TicksAssumption

Bookkeeping ==
  /\ marker <= now
  /\ pc # "returned" => /\ remaining = TicksToRun - marker
                        /\ marker = waiting
                        /\ waiting = 0 \/ waiting < TicksToRun
  /\ pc = "receive" => now <= waiting + TicksToRun
  /\ pc = "dispatch" => /\ waiting <= unqueued
                        /\ unqueued <= waiting + TicksToRun
                        /\ unqueued <= now
                        /\ now <= unqueued + MaxDispatch

IInv == TypeOK /\ Bookkeeping /\ RunsItsTime /\ StopsInTime

(* A wrapped counter does not matter as long as less than a period passed. *)
LEMMA ElapsedIsDifference ==
  ASSUME NEW from \in Nat, NEW to \in Nat, from <= to, to - from < Wrap
  PROVE  Elapsed(from, to) = to - from
BY SMT DEF Elapsed

(* The bookkeeping and both bounds hold throughout a run. *)
LEMMA InvariantHolds == Spec => []IInv
<1> USE DEF IInv, TypeOK, Bookkeeping, RunsItsTime, StopsInTime, Limit
<1>1. Init => IInv
  BY DEF Init
<1>2. IInv /\ [Next]_vars => IInv'
  <2> SUFFICES ASSUME IInv, [Next]_vars
               PROVE  IInv'
    OBVIOUS
  <2>1. CASE Receive
    BY <2>1 DEF Receive
  <2>2. CASE ReceiveTimeout
    BY <2>2 DEF ReceiveTimeout
  <2>3. CASE Finish
    <3>1. pc = "dispatch" /\ now - marker < Wrap
      BY <2>3 DEF Finish
    <3>2. Elapsed(marker, now) = now - marker
      BY <3>1, ElapsedIsDifference
    <3>3. remaining' = TicksToRun - now
      BY <2>3, <3>1, <3>2 DEF Finish
    <3> QED
      BY <2>3, <3>1, <3>3 DEF Finish
  <2>4. CASE Tick
    BY <2>4 DEF Tick
  <2>5. CASE UNCHANGED vars
    BY <2>5 DEF vars
  <2> QED
    BY <2>1, <2>2, <2>3, <2>4, <2>5 DEF Next
<1> QED
  BY <1>1, <1>2, PTL DEF Spec

(* A timed run lasts no less than ticks_to_run. *)
THEOREM TimedRunLasts == Spec => []RunsItsTime
<1>1. IInv => RunsItsTime
  BY DEF IInv
<1> QED
  BY <1>1, InvariantHolds, PTL

(* No event is unqueued twice ticks_to_run after the call, and the run     *)
(* ends with the dispatch of the last one.                                 *)
THEOREM TimedRunStops == Spec => []StopsInTime
<1>1. IInv => StopsInTime
  BY DEF IInv
<1> QED
  BY <1>1, InvariantHolds, PTL

(* Both at once. *)
THEOREM TimedRunIsTimed == Spec => []RunIsTimed
<1>1. RunsItsTime /\ StopsInTime => RunIsTimed
  BY DEF RunIsTimed
<1> QED
  BY <1>1, TimedRunLasts, TimedRunStops, PTL

-----------------------------------------------------------------------------
(* Calls into the TCP/IP thread (TcpipCalls).  One semaphore signals the   *)
(* answers of all tasks; the invariant follows the one call that holds     *)
(* api_lock_sem: its message is in one place, and no other message of a    *)
(* call and no signal exists.  The second part follows the frames in front *)
(* of and behind the message that removes an interface.                    *)

PCs == {"idle", "lock", "post", "wait", "unlock", "free"}
Inside == {"post", "wait", "unlock"}
CallRecords == [pc : PCs, fn : Functions \cup {"none"}, ran : BOOLEAN]
ApiMessages == [kind : {"api"}, from : Callers]
FrameMessages == [kind : {"frame"}, frame : Frames]
CoreStates ==
  {Idle} \cup {[pc |-> "signal"]} \cup [pc : {"run"}, from : Callers] \cup [pc : {"input"}, frame : Frames]

CallTypeOK ==
  /\ calls \in [Callers -> CallRecords]
  /\ mbox \in Seq(ApiMessages \cup FrameMessages)
  /\ core \in CoreStates
  /\ apiLock \in {0, 1} /\ apiSync \in {0, 1}

(* The driver's call, which no other step changes. *)
RxTypeOK == rxcall \in {Idle} \cup [pc : {"check", "input"}, frame : Frames]

Api(i) == i \in DOMAIN mbox /\ mbox[i].kind = "api"
NoMessage == \A i \in DOMAIN mbox : mbox[i].kind # "api"
NoAnswer == apiSync = 0 /\ core.pc \notin {"run", "signal"}

(* One call at a time is inside, and has the lock. *)
OneInside ==
  /\ apiLock = 1 => \A t \in Callers : calls[t].pc \notin Inside
  /\ \A t, u \in Callers : calls[t].pc \in Inside /\ calls[u].pc \in Inside => t = u

(* Messages, a running function and a signal belong to a call that waits. *)
OneMessage ==
  /\ \A i, j \in DOMAIN mbox : Api(i) /\ Api(j) => i = j
  /\ \A i \in DOMAIN mbox : mbox[i].kind = "api" =>
       calls[mbox[i].from].pc = "wait" /\ ~calls[mbox[i].from].ran /\ NoAnswer
  /\ core.pc = "run" =>
       calls[core.from].pc = "wait" /\ ~calls[core.from].ran /\ NoMessage /\ apiSync = 0
  /\ core.pc = "signal" =>
       (\E t \in Callers : calls[t].pc = "wait" /\ calls[t].ran) /\ NoMessage /\ apiSync = 0
  /\ apiSync = 1 =>
       (\E t \in Callers : calls[t].pc = "wait" /\ calls[t].ran) /\ NoMessage

(* A call has run its function when it leaves, and not before it posts. *)
RanInTime ==
  \A t \in Callers : /\ calls[t].pc \in {"lock", "post"} => ~calls[t].ran
                     /\ calls[t].pc = "unlock" => calls[t].ran

CInv == CallTypeOK /\ OneInside /\ OneMessage /\ RanInTime

(* The initial state has the invariant. *)
LEMMA InitHolds == TcpipInit => CInv
BY DEF TcpipInit, CInv, CallTypeOK, CallRecords, PCs, Inside, CoreStates, Idle, NoCall, Functions,
       OneInside, OneMessage, RanInTime, Api, NoMessage, NoAnswer

(* The steps that leave calls, the mailbox, the thread and the semaphores  *)
(* alone keep the invariant.                                               *)
LEMMA OthersKeep ==
  ASSUME CInv, UNCHANGED <<calls, mbox, core, apiLock, apiSync>>
  PROVE  CInv'
BY DEF CInv, CallTypeOK, OneInside, OneMessage, RanInTime, Api, NoMessage, NoAnswer

(* What Append and Tail leave of the messages of a mailbox. *)
LEMMA AppendedMessages ==
  ASSUME NEW M, NEW s \in Seq(M), NEW m \in M
  PROVE  /\ Append(s, m) \in Seq(M)
         /\ DOMAIN Append(s, m) = 1 .. Len(s) + 1
         /\ \A i \in 1 .. Len(s) : Append(s, m)[i] = s[i]
         /\ Append(s, m)[Len(s) + 1] = m
OBVIOUS

(* What the fetch of a message leaves in the mailbox *)
LEMMA TailMessages ==
  ASSUME NEW M, NEW s \in Seq(M), s # <<>>
  PROVE  /\ Head(s) \in M /\ Head(s) = s[1] /\ 1 \in DOMAIN s
         /\ Tail(s) \in Seq(M)
         /\ \A i \in DOMAIN Tail(s) : i + 1 \in DOMAIN s /\ i + 1 # 1 /\ Tail(s)[i] = s[i + 1]
OBVIOUS

(* A call that goes on keeps its function and whether this ran. *)
LEMMA CallGoesOn ==
  ASSUME CallTypeOK, NEW t \in Callers, NEW place \in PCs, calls' = [calls EXCEPT ![t].pc = place]
  PROVE  /\ calls' \in [Callers -> CallRecords]
         /\ calls'[t].pc = place /\ calls'[t].ran = calls[t].ran /\ calls'[t].fn = calls[t].fn
         /\ \A u \in Callers : u # t => calls'[u] = calls[u]
<1>1. calls[t] \in CallRecords
  BY DEF CallTypeOK
<1>2. calls'[t] = [calls[t] EXCEPT !.pc = place]
  BY DEF CallTypeOK
<1>3. /\ calls'[t] \in CallRecords /\ calls'[t].pc = place
      /\ calls'[t].ran = calls[t].ran /\ calls'[t].fn = calls[t].fn
  BY <1>1, <1>2 DEF CallRecords
<1>4. \A u \in Callers : u # t => calls'[u] = calls[u]
  BY DEF CallTypeOK
<1>5. calls' = [u \in Callers |-> calls'[u]]
  BY DEF CallTypeOK
<1>6. \A u \in Callers : calls'[u] \in CallRecords
  BY <1>3, <1>4 DEF CallTypeOK
<1> QED
  BY <1>3, <1>4, <1>5, <1>6

(* A function that has run changes one record of a caller. *)
LEMMA FunctionRan ==
  ASSUME CallTypeOK, NEW t \in Callers, calls' = [calls EXCEPT ![t].ran = TRUE]
  PROVE  /\ calls' \in [Callers -> CallRecords]
         /\ calls'[t].pc = calls[t].pc /\ calls'[t].ran = TRUE /\ calls'[t].fn = calls[t].fn
         /\ \A u \in Callers : u # t => calls'[u] = calls[u]
<1>1. calls[t] \in CallRecords
  BY DEF CallTypeOK
<1>2. calls'[t] = [calls[t] EXCEPT !.ran = TRUE]
  BY DEF CallTypeOK
<1>3. calls'[t].pc = calls[t].pc /\ calls'[t].ran = TRUE /\ calls'[t].fn = calls[t].fn
  BY <1>1, <1>2 DEF CallRecords
<1>4. calls'[t] \in CallRecords
  BY <1>1, <1>2, Zenon DEF CallRecords
<1>5. \A u \in Callers : u # t => calls'[u] = calls[u]
  BY DEF CallTypeOK
<1>6. calls' = [u \in Callers |-> calls'[u]]
  BY DEF CallTypeOK
<1>7. \A u \in Callers : calls'[u] \in CallRecords
  BY <1>4, <1>5 DEF CallTypeOK
<1> QED
  BY <1>3, <1>5, <1>6, <1>7

(* A task calls, or a call is over. *)
LEMMA CallReplaced ==
  ASSUME CallTypeOK, NEW t \in Callers, NEW c \in CallRecords, calls' = [calls EXCEPT ![t] = c]
  PROVE  /\ calls' \in [Callers -> CallRecords]
         /\ calls'[t] = c
         /\ \A u \in Callers : u # t => calls'[u] = calls[u]
BY DEF CallTypeOK

(* While a call is inside but does not wait, no other one waits either, so *)
(* that there is no message and no answer.                                 *)
LEMMA QuietAround ==
  ASSUME CInv, NEW t \in Callers, calls[t].pc \in {"post", "unlock"}
  PROVE  NoMessage /\ NoAnswer
<1>1. \A u \in Callers : calls[u].pc # "wait"
  BY DEF CInv, OneInside, Inside
<1>2. \A i \in DOMAIN mbox : mbox[i].kind = "api" => mbox[i].from \in Callers
  BY DEF CInv, CallTypeOK, ApiMessages, FrameMessages
<1>3. core.pc = "run" => core.from \in Callers
  BY DEF CInv, CallTypeOK, CoreStates, Idle
<1> QED
  BY <1>1, <1>2, <1>3 DEF CInv, CallTypeOK, OneMessage, NoMessage, NoAnswer

(* A task that enters or leaves from outside of the lock. *)
LEMMA CallKeeps ==
  ASSUME CInv, NEW t \in Callers, NEW fn \in Functions, Call(t, fn)
  PROVE  CInv'
<1> DEFINE c == [pc |-> "lock", fn |-> fn, ran |-> FALSE]
<1>1. c \in CallRecords
  BY DEF CallRecords, PCs
<1>2. calls' = [calls EXCEPT ![t] = c] /\ calls[t].pc = "idle"
  BY DEF Call
<1>3. c.pc = "lock" /\ c.ran = FALSE
  OBVIOUS
<1> HIDE DEF c
<1>4. /\ calls' \in [Callers -> CallRecords] /\ calls'[t] = c
      /\ \A u \in Callers : u # t => calls'[u] = calls[u]
  BY <1>1, <1>2, CallReplaced DEF CInv
<1>5. UNCHANGED <<mbox, core, apiLock, apiSync>>
  BY DEF Call
<1> QED
  BY <1>2, <1>3, <1>4, <1>5
  DEF CInv, CallTypeOK, CoreStates, Idle, OneInside, OneMessage, RanInTime, Inside, Api, NoMessage, NoAnswer,
      ApiMessages

(* esp_netif_destroy frees the interface after its call has returned. *)
LEMMA FreeKeeps ==
  ASSUME CInv, NEW t \in Callers, Free(t)
  PROVE  CInv'
<1>1. NoCall \in CallRecords /\ NoCall.pc = "idle"
  BY DEF NoCall, CallRecords, PCs
<1>2. calls' = [calls EXCEPT ![t] = NoCall] /\ calls[t].pc = "free"
  BY DEF Free
<1>4. /\ calls' \in [Callers -> CallRecords] /\ calls'[t] = NoCall
      /\ \A u \in Callers : u # t => calls'[u] = calls[u]
  BY <1>1, <1>2, CallReplaced DEF CInv
<1>5. UNCHANGED <<mbox, core, apiLock, apiSync>>
  BY DEF Free
<1> QED
  BY <1>1, <1>2, <1>4, <1>5
  DEF CInv, CallTypeOK, OneInside, OneMessage, RanInTime, Inside, Api, NoMessage, NoAnswer, ApiMessages,
      CoreStates, Idle

(* The lock lets one call in, when nothing of an earlier one is left. *)
LEMMA LockKeeps ==
  ASSUME CInv, NEW t \in Callers, CallLock(t)
  PROVE  CInv'
<1>1. calls' = [calls EXCEPT ![t].pc = "post"] /\ calls[t].pc = "lock" /\ "post" \in PCs
  BY DEF CallLock, PCs
<1>2. /\ calls' \in [Callers -> CallRecords]
      /\ calls'[t].pc = "post" /\ calls'[t].ran = calls[t].ran
      /\ \A u \in Callers : u # t => calls'[u] = calls[u]
  BY <1>1, CallGoesOn DEF CInv
<1>3. apiLock = 1 /\ apiLock' = 0 /\ UNCHANGED <<mbox, core, apiSync>>
  BY DEF CallLock
<1> QED
  BY <1>1, <1>2, <1>3
  DEF CInv, CallTypeOK, OneInside, OneMessage, RanInTime, Inside, Api, NoMessage, NoAnswer, ApiMessages,
      CoreStates, Idle

(* A caller takes its answer. *)
LEMMA WaitKeeps ==
  ASSUME CInv, NEW t \in Callers, CallWait(t)
  PROVE  CInv'
<1>1. calls' = [calls EXCEPT ![t].pc = "unlock"] /\ calls[t].pc = "wait" /\ "unlock" \in PCs
  BY DEF CallWait, PCs
<1>2. /\ calls' \in [Callers -> CallRecords]
      /\ calls'[t].pc = "unlock" /\ calls'[t].ran = calls[t].ran
      /\ \A u \in Callers : u # t => calls'[u] = calls[u]
  BY <1>1, CallGoesOn DEF CInv
<1>3. apiSync = 1 /\ apiSync' = 0 /\ UNCHANGED <<mbox, core, apiLock>>
  BY DEF CallWait
<1> QED
  BY <1>1, <1>2, <1>3
  DEF CInv, CallTypeOK, OneInside, OneMessage, RanInTime, Inside, Api, NoMessage, NoAnswer, ApiMessages,
      CoreStates, Idle

(* A caller gives the lock back. *)
LEMMA ReturnKeeps ==
  ASSUME CInv, NEW t \in Callers, CallReturn(t)
  PROVE  CInv'
<1>1. calls[t].pc = "unlock" /\ apiLock' = 1 /\ UNCHANGED <<mbox, core, apiSync>>
  BY DEF CallReturn
<1>2. /\ calls' \in [Callers -> CallRecords]
      /\ calls'[t].pc \in {"idle", "free"}
      /\ \A u \in Callers : u # t => calls'[u] = calls[u]
  <2>1. CASE calls[t].fn = "remove"
    <3>1. calls' = [calls EXCEPT ![t].pc = "free"] /\ "free" \in PCs
      BY <2>1 DEF CallReturn, CInv, CallTypeOK, PCs
    <3> QED
      BY <3>1, CallGoesOn DEF CInv
  <2>2. CASE calls[t].fn # "remove"
    <3>1. calls' = [calls EXCEPT ![t] = NoCall]
      BY <2>2 DEF CallReturn, CInv, CallTypeOK
    <3>2. NoCall \in CallRecords /\ NoCall.pc = "idle"
      BY DEF NoCall, CallRecords, PCs
    <3> QED
      BY <3>1, <3>2, CallReplaced DEF CInv
  <2> QED
    BY <2>1, <2>2
<1>3. CallTypeOK' /\ OneInside'
  BY <1>1, <1>2 DEF CInv, CallTypeOK, OneInside, Inside
<1>4. OneMessage'
  <2>1. NoMessage /\ NoAnswer
    BY <1>1, QuietAround
  <2> QED
    BY <1>1, <2>1 DEF OneMessage, Api, NoMessage, NoAnswer, CInv, CallTypeOK
<1>5. RanInTime'
  BY <1>1, <1>2 DEF CInv, RanInTime
<1> QED
  BY <1>3, <1>4, <1>5 DEF CInv

(* The message of a call is the only one of its kind in the mailbox. *)
LEMMA PostKeeps ==
  ASSUME CInv, NEW t \in Callers, CallPost(t)
  PROVE  CInv'
<1> DEFINE m == [kind |-> "api", from |-> t]
<1>1. m \in ApiMessages /\ m.kind = "api" /\ m.from = t
  BY DEF ApiMessages
<1>2. mbox' = Append(mbox, m) /\ UNCHANGED <<core, apiLock, apiSync>>
  BY DEF CallPost
<1> HIDE DEF m
<1>3. calls' = [calls EXCEPT ![t].pc = "wait"] /\ calls[t].pc = "post" /\ "wait" \in PCs
  BY DEF CallPost, PCs
<1>4. /\ calls' \in [Callers -> CallRecords]
      /\ calls'[t].pc = "wait" /\ calls'[t].ran = calls[t].ran
      /\ \A u \in Callers : u # t => calls'[u] = calls[u]
  BY <1>3, CallGoesOn DEF CInv
<1>5. /\ mbox' \in Seq(ApiMessages \cup FrameMessages)
      /\ DOMAIN mbox' = 1 .. Len(mbox) + 1
      /\ \A i \in 1 .. Len(mbox) : mbox'[i] = mbox[i]
      /\ mbox'[Len(mbox) + 1] = m
  BY <1>1, <1>2, AppendedMessages DEF CInv, CallTypeOK
<1>6. DOMAIN mbox = 1 .. Len(mbox) /\ Len(mbox) \in Nat
  BY DEF CInv, CallTypeOK
<1>7. NoMessage /\ NoAnswer /\ ~calls[t].ran
  BY <1>3, QuietAround DEF CInv, RanInTime
<1>8. CallTypeOK' /\ OneInside'
  BY <1>2, <1>3, <1>4, <1>5 DEF CInv, CallTypeOK, OneInside, Inside
<1>9. \A i \in DOMAIN mbox' : mbox'[i].kind = "api" => i = Len(mbox) + 1
  BY <1>5, <1>6, <1>7 DEF NoMessage
<1>10. OneMessage'
  BY <1>1, <1>2, <1>4, <1>5, <1>6, <1>7, <1>9 DEF OneMessage, Api, NoAnswer, CInv, CallTypeOK
<1>11. RanInTime'
  BY <1>4 DEF CInv, RanInTime
<1> QED
  BY <1>8, <1>10, <1>11 DEF CInv

(* The thread takes the first message. *)
LEMMA FetchKeeps ==
  ASSUME CInv, Fetch
  PROVE  CInv'
<1>1. core = Idle /\ mbox # <<>> /\ mbox' = Tail(mbox) /\ UNCHANGED <<calls, apiLock, apiSync>>
  BY DEF Fetch
<1>2. /\ Head(mbox) \in ApiMessages \cup FrameMessages /\ Head(mbox) = mbox[1] /\ 1 \in DOMAIN mbox
      /\ mbox' \in Seq(ApiMessages \cup FrameMessages)
      /\ \A i \in DOMAIN mbox' : i + 1 \in DOMAIN mbox /\ i + 1 # 1 /\ mbox'[i] = mbox[i + 1]
  BY <1>1, TailMessages DEF CInv, CallTypeOK
<1>3. CASE Head(mbox).kind = "api"
  <2>1. core' = [pc |-> "run", from |-> Head(mbox).from] /\ Head(mbox).from \in Callers
    BY <1>2, <1>3 DEF Fetch, ApiMessages, FrameMessages
  <2>2. core'.pc = "run" /\ core'.from = Head(mbox).from /\ core' \in CoreStates
    BY <2>1 DEF CoreStates
  <2>3. \A i \in DOMAIN mbox' : mbox'[i].kind # "api"
    BY <1>2, <1>3 DEF CInv, OneMessage, Api
  <2> QED
    BY <1>1, <1>2, <1>3, <2>2, <2>3
    DEF CInv, CallTypeOK, OneInside, OneMessage, RanInTime, Api, NoMessage, NoAnswer
<1>4. CASE Head(mbox).kind # "api"
  <2>1. core' = [pc |-> "input", frame |-> Head(mbox).frame] /\ Head(mbox).frame \in Frames
    BY <1>2, <1>4 DEF Fetch, ApiMessages, FrameMessages
  <2>2. core'.pc = "input" /\ core' \in CoreStates
    BY <2>1 DEF CoreStates
  <2>3. CallTypeOK' /\ OneInside' /\ RanInTime'
    BY <1>1, <1>2, <2>2 DEF CInv, CallTypeOK, OneInside, RanInTime
  <2>4. \A i, j \in DOMAIN mbox' : Api(i)' /\ Api(j)' => i = j
    BY <1>2 DEF CInv, CallTypeOK, OneMessage, Api
  <2>5. \A i \in DOMAIN mbox' : mbox'[i].kind = "api" =>
          calls[mbox'[i].from].pc = "wait" /\ ~calls[mbox'[i].from].ran /\ apiSync = 0
    BY <1>2 DEF CInv, OneMessage, NoAnswer
  <2>6. NoMessage => NoMessage'
    BY <1>2 DEF NoMessage
  <2> QED
    BY <1>1, <2>2, <2>3, <2>4, <2>5, <2>6 DEF CInv, OneMessage, NoAnswer, Idle
<1> QED
  BY <1>3, <1>4

(* The thread runs the function of the call that waits for it. *)
LEMMA RunKeeps ==
  ASSUME CInv, CoreRun
  PROVE  CInv'
<1> DEFINE t == core.from
<1>1. t \in Callers /\ calls[t] \in CallRecords
  BY DEF CoreRun, CInv, CallTypeOK, CoreStates, Idle
<1>2. calls[t].pc = "wait" /\ ~calls[t].ran /\ NoMessage /\ apiSync = 0
  BY DEF CoreRun, CInv, OneMessage
<1>4. calls' = [calls EXCEPT ![t].ran = TRUE]
  BY DEF CoreRun
<1>6. core' = [pc |-> "signal"] /\ UNCHANGED <<mbox, apiLock, apiSync>>
  BY DEF CoreRun
<1>7. core'.pc = "signal" /\ core' \in CoreStates
  BY <1>6 DEF CoreStates
<1> HIDE DEF t
<1>5. /\ calls' \in [Callers -> CallRecords]
      /\ calls'[t].pc = "wait" /\ calls'[t].ran = TRUE
      /\ \A u \in Callers : u # t => calls'[u] = calls[u]
  BY <1>1, <1>2, <1>4, FunctionRan DEF CInv
<1>9. CallTypeOK' /\ OneInside' /\ RanInTime'
  BY <1>1, <1>2, <1>5, <1>6, <1>7 DEF CInv, CallTypeOK, OneInside, Inside, RanInTime
<1>10. OneMessage'
  BY <1>1, <1>2, <1>5, <1>6, <1>7 DEF OneMessage, Api, NoMessage, NoAnswer
<1> QED
  BY <1>9, <1>10 DEF CInv

(* The thread signals, or is done with a frame. *)
LEMMA SignalKeeps ==
  ASSUME CInv, CoreSignal \/ CoreInput
  PROVE  CInv'
<1>1. core' = Idle /\ core'.pc = "idle" /\ core' \in CoreStates /\ UNCHANGED <<calls, mbox, apiLock>>
  BY DEF CoreSignal, CoreInput, Idle, CoreStates
<1>2. CASE CoreSignal
  <2>1. core.pc = "signal" /\ apiSync' = 1
    BY <1>2 DEF CoreSignal
  <2> QED
    BY <1>1, <2>1 DEF CInv, CallTypeOK, OneInside, OneMessage, RanInTime, Api, NoMessage, NoAnswer
<1>3. CASE CoreInput
  <2>1. core.pc = "input" /\ apiSync' = apiSync
    BY <1>3 DEF CoreInput
  <2> QED
    BY <1>1, <2>1 DEF CInv, CallTypeOK, OneInside, OneMessage, RanInTime, Api, NoMessage, NoAnswer
<1> QED
  BY <1>2, <1>3

(* A frame in the mailbox is no message of a call. *)
LEMMA InputKeeps ==
  ASSUME CInv, ReceiveInput, rxcall.frame \in Frames
  PROVE  CInv'
<1>1. UNCHANGED <<calls, core, apiLock, apiSync>>
  BY DEF ReceiveInput
<1>2. CASE mbox' = mbox
  BY <1>1, <1>2, OthersKeep
<1>3. CASE mbox' # mbox
  <2> DEFINE m == [kind |-> "frame", frame |-> rxcall.frame]
  <2>1. m \in FrameMessages /\ m.kind = "frame"
    BY DEF FrameMessages
  <2>2. mbox' = Append(mbox, m)
    BY <1>3 DEF ReceiveInput
  <2> HIDE DEF m
  <2>3. /\ mbox' \in Seq(ApiMessages \cup FrameMessages)
        /\ DOMAIN mbox' = 1 .. Len(mbox) + 1
        /\ \A i \in 1 .. Len(mbox) : mbox'[i] = mbox[i]
        /\ mbox'[Len(mbox) + 1] = m
    BY <2>1, <2>2, AppendedMessages DEF CInv, CallTypeOK
  <2>4. DOMAIN mbox = 1 .. Len(mbox) /\ Len(mbox) \in Nat
    BY DEF CInv, CallTypeOK
  <2>5. \A i \in DOMAIN mbox' : mbox'[i].kind = "api" => i \in DOMAIN mbox /\ mbox'[i] = mbox[i]
    BY <2>1, <2>3, <2>4
  <2>6. CallTypeOK' /\ OneInside' /\ RanInTime'
    BY <1>1, <2>3 DEF CInv, CallTypeOK, OneInside, RanInTime
  <2>7. OneMessage'
    BY <1>1, <2>5 DEF CInv, OneMessage, Api, NoMessage, NoAnswer
  <2> QED
    BY <2>6, <2>7 DEF CInv
<1> QED
  BY <1>2, <1>3

(* Every step keeps the types of what the drivers deliver. *)
LEMMA RxTypeKeeps == RxTypeOK /\ [TcpipNext]_tcpipVars => RxTypeOK'
<1> SUFFICES ASSUME RxTypeOK, [TcpipNext]_tcpipVars
             PROVE  RxTypeOK'
  OBVIOUS
<1>1. CASE UNCHANGED rxcall
  BY <1>1 DEF RxTypeOK
<1>2. ASSUME NEW f \in Frames, ReceiveFrame(f)
      PROVE  RxTypeOK'
  BY <1>2 DEF RxTypeOK, ReceiveFrame
<1>3. CASE ReceiveCheck
  <2>1. rxcall \in [pc : {"check", "input"}, frame : Frames]
    BY <1>3 DEF RxTypeOK, ReceiveCheck, Idle
  <2>2. rxcall' = Idle \/ rxcall' = [rxcall EXCEPT !.pc = "input"]
    BY <1>3 DEF ReceiveCheck, ReceiveOver
  <2> QED
    BY <2>1, <2>2 DEF RxTypeOK
<1>4. CASE ReceiveInput
  BY <1>4 DEF RxTypeOK, ReceiveInput, ReceiveOver
<1> QED
  BY <1>1, <1>2, <1>3, <1>4
  DEF TcpipNext, Caller, Core, Call, CallLock, CallPost, CallWait, CallReturn, Free, Fetch, CoreRun,
      CoreSignal, CoreInput, SocketRead, tcpipVars

(* Every step keeps the invariant. *)
LEMMA StepHolds == CInv /\ RxTypeOK /\ [TcpipNext]_tcpipVars => CInv'
<1> SUFFICES ASSUME CInv, RxTypeOK, [TcpipNext]_tcpipVars
             PROVE  CInv'
  OBVIOUS
<1>1. ASSUME NEW t \in Callers, Caller(t)
      PROVE  CInv'
  BY <1>1, LockKeeps, PostKeeps, WaitKeeps, ReturnKeeps, FreeKeeps DEF Caller
<1>2. ASSUME NEW t \in Callers, NEW fn \in Functions, Call(t, fn)
      PROVE  CInv'
  BY <1>2, CallKeeps
<1>3. CASE Core
  BY <1>3, FetchKeeps, RunKeeps, SignalKeeps DEF Core
<1>4. ASSUME NEW f \in Frames, ReceiveFrame(f) \/ SocketRead(f)
      PROVE  CInv'
  BY <1>4, OthersKeep DEF ReceiveFrame, SocketRead
<1>5. CASE ReceiveCheck
  BY <1>5, OthersKeep DEF ReceiveCheck
<1>6. CASE ReceiveInput
  <2>1. rxcall.frame \in Frames
    BY <1>6 DEF ReceiveInput, RxTypeOK, Idle
  <2> QED
    BY <1>6, <2>1, InputKeeps
<1>7. CASE UNCHANGED tcpipVars
  BY <1>7, OthersKeep DEF tcpipVars
<1> QED
  BY <1>1, <1>2, <1>3, <1>4, <1>5, <1>6, <1>7 DEF TcpipNext

(* Whatever tasks call and frames arrive, a call returns only after its    *)
(* own function ran, and the thread never has a message whose call is over.*)
THEOREM CallsAreAnswered == TcpipSpec => []CallIsAnswered
<1>1. TcpipInit => RxTypeOK
  BY DEF TcpipInit, RxTypeOK
<1>2. CInv => CallIsAnswered
  BY DEF CInv, OneMessage, RanInTime, CallIsAnswered
<1> QED
  BY <1>1, <1>2, InitHolds, StepHolds, RxTypeKeeps, PTL DEF TcpipSpec

-----------------------------------------------------------------------------
(* Frames and the removal of the interface.  From the call that destroys   *)
(* it on no other call uses it and no frame is received, other than the    *)
(* one that was going on; what is behind the message that removes it in    *)
(* the mailbox comes from there, and so does all that is left once the     *)
(* function runs.                                                          *)
Gone == interface \notin {"up", "down"}
Holders == {"driver", "rx", "mbox", "core", "socket"}
Uninvolved == {"none", "other"}

FramesAreThere ==
  \A f \in Frames :
    /\ where[f] = "rx" => rxcall # Idle /\ rxcall.frame = f
    /\ where[f] = "mbox" => \E i \in DOMAIN mbox : mbox[i].kind = "frame" /\ mbox[i].frame = f
    /\ where[f] = "core" => core.pc = "input" /\ core.frame = f

OneDestroys ==
  /\ \A t, u \in Callers : calls[t].fn = "remove" /\ u # t => calls[u].fn \in Uninvolved
  /\ \A t \in Callers : /\ calls[t].pc \notin {"idle", "free"} => calls[t].fn # "none"
                        /\ Gone => calls[t].fn \notin {"up", "down"}
                        /\ calls[t].fn = "remove" /\ calls[t].ran => Gone
                        /\ calls[t].pc = "free" => Gone

RxIsLate == (Destroying \/ Gone) /\ rxcall # Idle => rxcall.frame \in late

BehindIsLate ==
  \A i, k \in DOMAIN mbox :
    mbox[k].kind = "api" /\ calls[mbox[k].from].fn = "remove" /\ mbox[i].kind = "frame" /\ k < i
      => mbox[i].frame \in late

Emptying == Gone \/ (core.pc = "run" /\ calls[core.from].fn = "remove")
RestIsLate == Emptying => \A i \in DOMAIN mbox : mbox[i].kind = "frame" => mbox[i].frame \in late
CoreIsLate == Gone /\ core.pc = "input" => core.frame \in late

FInv ==
  /\ where \in [Frames -> Holders]
  /\ FramesAreThere /\ OneDestroys /\ RxIsLate /\ BehindIsLate /\ RestIsLate /\ CoreIsLate

(* The invariant says what the property asks for. *)
LEMMA FramesAreLate == FInv => InterfaceOutlivesFrames
BY DEF FInv, FramesAreThere, RxIsLate, RestIsLate, Emptying, CoreIsLate, Gone, InterfaceOutlivesFrames

(* Initially no frame is on its way. *)
LEMMA InitOfFrames == TcpipInit => FInv
BY DEF TcpipInit, FInv, Holders, FramesAreThere, OneDestroys, Uninvolved, RxIsLate, BehindIsLate, RestIsLate,
       Emptying, CoreIsLate, Gone, Destroying, NoCall, Idle

(* Messages and the thread name tasks that call. *)
LEMMA NamesCallers ==
  ASSUME CallTypeOK
  PROVE  /\ \A i \in DOMAIN mbox : mbox[i].kind = "api" => mbox[i].from \in Callers
         /\ core.pc = "run" => core.from \in Callers
BY DEF CallTypeOK, ApiMessages, FrameMessages, CoreStates, Idle

(* A call that goes on and leaves the mailbox alone. *)
LEMMA FramesWhenCallGoesOn ==
  ASSUME CInv, FInv, NEW t \in Callers, CallLock(t) \/ CallWait(t)
  PROVE  FInv'
<1>1. UNCHANGED <<mbox, core, rxcall, where, interface, late>> /\ calls[t].pc \in {"lock", "wait"}
  BY DEF CallLock, CallWait
<1>2. PICK place \in {"post", "unlock"} : calls' = [calls EXCEPT ![t].pc = place]
  BY DEF CallLock, CallWait
<1>3. /\ calls'[t].pc = place /\ calls'[t].ran = calls[t].ran /\ calls'[t].fn = calls[t].fn
      /\ \A u \in Callers : u # t => calls'[u] = calls[u]
  <2>1. place \in PCs
    BY DEF PCs
  <2> QED
    BY <1>2, <2>1, CallGoesOn DEF CInv
<1>4. \A u \in Callers : calls'[u].fn = calls[u].fn /\ calls'[u].ran = calls[u].ran
  BY <1>3
<1>5. OneDestroys'
  BY <1>1, <1>2, <1>3, <1>4 DEF FInv, OneDestroys, Gone
<1>6. FramesAreThere' /\ CoreIsLate' /\ (where \in [Frames -> Holders])'
  BY <1>1 DEF FInv, FramesAreThere, CoreIsLate, Gone
<1>7. RxIsLate'
  BY <1>1, <1>4 DEF FInv, RxIsLate, Destroying, Gone
<1>8. BehindIsLate' /\ RestIsLate'
  BY <1>1, <1>4, NamesCallers DEF CInv, FInv, BehindIsLate, RestIsLate, Emptying, Gone
<1> QED
  BY <1>5, <1>6, <1>7, <1>8 DEF FInv

(* Nothing is behind a message that is posted. *)
LEMMA FramesWhenPosted ==
  ASSUME CInv, FInv, NEW t \in Callers, CallPost(t)
  PROVE  FInv'
<1> DEFINE m == [kind |-> "api", from |-> t]
<1>1. m \in ApiMessages /\ m.kind = "api" /\ m.from = t
  BY DEF ApiMessages
<1>2. mbox' = Append(mbox, m) /\ UNCHANGED <<core, rxcall, where, interface, late>>
  BY DEF CallPost
<1> HIDE DEF m
<1>3. calls' = [calls EXCEPT ![t].pc = "wait"] /\ calls[t].pc = "post" /\ "wait" \in PCs
  BY DEF CallPost, PCs
<1>4. /\ calls'[t].pc = "wait" /\ calls'[t].ran = calls[t].ran /\ calls'[t].fn = calls[t].fn
      /\ \A u \in Callers : u # t => calls'[u] = calls[u]
  BY <1>3, CallGoesOn DEF CInv
<1>5. \A u \in Callers : calls'[u].fn = calls[u].fn /\ calls'[u].ran = calls[u].ran
  BY <1>4
<1>6. /\ DOMAIN mbox' = 1 .. Len(mbox) + 1 /\ DOMAIN mbox = 1 .. Len(mbox) /\ Len(mbox) \in Nat
      /\ \A i \in 1 .. Len(mbox) : mbox'[i] = mbox[i]
      /\ mbox'[Len(mbox) + 1] = m
  BY <1>1, <1>2, AppendedMessages DEF CInv, CallTypeOK
<1>7. \A i \in DOMAIN mbox' : mbox'[i].kind = "frame" => i \in DOMAIN mbox /\ mbox'[i] = mbox[i]
  BY <1>1, <1>6
<1>8. OneDestroys'
  BY <1>2, <1>3, <1>4, <1>5 DEF FInv, OneDestroys, Gone
<1>9. FramesAreThere' /\ CoreIsLate' /\ (where \in [Frames -> Holders])'
  BY <1>2, <1>6 DEF FInv, FramesAreThere, CoreIsLate, Gone
<1>10. RxIsLate'
  BY <1>2, <1>5 DEF FInv, RxIsLate, Destroying, Gone
<1>11. RestIsLate'
  BY <1>2, <1>5, <1>7, NamesCallers DEF CInv, FInv, RestIsLate, Emptying, Gone
<1>12. BehindIsLate'
  <2> SUFFICES ASSUME NEW i \in DOMAIN mbox', NEW k \in DOMAIN mbox',
                      mbox'[k].kind = "api", calls'[mbox'[k].from].fn = "remove",
                      mbox'[i].kind = "frame", k < i
               PROVE  mbox'[i].frame \in late
    BY <1>2 DEF BehindIsLate
  <2>1. i \in DOMAIN mbox /\ mbox'[i] = mbox[i]
    BY <1>7
  <2>2. k \in DOMAIN mbox /\ mbox'[k] = mbox[k]
    BY <1>6, <2>1
  <2>3. mbox[k].from \in Callers
    BY <2>2, NamesCallers DEF CInv
  <2> QED
    BY <1>5, <2>1, <2>2, <2>3 DEF FInv, BehindIsLate
<1> QED
  BY <1>8, <1>9, <1>10, <1>11, <1>12 DEF FInv

(* The call that destroys the interface begins when no other one uses it,  *)
(* and makes the frame of the driver's call late.                          *)
LEMMA FramesWhenCalled ==
  ASSUME CInv, FInv, NEW t \in Callers, NEW fn \in Functions, Call(t, fn)
  PROVE  FInv'
<1> DEFINE c == [pc |-> "lock", fn |-> fn, ran |-> FALSE]
<1>1. c \in CallRecords /\ c.pc = "lock" /\ c.ran = FALSE /\ c.fn = fn /\ fn # "none"
  BY DEF CallRecords, PCs, Functions
<1>2. calls' = [calls EXCEPT ![t] = c] /\ calls[t].pc = "idle"
  BY DEF Call
<1> HIDE DEF c
<1>3. calls'[t] = c /\ \A u \in Callers : u # t => calls'[u] = calls[u]
  BY <1>1, <1>2, CallReplaced DEF CInv
<1>4. /\ UNCHANGED <<mbox, core, rxcall, where, interface>> /\ late \subseteq late'
      /\ fn # "other" => ~Gone /\ ~Destroying
      /\ fn = "remove" => \A u \in Callers : calls[u].fn \in Uninvolved
      /\ fn = "remove" /\ rxcall # Idle => rxcall.frame \in late'
  BY DEF Call, Gone, Uninvolved
<1>5. OneDestroys'
  <2>1. fn \in {"up", "down"} => \A u \in Callers : calls[u].fn # "remove"
    BY <1>4 DEF Destroying
  <2>2. fn \in {"up", "down", "remove", "other"}
    BY DEF Functions
  <2>3. \A u, v \in Callers : calls'[u].fn = "remove" /\ v # u => calls'[v].fn \in Uninvolved
    BY <1>1, <1>3, <1>4, <2>1, <2>2 DEF FInv, OneDestroys, Uninvolved
  <2> QED
    BY <1>1, <1>3, <1>4, <2>2, <2>3 DEF FInv, OneDestroys, Gone
<1>6. FramesAreThere' /\ CoreIsLate' /\ (where \in [Frames -> Holders])'
  BY <1>4 DEF FInv, FramesAreThere, CoreIsLate, Gone
<1>7. RxIsLate'
  BY <1>1, <1>3, <1>4 DEF FInv, RxIsLate, Destroying, Gone
<1>8. /\ \A i \in DOMAIN mbox : mbox[i].kind = "api" => mbox[i].from \in Callers /\ mbox[i].from # t
      /\ core.pc = "run" => core.from \in Callers /\ core.from # t
  BY <1>2, NamesCallers DEF CInv, OneMessage
<1>9. BehindIsLate' /\ RestIsLate'
  BY <1>3, <1>4, <1>8 DEF FInv, BehindIsLate, RestIsLate, Emptying, Gone
<1> QED
  BY <1>5, <1>6, <1>7, <1>9 DEF FInv

(* A call that returns or frees the interface has no message, so that the  *)
(* mailbox holds late frames only when it was the one that destroys.       *)
LEMMA FramesWhenOver ==
  ASSUME CInv, FInv, NEW t \in Callers, CallReturn(t) \/ Free(t)
  PROVE  FInv'
<1>1. /\ UNCHANGED <<mbox, core, rxcall, where, late>> /\ calls[t].pc \in {"unlock", "free"}
      /\ interface' = interface \/ (calls[t].pc = "free" /\ interface' = "freed")
  BY DEF CallReturn, Free
<1>2. /\ calls'[t].fn \in {"none", calls[t].fn} /\ calls'[t].pc \in {"idle", "free"}
      /\ calls'[t].ran => calls[t].ran
      /\ calls'[t].pc = "free" => calls[t].pc = "unlock" /\ calls[t].fn = "remove"
      /\ calls'[t].fn # "none" => calls'[t].pc = "free"
      /\ \A u \in Callers : u # t => calls'[u] = calls[u]
  <2>1. CASE calls' = [calls EXCEPT ![t] = NoCall]
    <3>1. NoCall \in CallRecords /\ NoCall.pc = "idle" /\ NoCall.fn = "none" /\ ~NoCall.ran
      BY DEF NoCall, CallRecords, PCs
    <3> QED
      BY <2>1, <3>1, CallReplaced DEF CInv
  <2>2. CASE calls' # [calls EXCEPT ![t] = NoCall]
    <3>1. /\ calls' = [calls EXCEPT ![t].pc = "free"] /\ "free" \in PCs
          /\ calls[t].fn = "remove" /\ calls[t].pc = "unlock"
      BY <2>2 DEF CallReturn, Free, CInv, CallTypeOK, PCs
    <3> QED
      BY <3>1, CallGoesOn DEF CInv
  <2> QED
    BY <2>1, <2>2
<1>3. Gone' <=> Gone
  <2>1. calls[t].pc = "free" => Gone
    BY DEF FInv, OneDestroys
  <2>2. interface' = "freed" => Gone'
    BY DEF Gone
  <2> QED
    BY <1>1, <2>1, <2>2 DEF Gone
<1>4. OneDestroys'
  <2>1. calls'[t].pc = "free" => Gone
    BY <1>2 DEF CInv, RanInTime, FInv, OneDestroys
  <2>2. \A u, v \in Callers : calls'[u].fn = "remove" /\ v # u => calls'[v].fn \in Uninvolved
    BY <1>2 DEF FInv, OneDestroys, Uninvolved
  <2>3. \A u \in Callers : /\ calls'[u].pc \notin {"idle", "free"} => calls'[u].fn # "none"
                           /\ Gone => calls'[u].fn \notin {"up", "down"}
                           /\ calls'[u].fn = "remove" /\ calls'[u].ran => Gone
                           /\ calls'[u].pc = "free" => Gone
    BY <1>2, <2>1 DEF FInv, OneDestroys
  <2> QED
    BY <1>3, <2>2, <2>3 DEF OneDestroys
<1>5. FramesAreThere' /\ CoreIsLate' /\ (where \in [Frames -> Holders])'
  BY <1>1, <1>3 DEF FInv, FramesAreThere, CoreIsLate
<1>6. RxIsLate'
  <2>1. Destroying' => Destroying
    BY <1>2 DEF Destroying
  <2> QED
    BY <1>1, <1>3, <2>1 DEF FInv, RxIsLate
<1>7. /\ \A i \in DOMAIN mbox : mbox[i].kind = "api" => mbox[i].from \in Callers /\ mbox[i].from # t
      /\ core.pc = "run" => core.from \in Callers /\ core.from # t
  BY <1>1, NamesCallers DEF CInv, OneMessage
<1>8. BehindIsLate' /\ RestIsLate'
  BY <1>1, <1>2, <1>3, <1>7 DEF FInv, BehindIsLate, RestIsLate, Emptying
<1> QED
  BY <1>4, <1>5, <1>6, <1>8 DEF FInv

(* The thread takes the first message: a frame, or a function behind which *)
(* the frames are late if it removes the interface.                        *)
LEMMA FramesWhenFetched ==
  ASSUME CInv, FInv, Fetch
  PROVE  FInv'
<1>1. /\ core = Idle /\ mbox # <<>> /\ mbox' = Tail(mbox)
      /\ UNCHANGED <<calls, rxcall, interface, late>>
  BY DEF Fetch
<1>2. /\ Head(mbox) \in ApiMessages \cup FrameMessages /\ Head(mbox) = mbox[1] /\ 1 \in DOMAIN mbox
      /\ \A i \in DOMAIN mbox' : i + 1 \in DOMAIN mbox /\ i + 1 # 1 /\ mbox'[i] = mbox[i + 1]
  BY <1>1, TailMessages DEF CInv, CallTypeOK
<1>3. \A i \in DOMAIN mbox : i # 1 => i - 1 \in DOMAIN mbox' /\ mbox'[i - 1] = mbox[i]
  <2>1. mbox \in Seq(ApiMessages \cup FrameMessages)
    BY DEF CInv, CallTypeOK
  <2> QED
    BY <1>1, <2>1
<1>4. DOMAIN mbox \subseteq Int /\ DOMAIN mbox' \subseteq Int /\ \A i \in DOMAIN mbox : i >= 1
  BY <1>1 DEF CInv, CallTypeOK
<1>5. OneDestroys' /\ RxIsLate'
  BY <1>1 DEF FInv, OneDestroys, RxIsLate, Destroying, Gone
<1>6. BehindIsLate'
  <2> SUFFICES ASSUME NEW i \in DOMAIN mbox', NEW k \in DOMAIN mbox',
                      mbox'[k].kind = "api", calls[mbox'[k].from].fn = "remove",
                      mbox'[i].kind = "frame", k < i
               PROVE  mbox'[i].frame \in late
    BY <1>1 DEF BehindIsLate
  <2>1. i + 1 \in DOMAIN mbox /\ k + 1 \in DOMAIN mbox /\ k + 1 < i + 1
    BY <1>2, <1>4
  <2> QED
    BY <1>2, <2>1 DEF FInv, BehindIsLate
<1>7. ASSUME Head(mbox).kind = "api"
      PROVE  FInv'
  <2>1. core' = [pc |-> "run", from |-> Head(mbox).from] /\ where' = where
    BY <1>2, <1>7 DEF Fetch, ApiMessages
  <2>2. core'.pc = "run" /\ core'.from = mbox[1].from
    BY <1>2, <2>1
  <2>3. FramesAreThere'
    <3>1. \A f \in Frames : where[f] = "mbox" =>
            \E i \in DOMAIN mbox' : mbox'[i].kind = "frame" /\ mbox'[i].frame = f
      BY <1>2, <1>3, <1>7 DEF FInv, FramesAreThere
    <3>2. \A f \in Frames : where[f] # "core"
      BY <1>1 DEF FInv, FramesAreThere, Idle
    <3> QED
      BY <1>1, <2>1, <3>1, <3>2 DEF FInv, FramesAreThere
  <2>4. RestIsLate'
    <3> SUFFICES ASSUME Gone \/ calls[mbox[1].from].fn = "remove",
                        NEW i \in DOMAIN mbox', mbox'[i].kind = "frame"
                 PROVE  mbox'[i].frame \in late
      BY <1>1, <2>2 DEF RestIsLate, Emptying, Gone
    <3>1. i + 1 \in DOMAIN mbox /\ mbox'[i] = mbox[i + 1] /\ 1 < i + 1
      BY <1>2, <1>4
    <3>2. CASE Gone
      BY <3>1, <3>2 DEF FInv, RestIsLate, Emptying
    <3>3. CASE calls[mbox[1].from].fn = "remove"
      BY <1>2, <1>7, <3>1, <3>3 DEF FInv, BehindIsLate
    <3> QED
      BY <3>2, <3>3
  <2>5. CoreIsLate'
    BY <2>2 DEF CoreIsLate
  <2> QED
    BY <1>5, <1>6, <2>1, <2>3, <2>4, <2>5 DEF FInv
<1>8. ASSUME Head(mbox).kind # "api"
      PROVE  FInv'
  <2> DEFINE g == Head(mbox).frame
  <2>1. g \in Frames /\ Head(mbox).kind = "frame" /\ g = mbox[1].frame
    BY <1>2, <1>8 DEF ApiMessages, FrameMessages
  <2>2. core' = [pc |-> "input", frame |-> g] /\ where' = [where EXCEPT ![g] = "core"]
    BY <1>8, <2>1 DEF Fetch
  <2>3. core'.pc = "input" /\ core'.frame = g
    BY <2>2
  <2> HIDE DEF g
  <2>4. where' \in [Frames -> Holders] /\ where'[g] = "core" /\ \A f \in Frames : f # g => where'[f] = where[f]
    BY <2>1, <2>2 DEF FInv, Holders
  <2>5. FramesAreThere'
    <3>1. \A f \in Frames : f # g /\ where[f] = "mbox" =>
            \E i \in DOMAIN mbox' : mbox'[i].kind = "frame" /\ mbox'[i].frame = f
      BY <1>3, <2>1 DEF FInv, FramesAreThere
    <3>2. \A f \in Frames : where[f] # "core"
      BY <1>1 DEF FInv, FramesAreThere, Idle
    <3> QED
      BY <1>1, <2>3, <2>4, <3>1, <3>2 DEF FInv, FramesAreThere
  <2>6. RestIsLate' /\ CoreIsLate'
    BY <1>1, <1>2, <2>1, <2>3 DEF FInv, RestIsLate, Emptying, CoreIsLate, Gone
  <2> QED
    BY <1>5, <1>6, <2>4, <2>5, <2>6 DEF FInv
<1> QED
  BY <1>7, <1>8

(* The function that removes the interface runs in front of late frames,   *)
(* and no function brings it back.                                         *)
LEMMA FramesWhenRun ==
  ASSUME CInv, FInv, CoreRun
  PROVE  FInv'
<1> DEFINE t == core.from
<1>1. t \in Callers /\ calls[t] \in CallRecords /\ calls[t].pc = "wait" /\ core.pc = "run"
  BY DEF CoreRun, CInv, CallTypeOK, CoreStates, Idle, OneMessage
<1>2. /\ calls' = [calls EXCEPT ![t].ran = TRUE] /\ interface' = Applied(calls[t].fn)
      /\ core' = [pc |-> "signal"] /\ UNCHANGED <<mbox, rxcall, where, late>>
  BY DEF CoreRun
<1>3. core'.pc = "signal"
  BY <1>2
<1>4. Emptying <=> Gone \/ calls[t].fn = "remove"
  BY <1>1 DEF Emptying
<1> HIDE DEF t
<1>5. \A u \in Callers : calls'[u].fn = calls[u].fn /\ calls'[u].pc = calls[u].pc
                         /\ (u # t => calls'[u].ran = calls[u].ran)
  BY <1>1, <1>2, FunctionRan DEF CInv
<1>6. /\ calls[t].fn \in {"up", "down", "remove", "other"}
      /\ calls[t].fn \in {"up", "down"} => ~Gone
  BY <1>1 DEF FInv, OneDestroys, CallRecords, Functions
<1>7. /\ Gone => Gone'
      /\ calls[t].fn = "remove" => Gone'
      /\ Gone' => Gone \/ calls[t].fn = "remove"
  BY <1>2, <1>6 DEF Applied, Gone
<1>8. OneDestroys'
  <2>1. \A u \in Callers : Gone' => calls[u].fn \notin {"up", "down"}
    BY <1>1, <1>7 DEF FInv, OneDestroys, Uninvolved
  <2>2. \A u \in Callers : calls'[u].fn = "remove" /\ calls'[u].ran => Gone'
    BY <1>1, <1>5, <1>7 DEF FInv, OneDestroys
  <2> QED
    BY <1>5, <1>7, <2>1, <2>2 DEF FInv, OneDestroys
<1>9. FramesAreThere' /\ CoreIsLate' /\ (where \in [Frames -> Holders])'
  <2>1. \A f \in Frames : where[f] # "core"
    BY <1>1 DEF FInv, FramesAreThere
  <2> QED
    BY <1>2, <1>3, <2>1 DEF FInv, FramesAreThere, CoreIsLate
<1>10. RxIsLate'
  BY <1>1, <1>2, <1>5, <1>7 DEF FInv, RxIsLate, Destroying
<1>11. BehindIsLate'
  BY <1>2, <1>5, NamesCallers DEF CInv, FInv, BehindIsLate
<1>12. RestIsLate'
  BY <1>2, <1>3, <1>4, <1>7 DEF FInv, RestIsLate, Emptying
<1> QED
  BY <1>8, <1>9, <1>10, <1>11, <1>12 DEF FInv

(* The thread signals, or is done with a frame; a socket may keep it. *)
LEMMA FramesWhenDone ==
  ASSUME CInv, FInv, CoreSignal \/ CoreInput \/ \E f \in Frames : SocketRead(f)
  PROVE  FInv'
<1>1. UNCHANGED <<calls, mbox, rxcall, interface, late>>
  BY DEF CoreSignal, CoreInput, SocketRead
<1>2. core' = core \/ core' = Idle
  BY DEF CoreSignal, CoreInput, SocketRead
<1>3. /\ where' \in [Frames -> Holders]
      /\ \A f \in Frames : where'[f] \in {where[f], "driver", "socket"}
      /\ core' # core => \A f \in Frames : where'[f] # "core"
  <2>1. CASE CoreSignal
    BY <2>1 DEF CoreSignal, FInv, FramesAreThere
  <2>2. CASE CoreInput
    <3>1. core.pc = "input" /\ core.frame \in Frames
      BY <2>2 DEF CoreInput, CInv, CallTypeOK, CoreStates, Idle
    <3>2. PICK to \in {"driver", "socket"} : where' = [where EXCEPT ![core.frame] = to]
      BY <2>2 DEF CoreInput
    <3> QED
      BY <3>1, <3>2 DEF FInv, FramesAreThere, Holders
  <2>3. ASSUME NEW g \in Frames, SocketRead(g)
        PROVE  /\ where' \in [Frames -> Holders]
               /\ \A f \in Frames : where'[f] \in {where[f], "driver", "socket"}
               /\ core' = core
    BY <2>3 DEF SocketRead, FInv, Holders
  <2> QED
    BY <2>1, <2>2, <2>3
<1>4. Idle.pc = "idle"
  BY DEF Idle
<1>5. OneDestroys' /\ RxIsLate' /\ BehindIsLate'
  BY <1>1 DEF FInv, OneDestroys, RxIsLate, BehindIsLate, Destroying, Gone
<1>6. RestIsLate' /\ CoreIsLate'
  BY <1>1, <1>2, <1>4 DEF FInv, RestIsLate, Emptying, CoreIsLate, Gone
<1>7. FramesAreThere'
  BY <1>1, <1>3 DEF FInv, FramesAreThere
<1> QED
  BY <1>3, <1>5, <1>6, <1>7 DEF FInv

(* The driver's call begins before the interface is destroyed. *)
LEMMA FramesWhenReceived ==
  ASSUME CInv, FInv, NEW f \in Frames, ReceiveFrame(f)
  PROVE  FInv'
<1>1. /\ UNCHANGED <<calls, mbox, core, interface>> /\ rxcall = Idle /\ ~Gone /\ ~Destroying
      /\ rxcall' = [pc |-> "check", frame |-> f] /\ where' = [where EXCEPT ![f] = "rx"]
  BY DEF ReceiveFrame, Gone
<1>2. rxcall' # Idle /\ rxcall'.frame = f
  <2>1. rxcall'.pc = "check" /\ Idle.pc = "idle"
    BY <1>1 DEF Idle
  <2> QED
    BY <1>1, <2>1
<1>3. where' \in [Frames -> Holders] /\ where'[f] = "rx" /\ \A g \in Frames : g # f => where'[g] = where[g]
  BY <1>1 DEF FInv, Holders
<1>4. FramesAreThere'
  BY <1>1, <1>2, <1>3 DEF FInv, FramesAreThere
<1>5. \A t \in Callers : calls[t].fn # "remove"
  BY <1>1 DEF Destroying
<1>6. OneDestroys' /\ RxIsLate' /\ CoreIsLate'
  BY <1>1 DEF FInv, OneDestroys, RxIsLate, CoreIsLate, Destroying, Gone
<1>7. BehindIsLate' /\ RestIsLate'
  BY <1>1, <1>5, NamesCallers DEF CInv, FInv, BehindIsLate, RestIsLate, Emptying, Gone
<1> QED
  BY <1>3, <1>4, <1>6, <1>7 DEF FInv

(* wlanif_input passes a frame on, or frees it. *)
LEMMA FramesWhenChecked ==
  ASSUME CInv, FInv, RxTypeOK, ReceiveCheck
  PROVE  FInv'
<1>1. /\ UNCHANGED <<calls, mbox, core, interface, late>>
      /\ rxcall \in [pc : {"check", "input"}, frame : Frames]
  BY DEF ReceiveCheck, RxTypeOK, Idle
<1>2. /\ where' \in [Frames -> Holders] /\ FramesAreThere'
      /\ rxcall' # Idle => rxcall # Idle /\ rxcall'.frame = rxcall.frame
  <2>1. rxcall.pc = "check" /\ rxcall # Idle
    BY DEF ReceiveCheck, Idle
  <2>2. CASE rxcall' = [rxcall EXCEPT !.pc = "input"] /\ UNCHANGED where
    <3>1. rxcall'.pc = "input" /\ rxcall'.frame = rxcall.frame /\ rxcall' # Idle
      BY <1>1, <2>2 DEF Idle
    <3> QED
      BY <1>1, <2>1, <2>2, <3>1 DEF FInv, FramesAreThere
  <2>3. CASE ReceiveOver("driver")
    <3>1. rxcall' = Idle /\ where' = [where EXCEPT ![rxcall.frame] = "driver"]
      BY <2>3 DEF ReceiveOver
    <3>2. \A f \in Frames : where'[f] \in {where[f], "driver"} /\ where'[f] # "rx"
      BY <1>1, <3>1 DEF FInv, FramesAreThere
    <3> QED
      BY <1>1, <3>1, <3>2 DEF FInv, FramesAreThere, Holders
  <2> QED
    BY <2>2, <2>3 DEF ReceiveCheck
<1>3. OneDestroys' /\ BehindIsLate' /\ RestIsLate' /\ CoreIsLate'
  BY <1>1 DEF FInv, OneDestroys, BehindIsLate, RestIsLate, Emptying, CoreIsLate, Gone
<1>4. RxIsLate'
  BY <1>1, <1>2 DEF FInv, RxIsLate, Destroying, Gone
<1> QED
  BY <1>2, <1>3, <1>4 DEF FInv

(* A frame that comes to the mailbox behind the removal is late. *)
LEMMA FramesWhenInput ==
  ASSUME CInv, FInv, RxTypeOK, ReceiveInput
  PROVE  FInv'
<1> DEFINE g == rxcall.frame
           m == [kind |-> "frame", frame |-> g]
<1>1. UNCHANGED <<calls, core, interface, late>> /\ rxcall # Idle /\ rxcall' = Idle /\ g \in Frames
  BY DEF ReceiveInput, ReceiveOver, RxTypeOK, Idle
<1>2. /\ where' \in [Frames -> Holders]
      /\ \A f \in Frames : f # g => where'[f] = where[f]
      /\ where'[g] \in {"driver", "mbox"}
      /\ (mbox' = mbox /\ where'[g] = "driver") \/ mbox' = Append(mbox, m)
  BY <1>1 DEF ReceiveInput, ReceiveOver, FInv, Holders
<1>3. m \in FrameMessages /\ m.kind = "frame" /\ m.frame = g
  BY <1>1 DEF FrameMessages
<1>4. Destroying \/ Gone => g \in late
  BY <1>1 DEF FInv, RxIsLate
<1>5. \A f \in Frames : where'[f] # "rx"
  BY <1>2 DEF FInv, FramesAreThere
<1> HIDE DEF g, m
<1>6. DOMAIN mbox = 1 .. Len(mbox) /\ Len(mbox) \in Nat
  BY DEF CInv, CallTypeOK
<1>7. /\ DOMAIN mbox \subseteq DOMAIN mbox' /\ DOMAIN mbox' \subseteq Int
      /\ \A i \in DOMAIN mbox : mbox'[i] = mbox[i]
      /\ \A i \in DOMAIN mbox' : i \notin DOMAIN mbox => mbox'[i] = m /\ \A k \in DOMAIN mbox : k < i
      /\ \A i, k \in DOMAIN mbox' : i \notin DOMAIN mbox /\ k \notin DOMAIN mbox => i = k
      /\ where'[g] = "mbox" => \E i \in DOMAIN mbox' : mbox'[i] = m
  <2>1. CASE mbox' = mbox /\ where'[g] = "driver"
    BY <1>6, <2>1
  <2>2. CASE mbox' = Append(mbox, m)
    <3>1. /\ DOMAIN mbox' = 1 .. Len(mbox) + 1
          /\ \A i \in 1 .. Len(mbox) : mbox'[i] = mbox[i]
          /\ mbox'[Len(mbox) + 1] = m
      BY <1>3, <2>2, AppendedMessages DEF CInv, CallTypeOK
    <3> QED
      BY <1>6, <3>1
  <2> QED
    BY <1>2, <2>1, <2>2
<1>8. FramesAreThere'
  <2>1. \A f \in Frames : where'[f] = "mbox" => \E i \in DOMAIN mbox' : mbox'[i].kind = "frame" /\ mbox'[i].frame = f
    BY <1>2, <1>3, <1>7 DEF FInv, FramesAreThere
  <2>2. \A f \in Frames : where'[f] = "core" => core.pc = "input" /\ core.frame = f
    BY <1>1, <1>2 DEF FInv, FramesAreThere
  <2> QED
    BY <1>1, <1>5, <2>1, <2>2 DEF FramesAreThere
<1>9. OneDestroys' /\ CoreIsLate' /\ RxIsLate'
  BY <1>1 DEF FInv, OneDestroys, CoreIsLate, RxIsLate, Gone
<1>10. \A k \in DOMAIN mbox' : mbox'[k].kind = "api" =>
         k \in DOMAIN mbox /\ mbox'[k] = mbox[k] /\ mbox[k].from \in Callers
  BY <1>3, <1>7, NamesCallers DEF CInv
<1>11. BehindIsLate'
  <2> SUFFICES ASSUME NEW i \in DOMAIN mbox', NEW k \in DOMAIN mbox',
                      mbox'[k].kind = "api", calls[mbox'[k].from].fn = "remove",
                      mbox'[i].kind = "frame", k < i
               PROVE  mbox'[i].frame \in late
    BY <1>1 DEF BehindIsLate
  <2>1. k \in DOMAIN mbox /\ mbox'[k] = mbox[k] /\ Destroying
    BY <1>10 DEF Destroying
  <2>2. CASE i \in DOMAIN mbox
    BY <1>7, <2>1, <2>2 DEF FInv, BehindIsLate
  <2>3. CASE i \notin DOMAIN mbox
    BY <1>3, <1>4, <1>7, <2>1, <2>3
  <2> QED
    BY <2>2, <2>3
<1>12. RestIsLate'
  <2>1. Emptying' => Emptying
    BY <1>1 DEF Emptying, Gone
  <2>2. Emptying => Destroying \/ Gone
    BY NamesCallers DEF CInv, Emptying, Destroying
  <2> QED
    BY <1>1, <1>3, <1>4, <1>7, <2>1, <2>2 DEF FInv, RestIsLate
<1> QED
  BY <1>2, <1>8, <1>9, <1>11, <1>12 DEF FInv

(* Every step keeps the order of frames and removals. *)
LEMMA FramesStep == CInv /\ RxTypeOK /\ FInv /\ [TcpipNext]_tcpipVars => FInv'
<1> SUFFICES ASSUME CInv, RxTypeOK, FInv, [TcpipNext]_tcpipVars
             PROVE  FInv'
  OBVIOUS
<1>1. ASSUME NEW t \in Callers, Caller(t)
      PROVE  FInv'
  BY <1>1, FramesWhenCallGoesOn, FramesWhenPosted, FramesWhenOver DEF Caller
<1>2. ASSUME NEW t \in Callers, NEW fn \in Functions, Call(t, fn)
      PROVE  FInv'
  BY <1>2, FramesWhenCalled
<1>3. CASE Core
  BY <1>3, FramesWhenFetched, FramesWhenRun, FramesWhenDone DEF Core
<1>4. ASSUME NEW f \in Frames, ReceiveFrame(f) \/ SocketRead(f)
      PROVE  FInv'
  BY <1>4, FramesWhenReceived, FramesWhenDone
<1>5. CASE ReceiveCheck \/ ReceiveInput
  BY <1>5, FramesWhenChecked, FramesWhenInput
<1>6. CASE UNCHANGED tcpipVars
  BY <1>6 DEF tcpipVars, FInv, FramesAreThere, OneDestroys, RxIsLate, BehindIsLate, RestIsLate, Emptying,
              CoreIsLate, Destroying, Gone
<1> QED
  BY <1>1, <1>2, <1>3, <1>4, <1>5, <1>6 DEF TcpipNext

(* No frame refers to the interface when esp_netif_destroy frees it,       *)
(* whatever the mailbox held when it was called, other than a frame whose  *)
(* esp_netif_receive was going on then.                                    *)
THEOREM FramesPrecedeRemoval == TcpipSpec => []InterfaceOutlivesFrames
<1>1. TcpipInit => RxTypeOK
  BY DEF TcpipInit, RxTypeOK
<1> QED
  BY <1>1, InitHolds, StepHolds, RxTypeKeeps, InitOfFrames, FramesStep, FramesAreLate, PTL DEF TcpipSpec

-----------------------------------------------------------------------------
(* The composition *)

(* Every behaviour of the composition is one of each part: only the part   *)
(* that was chosen takes steps.                                            *)
LEMMA PartsAreTheirSpecs == PartsSpec => Spec /\ TcpipSpec /\ Pings!Spec /\ Smart!Spec
<1>1. PartsInit => Init /\ TcpipInit /\ Pings!Init /\ Smart!Init
  BY DEF PartsInit
<1>2. ASSUME [PartsNext]_partVars
      PROVE  /\ [Next]_vars /\ [TcpipNext]_tcpipVars
             /\ [Pings!Next]_(Pings!pingVars) /\ [Smart!Next]_(Smart!scVars)
  <2> USE DEF partVars, pingVars, scVars, Pings!pingVars, Smart!scVars
  <2>1. CASE RunPart
    BY <2>1 DEF RunPart
  <2>2. CASE TcpipPart
    BY <2>2 DEF TcpipPart
  <2>3. CASE PingPart
    BY <2>3 DEF PingPart
  <2>4. CASE SmartPart
    BY <2>4 DEF SmartPart
  <2>5. CASE UNCHANGED partVars
    BY <2>5
  <2> QED
    BY <1>2, <2>1, <2>2, <2>3, <2>4, <2>5 DEF PartsNext
<1> QED
  BY <1>1, <1>2, PTL DEF PartsSpec, Spec, TcpipSpec, Pings!Spec, Smart!Spec

(* Whichever part runs, each of them keeps its promise. *)
THEOREM PartsKeepTheirPromises ==
  PartsSpec => [](/\ RunIsTimed /\ CallIsAnswered /\ InterfaceOutlivesFrames
                  /\ ResultIsOfBatch /\ SocketsAreClosed)
BY PartsAreTheirSpecs, TimedRunIsTimed, CallsAreAnswered, FramesPrecedeRemoval,
   PingResultIsOfBatch, AckSocketsAreClosed, PTL
=============================================================================

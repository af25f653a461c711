-------------------------- MODULE AdaptiveTimeout --------------------------
(***************************************************************************)
(* Adaptive RPC timeouts with early replies (ptlrpc.cpp), between a client *)
(* and a server that write RPCs go to; ToON, AtON and AtEpON are set, the  *)
(* server estimates by curve fitting and the client by the maximum, as the *)
(* source selects them (at_srv_algo, at_cli_algo).                         *)
(*                                                                         *)
(* The client gives each RPC a deadline and a timer from its estimates of  *)
(* the service time and of the network latency.  The server keeps the RPCs *)
(* it has not answered in epQ, ordered by deadline, and one timer that     *)
(* fires AtEpMargin seconds before the first deadline: it then sends an    *)
(* early reply and moves the deadline.  An RPC is one object that both     *)
(* sides write, so the client finds the new deadline in it.                *)
(*                                                                         *)
(* Clocks count ticks, TimeUnit of them to a second; estimates are whole   *)
(* seconds.  A message takes 1 to NetMax ticks, in any order (see          *)
(* Network).  The messages of the bulk transfer do not concern this layer. *)
(***************************************************************************)
EXTENDS Naturals, Sequences, FiniteSets, SequencesExt, FiniteSetsExt

CONSTANTS Rpcs,        \* the RPCs that may be sent
          TimeUnit,    \* params.TimeUnit, ticks in a second
          Initial,     \* INITIAL_CONNECT_TIMEOUT
          ServSlack,   \* the seconds added to a service estimate (5)
          AtExtra,     \* params.ptlrpc.AtExtra
          AtEpMargin,  \* params.ptlrpc.AtEpMargin
          AtMax,       \* params.ptlrpc.AtMax
          SubWnds,     \* AT_WIND_CNT
          Step,        \* at_history / at_subwndcnt
          Fits,        \* what the fitted curve may estimate
          NetMax,      \* bound on the latency of a message, in ticks
          LastTick     \* bound: the clock stops there

ASSUME RpcsAssumption == IsFiniteSet(Rpcs)
ASSUME NumbersAssumption ==
  /\ {TimeUnit, AtExtra, AtMax, SubWnds, Step, NetMax} \subseteq Nat \ {0}
  /\ {ServSlack, AtEpMargin, LastTick} \subseteq Nat
  /\ Initial \in 1..AtMax /\ Fits \subseteq 0..AtMax
(* The margin is part of the slack and of what an early reply asks for.    *)
ASSUME MarginAssumption == AtEpMargin <= ServSlack /\ AtEpMargin < AtExtra
(* The network is fast: a message takes less than a second and less than   *)
(* the margin.                                                             *)
ASSUME NetAssumption == NetMax < TimeUnit /\ NetMax < AtEpMargin * TimeUnit

VARIABLES now,      \* Event::Clock()
          phase,    \* how far each RPC is
          deadline, \* RPC::deadline
          arrival,  \* RPC::arrivalTime
          timedout, \* RPC::timedout
          timer,    \* RPC::timer: when it fires, 0 if it is not set
          epQ,      \* RPCs with erp_timed set
          epTimer,  \* when the timer of early replies fires, 0 if not set
          EST,      \* the server's history of service times
          serv,     \* the client's: iat_service_estimate
          netlat,   \* the client's: iat_net_latency
          net,      \* messages on their way
          aborted,  \* an assertion has stopped the simulation
          added     \* history: largest value added to EST in each second

clientVars == <<timedout, serv, netlat>>
serverVars == <<epQ, epTimer, EST, added>>
vars == <<now, phase, deadline, arrival, timer, clientVars, serverVars,
          net, aborted>>

Seconds(t) == t \div TimeUnit

(* The sliding window of an adaptive_timeout: hist[0] belongs to the Step  *)
(* seconds from start on, hist[i] to those i steps earlier.                *)
Windows == [start : Nat, hist : [0..(SubWnds - 1) -> Nat], max : Nat]

Init ==
  /\ now = 0
  /\ phase = [r \in Rpcs |-> "new"]
  /\ deadline = [r \in Rpcs |-> 0] /\ arrival = [r \in Rpcs |-> 0]
  /\ timedout = [r \in Rpcs |-> FALSE] /\ timer = [r \in Rpcs |-> 0]
  /\ epQ = {} /\ epTimer = 0
  /\ EST = [start |-> 0, hist |-> [i \in 0..(SubWnds - 1) |-> 0], max |-> 0]
  /\ serv = [EST EXCEPT !.max = Initial]
  /\ netlat = [start |-> 0, est |-> 0]
  /\ net = {} /\ aborted = FALSE
  /\ added = [s \in 0..Seconds(LastTick) |-> 0]
-----------------------------------------------------------------------------
(* Wrong: the largest value of all is never forgotten. *)
AtAddForever(at, v) ==
  IF v = 0 THEN at
  ELSE [start |-> IF at.start = 0 THEN Seconds(now) ELSE at.start
                    + ((Seconds(now) - at.start) \div Step) * Step,
        hist |-> [at.hist EXCEPT ![0] = v],
        max |-> IF at.start = 0 THEN v ELSE Max({v, at.max})]

(* at_add of the value v: the largest value of each sub window is kept,    *)
(* and the windows slide with the time of the last addition.  A history    *)
(* that begins in second 0 begins again with the next value.               *)
AtAdd(at, v) ==
  LET s == Seconds(now)
      shift == (s - at.start) \div Step
      h == [i \in 0..(SubWnds - 1) |->
              IF i = 0 THEN v ELSE IF i >= shift THEN at.hist[i - shift] ELSE 0]
  IN  IF v = 0 THEN at
      ELSE IF at.start = 0
      THEN [start |-> s, hist |-> [at.hist EXCEPT ![0] = v], max |-> v]
      ELSE IF shift = 0
      THEN IF v > at.hist[0]
           THEN [at EXCEPT !.hist[0] = v, !.max = Max({v, @})] ELSE at
      ELSE [start |-> at.start + shift * Step, hist |-> h,
            max |-> Max({h[i] : i \in 0..(SubWnds - 1)})]

(* at_get of the client's service time, with AT_FLG_MAX. *)
ServEstimate == Min({serv.max, AtMax})

(* at_add of the network latency.  Its flags are 0, for which at_add keeps *)
(* the estimate after the first addition.                                  *)
AddLatency(v) ==
  IF netlat.start = 0 THEN [start |-> Seconds(now), est |-> Min({v, AtMax})]
  ELSE netlat
-----------------------------------------------------------------------------
(* ClientSend: the deadline of a new RPC. *)
ClientSend(r) ==
  /\ phase[r] = "new" /\ now + NetMax < LastTick
  /\ phase' = [phase EXCEPT ![r] = "sent"]
  /\ LET d == now + (ServEstimate + ServEstimate \div 4 + ServSlack
                       + netlat.est) * TimeUnit
     IN  /\ deadline' = [deadline EXCEPT ![r] = d]
         /\ timer' = [timer EXCEPT ![r] = d]
         /\ aborted' = (d <= now + AtEpMargin * TimeUnit)
  /\ net' = net \cup {[type |-> "request", rpc |-> r, sent |-> now, est |-> 0]}
  /\ UNCHANGED <<now, arrival, clientVars, serverVars>>

Margin == AtEpMargin * TimeUnit

(* ptlrpc_at_set_timer: the timer for the first of the RPCs in Q, whose    *)
(* deadlines are dl; it must be ahead, or be set to this moment already.   *)
Expire(Q, dl) == Min({dl[r] : r \in Q}) - Margin
CanSetTimer(Q, dl) ==
  \A r \in Q : \/ dl[r] > now + Margin
               \/ dl[r] = now + Margin /\ epTimer = now

(* ServerRecv: the RPC waits for its answer. *)
ServerRecv(m) ==
  /\ m.type = "request" /\ now > m.sent
  /\ phase' = [phase EXCEPT ![m.rpc] = "arrived"]
  /\ arrival' = [arrival EXCEPT ![m.rpc] = now]
  /\ epQ' = epQ \cup {m.rpc}
  /\ aborted' = ~CanSetTimer(epQ', deadline)
  /\ epTimer' = IF aborted' THEN epTimer ELSE Expire(epQ', deadline)
  /\ net' = net \ {m}
  /\ UNCHANGED <<now, deadline, timer, clientVars, EST, added>>

\* The RPCs of Q whose deadline is near, in the order of their deadlines.
Near(Q) == {r \in Q : deadline[r] <= now + Margin}
Orders(S) ==
  {q \in SetToSeqs(S) :
     \A i, j \in DOMAIN q : i <= j => deadline[q[i]] <= deadline[q[j]]}

(* Wrong: the time that has passed is not counted in. *)
SendEarlyReplyNoElapsed(s, r) ==
  LET e == AtAdd(s.EST, AtExtra)
      d == arrival[r] + e.max * TimeUnit
  IN  [EST |-> e,
       deadline |-> [s.deadline EXCEPT ![r] = d],
       net |-> s.net \cup
                 {[type |-> "early", rpc |-> r, sent |-> now, est |-> e.max]},
       top |-> Max({s.top, AtExtra}),
       ok |-> s.ok /\ d > s.deadline[r] /\ d > now + Margin]

(* ptlrpc_at_send_early_reply, on the state s of the server: extra time is *)
(* asked for, and the RPC gets the deadline that the longest service time  *)
(* in the history suggests.                                                *)
SendEarlyReply(s, r) ==
  LET elapsed == Seconds(now - arrival[r])
      e == AtAdd(s.EST, AtExtra + elapsed)
      d == arrival[r] + e.max * TimeUnit
  IN  [EST |-> e,
       deadline |-> [s.deadline EXCEPT ![r] = d],
       net |-> s.net \cup
                 {[type |-> "early", rpc |-> r, sent |-> now, est |-> e.max]},
       top |-> Max({s.top, AtExtra + elapsed}),
       ok |-> s.ok /\ d > s.deadline[r] /\ d > now + Margin]

(* The RPCs of q get their early replies, one after the other. *)
SendEarlyReplies(s0, q) ==
  LET s[k \in 0..Len(q)] ==
        IF k = 0 THEN s0 ELSE SendEarlyReply(s[k - 1], q[k])
  IN  s[Len(q)]

(* Wrong: the timer is set only after early replies. *)
CheckTimedNoTimer(Q, e, v, t, msgs) ==
  \E q \in Orders(Near(Q)) :
    LET s == SendEarlyReplies([EST |-> e, deadline |-> deadline, net |-> msgs,
                               top |-> v, ok |-> TRUE], q)
    IN  /\ epQ' = Q
        /\ EST' = s.EST
        /\ added' = [added EXCEPT ![Seconds(now)] = Max({@, s.top})]
        /\ deadline' = s.deadline
        /\ net' = s.net
        /\ aborted' = ~s.ok
        /\ epTimer' = IF q = <<>> THEN t ELSE Expire(Q, s.deadline)

(* ptlrpc_at_check_timed with the RPCs Q in epQ, the history e, the value  *)
(* v just added to it, and the timer set to t: everyone expiring soon gets *)
(* an early reply, and the timer is set for the first of all.              *)
CheckTimed(Q, e, v, t, msgs) ==
  \E q \in Orders(Near(Q)) :
    LET s == SendEarlyReplies(
               [EST |-> e, deadline |-> deadline, net |-> msgs, top |-> v,
                ok |-> \A r \in Q : deadline[r] >= now], q)
    IN  /\ epQ' = Q
        /\ EST' = s.EST
        /\ added' = [added EXCEPT ![Seconds(now)] = Max({@, s.top})]
        /\ deadline' = s.deadline
        /\ net' = s.net
        /\ aborted' = ~(s.ok /\ CanSetTimer(Q, s.deadline))
        /\ epTimer' = IF Q = {} \/ aborted' THEN t ELSE Expire(Q, s.deadline)

(* CheckEarlyReply: the server's timer fires. *)
CheckEarlyReply ==
  /\ epTimer # 0 /\ now = epTimer
  /\ CheckTimed(epQ, EST, 0, 0, net)
  /\ UNCHANGED <<now, phase, arrival, timer, clientVars>>

(* ServerSend of the answer: the service time goes into the history, and   *)
(* the estimate of the fitted curve to the client.                         *)
ServerSend(r) ==
  LET v == Max({1, Seconds(now - arrival[r])})
  IN  /\ phase[r] = "arrived"
      /\ phase' = [phase EXCEPT ![r] = "replied"]
      /\ \E e \in Fits :
           CheckTimed(epQ \ {r}, AtAdd(EST, v), v, epTimer,
             net \cup {[type |-> "complete", rpc |-> r, sent |-> now, est |-> e]})
      /\ UNCHANGED <<now, arrival, timer, clientVars>>

(* What ClientRecv learns from either reply. *)
Learn(m) ==
  /\ serv' = AtAdd(serv, m.est)
  /\ netlat' = AddLatency(Seconds(now - m.sent) + 1)

(* ClientRecv of the answer: the RPC is complete, its timer is deleted     *)
(* unless it has fired.                                                    *)
ClientRecv(m) ==
  /\ m.type = "complete" /\ now > m.sent
  /\ phase' = [phase EXCEPT ![m.rpc] = "done"]
  /\ timer' = [timer EXCEPT ![m.rpc] = IF timedout[m.rpc] THEN @ ELSE 0]
  /\ Learn(m)
  /\ net' = net \ {m}
  /\ UNCHANGED <<now, deadline, arrival, timedout, serverVars, aborted>>

(* Wrong: the timer stays where it is. *)
ClientRecvEarlyReplyIgnored(m) ==
  /\ m.type = "early" /\ now > m.sent
  /\ Learn(m)
  /\ net' = net \ {m}
  /\ UNCHANGED <<now, phase, deadline, arrival, timer, timedout, serverVars,
                 aborted>>

(* ClientRecv of an early reply: the timer is set to the deadline that the *)
(* server has written into the RPC.  The test of timedout is one of the    *)
(* early reply itself, which is never set.                                 *)
ClientRecvEarlyReply(m) ==
  LET d == deadline[m.rpc]
  IN  /\ m.type = "early" /\ now > m.sent
      /\ aborted' = (timer[m.rpc] # d /\ d <= now)
      /\ timer' = [timer EXCEPT ![m.rpc] = d]
      /\ Learn(m)
      /\ net' = net \ {m}
      /\ UNCHANGED <<now, phase, deadline, arrival, timedout, serverVars>>

(* TimeoutEvent: the client's timer fires. *)
TimeoutEvent(r) ==
  /\ timer[r] # 0 /\ now = timer[r]
  /\ timer' = [timer EXCEPT ![r] = 0]
  /\ timedout' = [timedout EXCEPT ![r] = TRUE]
  /\ UNCHANGED <<now, phase, deadline, arrival, serv, netlat, serverVars,
                 net, aborted>>

(* Time goes on to the next tick when nothing is due at this one. *)
Tick ==
  /\ now < LastTick
  /\ epTimer # now \/ now = 0
  /\ \A r \in Rpcs : timer[r] # now \/ now = 0
  /\ \A m \in net : now < m.sent + NetMax
  /\ now' = now + 1
  /\ UNCHANGED <<phase, deadline, arrival, timer, clientVars, serverVars,
                 net, aborted>>

Next ==
  /\ ~aborted
  /\ \/ \E r \in Rpcs : ClientSend(r) \/ ServerSend(r) \/ TimeoutEvent(r)
     \/ \E m \in net : ServerRecv(m) \/ ClientRecv(m) \/ ClientRecvEarlyReply(m)
     \/ CheckEarlyReply
     \/ Tick

Spec == Init /\ [][Next]_vars
-----------------------------------------------------------------------------
TypeOK ==
  /\ now \in 0..LastTick
  /\ phase \in [Rpcs -> {"new", "sent", "arrived", "replied", "done"}]
  /\ {deadline, arrival, timer} \subseteq [Rpcs -> Nat]
  /\ timedout \in [Rpcs -> BOOLEAN]
  /\ epQ \subseteq Rpcs /\ epTimer \in Nat
  /\ {EST, serv} \subseteq Windows
  /\ netlat \in [start : Nat, est : 0..AtMax]
  /\ net \subseteq [type : {"request", "early", "complete"}, rpc : Rpcs,
                    sent : 0..now, est : Nat]
  /\ aborted \in BOOLEAN
  /\ added \in [0..Seconds(LastTick) -> Nat]

(* The purpose of it all: as long as the network delivers within the       *)
(* margin, no RPC that the server works on, for however long, times out at *)
(* the client (ptlrpc.cpp:459-511, 533-573, 864-877).                      *)
NoFalseTimeout == \A r \in Rpcs : timedout[r] => phase[r] = "done"

(* The timers follow the deadlines, which both sides write: the server's   *)
(* is set for the first of the RPCs it has not answered, and the client's  *)
(* is that of the RPC, or an early reply is on its way to move it          *)
(* (ptlrpc.cpp:433-457, 646-660, 864-877).                                 *)
TimersMatchDeadlines ==
  /\ TypeOK
  /\ epQ = {r \in Rpcs : phase[r] = "arrived"}
  /\ epQ # {} => epTimer = Expire(epQ, deadline)
  /\ \A r \in Rpcs :
       phase[r] \in {"sent", "arrived", "replied"} =>
         \/ timer[r] = deadline[r]
         \/ \E m \in net : m.type = "early" /\ m.rpc = r

(* What the server remembers is the largest service time of the last       *)
(* SubWnds windows, up to that of the last addition: no slow RPC is        *)
(* forgotten early or remembered for too long (ptlrpc.cpp:218-300).  The   *)
(* history of second 0 is lost.                                            *)
EstimateIsWindowMax ==
  EST.start > 0 =>
    LET first == Max({1, EST.start + Step - SubWnds * Step})
        last == Max({s \in DOMAIN added : added[s] > 0})
    IN  /\ last \in EST.start..(EST.start + Step - 1)
        /\ EST.max = Max({added[s] : s \in first..last})

(* The assertions on deadlines and timers (ptlrpc.cpp:440, 453, 483, 552,  *)
(* 654, event.cpp:89) hold: a timer is never set to a moment that has      *)
(* passed, and an early reply always extends the deadline.  That of line   *)
(* 873 is left out: the srvdl it reads is 0, for RPC::Copy leaves it out.  *)
NeverAborts == ~aborted
=============================================================================

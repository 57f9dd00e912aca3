-------------------------- MODULE L2capOpen_proofs ---------------------------
(***************************************************************************)
(* Proofs about the configuration and the disconnection of L2capChannel:   *)
(* no end is open while the other still waits for something that will not  *)
(* come, what an end awaits is under way, and the callback of each client  *)
(* is called once when it disconnects.                                     *)
(***************************************************************************)
EXTENDS L2capChannel_proofs

-----------------------------------------------------------------------------
(* The states of an end that accepted what its peer asked for.             *)
Accepted == {"WAIT_SEND_CONFIG", "WAIT_CONFIG_RSP", "OPEN"}
Accepts(m) == m.code = "CONFIG_RSP" /\ ~m.cont /\ m.res = "ok"
Hears(e) == expected[e].count > 0 /\ expected[e].code = "CONFIG_RSP"

(* e hears that it was accepted: the response is under way and awaited.    *)
Answered(e) ==
  /\ state[e] \in Waiting /\ Hears(e)
  /\ \E i \in 1 .. Len(wire[Peer(e)]) :
       Accepts(wire[Peer(e)][i]) /\ wire[Peer(e)][i].id = expected[e].id
(* A peer that accepted the configuration of e has told e so,              *)
AcceptTold(e) ==
  state[Peer(e)] \in Accepted /\ link = Ends =>
    state[e] \in Settled \cup Closing \/ Answered(e)
(* and nobody else has;                                                    *)
ToldAccepted(e) ==
  \/ state[e] \in Settled
  \/ \E i \in 1 .. Len(wire[Peer(e)]) : Accepts(wire[Peer(e)][i])
  => state[Peer(e)] \in Accepted \cup Closing
(* e listens to the response to each complete request it has sent.         *)
Listens(e) ==
  state[e] \in Waiting => \A i \in 1 .. Len(wire[e]) :
    wire[e][i].code = "CONFIG_REQ" =>
      /\ wire[e][i].cont => configure_req[Peer(e)].kind # "rest"
      /\ ~wire[e][i].cont => Hears(e) /\ wire[e][i].id = expected[e].id
Opens(e) == AcceptTold(e) /\ ToldAccepted(e) /\ Listens(e)
OpenInv == \A e \in Ends : Opens(e)

(* A step that leaves the configuration of e where it was, or gives it up. *)
Beside(e) ==
  LET p == Peer(e) IN
  /\ Within(wire'[e], wire[e], "CONFIG_REQ")
  /\ Within(wire'[p], wire[p], "CONFIG_RSP")
  /\ configure_req'[p].kind = configure_req[p].kind
  /\ link' = Ends => link = Ends
  /\ Answered(e) /\ link' = Ends => Answered(e)' \/ state'[e] \in Closing
  /\ state[e] \in Settled => state'[e] \in Settled \cup Closing
  /\ state[e] \in Closing => state'[e] \in Closing
  /\ state'[e] \in Settled => state[e] \in Settled
  /\ state'[e] \in Waiting => state[e] \in Waiting /\ expected'[e] = expected[e]
  /\ state'[p] \in Accepted => state[p] \in Accepted
  /\ state[p] \in Accepted \cup Closing => state'[p] \in Accepted \cup Closing

LEMMA BesideKeeps ==
  ASSUME NEW e \in Ends, Opens(e), Beside(e)
  PROVE  Opens(e)'
<1> DEFINE p == Peer(e)
<1>1. AcceptTold(e)'
  BY DEF Opens, AcceptTold, Beside
<1>2. ToldAccepted(e)'
  <2>1. ASSUME NEW i \in 1 .. Len(wire'[p]), Accepts(wire'[p][i])
        PROVE  \E j \in 1 .. Len(wire[p]) : Accepts(wire[p][j])
    BY <2>1 DEF Beside, Within, Accepts
  <2>2. \/ state'[e] \in Settled
        \/ \E i \in 1 .. Len(wire'[p]) : Accepts(wire'[p][i])
        => state'[p] \in Accepted \cup Closing
    BY <2>1 DEF Opens, ToldAccepted, Beside
  <2> QED BY <2>2 DEF ToldAccepted, Accepts
<1>3. Listens(e)'
  <2> SUFFICES ASSUME state'[e] \in Waiting, NEW i \in 1 .. Len(wire'[e]),
                      wire'[e][i].code = "CONFIG_REQ"
               PROVE  /\ wire'[e][i].cont => configure_req'[p].kind # "rest"
                      /\ ~wire'[e][i].cont =>
                           Hears(e)' /\ wire'[e][i].id = expected'[e].id
    BY DEF Listens
  <2>1. PICK j \in 1 .. Len(wire[e]) : wire'[e][i] = wire[e][j]
    BY DEF Beside, Within
  <2>2. state[e] \in Waiting /\ expected'[e] = expected[e]
        /\ configure_req'[p].kind = configure_req[p].kind
    BY DEF Beside
  <2> QED BY <2>1, <2>2 DEF Opens, Listens, Hears
<1> QED BY <1>1, <1>2, <1>3 DEF Opens

(* What is under way stays under way.                                      *)
LEMMA AnsweredStays ==
  ASSUME NEW e \in Ends, Answered(e), state'[e] \in Waiting,
         expected'[e] = expected[e], Len(wire[Peer(e)]) \in Nat,
         \A i \in 1 .. Len(wire[Peer(e)]) :
           wire[Peer(e)][i].code = "CONFIG_RSP"
               /\ wire[Peer(e)][i].id = expected[e].id =>
             \E j \in 1 .. Len(wire'[Peer(e)]) :
               wire'[Peer(e)][j] = wire[Peer(e)][i]
  PROVE  Answered(e)'
<1> DEFINE p == Peer(e)
<1>1. PICK i \in 1 .. Len(wire[p]) :
        Accepts(wire[p][i]) /\ wire[p][i].id = expected[e].id
  BY DEF Answered
<1>2. PICK j \in 1 .. Len(wire'[p]) : wire'[p][j] = wire[p][i]
  BY <1>1 DEF Accepts
<1>3. Accepts(wire'[p][j]) /\ wire'[p][j].id = expected'[e].id
  BY <1>1, <1>2
<1>4. Hears(e)'
  BY DEF Answered, Hears
<1> QED BY <1>3, <1>4 DEF Answered, Accepts

LEMMA BehindStays ==
  ASSUME NEW w \in Seq(Signals), NEW s \in Seq(Signals), NEW v, Behind(v, w, s),
         NEW i \in 1 .. Len(w)
  PROVE  \E j \in 1 .. Len(v) : v[j] = w[i]
<1>1. CASE v = w
  BY <1>1
<1>2. CASE v = w \o s
  <2>1. i \in 1 .. Len(w \o s) /\ (w \o s)[i] = w[i]
    <3>1. Len(w \o s) = Len(w) + Len(s) /\ Len(s) \in Nat /\ Len(w) \in Nat
      BY Joining
    <3>2. (w \o s)[i] = w[i]
      BY Joining
    <3> QED BY <3>1, <3>2
  <2> QED BY <1>2, <2>1
<1> QED BY <1>1, <1>2 DEF Behind

(* Nothing of w is lost in v.                                              *)
Stays(v, w) == \A i \in 1 .. Len(w) : \E j \in 1 .. Len(v) : v[j] = w[i]
LEMMA BehindAll ==
  ASSUME NEW w \in Seq(Signals), NEW s \in Seq(Signals), NEW v, Behind(v, w, s)
  PROVE  Stays(v, w)
  BY BehindStays DEF Stays

LEMMA TailStays ==
  ASSUME NEW w \in Seq(Signals), w # << >>, NEW i \in 1 .. Len(w), i # 1
  PROVE  \E j \in 1 .. Len(Tail(w)) : Tail(w)[j] = w[i]
<1>1. i - 1 \in 1 .. Len(Tail(w)) /\ Tail(w)[i - 1] = w[(i - 1) + 1]
  BY Consuming
<1> QED BY <1>1

(* A step after which nothing of a configuration has begun.                *)
LEMMA OpenFresh ==
  ASSUME \A x \in Ends : /\ state'[x] \notin Accepted \cup Settled \cup Waiting
                         /\ None(wire'[x], "CONFIG_RSP")
  PROVE  OpenInv'
<1> SUFFICES ASSUME NEW e \in Ends PROVE Opens(e)'
  BY DEF OpenInv
<1>1. Peer(e) \in Ends
  BY Peers
<1> QED BY <1>1 DEF Opens, AcceptTold, ToldAccepted, Listens, Accepts, None

-----------------------------------------------------------------------------
(* The steps that do not configure.                                        *)
GivesUp(s, t) ==
  t = s \/ t \in Closing \/ (s = "WAIT_CONNECT_RSP" /\ t = "WAIT_CONFIG")
LEMMA GivingUp ==
  ASSUME NEW s, NEW t, GivesUp(s, t)
  PROVE  /\ s \in Settled => t \in Settled \cup Closing
         /\ s \in Closing => t \in Closing
         /\ s \in Waiting => t = s \/ t \in Closing
         /\ t \in Settled => s \in Settled
         /\ t \in Waiting => s \in Waiting /\ t = s
         /\ t \in Accepted => s \in Accepted
         /\ s \in Accepted \cup Closing => t \in Accepted \cup Closing
  BY DEF GivesUp, Settled, Closing, Waiting, Accepted

LEMMA OpenReceived ==
  ASSUME ChanInv, OpenInv, NEW e \in Ends, wire[Peer(e)] # << >>,
         NEW m, m = Head(wire[Peer(e)]), m.code # "CONFIG_RSP" \/ ~Handled(e, m),
         NEW s \in Seq(Signals), Answer(e, s), None(s, "CONN_REQ"),
         None(s, "CONFIG_REQ"), None(s, "CONFIG_RSP"),
         UNCHANGED <<configure_req, link>>,
         GivesUp(state[e], state'[e]), state'[Peer(e)] = state[Peer(e)],
         state'[e] \in Waiting => expected'[e] = expected[e],
         expected'[Peer(e)] = expected[Peer(e)]
  PROVE  OpenInv'
<1> DEFINE p == Peer(e)
<1>1. /\ p \in Ends /\ p # e /\ Peer(p) = e /\ \A x \in Ends : x = e \/ x = p
      /\ wire[e] \in Seq(Signals) /\ wire[p] \in Seq(Signals)
      /\ Opens(e) /\ Opens(p)
  BY Peers DEF ChanInv, ChanTypes, OpenInv
<1>2. m = wire[p][1]
  BY Handing
<1>3. /\ wire'[p] = Tail(wire[p]) /\ Behind(wire'[e], wire[e], s)
  BY Received
<1>4. /\ Within(wire'[e], wire[e], "CONFIG_REQ")
      /\ Within(wire'[e], wire[e], "CONFIG_RSP")
      /\ Within(wire'[p], wire[p], "CONFIG_REQ")
      /\ Within(wire'[p], wire[p], "CONFIG_RSP")
  BY <1>1, <1>3, WithinBehind, WithinTail
<1>5. Len(wire[e]) \in Nat /\ Len(wire[p]) \in Nat
  BY <1>1
<1>6. Beside(e)
  <2>1. ASSUME Answered(e), state'[e] \notin Closing
        PROVE  Answered(e)'
    <3>1. state'[e] \in Waiting /\ expected'[e] = expected[e]
      BY <2>1, GivingUp DEF Answered
    <3>2. ASSUME NEW i \in 1 .. Len(wire[p]), wire[p][i].code = "CONFIG_RSP",
                 wire[p][i].id = expected[e].id
          PROVE  i # 1
      <4> SUFFICES ASSUME i = 1 PROVE FALSE
        OBVIOUS
      <4>1. m.code = "CONFIG_RSP" /\ m.id = expected[e].id
        BY <1>2, <3>2
      <4>2. Handled(e, m)
        BY <2>1, <4>1 DEF Answered, Hears, Handled, Matches, Waiting
      <4> QED BY <4>1, <4>2
    <3>3. ASSUME NEW i \in 1 .. Len(wire[p]), wire[p][i].code = "CONFIG_RSP",
                 wire[p][i].id = expected[e].id
          PROVE  \E j \in 1 .. Len(wire'[p]) : wire'[p][j] = wire[p][i]
      BY <1>1, <1>3, <3>2, <3>3, TailStays
    <3> QED BY <1>5, <2>1, <3>1, <3>3, AnsweredStays
  <2> QED BY <1>4, <2>1, GivingUp DEF Beside, Accepted, Closing
<1>7. Beside(p)
  <2>1. ASSUME Answered(p)
        PROVE  Answered(p)'
    <3>1. state'[p] \in Waiting
      BY <2>1 DEF Answered
    <3>2. \A i \in 1 .. Len(wire[e]) :
            \E j \in 1 .. Len(wire'[e]) : wire'[e][j] = wire[e][i]
      <4>1. Stays(wire'[e], wire[e])
        BY <1>1, <1>3, BehindAll, Zenon
      <4> QED BY <4>1 DEF Stays
    <3> QED BY <1>1, <1>5, <2>1, <3>1, <3>2, AnsweredStays
  <2> QED BY <1>1, <1>4, <2>1, GivingUp DEF Beside
<1> QED BY <1>1, <1>6, <1>7, BesideKeeps DEF OpenInv

LEMMA OpenSent ==
  ASSUME ChanInv, OpenInv, NEW e \in Ends, NEW s \in Seq(Signals), Send(e, s),
         None(s, "CONFIG_REQ"), None(s, "CONFIG_RSP"),
         UNCHANGED <<configure_req, link>>,
         GivesUp(state[e], state'[e]), state'[Peer(e)] = state[Peer(e)],
         state'[e] \in Waiting => expected'[e] = expected[e],
         expected'[Peer(e)] = expected[Peer(e)]
  PROVE  OpenInv'
<1> DEFINE p == Peer(e)
<1>1. /\ p \in Ends /\ p # e /\ Peer(p) = e /\ \A x \in Ends : x = e \/ x = p
      /\ wire[e] \in Seq(Signals) /\ wire[p] \in Seq(Signals)
      /\ Opens(e) /\ Opens(p) /\ ChanTypes
  BY Peers DEF ChanInv, ChanTypes, OpenInv
<1>2. wire'[p] = wire[p] /\ Behind(wire'[e], wire[e], s)
  BY <1>1, SendEffect
<1>3. /\ Within(wire'[e], wire[e], "CONFIG_REQ")
      /\ Within(wire'[e], wire[e], "CONFIG_RSP")
      /\ Within(wire'[p], wire[p], "CONFIG_REQ")
      /\ Within(wire'[p], wire[p], "CONFIG_RSP")
  BY <1>1, <1>2, WithinBehind, WithinSame
<1>4. Len(wire[e]) \in Nat /\ Len(wire[p]) \in Nat
  BY <1>1
<1>5. Beside(e)
  <2>1. ASSUME Answered(e), state'[e] \notin Closing
        PROVE  Answered(e)'
    <3>1. state'[e] \in Waiting /\ expected'[e] = expected[e]
      BY <2>1, GivingUp DEF Answered
    <3>2. ASSUME NEW i \in 1 .. Len(wire[p])
          PROVE  \E j \in 1 .. Len(wire'[p]) : wire'[p][j] = wire[p][i]
      <4>1. i \in 1 .. Len(wire'[p]) /\ wire'[p][i] = wire[p][i]
        BY <1>2
      <4> QED BY <4>1
    <3> QED BY <1>4, <2>1, <3>1, <3>2, AnsweredStays
  <2> QED BY <1>3, <2>1, GivingUp DEF Beside, Accepted, Closing
<1>6. Beside(p)
  <2>1. ASSUME Answered(p)
        PROVE  Answered(p)'
    <3>1. state'[p] \in Waiting
      BY <2>1 DEF Answered
    <3>2. ASSUME NEW i \in 1 .. Len(wire[e])
          PROVE  \E j \in 1 .. Len(wire'[e]) : wire'[e][j] = wire[e][i]
      <4>1. Stays(wire'[e], wire[e])
        BY <1>1, <1>2, BehindAll, Zenon
      <4> QED BY <4>1 DEF Stays
    <3> QED BY <1>1, <1>4, <2>1, <3>1, <3>2, AnsweredStays
  <2> QED BY <1>1, <1>3, <2>1, GivingUp DEF Beside
<1> QED BY <1>1, <1>5, <1>6, BesideKeeps DEF OpenInv

LEMMA ConnectionRequestOpen ==
  ASSUME ChanInv, ConnectionRequest
  PROVE  OpenInv'
<1> DEFINE e == "outgoing"
           id == NextId(last_signal_id[e])
           s == <<Plain("CONN_REQ", id)>>
<1>1. /\ last_signal_id[e] = 0 /\ Send(e, s)
      /\ state' = [state EXCEPT ![e] = "WAIT_CONNECT_RSP"]
  BY DEF ConnectionRequest, Goto
<1>2. ChanTypes /\ e \in Ends /\ Peer(e) = "incoming" /\ id \in Nat
  BY OutIn, NextIds DEF ChanInv, ChanTypes
<1>3. s \in Seq(Signals) /\ None(s, "CONFIG_RSP")
  <2>1. "CONN_REQ" \in Codes
    BY DEF Codes
  <2>2. Plain("CONN_REQ", id) \in Signals /\ Plain("CONN_REQ", id).code = "CONN_REQ"
    BY <1>2, <2>1, Plains
  <2> QED BY <2>2, NoneShort
<1> HIDE DEF s
<1>4. /\ wire'["incoming"] = wire["incoming"] /\ Behind(wire'[e], wire[e], s)
  BY <1>1, <1>2, <1>3, SendEffect
<1>5. state["incoming"] = "NONE" /\ \A x \in Ends : wire[x] = << >>
  BY <1>1 DEF ChanInv, NotBegun
<1>6. None(<< >>, "CONFIG_RSP") /\ << >> \o s = s
  BY <1>3 DEF None
<1>7. None(wire'[e], "CONFIG_RSP") /\ None(wire'["incoming"], "CONFIG_RSP")
  BY <1>2, <1>3, <1>4, <1>5, <1>6, OutIn DEF Behind
<1>8. state'[e] = "WAIT_CONNECT_RSP" /\ state'["incoming"] = "NONE"
  BY <1>1, <1>2, <1>5, OutIn DEF ChanTypes
<1>9. {"WAIT_CONNECT_RSP", "NONE"} \cap (Accepted \cup Settled \cup Waiting) = {}
  BY DEF Accepted, Settled, Waiting
<1> QED BY <1>7, <1>8, <1>9, OpenFresh DEF Ends

LEMMA HandleConnectionReqOpen ==
  ASSUME ChanInv, OpenInv, NEW e \in Ends, wire[Peer(e)] # << >>,
         NEW m, m = Head(wire[Peer(e)]),
         NEW served \in BOOLEAN, HandleConnectionReq(e, m, served)
  PROVE  OpenInv'
<1> DEFINE p == Peer(e)
           r == Signal("CONN_RSP", m.id, FALSE, NoMtu,
                       IF served THEN "ok" ELSE "refused")
<1>1. /\ m.code = "CONN_REQ" /\ Answer(e, <<r>>)
      /\ state' = [state EXCEPT ![e] = "WAIT_CONFIG"] \/ state' = state
  BY DEF HandleConnectionReq, Goto
<1>2. /\ p \in Ends /\ p # e /\ wire[p] \in Seq(Signals)
      /\ state \in [Ends -> States]
      /\ m \in Signals /\ m = wire[p][1] /\ 1 \in 1 .. Len(wire[p])
  BY Handing
<1>3. r \in Signals /\ r.code = "CONN_RSP"
  BY <1>2 DEF Signal, Signals, Codes, Options, Results
<1> HIDE DEF r
<1>4. /\ <<r>> \in Seq(Signals) /\ None(<<r>>, "CONN_REQ")
      /\ None(<<r>>, "CONFIG_RSP")
  BY <1>3, NoneShort
<1>5. wire'[p] = Tail(wire[p]) /\ Behind(wire'[e], wire[e], <<r>>)
  BY <1>1, <1>4, Received
<1>6. /\ p = "outgoing" /\ e = "incoming" /\ Len(wire[p]) = 1
      /\ wire[e] = << >> /\ state[e] = "NONE"
      /\ state[p] \in {"WAIT_CONNECT_RSP", "NONE"}
  BY <1>1, <1>2, OutIn DEF ChanInv, Requested, Ends
<1>7. None(wire'[p], "CONFIG_RSP")
  <2>1. Len(Tail(wire[p])) = 0
    BY <1>2, <1>6, Consuming
  <2>2. Len(wire'[p]) = 0
    BY <1>5, <2>1
  <2>3. 1 .. 0 = {}
    OBVIOUS
  <2> QED BY <2>2, <2>3 DEF None
<1>8. None(wire'[e], "CONFIG_RSP")
  <2>1. None(<< >>, "CONFIG_RSP") /\ << >> \o <<r>> = <<r>>
    BY <1>4 DEF None
  <2> QED BY <1>4, <1>5, <1>6, <2>1 DEF Behind
<1>9. /\ state'[e] \in {"WAIT_CONFIG", "NONE"}
      /\ state'[p] \in {"WAIT_CONNECT_RSP", "NONE"}
  BY <1>1, <1>2, <1>6
<1>10. {"WAIT_CONFIG", "WAIT_CONNECT_RSP", "NONE"}
         \cap (Accepted \cup Settled \cup Waiting) = {}
  BY DEF Accepted, Settled, Waiting
<1>11. \A x \in Ends : x = e \/ x = p
  BY Peers
<1> QED BY <1>7, <1>8, <1>9, <1>10, <1>11, OpenFresh

LEMMA ResponseOpen ==
  ASSUME ChanInv, OpenInv, NEW e \in Ends, wire[Peer(e)] # << >>,
         NEW m, m = Head(wire[Peer(e)]),
         \/ HandleConnectResp(e, m) \/ HandleDisconnectResp(e, m)
         \/ IgnoreResponse(e, m)
  PROVE  OpenInv'
<1>1. /\ state \in [Ends -> States] /\ expected \in [Ends -> Expectations]
      /\ Peer(e) \in Ends /\ Peer(e) # e /\ ChanTypes
  BY Handing
<1>2. /\ << >> \in Seq(Signals) /\ None(<< >>, "CONN_REQ")
      /\ None(<< >>, "CONFIG_REQ") /\ None(<< >>, "CONFIG_RSP")
  BY DEF None
<1>3. /\ Answer(e, << >>) /\ UNCHANGED <<configure_req, link>>
      /\ m.code # "CONFIG_RSP" \/ ~Handled(e, m)
  BY DEF HandleConnectResp, HandleDisconnectResp, IgnoreResponse, channel
<1>4. CASE IgnoreResponse(e, m)
  <2>1. UNCHANGED <<state, expected>>
    BY <1>4 DEF IgnoreResponse, channel
  <2> QED BY <1>2, <1>3, <2>1, OpenReceived DEF GivesUp
<1>5. CASE HandleConnectResp(e, m) \/ HandleDisconnectResp(e, m)
  <2>1. /\ OneLess(e) /\ expected[e].count > 0
        /\ \/ Goto(e, "CLOSED") \/ Goto(e, "NONE")
           \/ state[e] = "WAIT_CONNECT_RSP" /\ Goto(e, "WAIT_CONFIG")
    BY <1>5 DEF HandleConnectResp, HandleDisconnectResp, Handled, Matches
  <2>2. expected'[Peer(e)] = expected[Peer(e)]
    BY <1>1, <2>1, OneLessEffect
  <2>3. /\ GivesUp(state[e], state'[e]) /\ state'[Peer(e)] = state[Peer(e)]
        /\ state'[e] \notin Waiting
    BY <1>1, <2>1 DEF Goto, GivesUp, Closing, Waiting
  <2> QED BY <1>2, <1>3, <2>2, <2>3, OpenReceived
<1> QED BY <1>4, <1>5

LEMMA HandleDisconnectReqOpen ==
  ASSUME ChanInv, OpenInv, NEW e \in Ends, wire[Peer(e)] # << >>,
         NEW m, m = Head(wire[Peer(e)]), HandleDisconnectReq(e, m)
  PROVE  OpenInv'
<1>1. /\ m \in Signals /\ Peer(e) \in Ends /\ Peer(e) # e
      /\ state \in [Ends -> States]
  BY Handing
<1>2. PICK c \in {"CMD_REJ", "DISCONN_RSP"} :
        /\ Answer(e, <<Plain(c, m.id)>>)
        /\ UNCHANGED state \/ Goto(e, "CLOSED")
  BY DEF HandleDisconnectReq
<1>3. m.code = "DISCONN_REQ" /\ UNCHANGED <<expected, configure_req, link>>
  BY DEF HandleDisconnectReq
<1>4. Plain(c, m.id) \in Signals /\ Plain(c, m.id).code = c
  <2>1. m.id \in Nat /\ c \in Codes
    BY <1>1 DEF Signals, Codes
  <2> QED BY <2>1, Plains
<1>5. /\ <<Plain(c, m.id)>> \in Seq(Signals)
      /\ None(<<Plain(c, m.id)>>, "CONN_REQ")
      /\ None(<<Plain(c, m.id)>>, "CONFIG_REQ")
      /\ None(<<Plain(c, m.id)>>, "CONFIG_RSP")
  BY <1>4, NoneShort
<1>6. GivesUp(state[e], state'[e]) /\ state'[Peer(e)] = state[Peer(e)]
  BY <1>1, <1>2 DEF Goto, GivesUp, Closing
<1> QED BY <1>2, <1>3, <1>5, <1>6, OpenReceived

LEMMA DisconnectOpen ==
  ASSUME ChanInv, OpenInv, NEW e \in Ends, Disconnect(e)
  PROVE  OpenInv'
<1> DEFINE id == NextId(last_signal_id[e])
           s == <<Plain("DISCONN_REQ", id)>>
<1>1. /\ state \in [Ends -> States] /\ Peer(e) \in Ends /\ Peer(e) # e
      /\ expected \in [Ends -> Expectations] /\ id \in Nat
  BY Peers, NextIds DEF ChanInv, ChanTypes, Expectations
<1>2. CASE state[e] \in Connected
  <2>1. /\ Send(e, s) /\ Goto(e, "WAIT_DISCONNECT")
        /\ Expect(e, "DISCONN_RSP", id) /\ UNCHANGED <<configure_req, link>>
    BY <1>2 DEF Disconnect, Connected, ConfigStates
  <2>2. /\ s \in Seq(Signals) /\ None(s, "CONFIG_REQ") /\ None(s, "CONFIG_RSP")
    <3>1. /\ Plain("DISCONN_REQ", id) \in Signals
          /\ Plain("DISCONN_REQ", id).code = "DISCONN_REQ"
      BY <1>1, Plains DEF Codes
    <3> QED BY <3>1, NoneShort
  <2> HIDE DEF s
  <2>3. /\ GivesUp(state[e], state'[e]) /\ state'[Peer(e)] = state[Peer(e)]
        /\ state'[e] \notin Waiting
    BY <1>1, <2>1 DEF Goto, GivesUp, Closing, Waiting
  <2>4. expected'[Peer(e)] = expected[Peer(e)]
    BY <1>1, <2>1 DEF Expect
  <2> QED BY <2>1, <2>2, <2>3, <2>4, OpenSent
<1>3. CASE state[e] \notin Connected
  <2>1. UNCHANGED <<state, expected, wire, configure_req, link>>
    BY <1>3 DEF Disconnect
  <2> QED
    BY <2>1 DEF OpenInv, Opens, AcceptTold, ToldAccepted, Listens, Answered,
                Hears
<1> QED BY <1>2, <1>3

LEMMA ReleaseOpen ==
  ASSUME ChanInv, OpenInv, NEW e \in Ends, Release(e)
  PROVE  OpenInv'
<1>1. /\ state \in [Ends -> States] /\ Peer(e) \in Ends /\ Peer(e) # e
      /\ ChanTypes /\ wire \in [Ends -> Seq(Signals)] /\ wire[e] \in Seq(Signals)
  BY Peers DEF ChanInv, ChanTypes
<1>2. /\ Goto(e, "NONE") /\ UNCHANGED <<expected, configure_req, wire, link>>
  BY DEF Release
<1>3. /\ << >> \in Seq(Signals) /\ None(<< >>, "CONFIG_REQ")
      /\ None(<< >>, "CONFIG_RSP")
  BY DEF None
<1>4. Send(e, << >>)
  <2>1. Reaching(e, << >>) = << >>
    BY DEF Reaching
  <2>2. wire[e] \o << >> = wire[e]
    BY <1>1
  <2> QED BY <1>1, <1>2, <2>1, <2>2 DEF Send
<1>5. /\ GivesUp(state[e], state'[e]) /\ state'[Peer(e)] = state[Peer(e)]
  BY <1>1, <1>2 DEF Goto, GivesUp, Closing
<1> QED BY <1>2, <1>3, <1>4, <1>5, OpenSent

LEMMA LinkDownOpen ==
  ASSUME ChanInv, OpenInv, NEW e \in Ends, LinkDown(e)
  PROVE  OpenInv'
<1> DEFINE t == IF state[e] = "WAIT_CONNECT_RSP" THEN "NONE" ELSE state[e]
           p == Peer(e)
<1>1. /\ link' = link \ {e} /\ wire' = [wire EXCEPT ![p] = << >>]
      /\ state' = [state EXCEPT ![e] = t] /\ UNCHANGED <<expected, configure_req>>
  BY DEF LinkDown, Goto
<1>2. /\ p \in Ends /\ p # e /\ Peer(p) = e /\ \A x \in Ends : x = e \/ x = p
      /\ wire \in [Ends -> Seq(Signals)] /\ state \in [Ends -> States]
      /\ wire[e] \in Seq(Signals) /\ wire[p] \in Seq(Signals)
      /\ Opens(e) /\ Opens(p)
  BY Peers DEF ChanInv, ChanTypes, OpenInv
<1>3. wire'[p] = << >> /\ wire'[e] = wire[e] /\ link' # Ends
  BY <1>1, <1>2
<1>4. /\ Within(wire'[e], wire[e], "CONFIG_REQ")
      /\ Within(wire'[e], wire[e], "CONFIG_RSP")
      /\ Within(wire'[p], wire[p], "CONFIG_REQ")
      /\ Within(wire'[p], wire[p], "CONFIG_RSP")
  BY <1>2, <1>3, WithinSame, WithinEmpty
<1>5. GivesUp(state[e], t)
  BY DEF GivesUp, Closing
<1> HIDE DEF t
<1>6. GivesUp(state[e], state'[e]) /\ GivesUp(state[p], state'[p])
  BY <1>1, <1>2, <1>5 DEF GivesUp
<1>7. Beside(e)
  BY <1>1, <1>3, <1>4, <1>6, GivingUp DEF Beside
<1>8. Beside(p)
  BY <1>1, <1>2, <1>3, <1>4, <1>6, GivingUp DEF Beside
<1> QED BY <1>2, <1>7, <1>8, BesideKeeps DEF OpenInv

-----------------------------------------------------------------------------
(* The client configures.                                                  *)
LEMMA ConfigureOpen ==
  ASSUME MayQueue = FALSE, Reconfigure = FALSE, ChanInv, OpenInv,
         NEW e \in Ends, NEW size \in RequestSizes, NEW m \in Mtus \cup {NoMtu},
         NEW queued \in 0 .. 2, Configure(e, size, m, queued)
  PROVE  OpenInv'
<1> DEFINE p == Peer(e)
           s == RequestSignals(last_signal_id[e], size, m, queued)
<1>1. /\ state[e] \in {"WAIT_CONFIG", "WAIT_SEND_CONFIG"}
      /\ queued <= size /\ queued = 0
      /\ expected' = [expected EXCEPT ![e] = ExpectConfig(expected[e], s, queued)]
      /\ Send(e, s) /\ state' = [state EXCEPT ![e] = RequestSent(state[e])]
      /\ UNCHANGED <<configure_req, link>>
  BY DEF Configure, MayConfigure, Goto
<1>2. /\ ChanTypes /\ p \in Ends /\ p # e /\ Peer(p) = e
      /\ \A x \in Ends : x = e \/ x = p
      /\ state \in [Ends -> States] /\ expected \in [Ends -> Expectations]
      /\ expected[e] \in Expectations /\ last_signal_id[e] \in Nat
      /\ wire[e] \in Seq(Signals) /\ wire[p] \in Seq(Signals)
      /\ Opens(e) /\ Opens(p)
  BY Peers DEF ChanInv, ChanTypes, Expectations, OpenInv
<1>3. RequestOK(s, size, 0)
  <2>1. size \in {1, 2} /\ m \in Options
    BY L2capSizeAssumption DEF Options
  <2> QED BY <1>1, <1>2, <2>1, RequestFacts
<1> HIDE DEF s
<1>4. /\ s \in Seq(Signals) /\ Len(s) \in {1, 2}
      /\ \A i \in 1 .. Len(s) : s[i].code = "CONFIG_REQ"
      /\ ~s[Len(s)].cont /\ (Len(s) = 2 => s[1].cont)
  BY <1>3 DEF RequestOK
<1>5. /\ wire'[p] = wire[p] /\ Behind(wire'[e], wire[e], s)
  BY <1>1, <1>2, <1>4, SendEffect
<1>6. /\ expected'[p] = expected[p]
      /\ expected'[e].count > 0 /\ expected'[e].code = "CONFIG_RSP"
      /\ expected'[e].id = s[Len(s)].id
  <2>1. ExpectOK(ExpectConfig(expected[e], s, 0), expected[e], s, 0)
    BY <1>2, <1>4, ExpectFacts
  <2>2. PICK x : x = ExpectConfig(expected[e], s, 0)
    OBVIOUS
  <2>3. x.count > 0 /\ x.code = "CONFIG_RSP" /\ x.id = s[Len(s)].id
    BY <2>1, <2>2 DEF ExpectOK
  <2>4. expected'[e] = x /\ expected'[p] = expected[p]
    BY <1>1, <1>2, <2>2
  <2> QED BY <2>3, <2>4
<1>7. /\ state'[p] = state[p]
      /\ \/ state[e] = "WAIT_CONFIG" /\ state'[e] = "WAIT_CONFIG_REQ_RSP"
         \/ state[e] = "WAIT_SEND_CONFIG" /\ state'[e] = "WAIT_CONFIG_RSP"
  BY <1>1, <1>2 DEF RequestSent
<1>8. Quiet(e)
  BY <1>1 DEF ChanInv, Direction, Asks, Waiting, Closing
<1>9. Opens(e)'
  <2>1. ~(state[p] \in Accepted /\ link = Ends)
    BY <1>1, <1>2 DEF Opens, AcceptTold, Answered, Settled, Closing, Waiting
  <2>2. AcceptTold(e)'
    BY <1>1, <1>7, <2>1 DEF AcceptTold
  <2>3. ToldAccepted(e)'
    <3>1. state'[e] \notin Settled
      BY <1>7 DEF Settled
    <3>2. None(wire'[p], "CONFIG_RSP")
      BY <1>5, <1>8 DEF Quiet
    <3> QED BY <3>1, <3>2 DEF ToldAccepted, None, Accepts
  <2>4. ASSUME NEW i \in 1 .. Len(wire'[e]), wire'[e][i].code = "CONFIG_REQ",
               ~wire'[e][i].cont
        PROVE  wire'[e][i].id = expected'[e].id
    <3>1. None(wire[e], "CONFIG_REQ")
      BY <1>8 DEF Quiet
    <3>2. wire'[e] = wire[e] \o s
      BY <1>5, <2>4, <3>1 DEF Behind, None
    <3>3. i \in 1 .. Len(wire[e] \o s) /\ (wire[e] \o s)[i] = wire'[e][i]
      BY <3>2
    <3>4. i \notin 1 .. Len(wire[e])
      <4> SUFFICES ASSUME i \in 1 .. Len(wire[e]) PROVE FALSE
        OBVIOUS
      <4>1. (wire[e] \o s)[i] = wire[e][i]
        BY <1>2, <1>4, Joining
      <4> QED BY <2>4, <3>1, <3>3, <4>1 DEF None
    <3>5. PICK j \in 1 .. Len(s) : i = Len(wire[e]) + j
      BY <1>2, <1>4, <3>3, <3>4, Joining
    <3>6. (wire[e] \o s)[Len(wire[e]) + j] = s[j]
      BY <1>2, <1>4, <3>5, Joining
    <3>7. wire'[e][i] = s[j]
      BY <3>3, <3>5, <3>6
    <3>8. j = Len(s)
      BY <1>4, <2>4, <3>5, <3>7
    <3> QED BY <1>6, <3>7, <3>8
  <2>5. Listens(e)'
    <3>1. configure_req'[p].kind # "rest"
      BY <1>1, <1>8 DEF Quiet
    <3>2. Hears(e)'
      BY <1>6 DEF Hears
    <3> QED BY <2>4, <3>1, <3>2 DEF Listens
  <2> QED BY <2>2, <2>3, <2>5 DEF Opens
<1>10. Beside(p)
  <2>1. None(s, "CONFIG_RSP")
    BY <1>4 DEF None
  <2>2. /\ Within(wire'[p], wire[p], "CONFIG_REQ")
        /\ Within(wire'[e], wire[e], "CONFIG_RSP")
    BY <1>2, <1>4, <1>5, <2>1, WithinBehind, WithinSame
  <2>3. ASSUME Answered(p)
        PROVE  Answered(p)'
    <3>1. state'[p] \in Waiting
      BY <1>7, <2>3 DEF Answered
    <3>2. ASSUME NEW i \in 1 .. Len(wire[e])
          PROVE  \E j \in 1 .. Len(wire'[e]) : wire'[e][j] = wire[e][i]
      <4>1. Stays(wire'[e], wire[e])
        BY <1>2, <1>4, <1>5, BehindAll, Zenon
      <4> QED BY <4>1 DEF Stays
    <3>3. Len(wire[e]) \in Nat
      BY <1>2
    <3> QED BY <1>2, <1>6, <2>3, <3>1, <3>2, <3>3, AnsweredStays
  <2>4. /\ state'[e] \in Accepted => state[e] \in Accepted
        /\ state[e] \in Accepted \cup Closing => state'[e] \in Accepted \cup Closing
    BY <1>7 DEF Accepted, Closing
  <2> QED BY <1>1, <1>2, <1>6, <1>7, <2>2, <2>3, <2>4 DEF Beside
<1>11. Opens(p)'
  BY <1>2, <1>10, BesideKeeps
<1> QED BY <1>2, <1>9, <1>11 DEF OpenInv

-----------------------------------------------------------------------------
(* A configuration request arrives at e.                                   *)
LEMMA RespondedOpen ==
  ASSUME ChanInv, OpenInv, NEW e \in Ends, wire[Peer(e)] # << >>,
         NEW m, m = Head(wire[Peer(e)]), m.code = "CONFIG_REQ",
         NEW r \in Signals, r.code = "CONFIG_RSP", r.id = m.id,
         Answer(e, <<r>>), UNCHANGED <<expected, link>>,
         Answering(state[e], state'[e]), state'[Peer(e)] = state[Peer(e)],
         configure_req'[Peer(e)] = configure_req[Peer(e)],
         configure_req'[e].kind = "rest" => ~m.cont,
         ~r.cont /\ m.cont => configure_req[e].kind = "rest",
         Accepts(r) => state'[e] \in Accepted,
         state'[e] \in Accepted => state[e] \in Accepted \/ Accepts(r)
  PROVE  OpenInv'
<1> DEFINE p == Peer(e)
<1>1. /\ p \in Ends /\ p # e /\ Peer(p) = e /\ \A x \in Ends : x = e \/ x = p
      /\ wire[e] \in Seq(Signals) /\ wire[p] \in Seq(Signals)
      /\ Opens(e) /\ Opens(p) /\ ChanTypes /\ Direction(p)
  BY Peers DEF ChanInv, ChanTypes, OpenInv
<1>2. m = wire[p][1] /\ 1 \in 1 .. Len(wire[p])
  BY Handing
<1>3. /\ <<r>> \in Seq(Signals) /\ None(<<r>>, "CONN_REQ")
      /\ None(<<r>>, "CONFIG_REQ") /\ Len(<<r>>) = 1 /\ <<r>>[1] = r
  BY NoneShort
<1>4. /\ wire'[p] = Tail(wire[p]) /\ Behind(wire'[e], wire[e], <<r>>)
      /\ p \in link => wire'[e] = wire[e] \o <<r>>
  BY <1>3, Received
<1>5. /\ Within(wire'[e], wire[e], "CONFIG_REQ")
      /\ Within(wire'[p], wire[p], "CONFIG_RSP")
      /\ Within(wire'[p], wire[p], "CONFIG_REQ")
  BY <1>1, <1>3, <1>4, WithinBehind, WithinTail
<1>6. Len(wire[e]) \in Nat /\ Len(wire[p]) \in Nat
  BY <1>1
<1>7. Beside(e)
  <2>1. ASSUME Answered(e)
        PROVE  Answered(e)'
    <3>1. state'[e] \in Waiting
      BY <2>1, AnsweringAside DEF Answered
    <3>2. ASSUME NEW i \in 1 .. Len(wire[p]), wire[p][i].code = "CONFIG_RSP"
          PROVE  \E j \in 1 .. Len(wire'[p]) : wire'[p][j] = wire[p][i]
      <4>1. i # 1
        BY <1>2, <3>2
      <4> QED BY <1>1, <1>4, <4>1, TailStays
    <3> QED BY <1>6, <2>1, <3>1, <3>2, AnsweredStays
  <2>2. /\ state[e] \in Settled <=> state'[e] \in Settled
        /\ state[e] \in Closing <=> state'[e] \in Closing
        /\ state[e] \in Waiting <=> state'[e] \in Waiting
    BY DEF Answering, Settled, Closing, Waiting
  <2> QED BY <1>5, <2>1, <2>2 DEF Beside
<1>8. Opens(e)'
  BY <1>1, <1>7, BesideKeeps
<1>9. state[p] \in Waiting \cup Closing
  <2>1. ~Quiet(p)
    BY <1>2 DEF Quiet, None
  <2> QED BY <1>1, <2>1 DEF Direction, Asks
<1>10. ASSUME state[p] \in Waiting, ~r.cont
       PROVE  Hears(p) /\ m.id = expected[p].id
  BY <1>1, <1>2, <1>10 DEF Opens, Listens
<1>11. AcceptTold(p)'
  <2> SUFFICES ASSUME state'[e] \in Accepted, link' = Ends
               PROVE  state'[p] \in Settled \cup Closing \/ Answered(p)'
    BY <1>1 DEF AcceptTold
  <2>1. CASE state[p] \in Closing
    BY <2>1
  <2>2. CASE state[p] \in Waiting /\ Accepts(r)
    <3>1. Hears(p) /\ r.id = expected[p].id
      BY <1>10, <2>2 DEF Accepts
    <3>2. wire'[e] = wire[e] \o <<r>>
      BY <1>1, <1>4
    <3> DEFINE k == Len(wire[e]) + 1
    <3>3. Len(wire[e] \o <<r>>) = k
      BY <1>1, <1>3, Joining
    <3>4. (wire[e] \o <<r>>)[k] = <<r>>[1]
      BY <1>1, <1>3, Joining
    <3>5. k \in 1 .. Len(wire'[e]) /\ wire'[e][k] = r
      BY <1>3, <1>6, <3>2, <3>3, <3>4
    <3> HIDE DEF k
    <3>6. Accepts(wire'[e][k]) /\ wire'[e][k].id = expected'[p].id
      BY <2>2, <3>1, <3>5
    <3>7. Hears(p)' /\ state'[p] \in Waiting
      BY <2>2, <3>1 DEF Hears
    <3> QED BY <1>1, <3>5, <3>6, <3>7 DEF Answered, Accepts
  <2>3. CASE state[p] \in Waiting /\ state[e] \in Accepted
    <3>1. Answered(p)
      BY <1>1, <2>3 DEF Opens, AcceptTold, Settled, Closing, Waiting
    <3>2. ASSUME NEW i \in 1 .. Len(wire[e])
          PROVE  \E j \in 1 .. Len(wire'[e]) : wire'[e][j] = wire[e][i]
      <4>1. Stays(wire'[e], wire[e])
        BY <1>1, <1>3, <1>4, BehindAll, Zenon
      <4> QED BY <4>1 DEF Stays
    <3> QED BY <1>1, <1>6, <2>3, <3>1, <3>2, AnsweredStays
  <2> QED BY <1>9, <2>1, <2>2, <2>3
<1>12. ToldAccepted(p)'
  <2>1. state'[p] \notin Settled
    BY <1>9 DEF Settled, Waiting, Closing
  <2>2. ASSUME NEW i \in 1 .. Len(wire'[e]), Accepts(wire'[e][i])
        PROVE  state'[e] \in Accepted \cup Closing
    <3>1. CASE Accepts(r)
      BY <3>1
    <3>2. CASE ~Accepts(r)
      <4>1. PICK j \in 1 .. Len(wire[e]) : Accepts(wire[e][j])
        <5>1. CASE wire'[e] = wire[e]
          BY <2>2, <5>1
        <5>2. CASE wire'[e] = wire[e] \o <<r>>
          <6>1. i \in 1 .. Len(wire[e] \o <<r>>)
                /\ Accepts((wire[e] \o <<r>>)[i])
            BY <2>2, <5>2
          <6>2. i \in 1 .. Len(wire[e])
            <7> SUFFICES ASSUME i \notin 1 .. Len(wire[e]) PROVE FALSE
              OBVIOUS
            <7>1. PICK j \in 1 .. Len(<<r>>) : i = Len(wire[e]) + j
              BY <1>1, <1>3, <6>1, Joining
            <7>2. (wire[e] \o <<r>>)[Len(wire[e]) + j] = <<r>>[j]
              BY <1>1, <1>3, <7>1, Joining
            <7>3. j = 1
              BY <1>3, <7>1
            <7> QED BY <1>3, <3>2, <6>1, <7>1, <7>2, <7>3
          <6>3. (wire[e] \o <<r>>)[i] = wire[e][i]
            BY <1>1, <1>3, <6>2, Joining
          <6> QED BY <6>1, <6>2, <6>3
        <5> QED BY <1>4, <5>1, <5>2 DEF Behind
      <4>2. state[e] \in Accepted \cup Closing
        BY <1>1, <4>1 DEF Opens, ToldAccepted
      <4> QED BY <4>2 DEF Answering, Accepted, Closing
    <3> QED BY <3>1, <3>2
  <2> QED BY <1>1, <2>1, <2>2 DEF ToldAccepted, Accepts
<1>13. Listens(p)'
  <2> SUFFICES ASSUME state'[p] \in Waiting, NEW i \in 1 .. Len(wire'[p]),
                      wire'[p][i].code = "CONFIG_REQ"
               PROVE  /\ wire'[p][i].cont => configure_req'[e].kind # "rest"
                      /\ ~wire'[p][i].cont =>
                           Hears(p)' /\ wire'[p][i].id = expected'[p].id
    BY <1>1 DEF Listens
  <2>1. i + 1 \in 1 .. Len(wire[p]) /\ wire'[p][i] = wire[p][i + 1] /\ i + 1 > 1
    BY <1>1, <1>4, Consuming
  <2>2. ~wire'[p][i].cont => Hears(p)' /\ wire'[p][i].id = expected'[p].id
    BY <1>1, <2>1 DEF Opens, Listens, Hears
  <2>3. configure_req'[e].kind # "rest"
    <3> SUFFICES ASSUME ~m.cont PROVE FALSE
      OBVIOUS
    <3>1. Hears(p) /\ m.id = expected[p].id
      BY <1>1, <1>2 DEF Opens, Listens
    <3>2. LastRequest(p)
      BY <1>1, <3>1 DEF Direction, Pipeline, Hears
    <3>3. i + 1 <= 1
      BY <1>2, <2>1, <3>1, <3>2 DEF LastRequest
    <3> QED BY <2>1, <3>3
  <2> QED BY <2>2, <2>3
<1> QED BY <1>1, <1>8, <1>11, <1>12, <1>13 DEF OpenInv, Opens

(* What the client's answer does to the state, when it is complete.        *)
LEMMA FinishedOpen ==
  ASSUME NEW e \in Ends, state \in [Ends -> States], NEW res, Finished(e, res)
  PROVE  /\ Answering(state[e], state'[e]) /\ state'[Peer(e)] = state[Peer(e)]
         /\ res = "ok" /\ state[e] \in Configurable => state'[e] \in Accepted
         /\ res # "ok" => state'[e] = state[e]
<1>1. res # "ok" => state'[e] = state[e]
  BY DEF Finished, Goto
<1> QED BY <1>1, FinishedEffect DEF Accepted

LEMMA HandleConfigureReqOpen ==
  ASSUME ChanInv, OpenInv, NEW e \in Ends, wire[Peer(e)] # << >>,
         NEW m, m = Head(wire[Peer(e)]), NEW res \in {"ok", "rej"},
         NEW fix \in Options, NEW size \in {1, 2},
         HandleConfigureReq(e, m, res, fix, size, FALSE)
  PROVE  OpenInv'
<1> DEFINE p == Peer(e)
<1>1. m.code = "CONFIG_REQ" /\ UNCHANGED <<expected, link>>
  BY DEF HandleConfigureReq
<1>2. /\ p \in Ends /\ p # e /\ m \in Signals /\ state \in [Ends -> States]
  BY Handing
<1>3. /\ m.id \in Nat /\ m.cont \in BOOLEAN /\ m.mtu \in Options
      /\ configure_req[e].mtu \in Options /\ configure_req[e].res \in Results
      /\ configure_req \in [Ends -> [kind : {"none", "partial", "rest"},
                                     mtu : Options, res : Results]]
      /\ NoMtu \in Options /\ "ok" \in Results /\ res \in Results
  BY <1>2 DEF ChanInv, ChanTypes, Signals, Options, Results
<1>4. CASE /\ state[e] \notin Configurable
           /\ Answer(e, <<Plain("CMD_REJ", m.id)>>)
           /\ UNCHANGED <<state, configure_req, remote_mtu>>
  <2>1. "CMD_REJ" \in Codes
    BY DEF Codes
  <2>2. /\ Plain("CMD_REJ", m.id) \in Signals
        /\ Plain("CMD_REJ", m.id).code = "CMD_REJ"
    BY <1>3, <2>1, Plains
  <2>3. /\ <<Plain("CMD_REJ", m.id)>> \in Seq(Signals)
        /\ None(<<Plain("CMD_REJ", m.id)>>, "CONN_REQ")
        /\ None(<<Plain("CMD_REJ", m.id)>>, "CONFIG_REQ")
        /\ None(<<Plain("CMD_REJ", m.id)>>, "CONFIG_RSP")
    BY <2>2, NoneShort
  <2>4. GivesUp(state[e], state'[e]) /\ UNCHANGED configure_req
    BY <1>4 DEF GivesUp
  <2> QED BY <1>1, <1>4, <2>3, <2>4, OpenReceived
<1>5. CASE state[e] \in Configurable /\ SendRest(e, m)
  <2> DEFINE r == Signal("CONFIG_RSP", m.id, FALSE, NoMtu, configure_req[e].res)
  <2>1. /\ configure_req[e].kind = "rest" /\ Answer(e, <<r>>)
        /\ Finished(e, configure_req[e].res)
        /\ configure_req' = [configure_req EXCEPT ![e] = NoReq]
    BY <1>5 DEF SendRest
  <2>2. /\ r \in Signals /\ r.code = "CONFIG_RSP" /\ r.id = m.id /\ ~r.cont
        /\ r.res = configure_req[e].res
    BY <1>3 DEF Signal, Signals, Codes
  <2> HIDE DEF r
  <2>3. configure_req'[e].kind = "none" /\ configure_req'[p] = configure_req[p]
    BY <1>2, <1>3, <2>1 DEF NoReq
  <2>4. /\ Answering(state[e], state'[e]) /\ state'[p] = state[p]
        /\ Accepts(r) => state'[e] \in Accepted
        /\ state'[e] \in Accepted => state[e] \in Accepted \/ Accepts(r)
    BY <1>2, <1>5, <2>1, <2>2, FinishedOpen DEF Accepts
  <2> QED BY <1>1, <2>1, <2>2, <2>3, <2>4, RespondedOpen
<1>6. CASE AckPart(e, m)
  <2> DEFINE r == Signal("CONFIG_RSP", m.id, TRUE, NoMtu, "ok")
             part == Partial(Merge(configure_req[e].mtu, m.mtu))
  <2>1. /\ Answer(e, <<r>>) /\ UNCHANGED state
        /\ configure_req' = [configure_req EXCEPT ![e] = part]
    BY <1>6 DEF AckPart
  <2>2. r \in Signals /\ r.code = "CONFIG_RSP" /\ r.id = m.id /\ r.cont
    BY <1>3 DEF Signal, Signals, Codes
  <2> HIDE DEF r
  <2>3. part.kind = "partial"
    BY DEF Partial
  <2> HIDE DEF part
  <2>4. configure_req'[e].kind = "partial" /\ configure_req'[p] = configure_req[p]
    BY <1>2, <1>3, <2>1, <2>3
  <2>5. ~Accepts(r) /\ Answering(state[e], state'[e]) /\ state'[p] = state[p]
    BY <2>1, <2>2 DEF Accepts, Answering
  <2> QED BY <1>1, <2>1, <2>2, <2>4, <2>5, RespondedOpen
<1>7. CASE state[e] \in Configurable /\ Respond(e, m, res, fix, size, FALSE)
  <2> DEFINE all == Merge(ApplyAll(configure_req[e].mtu, m), fix)
             o == IF res = "ok" THEN all ELSE NoMtu
             r == Signal("CONFIG_RSP", m.id, size > 1, o, res)
             rest == IF size > 1 THEN Rest(res) ELSE NoReq
  <2>1. /\ ~m.cont /\ Answer(e, <<r>>)
        /\ configure_req' = [configure_req EXCEPT ![e] = rest]
        /\ IF size > 1 THEN UNCHANGED state ELSE Finished(e, res)
    BY <1>7 DEF Respond
  <2>2. o \in Options
    <3>1. Merge(configure_req[e].mtu, m.mtu) \in Options
      BY <1>3, MtuFacts
    <3>2. ApplyAll(configure_req[e].mtu, m) \in Options
      BY <3>1, MtuFacts DEF ApplyAll, Options
    <3>3. all \in Options
      BY <3>2, MtuFacts
    <3> HIDE DEF all
    <3> QED BY <1>3, <3>3
  <2> HIDE DEF o
  <2>3. /\ r \in Signals /\ r.code = "CONFIG_RSP" /\ r.id = m.id
        /\ r.cont <=> size > 1
        /\ r.res = res
    <3>1. (size > 1) \in BOOLEAN
      OBVIOUS
    <3> QED BY <1>3, <2>2, <3>1 DEF Signal, Signals, Codes
  <2> HIDE DEF r, rest
  <2>4. configure_req'[p] = configure_req[p]
    BY <1>2, <1>3, <2>1
  <2>5. /\ Answering(state[e], state'[e]) /\ state'[p] = state[p]
        /\ Accepts(r) => state'[e] \in Accepted
        /\ state'[e] \in Accepted => state[e] \in Accepted \/ Accepts(r)
    <3>1. CASE size > 1
      BY <2>1, <2>3, <3>1 DEF Answering, Accepts
    <3>2. CASE ~(size > 1)
      BY <1>2, <1>7, <2>1, <2>3, <3>2, FinishedOpen DEF Accepts
    <3> QED BY <3>1, <3>2
  <2> QED BY <1>1, <2>1, <2>3, <2>4, <2>5, RespondedOpen
<1> QED
  BY <1>4, <1>5, <1>6, <1>7 DEF HandleConfigureReq

-----------------------------------------------------------------------------
(* A configuration response arrives at e: it is the only one under way.    *)
LEMMA TakenResponse ==
  ASSUME ChanInv, NEW e \in Ends, wire[Peer(e)] # << >>,
         NEW m, m = Head(wire[Peer(e)]), m.code = "CONFIG_RSP", Handled(e, m)
  PROVE  /\ state[e] \in Waiting /\ None(wire[e], "CONFIG_REQ")
         /\ None(Tail(wire[Peer(e)]), "CONFIG_RSP")
         /\ Answered(e) => Accepts(m)
<1> DEFINE p == Peer(e)
<1>1. /\ m = wire[p][1] /\ 1 \in 1 .. Len(wire[p]) /\ wire[p] \in Seq(Signals)
  BY Handing
<1>2. /\ state[e] \in Waiting /\ expected[e].count > 0 /\ m.id = expected[e].id
  BY DEF Handled, Matches, Waiting
<1>3. LastResponse(e)
  BY <1>2 DEF ChanInv, Direction, Pipeline
<1>4. /\ None(wire[e], "CONFIG_REQ")
      /\ \A j \in 1 .. Len(wire[p]) : wire[p][j].code = "CONFIG_RSP" => j <= 1
  BY <1>1, <1>2, <1>3 DEF LastResponse
<1>5. None(Tail(wire[p]), "CONFIG_RSP")
  <2> SUFFICES ASSUME NEW j \in 1 .. Len(Tail(wire[p])),
                      Tail(wire[p])[j].code = "CONFIG_RSP"
               PROVE  FALSE
    BY DEF None
  <2>1. j + 1 \in 1 .. Len(wire[p]) /\ wire[p][j + 1].code = "CONFIG_RSP"
    BY <1>1, Consuming
  <2> QED BY <1>4, <2>1
<1>6. ASSUME Answered(e) PROVE Accepts(m)
  <2>1. PICK i \in 1 .. Len(wire[p]) : Accepts(wire[p][i])
    BY <1>6 DEF Answered
  <2>2. i = 1
    BY <1>4, <2>1 DEF Accepts
  <2> QED BY <1>1, <2>1, <2>2
<1> QED BY <1>2, <1>4, <1>5, <1>6

(* The other direction.                                                    *)
LEMMA ResponseBeside ==
  ASSUME ChanInv, OpenInv, NEW e \in Ends, wire[Peer(e)] # << >>,
         NEW s \in Seq(Signals), None(s, "CONN_REQ"), None(s, "CONFIG_RSP"),
         Answer(e, s), UNCHANGED <<configure_req, link>>,
         state'[Peer(e)] = state[Peer(e)],
         expected'[Peer(e)] = expected[Peer(e)],
         state'[e] \in Accepted => state[e] \in Accepted,
         state[e] \in Accepted \cup Closing => state'[e] \in Accepted \cup Closing
  PROVE  Opens(Peer(e))'
<1> DEFINE p == Peer(e)
<1>1. /\ p \in Ends /\ Peer(p) = e /\ Opens(p)
      /\ wire[e] \in Seq(Signals) /\ wire[p] \in Seq(Signals)
  BY Peers DEF ChanInv, ChanTypes, OpenInv
<1>2. wire'[p] = Tail(wire[p]) /\ Behind(wire'[e], wire[e], s)
  BY Received
<1>3. /\ Within(wire'[p], wire[p], "CONFIG_REQ")
      /\ Within(wire'[e], wire[e], "CONFIG_RSP")
  BY <1>1, <1>2, WithinTail, WithinBehind
<1>4. ASSUME Answered(p) PROVE Answered(p)'
  <2>1. state'[p] \in Waiting /\ Len(wire[e]) \in Nat
    BY <1>1, <1>4 DEF Answered
  <2>2. ASSUME NEW i \in 1 .. Len(wire[e])
        PROVE  \E j \in 1 .. Len(wire'[e]) : wire'[e][j] = wire[e][i]
    <3>1. wire[e] \in Seq(Signals) /\ Behind(wire'[e], wire[e], s)
      BY <1>1, <1>2
    <3>2. Stays(wire'[e], wire[e])
      BY <3>1, BehindAll, Zenon
    <3> QED BY <3>2 DEF Stays
  <2> QED BY <1>1, <1>4, <2>1, <2>2, AnsweredStays
<1>5. Beside(p)
  BY <1>1, <1>3, <1>4 DEF Beside
<1> QED BY <1>1, <1>5, BesideKeeps

LEMMA ResponseGoesOnOpen ==
  ASSUME ChanInv, OpenInv, NEW e \in Ends, wire[Peer(e)] # << >>,
         NEW m, m = Head(wire[Peer(e)]),
         HandleConfigResp(e, m, 0), ResponseGoesOn(e, m, 0)
  PROVE  OpenInv'
<1> DEFINE p == Peer(e)
           ask == expected[e].count - 1 = 1
           null == RequestSignals(last_signal_id[e], 1, NoMtu, 0)
           less == [expected[e] EXCEPT !.count = @ - 1]
           s == IF ask THEN null ELSE << >>
           x == IF ask THEN ExpectConfig(less, null, 0) ELSE less
<1>1. /\ m.code = "CONFIG_RSP" /\ Handled(e, m) /\ m.cont
      /\ expected' = [expected EXCEPT ![e] = x]
      /\ Answer(e, s) /\ UNCHANGED <<state, configure_req, link>>
  BY DEF HandleConfigResp, ResponseGoesOn
<1>2. /\ p \in Ends /\ p # e /\ Peer(p) = e /\ \A y \in Ends : y = e \/ y = p
      /\ wire[e] \in Seq(Signals) /\ wire[p] \in Seq(Signals)
      /\ expected \in [Ends -> Expectations] /\ expected[e] \in Expectations
      /\ last_signal_id[e] \in Nat /\ Opens(e)
  BY Peers DEF ChanInv, ChanTypes, Expectations, OpenInv
<1>3. /\ state[e] \in Waiting /\ None(wire[e], "CONFIG_REQ")
      /\ None(Tail(wire[p]), "CONFIG_RSP") /\ ~Answered(e)
  BY <1>1, TakenResponse DEF Accepts
<1>4. RequestOK(null, 1, 0)
  BY <1>2, RequestFacts DEF Options
<1> HIDE DEF null
<1>5. /\ null \in Seq(Signals) /\ Len(null) = 1 /\ ~null[1].cont
      /\ null[1].code = "CONFIG_REQ" /\ Len(null) \in {1, 2}
  <2>1. /\ null \in Seq(Signals) /\ Len(null) = 1 /\ ~null[Len(null)].cont
        /\ \A i \in 1 .. Len(null) : null[i].code = "CONFIG_REQ"
    BY <1>4 DEF RequestOK
  <2>2. 1 \in 1 .. Len(null)
    BY <2>1
  <2> QED BY <2>1, <2>2
<1>6. less \in Expectations
  <2>1. PICK y \in Expectations : y = expected[e]
    BY <1>2
  <2>2. y.count - 1 \in Nat
    BY <1>1, <2>1 DEF Handled, Matches, Expectations
  <2>3. [y EXCEPT !.count = y.count - 1] \in Expectations
    BY <2>1, <2>2 DEF Expectations
  <2> QED BY <2>1, <2>3
<1> HIDE DEF less
<1>7. ask => x.count > 0 /\ x.code = "CONFIG_RSP" /\ x.id = null[1].id
  <2>1. ExpectOK(ExpectConfig(less, null, 0), less, null, 0)
    BY <1>5, <1>6, ExpectFacts
  <2>2. PICK y : y = ExpectConfig(less, null, 0)
    OBVIOUS
  <2>3. y.count > 0 /\ y.code = "CONFIG_RSP" /\ y.id = null[1].id
    BY <1>5, <2>1, <2>2 DEF ExpectOK
  <2> QED BY <2>2, <2>3
<1> HIDE DEF x
<1>8. s \in Seq(Signals) /\ None(s, "CONN_REQ") /\ None(s, "CONFIG_RSP")
  <2>1. << >> \in Seq(Signals) /\ None(<< >>, "CONN_REQ")
        /\ None(<< >>, "CONFIG_RSP")
    BY DEF None
  <2>2. None(null, "CONN_REQ") /\ None(null, "CONFIG_RSP")
    BY <1>5 DEF None
  <2> QED BY <1>5, <2>1, <2>2
<1> HIDE DEF s
<1>9. wire'[p] = Tail(wire[p]) /\ Behind(wire'[e], wire[e], s)
  BY <1>1, <1>8, Received
<1>10. expected'[e] = x /\ expected'[p] = expected[p]
  BY <1>1, <1>2
<1>11. Opens(e)'
  <2>1. AcceptTold(e)'
    <3>1. ~(state[p] \in Accepted /\ link = Ends)
      BY <1>2, <1>3 DEF Opens, AcceptTold, Settled, Closing, Waiting
    <3> QED BY <1>1, <3>1 DEF AcceptTold
  <2>2. ToldAccepted(e)'
    <3>1. state'[e] \notin Settled
      BY <1>1, <1>3 DEF Settled, Waiting
    <3> QED BY <1>3, <1>9, <3>1 DEF ToldAccepted, None, Accepts
  <2>3. ASSUME NEW i \in 1 .. Len(wire'[e]), wire'[e][i].code = "CONFIG_REQ"
        PROVE  ask /\ wire'[e][i] = null[1]
    <3>1. wire'[e] = wire[e] \o s
      BY <1>3, <1>9, <2>3 DEF Behind, None
    <3>2. i \in 1 .. Len(wire[e] \o s) /\ (wire[e] \o s)[i] = wire'[e][i]
      BY <3>1
    <3>3. i \notin 1 .. Len(wire[e])
      <4> SUFFICES ASSUME i \in 1 .. Len(wire[e]) PROVE FALSE
        OBVIOUS
      <4>1. (wire[e] \o s)[i] = wire[e][i]
        BY <1>2, <1>8, Joining
      <4> QED BY <1>3, <2>3, <3>2, <4>1 DEF None
    <3>4. PICK j \in 1 .. Len(s) : i = Len(wire[e]) + j
      BY <1>2, <1>8, <3>2, <3>3, Joining
    <3>5. (wire[e] \o s)[Len(wire[e]) + j] = s[j]
      BY <1>2, <1>8, <3>4, Joining
    <3>6. ask
      <4> SUFFICES ASSUME ~ask PROVE FALSE
        OBVIOUS
      <4>1. s = << >>
        BY DEF s
      <4> QED BY <3>4, <4>1
    <3>7. s = null /\ j = 1
      <4>1. s = null
        BY <3>6 DEF s
      <4>2. j \in 1 .. 1
        BY <1>5, <3>4, <4>1
      <4> QED BY <4>1, <4>2
    <3> QED BY <3>2, <3>4, <3>5, <3>6, <3>7
  <2>4. Listens(e)'
    BY <1>5, <1>7, <1>10, <2>3 DEF Listens, Hears
  <2> QED BY <2>1, <2>2, <2>4 DEF Opens
<1>12. Opens(p)'
  BY <1>1, <1>8, <1>10, ResponseBeside
<1> QED BY <1>2, <1>11, <1>12 DEF OpenInv

LEMMA ResponseEndsOpen ==
  ASSUME ChanInv, OpenInv, NEW e \in Ends, wire[Peer(e)] # << >>,
         NEW m, m = Head(wire[Peer(e)]), NEW queued,
         HandleConfigResp(e, m, queued), ResponseEnds(e, m)
  PROVE  OpenInv'
<1> DEFINE p == Peer(e)
           t == IF m.res = "ok" THEN ResponseReceived(state[e])
                ELSE ResponseRejected(state[e])
<1>1. /\ m.code = "CONFIG_RSP" /\ Handled(e, m) /\ ~m.cont /\ OneLess(e)
      /\ state' = [state EXCEPT ![e] = t] /\ Answer(e, << >>)
      /\ UNCHANGED <<configure_req, link>>
  BY DEF HandleConfigResp, ResponseEnds, Goto
<1>2. /\ ChanTypes /\ p \in Ends /\ p # e /\ Peer(p) = e
      /\ \A y \in Ends : y = e \/ y = p
      /\ wire[e] \in Seq(Signals) /\ wire[p] \in Seq(Signals)
      /\ state \in [Ends -> States] /\ Opens(e)
  BY Peers DEF ChanInv, ChanTypes, OpenInv
<1>3. m = wire[p][1] /\ 1 \in 1 .. Len(wire[p])
  BY Handing
<1>4. /\ state[e] \in Waiting /\ None(wire[e], "CONFIG_REQ")
      /\ None(Tail(wire[p]), "CONFIG_RSP") /\ (Answered(e) => Accepts(m))
  BY <1>1, TakenResponse
<1>5. /\ t \notin Waiting /\ (t \in Settled <=> m.res = "ok")
      /\ t \in Accepted => state[e] \in Accepted
      /\ state[e] \in Accepted \cup Closing => t \in Accepted \cup Closing
  BY <1>4 DEF ResponseReceived, ResponseRejected, Waiting, Settled, Accepted,
              Closing
<1> HIDE DEF t
<1>6. state'[e] = t /\ state'[p] = state[p]
  BY <1>1, <1>2
<1>7. /\ << >> \in Seq(Signals) /\ None(<< >>, "CONN_REQ")
      /\ None(<< >>, "CONFIG_RSP")
  BY DEF None
<1>8. wire'[p] = Tail(wire[p])
  BY <1>1, <1>7, Received
<1>9. expected'[p] = expected[p]
  BY <1>1, <1>2, OneLessEffect DEF Handled, Matches
<1>10. Opens(e)'
  <2>1. AcceptTold(e)'
    <3> SUFFICES ASSUME state[p] \in Accepted, link = Ends
                 PROVE  state'[e] \in Settled
      BY <1>1, <1>6 DEF AcceptTold
    <3>1. Answered(e)
      BY <1>2, <1>4 DEF Opens, AcceptTold, Settled, Closing, Waiting
    <3> QED BY <1>4, <1>5, <1>6, <3>1 DEF Accepts
  <2>2. ToldAccepted(e)'
    <3>1. ASSUME state'[e] \in Settled
          PROVE  state'[p] \in Accepted \cup Closing
      <4>1. Accepts(wire[p][1])
        BY <1>1, <1>3, <1>5, <1>6, <3>1 DEF Accepts
      <4> QED BY <1>2, <1>3, <1>6, <4>1 DEF Opens, ToldAccepted
    <3> QED BY <1>4, <1>8, <3>1 DEF ToldAccepted, None, Accepts
  <2>3. Listens(e)'
    BY <1>5, <1>6 DEF Listens
  <2> QED BY <2>1, <2>2, <2>3 DEF Opens
<1>11. Opens(p)'
  BY <1>1, <1>5, <1>6, <1>7, <1>9, ResponseBeside
<1> QED BY <1>2, <1>10, <1>11 DEF OpenInv

-----------------------------------------------------------------------------
LEMMA OpenInvInit ==
  ASSUME Init
  PROVE  OpenInv
<1>1. /\ state["outgoing"] = "CLOSED" /\ state["incoming"] = "NONE"
      /\ \A e \in Ends : wire[e] = << >>
  BY OutIn DEF Init
<1>2. 1 .. Len(<< >>) = {}
  OBVIOUS
<1>3. \A e \in Ends : state[e] \notin Accepted \cup Settled \cup Waiting
  BY <1>1 DEF Ends, Accepted, Settled, Waiting
<1>4. ASSUME NEW e \in Ends PROVE Opens(e)
  BY <1>1, <1>2, <1>3, Peers DEF Opens, AcceptTold, ToldAccepted, Listens
<1> QED BY <1>4 DEF OpenInv

LEMMA OpenInvNext ==
  ASSUME MayQueue = FALSE, Reconfigure = FALSE, ChanInv, OpenInv, [Next]_vars
  PROVE  OpenInv'
<1>1. CASE ConnectionRequest
  BY <1>1, ConnectionRequestOpen
<1>2. CASE \E e \in Ends, size \in RequestSizes, m \in Mtus \cup {NoMtu},
              q \in 0 .. 2 : Configure(e, size, m, q)
  BY <1>2, ConfigureOpen
<1>3. CASE \E e \in Ends : Disconnect(e) \/ Release(e) \/ LinkDown(e)
  BY <1>3, DisconnectOpen, ReleaseOpen, LinkDownOpen
<1>4. ASSUME NEW e \in Ends, Receive(e)
      PROVE  OpenInv'
  <2>1. PICK m : m = Head(wire[Peer(e)])
    OBVIOUS
  <2>2. wire[Peer(e)] # << >>
    BY <1>4, <2>1, Receptions
  <2>3. ReplySizes \subseteq {1, 2} /\ {FALSE, MayQueue} = {FALSE}
    BY L2capSizeAssumption
  <2>4. CASE \E served \in BOOLEAN : HandleConnectionReq(e, m, served)
    BY <2>1, <2>2, <2>4, HandleConnectionReqOpen
  <2>5. CASE \E res \in {"ok", "rej"}, fix \in Options, size \in ReplySizes,
                queued \in {FALSE, MayQueue} :
               HandleConfigureReq(e, m, res, fix, size, queued)
    <3>1. PICK res \in {"ok", "rej"}, fix \in Options, size \in ReplySizes,
               queued \in {FALSE, MayQueue} :
                 HandleConfigureReq(e, m, res, fix, size, queued)
      BY <2>5
    <3>2. size \in {1, 2} /\ queued = FALSE
      BY <2>3, <3>1
    <3>3. HandleConfigureReq(e, m, res, fix, size, FALSE)
      BY <3>1, <3>2
    <3> QED BY <2>1, <2>2, <3>1, <3>2, <3>3, HandleConfigureReqOpen
  <2>6. CASE HandleDisconnectReq(e, m)
    BY <2>1, <2>2, <2>6, HandleDisconnectReqOpen
  <2>7. CASE \/ HandleConnectResp(e, m) \/ HandleDisconnectResp(e, m)
             \/ IgnoreResponse(e, m)
    BY <2>1, <2>2, <2>7, ResponseOpen
  <2>8. CASE \E queued \in {0} \cup (IF MayQueue THEN {1} ELSE {}) :
               HandleConfigResp(e, m, queued)
    <3>1. HandleConfigResp(e, m, 0)
      BY <2>8
    <3>2. ResponseGoesOn(e, m, 0) \/ ResponseEnds(e, m)
      BY <3>1 DEF HandleConfigResp
    <3> QED BY <2>1, <2>2, <3>1, <3>2, ResponseGoesOnOpen, ResponseEndsOpen
  <2> QED
    BY <1>4, <2>1, <2>4, <2>5, <2>6, <2>7, <2>8, Receptions
<1>5. CASE UNCHANGED vars
  <2>1. UNCHANGED <<state, expected, wire, configure_req, link>>
    BY <1>5 DEF vars
  <2> QED
    BY <2>1 DEF OpenInv, Opens, AcceptTold, ToldAccepted, Listens, Answered,
                Hears
<1> QED
  BY <1>1, <1>2, <1>3, <1>4, <1>5 DEF Next

(* Whatever the sizes, rejections, corrections, disconnections and losses  *)
(* of the link, an end that is open has a peer that is open, closing, or   *)
(* about to be opened by the response under way: provided that no signal   *)
(* has to be queued (l2cap_config_send takes that for a failure) and no    *)
(* client configures a channel that is already open.                       *)
THEOREM NeverHalfOpen ==
  ASSUME MayQueue = FALSE, Reconfigure = FALSE
  PROVE  Spec => []OpenNotHalf
<1>1. OpenInv => OpenNotHalf
  <2> SUFFICES ASSUME OpenInv, NEW e \in Ends, state[e] = "OPEN", link = Ends
               PROVE  \/ state[Peer(e)] \in Closing \cup {"OPEN"}
                      \/ /\ state[Peer(e)] = "WAIT_CONFIG_RSP"
                         /\ InFlight(e, {"CONFIG_RSP"})
    BY DEF OpenNotHalf
  <2> DEFINE p == Peer(e)
  <2>1. p \in Ends /\ Peer(p) = e /\ Opens(e) /\ Opens(p)
    BY Peers DEF OpenInv
  <2>2. state[p] \in Settled \cup Closing \/ Answered(p)
    BY <2>1 DEF Opens, AcceptTold, Accepted
  <2>3. state[p] \in Accepted \cup Closing
    BY <2>1 DEF Opens, ToldAccepted, Settled
  <2>4. CASE Answered(p)
    <3>1. state[p] \in Waiting /\ InFlight(e, {"CONFIG_RSP"})
      BY <2>1, <2>4 DEF Answered, Accepts, InFlight
    <3> QED BY <2>3, <3>1 DEF Accepted, Closing, Waiting
  <2>5. CASE state[p] \in Settled \cup Closing
    BY <2>3, <2>5 DEF Settled, Accepted, Closing
  <2> QED BY <2>2, <2>4, <2>5
<1>2. ChanInv /\ OpenInv /\ [Next]_vars => OpenInv'
  BY OpenInvNext
<1> QED
  BY <1>1, <1>2, ChanInvariance, OpenInvInit, PTL DEF Spec

-----------------------------------------------------------------------------
(* What an end awaits is under way.                                        *)

(* While the connection is asked for, the request or its response is under *)
(* way, or the link was lost at the other end.                             *)
Connecting ==
  LET out == wire["outgoing"]
      in == wire["incoming"]
      exp == expected["outgoing"]
  IN /\ state["incoming"] # "WAIT_CONNECT_RSP"
     /\ state["outgoing"] = "WAIT_CONNECT_RSP" =>
          /\ "outgoing" \in link /\ exp.code = "CONN_RSP" /\ exp.count = 1
          /\ configs["outgoing"].first = 0
          /\ \/ Len(out) = 1 /\ out[1].code = "CONN_REQ" /\ out[1].id = exp.id
             \/ /\ out = << >> /\ in # << >>
                /\ in[1].code = "CONN_RSP" /\ in[1].id = exp.id
             \/ /\ out = << >> /\ in = << >>
                /\ state["incoming"] = "NONE" /\ "incoming" \notin link

(* The request that e awaits the response to, or that response.            *)
Coming(e) ==
  \/ \E i \in 1 .. Len(wire[e]) :
       wire[e][i].code = "CONFIG_REQ" /\ wire[e][i].id = expected[e].id
  \/ \E i \in 1 .. Len(wire[Peer(e)]) :
       /\ wire[Peer(e)][i].code = "CONFIG_RSP"
       /\ wire[Peer(e)][i].id = expected[e].id
(* A long request is the last one of its end, for the response to its      *)
(* first packet stays expected; while the end waits the other one is too.  *)
Joined(e) == state[e] \notin Closing \cup {"WAIT_CONNECT_RSP"}
Counted(e) ==
  LET first == configs[e].first
  IN Joined(e) =>
       /\ first \in {0, 1} /\ expected[e].count \in {first, first + 1}
       /\ first = 1 /\ state[e] \in Waiting => expected[e].count = first + 1
Due(e) ==
  Joined(e) /\ expected[e].count > configs[e].first =>
    /\ expected[e].code = "CONFIG_RSP" /\ state[e] \in Waiting
    /\ link = Ends /\ state[Peer(e)] \notin Closing => Coming(e)
AwaitInv == Connecting /\ \A e \in Ends : Counted(e) /\ Due(e)

LEMMA DueStays ==
  ASSUME NEW e \in Ends, Counted(e), Due(e), configs'[e] = configs[e],
         Joined(e)' => state'[e] = state[e] /\ expected'[e] = expected[e],
         link' = Ends /\ state'[Peer(e)] \notin Closing =>
           /\ link = Ends /\ state[Peer(e)] \notin Closing
           /\ Stays(wire'[e], wire[e])
           /\ Stays(wire'[Peer(e)], wire[Peer(e)])
  PROVE  Counted(e)' /\ Due(e)'
<1> DEFINE p == Peer(e)
<1>0. Counted(e)'
  BY DEF Counted, Joined
<1> SUFFICES ASSUME Joined(e)', expected'[e].count > configs'[e].first
             PROVE  /\ expected'[e].code = "CONFIG_RSP"
                    /\ state'[e] \in Waiting
                    /\ link' = Ends /\ state'[p] \notin Closing => Coming(e)'
  BY <1>0 DEF Due
<1>1. state'[e] = state[e] /\ expected'[e] = expected[e]
  OBVIOUS
<1>2. /\ expected[e].code = "CONFIG_RSP" /\ state[e] \in Waiting
      /\ link = Ends /\ state[p] \notin Closing => Coming(e)
  BY <1>1 DEF Due, Joined
<1>3. ASSUME link' = Ends, state'[p] \notin Closing
      PROVE  Coming(e)'
  <2>1. /\ Coming(e) /\ Stays(wire'[e], wire[e]) /\ Stays(wire'[p], wire[p])
    BY <1>2, <1>3
  <2>2. CASE \E i \in 1 .. Len(wire[e]) :
               wire[e][i].code = "CONFIG_REQ" /\ wire[e][i].id = expected[e].id
    <3>1. \E j \in 1 .. Len(wire'[e]) :
            wire'[e][j].code = "CONFIG_REQ" /\ wire'[e][j].id = expected'[e].id
      BY <1>1, <2>1, <2>2 DEF Stays
    <3> QED BY <3>1 DEF Coming
  <2>3. CASE \E i \in 1 .. Len(wire[p]) :
               wire[p][i].code = "CONFIG_RSP" /\ wire[p][i].id = expected[e].id
    <3>1. \E j \in 1 .. Len(wire'[p]) :
            wire'[p][j].code = "CONFIG_RSP" /\ wire'[p][j].id = expected'[e].id
      BY <1>1, <2>1, <2>3 DEF Stays
    <3> QED BY <3>1 DEF Coming
  <2> QED BY <2>1, <2>2, <2>3 DEF Coming
<1> QED BY <1>1, <1>2, <1>3

LEMMA StaysBehind ==
  ASSUME NEW w \in Seq(Signals), NEW s \in Seq(Signals), NEW v, Behind(v, w, s)
  PROVE  /\ Stays(v, w) /\ Stays(w, w)
         /\ w # << >> => v # << >> /\ v[1] = w[1]
<1>1. Stays(v, w) /\ Stays(w, w)
  BY BehindStays DEF Stays
<1>2. ASSUME w # << >>
      PROVE  v # << >> /\ v[1] = w[1]
  <2>1. 1 \in 1 .. Len(w)
    BY <1>2, Consuming
  <2>2. (w \o s)[1] = w[1] /\ Len(w \o s) = Len(w) + Len(s)
    BY <2>1, Joining
  <2>3. w \o s # << >>
    BY <2>1, <2>2
  <2> QED BY <1>2, <2>2, <2>3 DEF Behind
<1> QED BY <1>1, <1>2

(* What arrives while the connection is asked for.                         *)
LEMMA WhileConnecting ==
  ASSUME ChanInv, Connecting, NEW e \in Ends, wire[Peer(e)] # << >>,
         NEW m, m = Head(wire[Peer(e)]), state["outgoing"] = "WAIT_CONNECT_RSP"
  PROVE  /\ m.id = expected["outgoing"].id
         /\ \/ e = "incoming" /\ m.code = "CONN_REQ"
            \/ e = "outgoing" /\ m.code = "CONN_RSP" /\ Handled(e, m)
<1>1. m = wire[Peer(e)][1] /\ expected \in [Ends -> Expectations]
  BY Handing
<1>2. CASE e = "incoming"
  <2>1. Peer(e) = "outgoing"
    BY <1>2, OutIn
  <2> QED BY <1>1, <1>2, <2>1 DEF Connecting
<1>3. CASE e = "outgoing"
  <2>1. Peer(e) = "incoming"
    BY <1>3, OutIn
  <2>3. ~(Len(wire["outgoing"]) = 1 /\ wire["outgoing"][1].code = "CONN_REQ")
    <3> SUFFICES ASSUME Len(wire["outgoing"]) = 1,
                        wire["outgoing"][1].code = "CONN_REQ"
                 PROVE  FALSE
      OBVIOUS
    <3>1. 1 \in 1 .. Len(wire["outgoing"])
      OBVIOUS
    <3> QED BY <2>1, <3>1, OutIn DEF ChanInv, Requested
  <2>4. /\ wire["incoming"][1].code = "CONN_RSP"
        /\ wire["incoming"][1].id = expected["outgoing"].id
        /\ expected["outgoing"].code = "CONN_RSP"
        /\ expected["outgoing"].count = 1
    BY <2>1, <2>3 DEF Connecting
  <2>5. Handled(e, m) /\ m.code = "CONN_RSP" /\ m.id = expected["outgoing"].id
    BY <1>1, <1>3, <2>1, <2>4 DEF Handled, Matches
  <2> QED BY <1>3, <2>5
<1> QED BY <1>2, <1>3 DEF Ends

(* A step of e that takes a signal, other than the connection request.     *)
LEMMA AwaitReceived ==
  ASSUME ChanInv, AwaitInv, NEW e \in Ends, wire[Peer(e)] # << >>,
         NEW m, m = Head(wire[Peer(e)]), m.code # "CONN_REQ",
         NEW s \in Seq(Signals), Answer(e, s), None(s, "CONN_REQ"),
         UNCHANGED <<link, configs>>, state'[Peer(e)] = state[Peer(e)],
         expected'[Peer(e)] = expected[Peer(e)],
         state'[e] # "WAIT_CONNECT_RSP",
         state'[e] \notin Closing => state[e] \notin Closing,
         \/ state'[e] \in Closing
         \/ Counted(e)' /\ Due(e)'
         \/ /\ expected'[e] = expected[e]
            /\ state[e] # "WAIT_CONNECT_RSP"
            /\ state[e] \in Waiting <=> state'[e] \in Waiting
            /\ m.code # "CONFIG_RSP" \/ ~Handled(e, m),
         m.code = "CONFIG_REQ" /\ link = Ends /\ state[e] \notin Closing
             /\ state[Peer(e)] \in Waiting =>
           \/ Answered(Peer(e))
           \/ \E i \in 1 .. Len(s) : s[i].code = "CONFIG_RSP" /\ s[i].id = m.id
  PROVE  AwaitInv'
<1> DEFINE p == Peer(e)
<1>1. /\ p \in Ends /\ p # e /\ Peer(p) = e /\ \A x \in Ends : x = e \/ x = p
      /\ wire[e] \in Seq(Signals) /\ wire[p] \in Seq(Signals)
      /\ Counted(e) /\ Due(e) /\ Counted(p) /\ Due(p) /\ Connecting
      /\ configs[e].first \in Nat /\ expected[e].count \in Nat
  BY Peers DEF ChanInv, ChanTypes, AwaitInv, Counts
<1>2. m = wire[p][1]
  BY Handing
<1>3. /\ wire'[p] = Tail(wire[p]) /\ Behind(wire'[e], wire[e], s)
      /\ p \in link => wire'[e] = wire[e] \o s
  BY Received
<1>4. Stays(wire'[e], wire[e])
  BY <1>1, <1>3, StaysBehind
<1>5. Connecting'
  <2>1. state'["outgoing"] # "WAIT_CONNECT_RSP"
    <3> SUFFICES ASSUME state'["outgoing"] = "WAIT_CONNECT_RSP" PROVE FALSE
      OBVIOUS
    <3>1. p = "outgoing" /\ state["outgoing"] = "WAIT_CONNECT_RSP"
      BY <1>1, OutIn
    <3>2. e # "outgoing"
      BY <1>1, <3>1
    <3> QED BY <1>1, <3>1, <3>2, WhileConnecting
  <2>2. state'["incoming"] # "WAIT_CONNECT_RSP"
    BY <1>1, OutIn DEF Connecting
  <2> QED BY <2>1, <2>2 DEF Connecting
<1>6. Counted(e)' /\ Due(e)'
  <2> SUFFICES ASSUME state'[e] \notin Closing, expected'[e] = expected[e],
                      state[e] # "WAIT_CONNECT_RSP",
                      state[e] \in Waiting <=> state'[e] \in Waiting,
                      m.code # "CONFIG_RSP" \/ ~Handled(e, m)
               PROVE  Counted(e)' /\ Due(e)'
    BY DEF Counted, Due, Joined
  <2>0. Counted(e)' /\ Joined(e)
    BY <1>1 DEF Counted, Joined
  <2> SUFFICES ASSUME expected[e].count > configs[e].first
               PROVE  /\ expected'[e].code = "CONFIG_RSP"
                      /\ state'[e] \in Waiting
                      /\ link' = Ends /\ state'[p] \notin Closing => Coming(e)'
    BY <2>0 DEF Due
  <2>1. /\ expected'[e] = expected[e]
        /\ m.code # "CONFIG_RSP" \/ ~Handled(e, m)
    OBVIOUS
  <2>2. /\ expected[e].code = "CONFIG_RSP"
        /\ state[e] \in Waiting /\ expected[e].count > 0
        /\ link = Ends /\ state[p] \notin Closing => Coming(e)
    BY <1>1, <2>0 DEF Due
  <2>3. ASSUME Coming(e)
        PROVE  Coming(e)'
    <3>1. CASE \E i \in 1 .. Len(wire[e]) :
                 wire[e][i].code = "CONFIG_REQ" /\ wire[e][i].id = expected[e].id
      <4>1. \E j \in 1 .. Len(wire'[e]) :
              wire'[e][j].code = "CONFIG_REQ" /\ wire'[e][j].id = expected'[e].id
        BY <1>4, <2>1, <3>1 DEF Stays
      <4> QED BY <4>1 DEF Coming
    <3>2. ASSUME NEW i \in 1 .. Len(wire[p]), wire[p][i].code = "CONFIG_RSP",
                 wire[p][i].id = expected[e].id
          PROVE  Coming(e)'
      <4>1. i # 1
        <5> SUFFICES ASSUME i = 1 PROVE FALSE
          OBVIOUS
        <5>1. m.code = "CONFIG_RSP" /\ m.id = expected[e].id
          BY <1>2, <3>2
        <5>2. Handled(e, m)
          BY <2>2, <5>1 DEF Handled, Matches, Waiting
        <5> QED BY <2>1, <5>1, <5>2
      <4>2. PICK j \in 1 .. Len(wire'[p]) : wire'[p][j] = wire[p][i]
        <5>1. \E j \in 1 .. Len(Tail(wire[p])) : Tail(wire[p])[j] = wire[p][i]
          BY <1>1, <4>1, TailStays
        <5> QED BY <1>3, <5>1
      <4>3. wire'[p][j].code = "CONFIG_RSP" /\ wire'[p][j].id = expected'[e].id
        BY <2>1, <3>2, <4>2
      <4> QED BY <4>3 DEF Coming
    <3>3. \/ \E i \in 1 .. Len(wire[e]) :
               wire[e][i].code = "CONFIG_REQ" /\ wire[e][i].id = expected[e].id
          \/ \E i \in 1 .. Len(wire[p]) :
               wire[p][i].code = "CONFIG_RSP" /\ wire[p][i].id = expected[e].id
      BY <2>3 DEF Coming
    <3> QED BY <3>1, <3>2, <3>3
  <2> QED BY <2>1, <2>2, <2>3
<1>7. Counted(p)' /\ Due(p)'
  <2>0. Counted(p)'
    BY <1>1 DEF Counted, Joined
  <2> SUFFICES ASSUME Joined(p), expected[p].count > configs[p].first
               PROVE  /\ expected[p].code = "CONFIG_RSP"
                      /\ state[p] \in Waiting
                      /\ link = Ends /\ state'[e] \notin Closing => Coming(p)'
    BY <1>1, <2>0 DEF Due, Joined
  <2>1. /\ expected[p].code = "CONFIG_RSP" /\ state[p] \in Waiting
        /\ link = Ends /\ state[e] \notin Closing => Coming(p)
    BY <1>1 DEF Due
  <2>2. ASSUME link = Ends, state'[e] \notin Closing
        PROVE  Coming(p)'
    <3>1. Coming(p) /\ state[e] \notin Closing /\ p \in link
      BY <1>1, <2>1, <2>2
    <3>2. CASE \E i \in 1 .. Len(wire[e]) :
                 wire[e][i].code = "CONFIG_RSP" /\ wire[e][i].id = expected[p].id
      <4>1. \E j \in 1 .. Len(wire'[e]) :
              wire'[e][j].code = "CONFIG_RSP" /\ wire'[e][j].id = expected'[p].id
        BY <1>4, <3>2 DEF Stays
      <4> QED BY <1>1, <4>1 DEF Coming
    <3>3. ASSUME NEW i \in 1 .. Len(wire[p]), wire[p][i].code = "CONFIG_REQ",
                 wire[p][i].id = expected[p].id
          PROVE  Coming(p)'
      <4>1. CASE i # 1
        <5>1. PICK j \in 1 .. Len(wire'[p]) : wire'[p][j] = wire[p][i]
          BY <1>1, <1>3, <4>1, TailStays
        <5>2. /\ wire'[p][j].code = "CONFIG_REQ"
              /\ wire'[p][j].id = expected'[p].id
          BY <3>3, <5>1
        <5> QED BY <5>2 DEF Coming
      <4>2. CASE i = 1
        <5>1. m.code = "CONFIG_REQ" /\ m.id = expected[p].id
          BY <1>2, <3>3, <4>2
        <5>2. CASE Answered(p)
          <6>1. PICK k \in 1 .. Len(wire[e]) :
                  Accepts(wire[e][k]) /\ wire[e][k].id = expected[p].id
            BY <1>1, <5>2 DEF Answered
          <6> QED BY <3>2, <6>1 DEF Accepts
        <5>3. ASSUME NEW k \in 1 .. Len(s), s[k].code = "CONFIG_RSP",
                     s[k].id = m.id
              PROVE  Coming(p)'
          <6>1. wire'[e] = wire[e] \o s
            BY <1>3, <3>1
          <6>2. /\ (wire[e] \o s)[Len(wire[e]) + k] = s[k]
                /\ Len(wire[e] \o s) = Len(wire[e]) + Len(s)
            BY <1>1, Joining
          <6>3. Len(wire[e]) + k \in 1 .. Len(wire'[e])
            <7>1. Len(wire[e]) \in Nat /\ Len(s) \in Nat
              BY <1>1
            <7> QED BY <6>1, <6>2, <7>1
          <6>4. /\ wire'[e][Len(wire[e]) + k].code = "CONFIG_RSP"
                /\ wire'[e][Len(wire[e]) + k].id = expected'[p].id
            BY <5>1, <5>3, <6>1, <6>2
          <6> QED BY <1>1, <6>3, <6>4 DEF Coming
        <5> QED BY <2>1, <2>2, <3>1, <5>1, <5>2, <5>3
      <4> QED BY <4>1, <4>2
    <3> QED BY <1>1, <3>1, <3>2, <3>3 DEF Coming
  <2> QED BY <2>1, <2>2
<1> QED BY <1>1, <1>5, <1>6, <1>7 DEF AwaitInv

LEMMA ResponseAwait ==
  ASSUME ChanInv, AwaitInv, NEW e \in Ends, wire[Peer(e)] # << >>,
         NEW m, m = Head(wire[Peer(e)]),
         \/ HandleConnectResp(e, m) \/ HandleDisconnectResp(e, m)
         \/ IgnoreResponse(e, m)
  PROVE  AwaitInv'
<1> DEFINE p == Peer(e)
<1>1. /\ state \in [Ends -> States] /\ expected \in [Ends -> Expectations]
      /\ p \in Ends /\ p # e /\ ChanTypes
  BY Handing
<1>2. << >> \in Seq(Signals) /\ None(<< >>, "CONN_REQ")
  BY DEF None
<1>3. /\ Answer(e, << >>) /\ UNCHANGED <<link, configs>>
      /\ m.code # "CONN_REQ" /\ m.code # "CONFIG_REQ"
      /\ m.code # "CONFIG_RSP" \/ ~Handled(e, m)
  BY DEF HandleConnectResp, HandleDisconnectResp, IgnoreResponse
<1>4. Connecting
  BY DEF AwaitInv
<1>5. CASE IgnoreResponse(e, m)
  <2>1. UNCHANGED <<state, expected>> /\ ~Handled(e, m)
    BY <1>5 DEF IgnoreResponse, channel
  <2>2. state[e] # "WAIT_CONNECT_RSP"
    <3> SUFFICES ASSUME state[e] = "WAIT_CONNECT_RSP" PROVE FALSE
      OBVIOUS
    <3>1. e = "outgoing"
      BY <1>4 DEF Connecting, Ends
    <3> QED BY <1>4, <2>1, <3>1, WhileConnecting
  <2> QED BY <1>2, <1>3, <2>1, <2>2, AwaitReceived
<1>6. CASE HandleDisconnectResp(e, m)
  <2>1. /\ OneLess(e) /\ expected[e].count > 0 /\ Goto(e, "CLOSED")
    BY <1>6 DEF HandleDisconnectResp, Handled, Matches
  <2>2. expected'[p] = expected[p]
    BY <1>1, <2>1, OneLessEffect
  <2>3. state'[e] = "CLOSED" /\ state'[p] = state[p] /\ "CLOSED" \in Closing
    BY <1>1, <2>1 DEF Goto, Closing
  <2> QED BY <1>2, <1>3, <2>2, <2>3, AwaitReceived
<1>7. CASE HandleConnectResp(e, m)
  <2>1. /\ OneLess(e) /\ expected[e].count > 0
        /\ state[e] = "WAIT_CONNECT_RSP"
        /\ Goto(e, "WAIT_CONFIG") \/ Goto(e, "NONE")
    BY <1>7 DEF HandleConnectResp, Handled, Matches
  <2>2. e = "outgoing" /\ expected[e].count = 1 /\ configs[e].first = 0
    BY <1>4, <2>1 DEF Connecting, Ends
  <2>3. expected'[p] = expected[p] /\ expected'[e].count = 0
    <3>1. /\ expected'[e] = [expected[e] EXCEPT !.count = @ - 1]
          /\ expected'[p] = expected[p] /\ expected[e] \in Expectations
      BY <1>1, <2>1, OneLessEffect
    <3> QED BY <2>2, <3>1 DEF Expectations
  <2>4. /\ state'[e] \in {"WAIT_CONFIG", "NONE"} /\ state'[p] = state[p]
    BY <1>1, <2>1 DEF Goto
  <2>5. /\ state[e] \notin Closing /\ state'[e] # "WAIT_CONNECT_RSP"
        /\ Counted(e)' /\ Due(e)'
    <3>1. configs'[e].first = 0 /\ expected'[e].count = configs'[e].first
      BY <1>3, <2>2, <2>3
    <3> QED BY <2>1, <2>4, <3>1 DEF Closing, Counted, Due
  <2> QED BY <1>2, <1>3, <2>3, <2>4, <2>5, AwaitReceived
<1> QED BY <1>5, <1>6, <1>7

LEMMA HandleDisconnectReqAwait ==
  ASSUME ChanInv, AwaitInv, NEW e \in Ends, wire[Peer(e)] # << >>,
         NEW m, m = Head(wire[Peer(e)]), HandleDisconnectReq(e, m)
  PROVE  AwaitInv'
<1>1. /\ m \in Signals /\ Peer(e) \in Ends /\ Peer(e) # e
      /\ state \in [Ends -> States]
  BY Handing
<1>2. PICK c \in {"CMD_REJ", "DISCONN_RSP"} :
        /\ Answer(e, <<Plain(c, m.id)>>)
        /\ (state[e] = "NONE" /\ UNCHANGED state) \/ Goto(e, "CLOSED")
  BY DEF HandleDisconnectReq
<1>3. m.code = "DISCONN_REQ" /\ UNCHANGED <<expected, link, configs>>
  BY DEF HandleDisconnectReq
<1>4. <<Plain(c, m.id)>> \in Seq(Signals) /\ None(<<Plain(c, m.id)>>, "CONN_REQ")
  <2>1. m.id \in Nat /\ c \in Codes
    BY <1>1 DEF Signals, Codes
  <2>2. Plain(c, m.id) \in Signals /\ Plain(c, m.id).code = c
    BY <2>1, Plains
  <2> QED BY <2>2, NoneShort
<1>5. state'[e] \in {"NONE", "CLOSED"} /\ state'[Peer(e)] = state[Peer(e)]
  BY <1>1, <1>2 DEF Goto
<1>6. {"NONE", "CLOSED"} \subseteq Closing /\ "WAIT_CONNECT_RSP" \notin Closing
  BY DEF Closing
<1> QED BY <1>2, <1>3, <1>4, <1>5, <1>6, AwaitReceived

(* Each complete or partial request that is taken gets a response.         *)
LEMMA RespondedAwait ==
  ASSUME ChanInv, AwaitInv, NEW e \in Ends, wire[Peer(e)] # << >>,
         NEW m, m = Head(wire[Peer(e)]), m.code = "CONFIG_REQ",
         state[e] \in Configurable,
         NEW r \in Signals, r.code = "CONFIG_RSP", r.id = m.id,
         Answer(e, <<r>>), UNCHANGED <<expected, link, configs>>,
         Answering(state[e], state'[e]), state'[Peer(e)] = state[Peer(e)]
  PROVE  AwaitInv'
<1>1. <<r>> \in Seq(Signals) /\ None(<<r>>, "CONN_REQ")
  BY NoneShort
<1>2. /\ state'[e] # "WAIT_CONNECT_RSP" /\ state[e] # "WAIT_CONNECT_RSP"
      /\ state[e] \notin Closing
      /\ state[e] \in Waiting <=> state'[e] \in Waiting
  BY DEF Configurable, Answering, Waiting, Closing
<1>3. \E i \in 1 .. Len(<<r>>) : <<r>>[i].code = "CONFIG_RSP" /\ <<r>>[i].id = m.id
  BY Singles
<1> QED BY <1>1, <1>2, <1>3, AwaitReceived

LEMMA HandleConfigureReqAwait ==
  ASSUME ChanInv, OpenInv, AwaitInv, NEW e \in Ends, wire[Peer(e)] # << >>,
         NEW m, m = Head(wire[Peer(e)]), NEW res \in {"ok", "rej"},
         NEW fix \in Options, NEW size \in {1, 2},
         HandleConfigureReq(e, m, res, fix, size, FALSE)
  PROVE  AwaitInv'
<1> DEFINE p == Peer(e)
<1>1. m.code = "CONFIG_REQ" /\ UNCHANGED <<expected, link, configs>>
  BY DEF HandleConfigureReq
<1>2. /\ p \in Ends /\ p # e /\ Peer(p) = e /\ m \in Signals
      /\ state \in [Ends -> States] /\ state[e] \in States
  BY Peers, Handing
<1>3. /\ m.id \in Nat /\ m.mtu \in Options
      /\ configure_req[e].mtu \in Options /\ configure_req[e].res \in Results
      /\ NoMtu \in Options /\ "ok" \in Results /\ res \in Results
  BY <1>2 DEF ChanInv, ChanTypes, Signals, Options, Results
<1>4. CASE /\ state[e] \notin Configurable
           /\ Answer(e, <<Plain("CMD_REJ", m.id)>>)
           /\ UNCHANGED state
  <2>1. "CMD_REJ" \in Codes
    BY DEF Codes
  <2>2. /\ Plain("CMD_REJ", m.id) \in Signals
        /\ Plain("CMD_REJ", m.id).code = "CMD_REJ"
    BY <1>3, <2>1, Plains
  <2>3. /\ <<Plain("CMD_REJ", m.id)>> \in Seq(Signals)
        /\ None(<<Plain("CMD_REJ", m.id)>>, "CONN_REQ")
    BY <2>2, NoneShort
  <2>4. state[e] # "WAIT_CONNECT_RSP"
    <3> SUFFICES ASSUME state[e] = "WAIT_CONNECT_RSP" PROVE FALSE
      OBVIOUS
    <3>1. e = "outgoing" /\ Connecting
      BY DEF AwaitInv, Connecting, Ends
    <3> QED BY <1>1, <3>1, WhileConnecting
  <2>5. ASSUME link = Ends, state[e] \notin Closing, state[p] \in Waiting
        PROVE  Answered(p)
    <3>1. state[e] \in Accepted
      BY <1>2, <1>4, <2>4, <2>5
      DEF States, Connected, ConfigStates, Configurable, Closing, Accepted
    <3>2. AcceptTold(p)
      BY <1>2 DEF OpenInv, Opens
    <3> QED
      BY <1>2, <2>5, <3>1, <3>2 DEF AcceptTold, Settled, Closing, Waiting
  <2> QED BY <1>1, <1>4, <2>3, <2>4, <2>5, AwaitReceived
<1>5. CASE state[e] \in Configurable /\ SendRest(e, m)
  <2> DEFINE r == Signal("CONFIG_RSP", m.id, FALSE, NoMtu, configure_req[e].res)
  <2>1. Answer(e, <<r>>) /\ Finished(e, configure_req[e].res)
    BY <1>5 DEF SendRest
  <2>2. r \in Signals /\ r.code = "CONFIG_RSP" /\ r.id = m.id
    BY <1>3 DEF Signal, Signals, Codes
  <2> HIDE DEF r
  <2>3. Answering(state[e], state'[e]) /\ state'[p] = state[p]
    BY <1>2, <2>1, FinishedEffect
  <2> QED BY <1>1, <1>5, <2>1, <2>2, <2>3, RespondedAwait
<1>6. CASE state[e] \in Configurable /\ AckPart(e, m)
  <2> DEFINE r == Signal("CONFIG_RSP", m.id, TRUE, NoMtu, "ok")
  <2>1. Answer(e, <<r>>) /\ UNCHANGED state
    BY <1>6 DEF AckPart
  <2>2. r \in Signals /\ r.code = "CONFIG_RSP" /\ r.id = m.id
    BY <1>3 DEF Signal, Signals, Codes
  <2> HIDE DEF r
  <2> QED BY <1>1, <1>6, <2>1, <2>2, RespondedAwait DEF Answering
<1>7. CASE state[e] \in Configurable /\ Respond(e, m, res, fix, size, FALSE)
  <2> DEFINE all == Merge(ApplyAll(configure_req[e].mtu, m), fix)
             o == IF res = "ok" THEN all ELSE NoMtu
             r == Signal("CONFIG_RSP", m.id, size > 1, o, res)
  <2>1. Answer(e, <<r>>) /\ (UNCHANGED state \/ Finished(e, res))
    BY <1>7 DEF Respond
  <2>2. o \in Options
    <3>1. Merge(configure_req[e].mtu, m.mtu) \in Options
      BY <1>3, MtuFacts
    <3>2. ApplyAll(configure_req[e].mtu, m) \in Options
      BY <3>1, MtuFacts DEF ApplyAll, Options
    <3> QED BY <1>3, <3>2, MtuFacts
  <2> HIDE DEF o
  <2>3. r \in Signals /\ r.code = "CONFIG_RSP" /\ r.id = m.id
    BY <1>3, <2>2 DEF Signal, Signals, Codes
  <2> HIDE DEF r
  <2>4. Answering(state[e], state'[e]) /\ state'[p] = state[p]
    BY <1>2, <2>1, FinishedEffect DEF Answering
  <2> QED BY <1>1, <1>7, <2>1, <2>3, <2>4, RespondedAwait
<1> QED
  BY <1>4, <1>5, <1>6, <1>7 DEF HandleConfigureReq

(* The last packet of a response, and one that goes on when no other is    *)
(* expected: one less.                                                     *)
LEMMA OneLessAwait ==
  ASSUME ChanInv, AwaitInv, NEW e \in Ends, wire[Peer(e)] # << >>,
         NEW m, m = Head(wire[Peer(e)]), m.code = "CONFIG_RSP",
         state[e] \in Waiting, expected[e].count = configs[e].first + 1,
         Answer(e, << >>), OneLess(e), UNCHANGED <<link, configs>>,
         \/ UNCHANGED state /\ configs[e].first = 0
         \/ Goto(e, "OPEN") \/ Goto(e, "WAIT_CONFIG_REQ")
         \/ Goto(e, "WAIT_SEND_CONFIG") \/ Goto(e, "WAIT_CONFIG")
  PROVE  AwaitInv'
<1> DEFINE p == Peer(e)
<1>1. /\ state \in [Ends -> States] /\ expected \in [Ends -> Expectations]
      /\ p \in Ends /\ p # e /\ expected[e] \in Expectations
      /\ configs[e].first \in Nat /\ Counted(e)
  <2>1. /\ state \in [Ends -> States] /\ expected \in [Ends -> Expectations]
        /\ configs \in [Ends -> Counts]
    BY DEF ChanInv, ChanTypes, Expectations
  <2>2. p \in Ends /\ p # e
    BY Peers
  <2>3. configs[e] \in Counts /\ expected[e] \in Expectations
    BY <2>1
  <2>4. Counted(e)
    BY DEF AwaitInv
  <2> QED BY <2>1, <2>2, <2>3, <2>4 DEF Counts
<1>2. /\ << >> \in Seq(Signals) /\ None(<< >>, "CONN_REQ")
  BY DEF None
<1>3. /\ expected'[e] = [expected[e] EXCEPT !.count = @ - 1]
      /\ expected'[p] = expected[p]
  <2>1. expected[e].count > 0
    BY <1>1
  <2>2. ChanTypes
    BY DEF ChanInv
  <2> QED BY <2>1, <2>2, OneLessEffect
<1>4. expected'[e].count = configs[e].first
  BY <1>1, <1>3 DEF Expectations
<1>5. /\ state'[p] = state[p] /\ state'[e] # "WAIT_CONNECT_RSP"
      /\ state[e] \notin Closing
      /\ state'[e] \notin Waiting \/ configs[e].first = 0
  BY <1>1 DEF Goto, Waiting, Closing
<1>6. Joined(e) /\ configs[e].first \in {0, 1}
  BY <1>1 DEF Joined, Counted, Waiting, Closing
<1>7. Counted(e)' /\ Due(e)'
  BY <1>1, <1>4, <1>5, <1>6 DEF Counted, Due
<1> QED BY <1>2, <1>3, <1>5, <1>7, AwaitReceived

(* What is appended is found behind what was there.                        *)
LEMMA AppendedAt ==
  ASSUME NEW w \in Seq(Signals), NEW s \in Seq(Signals)
  PROVE  /\ Len(w \o s) = Len(w) + Len(s)
         /\ \A i \in 1 .. Len(s) : (w \o s)[Len(w) + i] = s[i]
  BY Joining

LEMMA Appended ==
  ASSUME NEW w \in Seq(Signals), NEW s \in Seq(Signals), NEW n \in 1 .. Len(s)
  PROVE  \E j \in 1 .. Len(w \o s) : (w \o s)[j] = s[n]
<1>1. PICK k \in Nat : k = Len(w)
  OBVIOUS
<1>2. PICK l \in Nat : l = Len(s)
  OBVIOUS
<1>3. PICK j \in 1 .. k + l : j = k + n
  BY <1>2
<1>4. /\ Len(w \o s) = Len(w) + Len(s)
      /\ \A i \in 1 .. Len(s) : (w \o s)[Len(w) + i] = s[i]
  BY AppendedAt
<1>5. (w \o s)[Len(w) + n] = s[n]
  BY <1>4, Zenon
<1> QED BY <1>1, <1>2, <1>3, <1>4, <1>5

(* The empty request that asks for the rest of an answer.                  *)
LEMMA EmptyRequest ==
  ASSUME NEW id \in Nat, NEW null, null = RequestSignals(id, 1, NoMtu, 0)
  PROVE  /\ null \in Seq(Signals) /\ Len(null) = 1 /\ 1 \in 1 .. Len(null)
         /\ null[1].code = "CONFIG_REQ" /\ None(null, "CONN_REQ")
<1>1. RequestOK(null, 1, 0)
  <2>1. NoMtu \in Options /\ 1 \in {1, 2} /\ 0 \in 0 .. 2 /\ 0 <= 1
    BY DEF Options
  <2> QED BY <2>1, RequestFacts
<1>2. /\ null \in Seq(Signals) /\ Len(null) = 1
      /\ \A i \in 1 .. Len(null) : null[i].code = "CONFIG_REQ"
  BY <1>1 DEF RequestOK
<1>3. 1 \in 1 .. Len(null)
  BY <1>2
<1>4. None(null, "CONN_REQ")
  BY <1>2 DEF None
<1> QED BY <1>2, <1>3, <1>4

(* A response that goes on, to a long request: an empty request asks for   *)
(* more, and its response is the one that is expected.                     *)
LEMMA AsksAwait ==
  ASSUME ChanInv, AwaitInv, NEW e \in Ends, wire[Peer(e)] # << >>,
         NEW m, m = Head(wire[Peer(e)]), m.code = "CONFIG_RSP",
         state[e] \in Waiting, configs[e].first = 1, expected[e].count = 2,
         NEW null, null = RequestSignals(last_signal_id[e], 1, NoMtu, 0),
         NEW less \in Expectations, less.count = 1,
         NEW x, x = ExpectConfig(less, null, 0),
         Answer(e, null), expected' = [expected EXCEPT ![e] = x],
         UNCHANGED <<state, link, configs>>
  PROVE  AwaitInv'
<1> DEFINE p == Peer(e)
<1>1. /\ expected \in [Ends -> Expectations] /\ last_signal_id[e] \in Nat
      /\ p \in Ends /\ p # e /\ expected[e] \in Expectations
      /\ wire[e] \in Seq(Signals)
  <2>1. p \in Ends /\ p # e
    BY Peers
  <2> QED BY <2>1 DEF ChanInv, ChanTypes, Expectations
<1>3. /\ null \in Seq(Signals) /\ Len(null) = 1 /\ 1 \in 1 .. Len(null)
      /\ null[1].code = "CONFIG_REQ" /\ None(null, "CONN_REQ")
  BY <1>1, EmptyRequest, Zenon
<1>5. x.count = 2 /\ x.code = "CONFIG_RSP" /\ x.id = null[1].id
  <2>1. ExpectOK(ExpectConfig(less, null, 0), less, null, 0)
    <3>1. Len(null) \in {1, 2} /\ 0 \in 0 .. 2
      BY <1>3
    <3> QED BY <1>3, <3>1, ExpectFacts
  <2>2. /\ x.count = less.count + Len(null) /\ x.code = "CONFIG_RSP"
        /\ x.id = null[Len(null)].id
    BY <2>1 DEF ExpectOK
  <2> QED BY <1>3, <2>2
<1>6. expected'[e] = x /\ expected'[p] = expected[p]
  BY <1>1
<1>7. Counted(e)'
  BY <1>5, <1>6 DEF Counted
<1>8. ASSUME link' = Ends
      PROVE  Coming(e)'
  <2>1. wire'[e] = wire[e] \o null
    BY <1>1, <1>3, <1>8, Received
  <2>2. PICK j \in 1 .. Len(wire[e] \o null) : (wire[e] \o null)[j] = null[1]
    BY <1>1, <1>3, Appended, Zenon
  <2>3. PICK y : y = wire[e] \o null
    OBVIOUS
  <2>4. wire'[e] = y /\ j \in 1 .. Len(y) /\ y[j] = null[1]
    BY <2>1, <2>2, <2>3
  <2>5. null[1].id = expected'[e].id
    BY <1>5, <1>6
  <2> QED BY <1>3, <2>4, <2>5 DEF Coming
<1>9. Due(e)'
  BY <1>5, <1>6, <1>8 DEF Due
<1>10. state[e] # "WAIT_CONNECT_RSP" /\ state[e] \notin Closing
  BY DEF Waiting, Closing
<1> QED BY <1>3, <1>6, <1>7, <1>9, <1>10, AwaitReceived

LEMMA HandleConfigRespAwait ==
  ASSUME ChanInv, AwaitInv, NEW e \in Ends, wire[Peer(e)] # << >>,
         NEW m, m = Head(wire[Peer(e)]), HandleConfigResp(e, m, 0)
  PROVE  AwaitInv'
<1>1. /\ m.code = "CONFIG_RSP" /\ expected[e].count > 0 /\ state[e] \in Waiting
      /\ UNCHANGED <<link, configs>>
      /\ ResponseGoesOn(e, m, 0) \/ ResponseEnds(e, m)
  BY DEF HandleConfigResp, Handled, Matches, Waiting
<1>2. /\ configs[e].first \in {0, 1}
      /\ expected[e].count = configs[e].first + 1
  <2>1. Counted(e) /\ Joined(e)
    BY <1>1 DEF Waiting, Closing, AwaitInv, Joined
  <2> QED BY <1>1, <2>1 DEF Counted
<1>3. CASE ResponseGoesOn(e, m, 0) /\ configs[e].first = 0
  <2>1. ~(expected[e].count - 1 = 1)
    BY <1>2, <1>3
  <2>2. Answer(e, << >>) /\ OneLess(e) /\ UNCHANGED state
    BY <1>3, <2>1 DEF ResponseGoesOn, OneLess
  <2> QED BY <1>1, <1>2, <1>3, <2>2, OneLessAwait
<1>4. CASE ResponseGoesOn(e, m, 0) /\ configs[e].first = 1
  <2>1. expected[e].count = 2 /\ expected[e].count - 1 = 1
    BY <1>2, <1>4
  <2>2. PICK null : null = RequestSignals(last_signal_id[e], 1, NoMtu, 0)
    OBVIOUS
  <2>3. PICK less \in Expectations :
          less = [expected[e] EXCEPT !.count = @ - 1] /\ less.count = 1
    <3>1. PICK y \in Expectations : y = expected[e]
      BY DEF ChanInv, ChanTypes, Expectations
    <3>2. PICK n \in Nat : n = y.count - 1 /\ n = 1
      BY <2>1, <3>1
    <3>3. [y EXCEPT !.count = n] \in Expectations /\ [y EXCEPT !.count = n].count = n
      BY <3>1 DEF Expectations
    <3> QED BY <3>1, <3>2, <3>3
  <2>4. PICK x : x = ExpectConfig(less, null, 0)
    OBVIOUS
  <2>5. /\ Answer(e, null) /\ expected' = [expected EXCEPT ![e] = x]
        /\ UNCHANGED state
    BY <1>4, <2>1, <2>2, <2>3, <2>4 DEF ResponseGoesOn
  <2>6. PICK l \in Expectations : l = less /\ l.count = 1 /\ x = ExpectConfig(l, null, 0)
    BY <2>3, <2>4
  <2> QED BY <1>1, <1>4, <2>1, <2>2, <2>5, <2>6, AsksAwait
<1>5. CASE ResponseEnds(e, m)
  <2>1. Answer(e, << >>) /\ OneLess(e)
    BY <1>5 DEF ResponseEnds
  <2>2. \/ Goto(e, "OPEN") \/ Goto(e, "WAIT_CONFIG_REQ")
        \/ Goto(e, "WAIT_SEND_CONFIG") \/ Goto(e, "WAIT_CONFIG")
    BY <1>5 DEF ResponseEnds, ResponseReceived, ResponseRejected
  <2> QED BY <1>1, <1>2, <2>1, <2>2, OneLessAwait
<1> QED BY <1>1, <1>2, <1>3, <1>4, <1>5

LEMMA ConnectingStays ==
  ASSUME Connecting, state'["incoming"] # "WAIT_CONNECT_RSP",
         state'["outgoing"] = "WAIT_CONNECT_RSP" =>
           /\ state["outgoing"] = "WAIT_CONNECT_RSP" /\ "outgoing" \in link'
           /\ expected'["outgoing"] = expected["outgoing"]
           /\ configs'["outgoing"] = configs["outgoing"]
           /\ wire'["outgoing"] = wire["outgoing"]
           /\ wire["incoming"] # << >> =>
                /\ wire'["incoming"] # << >>
                /\ wire'["incoming"][1] = wire["incoming"][1]
           /\ wire["incoming"] = << >> /\ state["incoming"] = "NONE"
                  /\ "incoming" \notin link =>
                /\ wire'["incoming"] = << >> /\ state'["incoming"] = "NONE"
                /\ "incoming" \notin link'
  PROVE  Connecting'
  BY DEF Connecting

(* A step of e that sends and leaves the peer alone.                       *)
LEMMA AwaitSent ==
  ASSUME ChanInv, AwaitInv, NEW e \in Ends, NEW s \in Seq(Signals), Send(e, s),
         UNCHANGED link, state[e] \notin {"NONE", "WAIT_CONNECT_RSP"},
         state'[e] # "WAIT_CONNECT_RSP", state'[Peer(e)] = state[Peer(e)],
         expected'[Peer(e)] = expected[Peer(e)],
         configs'[Peer(e)] = configs[Peer(e)],
         state'[e] \notin Closing => state[e] \notin Closing,
         Counted(e)', Due(e)'
  PROVE  AwaitInv'
<1> DEFINE p == Peer(e)
<1>1. /\ p \in Ends /\ p # e /\ Peer(p) = e /\ \A x \in Ends : x = e \/ x = p
      /\ wire[e] \in Seq(Signals) /\ wire[p] \in Seq(Signals)
      /\ Counted(p) /\ Due(p) /\ Connecting /\ ChanTypes
  BY Peers DEF ChanInv, ChanTypes, AwaitInv
<1>2. wire'[p] = wire[p] /\ Behind(wire'[e], wire[e], s)
  BY <1>1, SendEffect
<1>3. /\ Stays(wire'[e], wire[e]) /\ Stays(wire[p], wire[p])
      /\ wire[e] # << >> => wire'[e] # << >> /\ wire'[e][1] = wire[e][1]
  <2>1. Behind(wire[p], wire[p], s)
    BY DEF Behind
  <2> QED BY <1>1, <1>2, <2>1, StaysBehind
<1>4. Counted(p)' /\ Due(p)'
  BY <1>1, <1>2, <1>3, DueStays
<1>5. Connecting'
  <2>1. CASE e = "outgoing"
    <3>1. p = "incoming"
      BY <2>1, OutIn
    <3>2. state'["incoming"] # "WAIT_CONNECT_RSP"
      BY <1>1, <3>1 DEF Connecting
    <3> QED BY <2>1, <3>2 DEF Connecting
  <2>2. CASE e = "incoming"
    <3>1. p = "outgoing"
      BY <2>2, OutIn
    <3>2. state'["outgoing"] = "WAIT_CONNECT_RSP" => "outgoing" \in link
      BY <1>1, <3>1 DEF Connecting
    <3> QED BY <1>1, <1>2, <1>3, <2>2, <3>1, <3>2, ConnectingStays
  <2> QED BY <2>1, <2>2 DEF Ends
<1> QED BY <1>1, <1>4, <1>5 DEF AwaitInv

LEMMA DisconnectAwait ==
  ASSUME ChanInv, AwaitInv, NEW e \in Ends, Disconnect(e)
  PROVE  AwaitInv'
<1> DEFINE id == NextId(last_signal_id[e])
           s == <<Plain("DISCONN_REQ", id)>>
<1>1. /\ state \in [Ends -> States] /\ Peer(e) \in Ends /\ Peer(e) # e
      /\ expected \in [Ends -> Expectations] /\ id \in Nat
  BY Peers, NextIds DEF ChanInv, ChanTypes, Expectations
<1>2. CASE state[e] \in Connected
  <2>1. /\ Send(e, s) /\ Goto(e, "WAIT_DISCONNECT")
        /\ Expect(e, "DISCONN_RSP", id) /\ UNCHANGED <<link, configs>>
    BY <1>2 DEF Disconnect, Connected, ConfigStates
  <2>2. s \in Seq(Signals)
    <3>1. Plain("DISCONN_REQ", id) \in Signals
      BY <1>1, Plains DEF Codes
    <3> QED BY <3>1, NoneShort
  <2> HIDE DEF s
  <2>3. /\ state'[e] = "WAIT_DISCONNECT" /\ state'[Peer(e)] = state[Peer(e)]
        /\ "WAIT_DISCONNECT" \in Closing
        /\ state[e] \notin {"NONE", "WAIT_CONNECT_RSP"}
    BY <1>1, <1>2, <2>1 DEF Goto, Closing, Connected, ConfigStates
  <2>4. expected'[Peer(e)] = expected[Peer(e)] /\ Counted(e)' /\ Due(e)'
    BY <1>1, <2>1, <2>3 DEF Expect, Due, Counted, Joined
  <2> QED BY <2>1, <2>2, <2>3, <2>4, AwaitSent
<1>3. CASE state[e] \notin Connected
  <2>1. UNCHANGED <<state, expected, wire, link, configs>>
    BY <1>3 DEF Disconnect
  <2> QED BY <2>1 DEF AwaitInv, Connecting, Counted, Due, Joined, Coming
<1> QED BY <1>2, <1>3

LEMMA ReleaseAwait ==
  ASSUME ChanInv, AwaitInv, NEW e \in Ends, Release(e)
  PROVE  AwaitInv'
<1>1. /\ state \in [Ends -> States] /\ Peer(e) \in Ends /\ Peer(e) # e
      /\ wire \in [Ends -> Seq(Signals)] /\ wire[e] \in Seq(Signals)
  BY Peers DEF ChanInv, ChanTypes
<1>2. /\ state[e] = "CLOSED" /\ Goto(e, "NONE")
      /\ UNCHANGED <<expected, wire, link, configs>>
  BY DEF Release
<1>3. << >> \in Seq(Signals)
  OBVIOUS
<1>4. Send(e, << >>)
  <2>1. Reaching(e, << >>) = << >>
    BY DEF Reaching
  <2>2. wire[e] \o << >> = wire[e]
    BY <1>1
  <2> QED BY <1>1, <1>2, <2>1, <2>2 DEF Send
<1>5. /\ state'[e] = "NONE" /\ state'[Peer(e)] = state[Peer(e)]
      /\ "NONE" \in Closing
  BY <1>1, <1>2 DEF Goto, Closing
<1>6. Counted(e)' /\ Due(e)'
  BY <1>5 DEF Due, Counted, Joined
<1> QED BY <1>2, <1>3, <1>4, <1>5, <1>6, AwaitSent

LEMMA LinkDownAwait ==
  ASSUME ChanInv, AwaitInv, NEW e \in Ends, LinkDown(e)
  PROVE  AwaitInv'
<1> DEFINE t == IF state[e] = "WAIT_CONNECT_RSP" THEN "NONE" ELSE state[e]
           p == Peer(e)
<1>1. /\ e \in link /\ link' = link \ {e} /\ wire' = [wire EXCEPT ![p] = << >>]
      /\ state' = [state EXCEPT ![e] = t] /\ UNCHANGED <<expected, configs>>
  BY DEF LinkDown, Goto
<1>2. /\ p \in Ends /\ p # e /\ Peer(p) = e /\ \A x \in Ends : x = e \/ x = p
      /\ wire \in [Ends -> Seq(Signals)] /\ state \in [Ends -> States]
      /\ Counted(e) /\ Due(e) /\ Counted(p) /\ Due(p) /\ Connecting
  BY Peers DEF ChanInv, ChanTypes, AwaitInv
<1>3. /\ wire'[p] = << >> /\ wire'[e] = wire[e] /\ link' # Ends
      /\ state'[p] = state[p] /\ state'[e] = t
  BY <1>1, <1>2
<1>4. t = state[e] \/ t \in Closing
  BY DEF Closing
<1>5. t # "WAIT_CONNECT_RSP"
  OBVIOUS
<1> HIDE DEF t
<1>6. Counted(e)' /\ Due(e)' /\ Counted(p)' /\ Due(p)'
  BY <1>1, <1>2, <1>3, <1>4, DueStays DEF Joined
<1>7. Connecting'
  <2>1. CASE e = "outgoing"
    <3>1. p = "incoming"
      BY <2>1, OutIn
    <3>2. state'["incoming"] # "WAIT_CONNECT_RSP"
      BY <1>2, <1>3, <3>1 DEF Connecting
    <3> QED BY <1>3, <1>5, <2>1, <3>2 DEF Connecting
  <2>2. CASE e = "incoming"
    <3>1. p = "outgoing" /\ state'["incoming"] # "WAIT_CONNECT_RSP"
      BY <1>3, <1>5, <2>2, OutIn
    <3>2. ASSUME state'["outgoing"] = "WAIT_CONNECT_RSP"
          PROVE  /\ "outgoing" \in link'
                 /\ expected'["outgoing"].code = "CONN_RSP"
                 /\ expected'["outgoing"].count = 1
                 /\ configs'["outgoing"].first = 0
                 /\ \/ /\ wire'["incoming"] # << >>
                       /\ wire'["incoming"][1].code = "CONN_RSP"
                       /\ wire'["incoming"][1].id = expected'["outgoing"].id
                    \/ /\ wire'["incoming"] = << >>
                       /\ state'["incoming"] = "NONE" /\ "incoming" \notin link'
      <4>1. /\ state["outgoing"] = "WAIT_CONNECT_RSP"
            /\ wire'["incoming"] = wire["incoming"] /\ "incoming" \in link
            /\ "incoming" \notin link'
        BY <1>1, <1>3, <2>2, <3>1, <3>2
      <4>2. /\ "outgoing" \in link' /\ expected["outgoing"].code = "CONN_RSP"
            /\ expected["outgoing"].count = 1
            /\ configs["outgoing"].first = 0
        BY <1>1, <1>2, <2>2, <4>1 DEF Connecting
      <4>3. CASE Len(wire["outgoing"]) = 1 /\ wire["outgoing"][1].code = "CONN_REQ"
        <5>1. 1 \in 1 .. Len(wire["outgoing"])
          BY <4>3
        <5>2. wire["incoming"] = << >> /\ state["incoming"] = "NONE"
          BY <4>3, <5>1, OutIn DEF ChanInv, Requested
        <5>3. t = "NONE"
          BY <2>2, <5>2 DEF t
        <5> QED BY <1>1, <1>3, <2>2, <4>1, <4>2, <5>2, <5>3
      <4>4. CASE /\ wire["incoming"] # << >>
                 /\ wire["incoming"][1].code = "CONN_RSP"
                 /\ wire["incoming"][1].id = expected["outgoing"].id
        BY <1>1, <4>1, <4>2, <4>4
      <4> QED BY <1>2, <4>1, <4>3, <4>4 DEF Connecting
    <3> QED BY <1>3, <3>1, <3>2 DEF Connecting
  <2> QED BY <2>1, <2>2 DEF Ends
<1> QED BY <1>2, <1>6, <1>7 DEF AwaitInv

LEMMA ConfigureAwait ==
  ASSUME MayQueue = FALSE, Reconfigure = FALSE, ChanInv, AwaitInv,
         NEW e \in Ends, NEW size \in RequestSizes, NEW m \in Mtus \cup {NoMtu},
         NEW queued \in 0 .. 2, Configure(e, size, m, queued)
  PROVE  AwaitInv'
<1> DEFINE p == Peer(e)
           s == RequestSignals(last_signal_id[e], size, m, queued)
<1>1. /\ state[e] \in {"WAIT_CONFIG", "WAIT_SEND_CONFIG"}
      /\ expected[e].count = 0 /\ queued <= size /\ queued = 0
      /\ configs' = [configs EXCEPT ![e] = CountRequest(@, size, queued)]
      /\ expected' = [expected EXCEPT ![e] = ExpectConfig(expected[e], s, queued)]
      /\ Send(e, s) /\ state' = [state EXCEPT ![e] = RequestSent(state[e])]
      /\ UNCHANGED link
  BY DEF Configure, MayConfigure, Goto
<1>2. /\ ChanTypes /\ p \in Ends /\ p # e
      /\ state \in [Ends -> States] /\ expected \in [Ends -> Expectations]
      /\ expected[e] \in Expectations /\ last_signal_id[e] \in Nat
      /\ wire[e] \in Seq(Signals) /\ configs \in [Ends -> Counts]
      /\ Counted(e)
  BY Peers DEF ChanInv, ChanTypes, Expectations, AwaitInv
<1>3. RequestOK(s, size, 0) /\ size \in {1, 2}
  <2>1. size \in {1, 2} /\ m \in Options
    BY L2capSizeAssumption DEF Options
  <2> QED BY <1>1, <1>2, <2>1, RequestFacts
<1> HIDE DEF s
<1>4. /\ s \in Seq(Signals) /\ Len(s) = size /\ s[size].code = "CONFIG_REQ"
  <2>1. /\ s \in Seq(Signals) /\ Len(s) = size
        /\ \A i \in 1 .. Len(s) : s[i].code = "CONFIG_REQ"
    BY <1>3 DEF RequestOK
  <2>2. size \in 1 .. Len(s)
    BY <1>3, <2>1
  <2> QED BY <2>1, <2>2
<1>5. /\ expected'[p] = expected[p]
      /\ expected'[e].count = size /\ expected'[e].code = "CONFIG_RSP"
      /\ expected'[e].id = s[size].id
  <2>1. ExpectOK(ExpectConfig(expected[e], s, 0), expected[e], s, 0)
    <3>1. Len(s) \in {1, 2} /\ 0 \in 0 .. 2
      BY <1>3, <1>4
    <3> QED BY <1>2, <1>4, <3>1, ExpectFacts
  <2>2. PICK x : x = ExpectConfig(expected[e], s, 0)
    OBVIOUS
  <2>3. /\ x.count = expected[e].count + Len(s) /\ x.code = "CONFIG_RSP"
        /\ x.id = s[Len(s)].id
    BY <2>1, <2>2 DEF ExpectOK
  <2>4. expected'[e] = x /\ expected'[p] = expected[p]
    BY <1>1, <1>2, <2>2
  <2> QED BY <1>1, <1>3, <1>4, <2>3, <2>4
<1>6. /\ state'[p] = state[p]
      /\ state'[e] \in Waiting /\ state'[e] # "WAIT_CONNECT_RSP"
      /\ state[e] \notin {"NONE", "WAIT_CONNECT_RSP"} /\ state[e] \notin Closing
  BY <1>1, <1>2 DEF RequestSent, Waiting, Closing
<1>7. /\ configs'[p] = configs[p] /\ configs'[e].first \in {0, 1}
      /\ expected'[e].count = configs'[e].first + 1
  <2>1. configs[e].first = 0
    BY <1>1, <1>2, <1>6 DEF Counted, Joined
  <2>2. PICK c \in Counts : c = configs[e]
    BY <1>2
  <2>3. /\ configs'[e] = CountRequest(c, size, queued)
        /\ configs'[p] = configs[p]
    BY <1>1, <1>2, <2>2
  <2>4. configs'[e].first = c.first + IF size = 2 /\ queued # 1 THEN 1 ELSE 0
    BY <2>3, CountedRequest
  <2> QED BY <1>1, <1>3, <1>5, <2>1, <2>2, <2>3, <2>4
<1>8. ASSUME link' = Ends
      PROVE  Coming(e)'
  <2>1. p \in link
    BY <1>1, <1>2, <1>8
  <2>2. wire'[e] = wire[e] \o s
    BY <1>1, <1>2, <1>4, <2>1, SendEffect
  <2>3. PICK j \in 1 .. Len(wire[e] \o s) : (wire[e] \o s)[j] = s[size]
    <3>1. size \in 1 .. Len(s)
      BY <1>3, <1>4
    <3> QED BY <1>2, <1>4, <3>1, Appended
  <2> QED BY <1>4, <1>5, <2>2, <2>3 DEF Coming
<1>9. Counted(e)' /\ Due(e)'
  BY <1>5, <1>6, <1>7, <1>8 DEF Counted, Due
<1> QED BY <1>1, <1>4, <1>5, <1>6, <1>7, <1>9, AwaitSent

LEMMA ConnectionRequestAwait ==
  ASSUME ChanInv, ConnectionRequest
  PROVE  AwaitInv'
<1> DEFINE e == "outgoing"
           id == NextId(last_signal_id[e])
           s == <<Plain("CONN_REQ", id)>>
<1>1. /\ last_signal_id[e] = 0 /\ Send(e, s) /\ e \in link /\ UNCHANGED link
      /\ state' = [state EXCEPT ![e] = "WAIT_CONNECT_RSP"]
      /\ Expect(e, "CONN_RSP", id) /\ UNCHANGED configs
  BY DEF ConnectionRequest, Goto
<1>2. /\ ChanTypes /\ e \in Ends /\ Peer(e) = "incoming" /\ id \in Nat
      /\ expected \in [Ends -> Expectations]
  BY OutIn, NextIds DEF ChanInv, ChanTypes, Expectations
<1>3. /\ s \in Seq(Signals) /\ Len(s) = 1
      /\ s[1].code = "CONN_REQ" /\ s[1].id = id
  <2>1. Plain("CONN_REQ", id) \in Signals
    BY <1>2, Plains DEF Codes
  <2> QED BY <2>1, Singles DEF Plain, Signal
<1> HIDE DEF s
<1>4. /\ wire'["incoming"] = wire["incoming"] /\ Behind(wire'[e], wire[e], s)
      /\ "incoming" \in link => wire'[e] = wire[e] \o s
  BY <1>1, <1>2, <1>3, SendEffect
<1>5. /\ state["incoming"] = "NONE" /\ \A x \in Ends : wire[x] = << >>
      /\ expected[e].count = 0 /\ configs[e].first = 0
  BY <1>1, OutIn DEF ChanInv, NotBegun, Untouched, NoRequests
<1>6. << >> \o s = s
  BY <1>3
<1>7. /\ expected'[e].code = "CONN_RSP" /\ expected'[e].id = id
      /\ expected'[e].count = 1 /\ configs'[e].first = 0
  BY <1>1, <1>2, <1>5 DEF Expect
<1>8. state'[e] = "WAIT_CONNECT_RSP" /\ state'["incoming"] = "NONE"
  BY <1>1, <1>2, <1>5, OutIn DEF ChanTypes
<1>9. Connecting'
  <2>1. CASE "incoming" \in link
    <3>1. wire'[e] = s
      BY <1>2, <1>4, <1>5, <1>6, <2>1
    <3> QED BY <1>1, <1>3, <1>7, <1>8, <3>1 DEF Connecting
  <2>2. CASE "incoming" \notin link
    <3>1. wire'[e] = s \/ wire'[e] = << >>
      BY <1>2, <1>4, <1>5, <1>6 DEF Behind
    <3>2. wire'["incoming"] = << >>
      BY <1>4, <1>5, OutIn
    <3> QED BY <1>1, <1>3, <1>7, <1>8, <2>2, <3>1, <3>2 DEF Connecting
  <2> QED BY <2>1, <2>2
<1>10. ASSUME NEW x \in Ends
       PROVE  Counted(x)' /\ Due(x)'
  <2>1. state'[x] \in Closing \cup {"WAIT_CONNECT_RSP"}
    BY <1>8 DEF Ends, Closing
  <2> QED BY <2>1 DEF Counted, Due, Joined
<1> QED BY <1>9, <1>10 DEF AwaitInv

LEMMA HandleConnectionReqAwait ==
  ASSUME ChanInv, AwaitInv, NEW e \in Ends, wire[Peer(e)] # << >>,
         NEW m, m = Head(wire[Peer(e)]),
         NEW served \in BOOLEAN, HandleConnectionReq(e, m, served)
  PROVE  AwaitInv'
<1> DEFINE p == Peer(e)
           r == Signal("CONN_RSP", m.id, FALSE, NoMtu,
                       IF served THEN "ok" ELSE "refused")
<1>1. /\ m.code = "CONN_REQ" /\ Answer(e, <<r>>)
      /\ UNCHANGED <<expected, link, configs>>
      /\ state' = [state EXCEPT ![e] = "WAIT_CONFIG"] \/ state' = state
  BY DEF HandleConnectionReq, Goto
<1>2. /\ p \in Ends /\ p # e /\ wire[p] \in Seq(Signals)
      /\ state \in [Ends -> States]
      /\ m \in Signals /\ m = wire[p][1] /\ 1 \in 1 .. Len(wire[p])
  BY Handing
<1>3. r \in Signals /\ r.code = "CONN_RSP" /\ r.id = m.id
  BY <1>2 DEF Signal, Signals, Codes, Options, Results
<1> HIDE DEF r
<1>4. /\ <<r>> \in Seq(Signals) /\ None(<<r>>, "CONN_REQ")
      /\ Len(<<r>>) = 1 /\ <<r>>[1] = r
  BY <1>3, NoneShort
<1>5. /\ wire'[p] = Tail(wire[p])
      /\ p \in link => wire'[e] = wire[e] \o <<r>>
  BY <1>1, <1>4, Received
<1>6. /\ p = "outgoing" /\ e = "incoming" /\ Len(wire[p]) = 1
      /\ wire[e] = << >> /\ state[e] = "NONE" /\ expected[e].count = 0
      /\ state[p] \in {"WAIT_CONNECT_RSP", "NONE"}
      /\ configs[e].first = 0
  BY <1>1, <1>2, OutIn DEF ChanInv, Requested, Ends, Untouched, NoRequests
<1>7. wire'[p] = << >>
  <2>1. Len(Tail(wire[p])) = 0 /\ Tail(wire[p]) \in Seq(Signals)
    BY <1>2, <1>6, Consuming
  <2>2. ASSUME Tail(wire[p]) # << >>
        PROVE  1 \in 1 .. Len(Tail(wire[p]))
    BY <2>1, <2>2, Consuming
  <2>3. 1 .. 0 = {}
    OBVIOUS
  <2>4. Tail(wire[p]) = << >>
    BY <2>1, <2>2, <2>3
  <2> QED BY <1>5, <2>4
<1>8. /\ state'[e] \in {"WAIT_CONFIG", "NONE"} /\ state'[p] = state[p]
  BY <1>1, <1>2, <1>6
<1>9. Connecting'
  <2>1. ASSUME state'[p] = "WAIT_CONNECT_RSP"
        PROVE  /\ p \in link /\ expected[p].code = "CONN_RSP"
               /\ expected[p].count = 1 /\ m.id = expected[p].id
               /\ configs[p].first = 0
    <3>1. state["outgoing"] = "WAIT_CONNECT_RSP" /\ Connecting
      BY <1>6, <1>8, <2>1 DEF AwaitInv
    <3> QED BY <1>6, <3>1, WhileConnecting DEF Connecting
  <2>2. ASSUME state'[p] = "WAIT_CONNECT_RSP"
        PROVE  wire'[e] # << >> /\ wire'[e][1] = r
    <3>1. << >> \o <<r>> = <<r>>
      BY <1>4
    <3>2. wire'[e] = <<r>>
      BY <1>5, <1>6, <2>1, <2>2, <3>1
    <3> QED BY <1>4, <3>2
  <2> QED BY <1>1, <1>3, <1>6, <1>7, <1>8, <2>1, <2>2 DEF Connecting
<1>10. Counted(e)' /\ Due(e)' /\ Counted(p)' /\ Due(p)'
  BY <1>1, <1>6, <1>8 DEF Counted, Due, Joined, Closing
<1> QED BY <1>6, <1>9, <1>10 DEF AwaitInv, Ends

LEMMA AwaitInvInit ==
  ASSUME Init
  PROVE  AwaitInv
<1>1. \A e \in Ends : state[e] \in Closing
  BY DEF Init, Ends, Closing
<1>2. state["incoming"] = "NONE" /\ state["outgoing"] = "CLOSED"
  BY OutIn DEF Init
<1> QED BY <1>1, <1>2 DEF AwaitInv, Connecting, Counted, Due, Joined

LEMMA AwaitInvNext ==
  ASSUME MayQueue = FALSE, Reconfigure = FALSE, ChanInv, OpenInv, AwaitInv, [Next]_vars
  PROVE  AwaitInv'
<1>1. CASE ConnectionRequest
  BY <1>1, ConnectionRequestAwait
<1>2. CASE \E e \in Ends, size \in RequestSizes, m \in Mtus \cup {NoMtu},
              q \in 0 .. 2 : Configure(e, size, m, q)
  BY <1>2, ConfigureAwait
<1>3. CASE \E e \in Ends : Disconnect(e) \/ Release(e) \/ LinkDown(e)
  BY <1>3, DisconnectAwait, ReleaseAwait, LinkDownAwait
<1>4. ASSUME NEW e \in Ends, Receive(e)
      PROVE  AwaitInv'
  <2>1. PICK m : m = Head(wire[Peer(e)])
    OBVIOUS
  <2>2. wire[Peer(e)] # << >>
    BY <1>4, <2>1, Receptions
  <2>3. ReplySizes \subseteq {1, 2} /\ {FALSE, MayQueue} = {FALSE}
    BY L2capSizeAssumption
  <2>4. CASE \E served \in BOOLEAN : HandleConnectionReq(e, m, served)
    BY <2>1, <2>2, <2>4, HandleConnectionReqAwait
  <2>5. CASE \E res \in {"ok", "rej"}, fix \in Options, size \in ReplySizes,
                queued \in {FALSE, MayQueue} :
               HandleConfigureReq(e, m, res, fix, size, queued)
    <3>1. PICK res \in {"ok", "rej"}, fix \in Options, size \in ReplySizes,
               queued \in {FALSE, MayQueue} :
                 HandleConfigureReq(e, m, res, fix, size, queued)
      BY <2>5
    <3>2. size \in {1, 2} /\ queued = FALSE
      BY <2>3, <3>1
    <3>3. HandleConfigureReq(e, m, res, fix, size, FALSE)
      BY <3>1, <3>2
    <3> QED BY <2>1, <2>2, <3>1, <3>2, <3>3, HandleConfigureReqAwait
  <2>6. CASE HandleDisconnectReq(e, m)
    BY <2>1, <2>2, <2>6, HandleDisconnectReqAwait
  <2>7. CASE \/ HandleConnectResp(e, m) \/ HandleDisconnectResp(e, m)
             \/ IgnoreResponse(e, m)
    BY <2>1, <2>2, <2>7, ResponseAwait
  <2>8. CASE \E queued \in {0} \cup (IF MayQueue THEN {1} ELSE {}) :
               HandleConfigResp(e, m, queued)
    <3>1. HandleConfigResp(e, m, 0)
      BY <2>8
    <3> QED BY <2>1, <2>2, <3>1, HandleConfigRespAwait
  <2> QED
    BY <1>4, <2>1, <2>4, <2>5, <2>6, <2>7, <2>8, Receptions
<1>5. CASE UNCHANGED vars
  <2>1. UNCHANGED <<state, expected, wire, link, configs>>
    BY <1>5 DEF vars
  <2> QED BY <2>1 DEF AwaitInv, Connecting, Counted, Due, Joined, Coming
<1> QED
  BY <1>1, <1>2, <1>3, <1>4, <1>5 DEF Next

(* Apart from the response to the first packet of a long request, which    *)
(* acl_l2cap_handle_response never matches, a response is expected only    *)
(* while the request or its response is under way: bte_l2cap_configure     *)
(* does not refuse for ever after requests of one packet.  No signal has   *)
(* to be queued and no open channel is configured again; requests and      *)
(* responses take one or two packets, with rejections, corrections,        *)
(* disconnections and losses of the link.                                  *)
THEOREM AwaitsWhatComes ==
  ASSUME MayQueue = FALSE, Reconfigure = FALSE
  PROVE  Spec => []AwaitsOnlyOutstanding
<1>1. ChanInv /\ AwaitInv => AwaitsOnlyOutstanding
  <2> SUFFICES ASSUME ChanInv, AwaitInv, NEW e \in Ends,
                      expected[e].count > configs[e].first, link = Ends,
                      state[e] \notin Closing, state[Peer(e)] \notin Closing
               PROVE  \/ InFlight(e, {"CONN_REQ", "CONFIG_REQ"})
                      \/ InFlight(Peer(e), {"CONN_RSP", "CONFIG_RSP"})
    BY DEF AwaitsOnlyOutstanding
  <2>1. Connecting /\ Due(e)
    BY DEF AwaitInv
  <2>2. CASE state[e] # "WAIT_CONNECT_RSP"
    <3>1. Coming(e)
      BY <2>1, <2>2 DEF Due, Joined
    <3> QED BY <3>1 DEF Coming, InFlight
  <2>3. CASE state[e] = "WAIT_CONNECT_RSP"
    <3>1. e = "outgoing" /\ Peer(e) = "incoming" /\ "incoming" \in link
      BY <2>1, <2>3, OutIn DEF Connecting, Ends
    <3>2. CASE Len(wire[e]) = 1 /\ wire[e][1].code = "CONN_REQ"
      <4>1. 1 \in 1 .. Len(wire[e])
        BY <3>2
      <4> QED BY <3>2, <4>1 DEF InFlight
    <3>3. CASE wire[Peer(e)] # << >> /\ wire[Peer(e)][1].code = "CONN_RSP"
      <4>1. wire[Peer(e)] \in Seq(Signals)
        BY Peers DEF ChanInv, ChanTypes
      <4>2. 1 \in 1 .. Len(wire[Peer(e)])
        BY <3>3, <4>1, Consuming
      <4> QED BY <3>3, <4>2 DEF InFlight
    <3> QED BY <2>1, <2>3, <3>1, <3>2, <3>3 DEF Connecting
  <2> QED BY <2>2, <2>3
<1>2. ChanInv /\ OpenInv /\ AwaitInv /\ [Next]_vars => AwaitInv'
  BY AwaitInvNext
<1>3. ChanInv /\ OpenInv /\ [Next]_vars => OpenInv'
  BY OpenInvNext
<1> QED
  BY <1>1, <1>2, <1>3, ChanInvariance, OpenInvInit, AwaitInvInit, PTL DEF Spec


-----------------------------------------------------------------------------
(* Disconnection, when each client disconnects at most once.               *)
Shut == {"CLOSED", "NONE"}
Closers == {"DISCONN_REQ", "DISCONN_RSP"}
NoneAfter(w, i, code) == \A j \in 1 .. Len(w) : j > i => w[j].code # code
(* A client that was told has a channel that stays closed, with no request *)
(* under way that would tell it again, and a peer that has made its one    *)
(* request or can make none.                                               *)
ClosedOnce(e) ==
  LET p == Peer(e) IN
  /\ closes[e].told > 0 =>
       /\ state[e] \in Shut /\ None(wire[p], "DISCONN_REQ")
       /\ closes[p].asked >= 1 \/ state[p] \in Shut
  /\ \A i \in 1 .. Len(wire[e]) :
       /\ wire[e][i].code = "DISCONN_REQ" =>
            closes[e].asked >= 1 /\ NoneAfter(wire[e], i, "DISCONN_REQ")
       /\ wire[e][i].code = "DISCONN_RSP" =>
            state[e] \in Shut /\ NoneAfter(wire[e], i, "DISCONN_REQ")
Unbothered == closes["outgoing"].told > 0 => None(wire["outgoing"], "CONN_REQ")
CloseInv == Unbothered /\ \A e \in Ends : ClosedOnce(e)

(* Of the signals of a disconnection, v has none that w had not.           *)
Kept(v, w) ==
  \E k \in Nat : \A i \in 1 .. Len(v) :
    v[i].code \in Closers => i + k \in 1 .. Len(w) /\ v[i] = w[i + k]
Unrelated(s) == \A i \in 1 .. Len(s) : s[i].code \notin Closers

LEMMA KeptFacts ==
  ASSUME NEW w \in Seq(Signals)
  PROVE  /\ Kept(w, w) /\ Kept(<< >>, w)
         /\ w # << >> => Kept(Tail(w), w)
<1>1. \A i \in 1 .. Len(w) : i + 0 \in 1 .. Len(w) /\ w[i] = w[i + 0]
  OBVIOUS
<1>2. 1 .. Len(<< >>) = {} /\ 0 \in Nat
  OBVIOUS
<1> QED BY <1>1, <1>2, Consuming DEF Kept

LEMMA KeptBehind ==
  ASSUME NEW w \in Seq(Signals), NEW s \in Seq(Signals), Unrelated(s),
         NEW v, Behind(v, w, s)
  PROVE  Kept(v, w)
<1>1. CASE v = w
  BY <1>1, KeptFacts
<1>2. CASE v = w \o s
  <2>1. ASSUME NEW i \in 1 .. Len(v), v[i].code \in Closers
        PROVE  i + 0 \in 1 .. Len(w) /\ v[i] = w[i + 0]
    <3>1. i \in 1 .. Len(w) /\ v[i] = w[i]
      BY <1>2, <2>1, Joining, SMTT(20) DEF Unrelated
    <3> QED BY <3>1
  <2> QED BY <2>1 DEF Kept
<1> QED BY <1>1, <1>2 DEF Behind

(* A step that neither sends nor answers such a signal.                    *)
LEMMA CloseAside ==
  ASSUME CloseInv, Unbothered', UNCHANGED closes,
         \A x \in Ends : /\ Kept(wire'[x], wire[x]) /\ Len(wire'[x]) \in Nat
                         /\ state[x] \in Shut => state'[x] \in Shut
  PROVE  CloseInv'
<1> SUFFICES ASSUME NEW e \in Ends
             PROVE  ClosedOnce(e)'
  BY DEF CloseInv
<1> DEFINE p == Peer(e)
<1>1. p \in Ends /\ ClosedOnce(e)
  BY Peers DEF CloseInv
<1>2. ASSUME closes'[e].told > 0
      PROVE  /\ state'[e] \in Shut /\ None(wire'[p], "DISCONN_REQ")
             /\ closes'[p].asked >= 1 \/ state'[p] \in Shut
  <2>1. /\ state[e] \in Shut /\ None(wire[p], "DISCONN_REQ")
        /\ closes[p].asked >= 1 \/ state[p] \in Shut
    BY <1>1, <1>2 DEF ClosedOnce
  <2>2. None(wire'[p], "DISCONN_REQ")
    BY <1>1, <2>1 DEF None, Kept, Closers
  <2> QED BY <1>1, <2>1, <2>2
<1>3. PICK k \in Nat : \A i \in 1 .. Len(wire'[e]) :
        wire'[e][i].code \in Closers =>
          i + k \in 1 .. Len(wire[e]) /\ wire'[e][i] = wire[e][i + k]
  BY DEF Kept
<1>4. ASSUME NEW i \in 1 .. Len(wire'[e]), wire'[e][i].code \in Closers
      PROVE  /\ wire'[e][i].code = "DISCONN_REQ" =>
                  closes'[e].asked >= 1 /\ NoneAfter(wire'[e], i, "DISCONN_REQ")
             /\ wire'[e][i].code = "DISCONN_RSP" =>
                  state'[e] \in Shut /\ NoneAfter(wire'[e], i, "DISCONN_REQ")
  <2>1. i + k \in 1 .. Len(wire[e]) /\ wire'[e][i] = wire[e][i + k]
    BY <1>3, <1>4
  <2>2. /\ NoneAfter(wire[e], i + k, "DISCONN_REQ")
        /\ wire'[e][i].code = "DISCONN_REQ" => closes[e].asked >= 1
        /\ wire'[e][i].code = "DISCONN_RSP" => state[e] \in Shut
    BY <1>1, <1>4, <2>1 DEF ClosedOnce, Closers
  <2>3. NoneAfter(wire'[e], i, "DISCONN_REQ")
    <3> SUFFICES ASSUME NEW j \in 1 .. Len(wire'[e]), j > i,
                        wire'[e][j].code = "DISCONN_REQ"
                 PROVE  FALSE
      BY DEF NoneAfter
    <3>1. j + k \in 1 .. Len(wire[e]) /\ wire[e][j + k].code = "DISCONN_REQ"
      BY <1>3 DEF Closers
    <3>2. j + k > i + k
      OBVIOUS
    <3> QED BY <2>2, <3>1, <3>2 DEF NoneAfter
  <2> QED BY <2>2, <2>3
<1>5. ASSUME NEW i \in 1 .. Len(wire'[e])
      PROVE  /\ wire'[e][i].code = "DISCONN_REQ" =>
                  closes'[e].asked >= 1 /\ NoneAfter(wire'[e], i, "DISCONN_REQ")
             /\ wire'[e][i].code = "DISCONN_RSP" =>
                  state'[e] \in Shut /\ NoneAfter(wire'[e], i, "DISCONN_REQ")
  BY <1>4 DEF Closers
<1> QED
  BY <1>2, <1>5 DEF ClosedOnce, NoneAfter

LEMMA CloseReceived ==
  ASSUME ChanInv, CloseInv, NEW e \in Ends, wire[Peer(e)] # << >>,
         NEW s \in Seq(Signals), Answer(e, s), Unrelated(s),
         None(s, "CONN_REQ"), UNCHANGED closes,
         \A x \in Ends : state[x] \in Shut => state'[x] \in Shut
  PROVE  CloseInv'
<1> DEFINE p == Peer(e)
<1>1. /\ p \in Ends /\ \A x \in Ends : x = e \/ x = p
      /\ wire[e] \in Seq(Signals) /\ wire[p] \in Seq(Signals)
  BY Peers DEF ChanInv, ChanTypes
<1>2. /\ wire' \in [Ends -> Seq(Signals)]
      /\ wire'[p] = Tail(wire[p]) /\ Behind(wire'[e], wire[e], s)
      /\ \A x \in Ends : None(wire'[x], "CONN_REQ")
  BY Received
<1>3. Kept(wire'[e], wire[e]) /\ Kept(wire'[p], wire[p])
  BY <1>1, <1>2, KeptFacts, KeptBehind
<1>4. Unbothered'
  BY <1>2, OutIn DEF Unbothered
<1>5. \A x \in Ends : Kept(wire'[x], wire[x])
  BY <1>1, <1>3
<1>6. \A x \in Ends : Len(wire'[x]) \in Nat
  BY <1>2
<1> QED BY <1>4, <1>5, <1>6, CloseAside

(* The steps of the connection and the configuration.                      *)
LEMMA StaysShut ==
  ASSUME NEW e \in Ends, state \in [Ends -> States], NEW t, Goto(e, t),
         state[e] \in Shut => t \in Shut
  PROVE  \A x \in Ends : state[x] \in Shut => state'[x] \in Shut
  BY DEF Goto

LEMMA HandleConfigureReqClose ==
  ASSUME ChanInv, CloseInv, NEW e \in Ends, wire[Peer(e)] # << >>,
         NEW m, m = Head(wire[Peer(e)]), NEW res \in {"ok", "rej"},
         NEW fix \in Options, NEW size \in {1, 2}, NEW queued \in BOOLEAN,
         HandleConfigureReq(e, m, res, fix, size, queued)
  PROVE  CloseInv'
<1>1. /\ m \in Signals /\ m.id \in Nat /\ state \in [Ends -> States]
      /\ UNCHANGED closes
  BY Handing DEF HandleConfigureReq, Signals
<1>2. \A x \in Ends : state[x] \in Shut => state'[x] \in Shut
  <2>1. \A r : Finished(e, r) => state'[Peer(e)] = state[Peer(e)]
                                /\ Answering(state[e], state'[e])
    BY <1>1, FinishedEffect
  <2>2. \/ UNCHANGED state
        \/ \E r : Finished(e, r)
    BY DEF HandleConfigureReq, SendRest, AckPart, Respond
  <2> QED
    BY <2>1, <2>2, Peers DEF Answering, Shut
<1>3. PICK r \in Signals : Answer(e, <<r>>) /\ r.code \in {"CMD_REJ", "CONFIG_RSP"}
  <2>1. configure_req[e].res \in Results /\ configure_req[e].mtu \in Options
    BY DEF ChanInv, ChanTypes
  <2>2. CASE Answer(e, <<Plain("CMD_REJ", m.id)>>)
    BY <1>1, <2>2, Plains DEF Codes
  <2>3. CASE SendRest(e, m)
    <3> DEFINE r == Signal("CONFIG_RSP", m.id, FALSE, NoMtu, configure_req[e].res)
    <3>1. Answer(e, <<r>>)
      BY <2>3 DEF SendRest
    <3>2. r \in Signals /\ r.code = "CONFIG_RSP"
      BY <1>1, <2>1 DEF Signal, Signals, Codes, Options
    <3> QED BY <3>1, <3>2
  <2>4. CASE AckPart(e, m)
    <3> DEFINE r == Signal("CONFIG_RSP", m.id, TRUE, NoMtu, "ok")
    <3>1. Answer(e, <<r>>)
      BY <2>4 DEF AckPart
    <3>2. r \in Signals /\ r.code = "CONFIG_RSP"
      BY <1>1 DEF Signal, Signals, Codes, Options, Results
    <3> QED BY <3>1, <3>2
  <2>5. CASE Respond(e, m, res, fix, size, queued)
    <3> DEFINE all == Merge(ApplyAll(configure_req[e].mtu, m), fix)
               o == IF res = "ok" THEN all ELSE NoMtu
               r == Signal("CONFIG_RSP", m.id, size > 1, o, res)
    <3>1. Answer(e, <<r>>)
      BY <2>5 DEF Respond
    <3>2. o \in Options
      <4>1. m.mtu \in Options
        BY <1>1 DEF Signals
      <4>2. Merge(configure_req[e].mtu, m.mtu) \in Options
        BY <2>1, <4>1, MtuFacts
      <4>3. ApplyAll(configure_req[e].mtu, m) \in Options
        BY <4>2, MtuFacts DEF ApplyAll, Options
      <4>4. all \in Options
        BY <4>3, MtuFacts
      <4> HIDE DEF all
      <4> QED BY <4>4 DEF Options
    <3> HIDE DEF o
    <3>3. r \in Signals /\ r.code = "CONFIG_RSP"
      BY <1>1, <3>2 DEF Signal, Signals, Codes, Results
    <3> QED BY <3>1, <3>3
  <2> QED BY <2>2, <2>3, <2>4, <2>5 DEF HandleConfigureReq
<1>4. /\ <<r>> \in Seq(Signals) /\ Unrelated(<<r>>) /\ None(<<r>>, "CONN_REQ")
  BY <1>3 DEF Unrelated, Closers, None
<1> QED BY <1>1, <1>2, <1>3, <1>4, CloseReceived

(* Nobody was told and nothing of a disconnection is under way.            *)
LEMMA CloseFresh ==
  ASSUME \A x \in Ends : ~(closes'[x].told > 0) /\ Unrelated(wire'[x])
  PROVE  CloseInv'
<1>1. Unbothered'
  BY OutIn DEF Unbothered
<1>2. ASSUME NEW e \in Ends PROVE ClosedOnce(e)'
  BY DEF ClosedOnce, Unrelated, Closers
<1> QED BY <1>1, <1>2 DEF CloseInv

LEMMA ConnectionRequestClose ==
  ASSUME ChanInv, ConnectionRequest
  PROVE  CloseInv'
<1> DEFINE e == "outgoing"
           id == NextId(last_signal_id[e])
           s == <<Plain("CONN_REQ", id)>>
<1>1. last_signal_id[e] = 0 /\ Send(e, s) /\ UNCHANGED closes
  BY DEF ConnectionRequest
<1>2. ChanTypes /\ e \in Ends /\ Peer(e) = "incoming" /\ id \in Nat
  BY OutIn, NextIds DEF ChanInv, ChanTypes
<1>3. s \in Seq(Signals) /\ Unrelated(s)
  <2>1. "CONN_REQ" \in Codes
    BY DEF Codes
  <2>2. Plain("CONN_REQ", id) \in Signals /\ Plain("CONN_REQ", id).code = "CONN_REQ"
    BY <1>2, <2>1, Plains
  <2> QED BY <2>2 DEF Unrelated, Closers
<1> HIDE DEF s
<1>4. /\ wire'["incoming"] = wire["incoming"] /\ Behind(wire'[e], wire[e], s)
  BY <1>1, <1>2, <1>3, SendEffect
<1>5. \A x \in Ends : wire[x] = << >> /\ ~(closes[x].told > 0)
  BY <1>1 DEF ChanInv, NotBegun, Untouched
<1>6. Unrelated(<< >>) /\ << >> \o s = s
  BY <1>3 DEF Unrelated
<1>7. Unrelated(wire'[e]) /\ Unrelated(wire'["incoming"])
  BY <1>2, <1>3, <1>4, <1>5, <1>6, OutIn DEF Behind
<1> QED BY <1>1, <1>5, <1>7, CloseFresh DEF Ends

LEMMA HandleConnectionReqClose ==
  ASSUME ChanInv, CloseInv, NEW e \in Ends, wire[Peer(e)] # << >>,
         NEW m, m = Head(wire[Peer(e)]),
         NEW served \in BOOLEAN, HandleConnectionReq(e, m, served)
  PROVE  CloseInv'
<1> DEFINE p == Peer(e)
           r == Signal("CONN_RSP", m.id, FALSE, NoMtu,
                       IF served THEN "ok" ELSE "refused")
<1>1. m.code = "CONN_REQ" /\ Answer(e, <<r>>) /\ UNCHANGED closes
  BY DEF HandleConnectionReq
<1>2. /\ p \in Ends /\ p # e /\ wire[p] \in Seq(Signals)
      /\ m \in Signals /\ m = wire[p][1] /\ 1 \in 1 .. Len(wire[p])
  BY Handing
<1>3. r \in Signals /\ r.code = "CONN_RSP"
  BY <1>2 DEF Signal, Signals, Codes, Options, Results
<1> HIDE DEF r
<1>4. /\ <<r>> \in Seq(Signals) /\ None(<<r>>, "CONN_REQ") /\ Unrelated(<<r>>)
  BY <1>3, NoneShort DEF Unrelated, Closers
<1>5. wire'[p] = Tail(wire[p]) /\ Behind(wire'[e], wire[e], <<r>>)
  BY <1>1, <1>4, Received
<1>6. /\ p = "outgoing" /\ e = "incoming" /\ Len(wire[p]) = 1
      /\ wire[e] = << >> /\ Untouched(e)
  BY <1>1, <1>2, OutIn DEF ChanInv, Requested, Ends
<1>7. ~(closes[e].told > 0) /\ ~(closes[p].told > 0)
  <2>1. ~None(wire[p], "CONN_REQ")
    BY <1>1, <1>2 DEF None
  <2> QED BY <1>6, <2>1 DEF Untouched, CloseInv, Unbothered
<1>8. Unrelated(wire'[p])
  <2>1. Len(Tail(wire[p])) = 0
    BY <1>2, <1>6, Consuming
  <2> QED BY <1>5, <2>1 DEF Unrelated
<1>9. Unrelated(wire'[e])
  <2>1. Unrelated(<< >>) /\ << >> \o <<r>> = <<r>>
    BY <1>4 DEF Unrelated
  <2> QED BY <1>4, <1>5, <1>6, <2>1 DEF Behind
<1> QED BY <1>1, <1>2, <1>7, <1>8, <1>9, Peers, CloseFresh

LEMMA ConfigureClose ==
  ASSUME ChanInv, CloseInv, NEW e \in Ends, NEW size \in RequestSizes,
         NEW m \in Mtus \cup {NoMtu}, NEW queued \in 0 .. 2,
         Configure(e, size, m, queued)
  PROVE  CloseInv'
<1> DEFINE p == Peer(e)
           s == RequestSignals(last_signal_id[e], size, m, queued)
<1>1. /\ state[e] \in {"WAIT_CONFIG", "WAIT_SEND_CONFIG", "OPEN"}
      /\ queued <= size /\ Send(e, s) /\ Goto(e, RequestSent(state[e]))
      /\ UNCHANGED closes
  BY DEF Configure, MayConfigure
<1>2. /\ ChanTypes /\ p \in Ends /\ \A x \in Ends : x = e \/ x = p
      /\ state \in [Ends -> States] /\ last_signal_id[e] \in Nat
      /\ wire[e] \in Seq(Signals) /\ wire[p] \in Seq(Signals)
  BY Peers DEF ChanInv, ChanTypes
<1>3. /\ s \in Seq(Signals) /\ Unrelated(s) /\ None(s, "CONN_REQ")
  <2>1. size \in {1, 2} /\ m \in Options
    BY L2capSizeAssumption DEF Options
  <2>2. RequestOK(s, size, queued)
    BY <1>1, <1>2, <2>1, RequestFacts
  <2> HIDE DEF s
  <2> QED BY <2>2 DEF RequestOK, Unrelated, Closers, None
<1> HIDE DEF s
<1>4. /\ wire' \in [Ends -> Seq(Signals)] /\ wire'[p] = wire[p]
      /\ Behind(wire'[e], wire[e], s)
  BY <1>1, <1>2, <1>3, SendEffect
<1>5. Unbothered'
  <2>1. \A x \in Ends : None(wire[x], "CONN_REQ")
    BY <1>1, RequestSeen DEF Connected, ConfigStates
  <2>2. None(wire'[e], "CONN_REQ") /\ None(wire'[p], "CONN_REQ")
    BY <1>2, <1>3, <1>4, <2>1, WithinBehind, WithinNone
  <2> QED BY <1>2, <2>2, OutIn DEF Unbothered
<1>6. \A x \in Ends : Kept(wire'[x], wire[x])
  BY <1>2, <1>3, <1>4, KeptFacts, KeptBehind
<1>7. \A x \in Ends : Len(wire'[x]) \in Nat
  BY <1>4
<1>8. \A x \in Ends : state[x] \in Shut => state'[x] \in Shut
  BY <1>1, <1>2 DEF Goto, Shut
<1> QED BY <1>1, <1>5, <1>6, <1>7, <1>8, CloseAside

LEMMA ResponseClose ==
  ASSUME ChanInv, CloseInv, NEW e \in Ends, wire[Peer(e)] # << >>,
         NEW m, m = Head(wire[Peer(e)]), NEW queued \in {0, 1},
         \/ HandleConnectResp(e, m) \/ HandleConfigResp(e, m, queued)
         \/ IgnoreResponse(e, m)
  PROVE  CloseInv'
<1>1. state \in [Ends -> States] /\ last_signal_id[e] \in Nat
  BY DEF ChanInv, ChanTypes
<1>2. /\ UNCHANGED closes
      /\ \/ UNCHANGED state
         \/ state[e] \notin Shut /\ \E t : Goto(e, t)
  <2>1. Handled(e, m) /\ m.code # "DISCONN_RSP" => state[e] \notin Shut
    BY DEF Handled, Shut
  <2> QED
    BY <2>1 DEF HandleConnectResp, HandleConfigResp, ResponseGoesOn,
                ResponseEnds, IgnoreResponse, channel
<1>3. \A x \in Ends : state[x] \in Shut => state'[x] \in Shut
  BY <1>1, <1>2, StaysShut
<1> DEFINE null == RequestSignals(last_signal_id[e], 1, NoMtu, queued)
<1>4. Answer(e, << >>) \/ Answer(e, null)
  BY DEF HandleConnectResp, HandleConfigResp, ResponseGoesOn, ResponseEnds,
         IgnoreResponse
<1>5. /\ null \in Seq(Signals) /\ Unrelated(null) /\ None(null, "CONN_REQ")
  <2>1. RequestOK(null, 1, queued)
    BY <1>1, RequestFacts DEF Options
  <2> HIDE DEF null
  <2> QED BY <2>1 DEF RequestOK, Unrelated, Closers, None
<1>6. /\ << >> \in Seq(Signals) /\ Unrelated(<< >>) /\ None(<< >>, "CONN_REQ")
  BY DEF Unrelated, None
<1> HIDE DEF null
<1> QED BY <1>2, <1>3, <1>4, <1>5, <1>6, CloseReceived

LEMMA ReleaseClose ==
  ASSUME ChanInv, CloseInv, NEW e \in Ends, Release(e)
  PROVE  CloseInv'
<1>1. /\ state[e] = "CLOSED" /\ Goto(e, "NONE") /\ UNCHANGED <<wire, closes>>
  BY DEF Release
<1>2. state \in [Ends -> States] /\ wire \in [Ends -> Seq(Signals)]
  BY DEF ChanInv, ChanTypes
<1>3. Unbothered'
  BY <1>1 DEF CloseInv, Unbothered
<1>4. \A x \in Ends : Kept(wire'[x], wire[x])
  BY <1>1, <1>2, KeptFacts
<1>5. \A x \in Ends : Len(wire'[x]) \in Nat
  BY <1>1, <1>2
<1>6. \A x \in Ends : state[x] \in Shut => state'[x] \in Shut
  BY <1>1, <1>2 DEF Goto, Shut
<1> QED BY <1>1, <1>3, <1>4, <1>5, <1>6, CloseAside

LEMMA LinkDownClose ==
  ASSUME ChanInv, CloseInv, NEW e \in Ends, LinkDown(e)
  PROVE  CloseInv'
<1> DEFINE t == IF state[e] = "WAIT_CONNECT_RSP" THEN "NONE" ELSE state[e]
           p == Peer(e)
<1>1. /\ Goto(e, t) /\ wire' = [wire EXCEPT ![p] = << >>] /\ UNCHANGED closes
  BY DEF LinkDown
<1>2. /\ state \in [Ends -> States] /\ wire \in [Ends -> Seq(Signals)]
      /\ p \in Ends /\ p # e /\ \A x \in Ends : x = e \/ x = p
  BY Peers DEF ChanInv, ChanTypes
<1>3. wire'[p] = << >> /\ wire'[e] = wire[e]
  BY <1>1, <1>2
<1>4. Unbothered'
  <2>1. None(<< >>, "CONN_REQ")
    BY DEF None
  <2> QED BY <1>1, <1>2, <1>3, <2>1, OutIn DEF CloseInv, Unbothered
<1>5. /\ Kept(wire'[e], wire[e]) /\ Kept(wire'[p], wire[p])
      /\ Len(wire'[e]) \in Nat /\ Len(wire'[p]) \in Nat
  <2>1. wire[e] \in Seq(Signals) /\ wire[p] \in Seq(Signals)
    BY <1>2
  <2>2. Len(wire[e]) \in Nat /\ Len(<< >>) \in Nat
    BY <2>1
  <2> QED BY <1>3, <2>1, <2>2, KeptFacts
<1>6. \A x \in Ends : Kept(wire'[x], wire[x]) /\ Len(wire'[x]) \in Nat
  BY <1>2, <1>5
<1>7. state[e] \in Shut => t \in Shut
  BY DEF Shut
<1> HIDE DEF t
<1>8. \A x \in Ends : state[x] \in Shut => state'[x] \in Shut
  BY <1>1, <1>2, <1>7, StaysShut
<1> QED BY <1>1, <1>4, <1>6, <1>8, CloseAside

(* The steps of the disconnection.                                         *)
LEMMA TailNone ==
  ASSUME NEW w \in Seq(Signals), w # << >>, NEW code, NoneAfter(w, 1, code)
  PROVE  None(Tail(w), code)
<1> SUFFICES ASSUME NEW i \in 1 .. Len(Tail(w)), Tail(w)[i].code = code
             PROVE  FALSE
  BY DEF None
<1>1. i + 1 \in 1 .. Len(w) /\ w[i + 1].code = code /\ i + 1 > 1
  BY Consuming
<1> QED BY <1>1 DEF NoneAfter

LEMMA JoiningOne ==
  ASSUME NEW w \in Seq(Signals), NEW s \in Seq(Signals), Len(s) = 1,
         NEW i \in 1 .. Len(w \o s), i \notin 1 .. Len(w)
  PROVE  (w \o s)[i] = s[1] /\ i = Len(w \o s)
<1>1. PICK j \in 1 .. Len(s) : i = Len(w) + j
  BY Joining
<1>2. j = 1
  BY <1>1
<1>3. Len(w \o s) = Len(w) + Len(s)
  BY Joining
<1>4. (w \o s)[Len(w) + j] = s[j]
  BY <1>1, Joining
<1> QED BY <1>1, <1>2, <1>3, <1>4

LEMMA HasToldEffect ==
  ASSUME ChanTypes, NEW e \in Ends, HasTold(e)
  PROVE  /\ closes'[e].told = closes[e].told + 1
         /\ \A x \in Ends : closes'[x].asked = closes[x].asked
         /\ closes'[Peer(e)] = closes[Peer(e)]
  BY Peers DEF ChanTypes, HasTold

(* e becomes closed and is told, after the signal m arrived.               *)
LEMMA TellsClose ==
  ASSUME ChanInv, CloseInv, NEW e \in Ends, wire[Peer(e)] # << >>,
         NEW s \in Seq(Signals), Answer(e, s), None(s, "CONN_REQ"),
         None(s, "DISCONN_REQ"), NoneAfter(wire[Peer(e)], 1, "DISCONN_REQ"),
         closes[Peer(e)].asked >= 1 \/ state[Peer(e)] \in Shut,
         Goto(e, "CLOSED"), HasTold(e)
  PROVE  CloseInv'
<1> DEFINE p == Peer(e)
<1>1. /\ ChanTypes /\ p \in Ends /\ p # e /\ Peer(p) = e
      /\ \A x \in Ends : x = e \/ x = p
      /\ wire[e] \in Seq(Signals) /\ wire[p] \in Seq(Signals)
      /\ state \in [Ends -> States]
      /\ ClosedOnce(e) /\ ClosedOnce(p)
  BY Peers DEF ChanInv, ChanTypes, CloseInv
<1>2. /\ wire' \in [Ends -> Seq(Signals)]
      /\ wire'[p] = Tail(wire[p]) /\ Behind(wire'[e], wire[e], s)
      /\ \A x \in Ends : None(wire'[x], "CONN_REQ")
  BY Received
<1>3. state'[e] = "CLOSED" /\ state'[p] = state[p] /\ state'[e] \in Shut
  BY <1>1 DEF Goto, Shut
<1>4. /\ closes'[p].told = closes[p].told
      /\ \A x \in Ends : closes'[x].asked = closes[x].asked
  BY <1>1, HasToldEffect
<1>5. None(wire'[p], "DISCONN_REQ")
  BY <1>1, <1>2, TailNone
<1>6. Within(wire'[e], wire[e], "DISCONN_REQ")
  BY <1>1, <1>2, WithinBehind
<1>7. ClosedOnce(e)'
  <2>1. ASSUME NEW i \in 1 .. Len(wire'[e])
        PROVE  /\ wire'[e][i].code = "DISCONN_REQ" => closes'[e].asked >= 1
               /\ wire'[e][i].code \in Closers =>
                    NoneAfter(wire'[e], i, "DISCONN_REQ")
    <3>1. CASE wire'[e] = wire[e]
      BY <1>1, <1>4, <3>1 DEF ClosedOnce, Closers
    <3>2. CASE wire'[e] = wire[e] \o s
      <4>1. ASSUME NEW j \in 1 .. Len(wire'[e]), wire'[e][j].code = "DISCONN_REQ"
            PROVE  j \in 1 .. Len(wire[e]) /\ wire[e][j].code = "DISCONN_REQ"
        <5>1. ASSUME j \notin 1 .. Len(wire[e]) PROVE FALSE
          <6>1. PICK k \in 1 .. Len(s) : j = Len(wire[e]) + k
            BY <1>1, <3>2, <4>1, <5>1, Joining
          <6>2. wire'[e][j] = s[k]
            BY <1>1, <3>2, <6>1, Joining
          <6> QED BY <4>1, <6>1, <6>2 DEF None
        <5> QED BY <1>1, <3>2, <4>1, <5>1, Joining
      <4>2. wire'[e][i].code = "DISCONN_REQ" => closes'[e].asked >= 1
        BY <1>1, <1>4, <4>1 DEF ClosedOnce
      <4>3. ASSUME wire'[e][i].code \in Closers,
                   NEW j \in 1 .. Len(wire'[e]), j > i,
                   wire'[e][j].code = "DISCONN_REQ"
            PROVE  FALSE
        <5>1. j \in 1 .. Len(wire[e]) /\ wire[e][j].code = "DISCONN_REQ"
          BY <4>1, <4>3
        <5>2. Len(wire[e]) \in Nat /\ Len(wire'[e]) \in Nat
          BY <1>1, <1>2
        <5>3. i \in 1 .. Len(wire[e])
          BY <4>3, <5>1, <5>2
        <5>4. wire'[e][i] = wire[e][i]
          BY <1>1, <3>2, <5>3, Joining
        <5> QED
          BY <1>1, <4>3, <5>1, <5>3, <5>4 DEF ClosedOnce, NoneAfter, Closers
      <4> QED BY <4>2, <4>3 DEF NoneAfter
    <3> QED BY <1>2, <3>1, <3>2 DEF Behind
  <2>2. /\ state'[e] \in Shut /\ None(wire'[p], "DISCONN_REQ")
        /\ closes'[p].asked >= 1 \/ state'[p] \in Shut
    BY <1>1, <1>3, <1>4, <1>5
  <2> QED BY <1>3, <2>1, <2>2 DEF ClosedOnce, Closers
<1>8. ClosedOnce(p)'
  <2>1. ASSUME closes'[p].told > 0
        PROVE  /\ state'[p] \in Shut /\ None(wire'[e], "DISCONN_REQ")
               /\ closes'[e].asked >= 1 \/ state'[e] \in Shut
    <3>1. state[p] \in Shut /\ None(wire[e], "DISCONN_REQ")
      BY <1>1, <1>4, <2>1 DEF ClosedOnce
    <3> QED BY <1>3, <1>6, <3>1, WithinNone
  <2>2. ASSUME NEW i \in 1 .. Len(wire'[p])
        PROVE  /\ wire'[p][i].code # "DISCONN_REQ"
               /\ wire'[p][i].code = "DISCONN_RSP" => state'[p] \in Shut
               /\ NoneAfter(wire'[p], i, "DISCONN_REQ")
    <3>1. i + 1 \in 1 .. Len(wire[p]) /\ wire'[p][i] = wire[p][i + 1]
      BY <1>1, <1>2, Consuming
    <3> QED BY <1>1, <1>3, <1>5, <3>1 DEF ClosedOnce, None, NoneAfter
  <2> QED BY <1>1, <2>1, <2>2 DEF ClosedOnce
<1>9. Unbothered'
  BY <1>2, OutIn DEF Unbothered
<1> QED
  BY <1>1, <1>7, <1>8, <1>9 DEF CloseInv

LEMMA HandleDisconnectReqClose ==
  ASSUME ChanInv, CloseInv, NEW e \in Ends, wire[Peer(e)] # << >>,
         NEW m, m = Head(wire[Peer(e)]), HandleDisconnectReq(e, m)
  PROVE  CloseInv'
<1>1. /\ ChanTypes /\ m \in Signals /\ Peer(e) \in Ends /\ m.id \in Nat
      /\ m = wire[Peer(e)][1] /\ 1 \in 1 .. Len(wire[Peer(e)])
  BY Handing DEF Signals
<1>2. m.code = "DISCONN_REQ"
  BY DEF HandleDisconnectReq
<1>3. CASE /\ Answer(e, <<Plain("CMD_REJ", m.id)>>) /\ UNCHANGED <<state, closes>>
  <2>1. Plain("CMD_REJ", m.id) \in Signals /\ Plain("CMD_REJ", m.id).code = "CMD_REJ"
    BY <1>1, Plains DEF Codes
  <2>2. /\ <<Plain("CMD_REJ", m.id)>> \in Seq(Signals)
        /\ Unrelated(<<Plain("CMD_REJ", m.id)>>)
        /\ None(<<Plain("CMD_REJ", m.id)>>, "CONN_REQ")
    BY <2>1, NoneShort DEF Unrelated, Closers
  <2> QED BY <1>3, <2>2, CloseReceived
<1>4. CASE /\ Answer(e, <<Plain("DISCONN_RSP", m.id)>>)
           /\ Goto(e, "CLOSED") /\ HasTold(e)
  <2>1. /\ Plain("DISCONN_RSP", m.id) \in Signals
        /\ Plain("DISCONN_RSP", m.id).code = "DISCONN_RSP"
    BY <1>1, Plains DEF Codes
  <2>2. /\ <<Plain("DISCONN_RSP", m.id)>> \in Seq(Signals)
        /\ None(<<Plain("DISCONN_RSP", m.id)>>, "DISCONN_REQ")
        /\ None(<<Plain("DISCONN_RSP", m.id)>>, "CONN_REQ")
    BY <2>1, NoneShort
  <2>3. /\ closes[Peer(e)].asked >= 1
        /\ NoneAfter(wire[Peer(e)], 1, "DISCONN_REQ")
    BY <1>1, <1>2 DEF CloseInv, ClosedOnce
  <2> QED BY <1>4, <2>2, <2>3, TellsClose
<1> QED BY <1>3, <1>4 DEF HandleDisconnectReq

LEMMA HandleDisconnectRespClose ==
  ASSUME ChanInv, CloseInv, NEW e \in Ends, wire[Peer(e)] # << >>,
         NEW m, m = Head(wire[Peer(e)]), HandleDisconnectResp(e, m)
  PROVE  CloseInv'
<1>1. /\ Peer(e) \in Ends
      /\ m = wire[Peer(e)][1] /\ 1 \in 1 .. Len(wire[Peer(e)])
  BY Handing
<1>2. /\ m.code = "DISCONN_RSP" /\ Answer(e, << >>)
      /\ Goto(e, "CLOSED") /\ HasTold(e)
  BY DEF HandleDisconnectResp
<1>3. /\ << >> \in Seq(Signals) /\ None(<< >>, "DISCONN_REQ")
      /\ None(<< >>, "CONN_REQ")
  BY DEF None
<1>4. state[Peer(e)] \in Shut /\ NoneAfter(wire[Peer(e)], 1, "DISCONN_REQ")
  BY <1>1, <1>2 DEF CloseInv, ClosedOnce
<1> QED BY <1>2, <1>3, <1>4, TellsClose

LEMMA DisconnectClose ==
  ASSUME ChanInv, CloseInv, NEW e \in Ends, Disconnect(e), MaxCloses[e] <= 1
  PROVE  CloseInv'
<1> DEFINE p == Peer(e)
           id == NextId(last_signal_id[e])
           s == <<Plain("DISCONN_REQ", id)>>
<1>1. /\ ChanTypes /\ p \in Ends /\ p # e /\ Peer(p) = e
      /\ \A x \in Ends : x = e \/ x = p
      /\ wire \in [Ends -> Seq(Signals)]
      /\ wire[e] \in Seq(Signals) /\ wire[p] \in Seq(Signals)
      /\ state \in [Ends -> States]
      /\ closes \in [Ends -> [asked : Nat, told : Nat]]
      /\ ClosedOnce(e) /\ ClosedOnce(p) /\ id \in Nat
  BY Peers, NextIds DEF ChanInv, ChanTypes, CloseInv
<1>2. closes[e].asked = 0
  BY <1>1, L2capClosesAssumption DEF Disconnect
<1>3. CASE state[e] \in Connected
  <2>1. /\ Send(e, s) /\ Goto(e, "WAIT_DISCONNECT")
        /\ closes' = [closes EXCEPT ![e].asked = @ + 1]
    BY <1>3 DEF Disconnect, Connected, ConfigStates
  <2>2. /\ s \in Seq(Signals) /\ Len(s) = 1 /\ s[1].code = "DISCONN_REQ"
        /\ None(s, "CONN_REQ") /\ None(s, "DISCONN_RSP")
    <3>1. /\ Plain("DISCONN_REQ", id) \in Signals
          /\ Plain("DISCONN_REQ", id).code = "DISCONN_REQ"
      BY <1>1, Plains DEF Codes
    <3> QED BY <3>1, NoneShort
  <2> HIDE DEF s
  <2>3. /\ wire' \in [Ends -> Seq(Signals)] /\ wire'[p] = wire[p]
        /\ Behind(wire'[e], wire[e], s)
    BY <1>1, <2>1, <2>2, SendEffect
  <2>4. state[e] \notin Shut
    BY <1>3 DEF Shut, Connected, ConfigStates
  <2>5. /\ \A x \in Ends : ~(closes'[x].told > 0)
        /\ closes'[e].asked = 1 /\ closes'[p] = closes[p]
    <3>1. ~(closes[e].told > 0)
      BY <1>1, <2>4 DEF ClosedOnce
    <3>2. ~(closes[p].told > 0)
      BY <1>1, <1>2, <2>4 DEF ClosedOnce
    <3>3. /\ closes'[e].told = closes[e].told /\ closes'[e].asked = 1
          /\ closes'[p] = closes[p]
      BY <1>1, <1>2, <2>1
    <3> QED BY <1>1, <3>1, <3>2, <3>3
  <2>6. \A i \in 1 .. Len(wire[e]) : wire[e][i].code \notin Closers
    BY <1>1, <1>2, <2>4 DEF ClosedOnce, Closers
  <2>7. ASSUME NEW i \in 1 .. Len(wire'[e]), wire'[e][i].code \in Closers
        PROVE  wire'[e][i].code = "DISCONN_REQ" /\ i = Len(wire'[e])
    <3>1. wire'[e] # wire[e]
      BY <2>6, <2>7
    <3>2. wire'[e] = wire[e] \o s
      BY <2>3, <3>1 DEF Behind
    <3>3. i \notin 1 .. Len(wire[e])
      <4> SUFFICES ASSUME i \in 1 .. Len(wire[e]) PROVE FALSE
        OBVIOUS
      <4>1. wire'[e][i] = wire[e][i]
        BY <1>1, <2>2, <3>2, Joining
      <4> QED BY <2>6, <2>7, <4>1
    <3>4. wire'[e][i] = s[1] /\ i = Len(wire'[e])
      <4>1. i \in 1 .. Len(wire[e] \o s)
        BY <3>2
      <4>2. (wire[e] \o s)[i] = s[1] /\ i = Len(wire[e] \o s)
        BY <1>1, <2>2, <3>3, <4>1, JoiningOne
      <4> QED BY <3>2, <4>2
    <3> QED BY <2>2, <3>4
  <2>8. ClosedOnce(e)'
    <3>1. ASSUME NEW i \in 1 .. Len(wire'[e]), wire'[e][i].code \in Closers
          PROVE  /\ wire'[e][i].code = "DISCONN_REQ"
                 /\ NoneAfter(wire'[e], i, "DISCONN_REQ")
      BY <2>7, <3>1 DEF NoneAfter
    <3>2. ASSUME NEW i \in 1 .. Len(wire'[e])
          PROVE  /\ wire'[e][i].code = "DISCONN_REQ" =>
                      /\ closes'[e].asked >= 1
                      /\ NoneAfter(wire'[e], i, "DISCONN_REQ")
                 /\ wire'[e][i].code # "DISCONN_RSP"
      BY <2>5, <3>1 DEF Closers
    <3> QED BY <2>5, <3>2 DEF ClosedOnce
  <2>9. ClosedOnce(p)'
    <3>1. state'[p] = state[p]
      BY <1>1, <2>1 DEF Goto
    <3> QED BY <1>1, <2>3, <2>5, <3>1 DEF ClosedOnce, NoneAfter
  <2>10. Unbothered'
    BY <2>5, OutIn DEF Unbothered
  <2> QED BY <1>1, <2>8, <2>9, <2>10 DEF CloseInv
<1>4. CASE state[e] \notin Connected
  <2>1. /\ state[e] = "CLOSED" /\ closes[e].told > 0
        /\ closes' = [closes EXCEPT ![e] = [asked |-> @.asked + 1,
                                            told |-> @.told + 1]]
        /\ UNCHANGED <<state, wire>>
    BY <1>4 DEF Disconnect
  <2>2. /\ closes'[e].asked >= closes[e].asked /\ closes'[p] = closes[p]
        /\ closes'[e].asked >= 1
    BY <1>1, <2>1
  <2>3. ClosedOnce(e)'
    BY <1>1, <2>1, <2>2 DEF ClosedOnce, NoneAfter, None
  <2>4. ClosedOnce(p)'
    BY <1>1, <2>1, <2>2 DEF ClosedOnce, NoneAfter, None
  <2>5. Unbothered'
    <3>1. None(wire["outgoing"], "CONN_REQ")
      BY <2>1, RequestSeen, OutIn
    <3> QED BY <2>1, <3>1 DEF Unbothered
  <2> QED BY <1>1, <2>3, <2>4, <2>5 DEF CloseInv
<1> QED BY <1>3, <1>4

LEMMA CloseInvInit ==
  ASSUME Init
  PROVE  CloseInv
<1>1. \A e \in Ends : wire[e] = << >> /\ ~(closes[e].told > 0)
  BY DEF Init
<1>2. 1 .. Len(<< >>) = {}
  OBVIOUS
<1>3. ASSUME NEW e \in Ends PROVE ClosedOnce(e)
  BY <1>1, <1>2 DEF ClosedOnce
<1> QED BY <1>1, <1>3, OutIn DEF CloseInv, Unbothered

LEMMA CloseInvNext ==
  ASSUME \A e \in Ends : MaxCloses[e] <= 1, ChanInv, CloseInv, [Next]_vars
  PROVE  CloseInv'
<1>1. CASE ConnectionRequest
  BY <1>1, ConnectionRequestClose
<1>2. CASE \E e \in Ends, size \in RequestSizes, m \in Mtus \cup {NoMtu},
              q \in 0 .. 2 : Configure(e, size, m, q)
  BY <1>2, ConfigureClose
<1>3. CASE \E e \in Ends : Disconnect(e) \/ Release(e) \/ LinkDown(e)
  BY <1>3, DisconnectClose, ReleaseClose, LinkDownClose
<1>4. ASSUME NEW e \in Ends, Receive(e)
      PROVE  CloseInv'
  <2>1. PICK m : m = Head(wire[Peer(e)])
    OBVIOUS
  <2>2. wire[Peer(e)] # << >>
    BY <1>4, <2>1, Receptions
  <2>3. ReplySizes \subseteq {1, 2} /\ {FALSE, MayQueue} \subseteq BOOLEAN
    BY L2capSizeAssumption, L2capEnvironmentAssumption
  <2>4. CASE \E served \in BOOLEAN : HandleConnectionReq(e, m, served)
    BY <2>1, <2>2, <2>4, HandleConnectionReqClose
  <2>5. CASE \E res \in {"ok", "rej"}, fix \in Options, size \in ReplySizes,
                queued \in {FALSE, MayQueue} :
               HandleConfigureReq(e, m, res, fix, size, queued)
    BY <2>1, <2>2, <2>3, <2>5, HandleConfigureReqClose
  <2>6. CASE HandleDisconnectReq(e, m)
    BY <2>1, <2>2, <2>6, HandleDisconnectReqClose
  <2>7. CASE HandleConnectResp(e, m) \/ IgnoreResponse(e, m)
    BY <2>1, <2>2, <2>7, ResponseClose
  <2>8. CASE \E queued \in {0} \cup (IF MayQueue THEN {1} ELSE {}) :
               HandleConfigResp(e, m, queued)
    BY <2>1, <2>2, <2>8, ResponseClose
  <2>9. CASE HandleDisconnectResp(e, m)
    BY <2>1, <2>2, <2>9, HandleDisconnectRespClose
  <2> QED
    BY <1>4, <2>1, <2>4, <2>5, <2>6, <2>7, <2>8, <2>9, Receptions
<1>5. CASE UNCHANGED vars
  <2>1. UNCHANGED <<state, wire, closes>>
    BY <1>5 DEF vars
  <2> QED
    BY <2>1 DEF CloseInv, Unbothered, ClosedOnce, NoneAfter, None
<1> QED
  BY <1>1, <1>2, <1>3, <1>4, <1>5 DEF Next

(* disconnect_cb is called once for a channel, also when both ends         *)
(* disconnect at the same time or the link is lost, if each client calls   *)
(* bte_l2cap_disconnect at most once (a second call before the first was   *)
(* answered makes a second request, and a second callback).                *)
THEOREM DisconnectTellsOnce ==
  ASSUME \A e \in Ends : MaxCloses[e] <= 1
  PROVE  Spec => ToldOnce
<1> DEFINE Once == \A e \in Ends : closes'[e].told > closes[e].told =>
                     closes[e].told = 0 \/ closes'[e].asked > closes[e].asked
<1>1. ASSUME ChanInv, CloseInv, [Next]_vars
      PROVE  [Once]_vars
  <2> SUFFICES ASSUME Next, NEW e \in Ends,
                      closes'[e].told > closes[e].told, closes[e].told # 0
               PROVE  closes'[e].asked > closes[e].asked
    BY <1>1
  <2>1. /\ closes \in [Ends -> [asked : Nat, told : Nat]]
        /\ Peer(e) \in Ends /\ Peer(Peer(e)) = e
    BY <1>1, Peers DEF ChanInv, ChanTypes
  <2>2. /\ state[e] \in Shut /\ None(wire[Peer(e)], "DISCONN_REQ")
    <3>1. closes[e].told > 0
      BY <2>1
    <3> QED BY <1>1, <3>1 DEF CloseInv, ClosedOnce
  <2>3. PICK x \in Ends :
          \/ Disconnect(x)
          \/ \E m : /\ m = Head(wire[Peer(x)]) /\ wire[Peer(x)] # << >>
                    /\ HandleDisconnectReq(x, m) \/ HandleDisconnectResp(x, m)
    <3>1. closes' # closes
      BY <2>1
    <3>2. \/ \E x \in Ends : Disconnect(x)
          \/ \E x \in Ends : Receive(x)
      <4>1. /\ ~ConnectionRequest
            /\ \A y \in Ends : ~Release(y) /\ ~LinkDown(y)
        BY <3>1, Zenon DEF ConnectionRequest, Release, LinkDown
      <4>2. ~ \E y \in Ends, size \in RequestSizes, m \in Mtus \cup {NoMtu},
                 q \in 0 .. 2 : Configure(y, size, m, q)
        BY <3>1, ZenonT(60) DEF Configure
      <4> QED
        BY <4>1, <4>2, Zenon DEF Next
    <3>3. ASSUME NEW x \in Ends, Receive(x), NEW m, m = Head(wire[Peer(x)])
          PROVE  /\ wire[Peer(x)] # << >>
                 /\ HandleDisconnectReq(x, m) \/ HandleDisconnectResp(x, m)
      <4>1. /\ ~ \E served \in BOOLEAN : HandleConnectionReq(x, m, served)
            /\ ~HandleConnectResp(x, m) /\ ~IgnoreResponse(x, m)
        BY <3>1 DEF HandleConnectionReq, HandleConnectResp, IgnoreResponse
      <4>2. ~ \E res \in {"ok", "rej"}, fix \in Options, size \in ReplySizes,
                 queued \in {FALSE, MayQueue} :
                HandleConfigureReq(x, m, res, fix, size, queued)
        BY <3>1 DEF HandleConfigureReq
      <4>3. ~ \E queued \in {0} \cup (IF MayQueue THEN {1} ELSE {}) :
                HandleConfigResp(x, m, queued)
        BY <3>1 DEF HandleConfigResp
      <4> QED BY <3>3, <4>1, <4>2, <4>3, Receptions
    <3>4. \A x \in Ends : \E m : m = Head(wire[Peer(x)])
      OBVIOUS
    <3> QED BY <3>2, <3>3, <3>4
  <2>4. CASE Disconnect(x)
    <3>1. \/ closes' = [closes EXCEPT ![x].asked = @ + 1]
          \/ closes' = [closes EXCEPT ![x] = [asked |-> @.asked + 1,
                                              told |-> @.told + 1]]
      BY <2>4 DEF Disconnect
    <3>2. x = e
      BY <2>1, <3>1
    <3> QED BY <2>1, <3>1, <3>2
  <2>5. ASSUME NEW m, m = Head(wire[Peer(x)]), wire[Peer(x)] # << >>,
               HandleDisconnectReq(x, m) \/ HandleDisconnectResp(x, m)
        PROVE  FALSE
    <3>1. HasTold(x) \/ UNCHANGED closes
      BY <2>5 DEF HandleDisconnectReq, HandleDisconnectResp
    <3>2. x = e
      BY <2>1, <3>1 DEF HasTold
    <3>3. m = wire[Peer(e)][1] /\ 1 \in 1 .. Len(wire[Peer(e)])
      BY <1>1, <2>5, <3>2, Handing
    <3>4. CASE HandleDisconnectReq(x, m)
      BY <2>2, <3>3, <3>4 DEF HandleDisconnectReq, None
    <3>5. CASE HandleDisconnectResp(x, m)
      BY <2>2, <3>2, <3>5 DEF HandleDisconnectResp, Handled, Shut
    <3> QED BY <2>5, <3>4, <3>5
  <2>6. CASE \E m : /\ m = Head(wire[Peer(x)]) /\ wire[Peer(x)] # << >>
                    /\ HandleDisconnectReq(x, m) \/ HandleDisconnectResp(x, m)
    <3>1. PICK m : /\ m = Head(wire[Peer(x)]) /\ wire[Peer(x)] # << >>
                   /\ HandleDisconnectReq(x, m) \/ HandleDisconnectResp(x, m)
      BY <2>6
    <3> QED BY <2>5, <3>1
  <2> QED
    BY <2>3, <2>4, <2>6
<1>2. ChanInv /\ CloseInv /\ [Next]_vars => CloseInv'
  BY CloseInvNext
<1> QED
  BY <1>1, <1>2, ChanInvariance, CloseInvInit, PTL DEF Spec, ToldOnce
===============================================================================

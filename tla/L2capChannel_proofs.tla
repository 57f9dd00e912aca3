------------------------- MODULE L2capChannel_proofs -------------------------
(***************************************************************************)
(* Proofs about L2capChannel, for any MTUs, any number of configurations,  *)
(* disconnections and packets per configuration.                           *)
(***************************************************************************)
EXTENDS L2capChannel, TLAPS

-----------------------------------------------------------------------------
(* The inductive invariant.                                                *)
Waiting == {"WAIT_CONFIG_RSP", "WAIT_CONFIG_REQ_RSP"}
Results == {"ok", "rej", "refused", "none"}
Options == Mtus \cup {NoMtu}
Signals == [code : Codes, id : Nat, cont : BOOLEAN, mtu : Options,
            res : Results]
Counts == [made : Nat, first : Nat]
ChanTypes ==
  /\ state \in [Ends -> States]
  /\ expected \in [Ends -> [code : Codes \cup {"none"}, id : Nat, count : Nat]]
  /\ last_signal_id \in [Ends -> Nat]
  /\ configure_req \in
       [Ends -> [kind : {"none", "partial", "rest"}, mtu : Options,
                 res : Results]]
  /\ configure_resp \in [Ends -> Options \cup {"none"}]
  /\ mtu \in [Ends -> Mtus]
  /\ remote_mtu \in [Ends -> Mtus \cup {MinMtu}]
  /\ wire \in [Ends -> Seq(Signals)]
  /\ link \subseteq Ends
  /\ closes \in [Ends -> [asked : Nat, told : Nat]]
  /\ configs \in [Ends -> Counts]

(* Until the connection was asked for, nothing has happened.               *)
Untouched(e) ==
  /\ configs[e] = NoRequests /\ expected[e].count = 0
  /\ closes[e] = [asked |-> 0, told |-> 0]
NotBegun ==
  last_signal_id["outgoing"] = 0 =>
    /\ state["outgoing"] = "CLOSED" /\ state["incoming"] = "NONE"
    /\ \A e \in Ends : wire[e] = << >> /\ Untouched(e)
(* Until the request for it has arrived, nothing else was sent.            *)
Requested ==
  \A e \in Ends : \A i \in 1 .. Len(wire[e]) :
    wire[e][i].code = "CONN_REQ" =>
      /\ e = "outgoing" /\ Len(wire[e]) = 1 /\ wire["incoming"] = << >>
      /\ state["incoming"] = "NONE" /\ Untouched("incoming")
      /\ state[e] \in {"WAIT_CONNECT_RSP", "NONE"}

None(w, code) == \A i \in 1 .. Len(w) : w[i].code # code
(* Nothing of a configuration of e is under way.                           *)
Quiet(e) ==
  /\ None(wire[e], "CONFIG_REQ") /\ None(wire[Peer(e)], "CONFIG_RSP")
  /\ configure_req[Peer(e)].kind = "none"

Asks(e) == configs[e].made = 0 \/ state[e] \notin Waiting \cup Closing => Quiet(e)

(* The request that e expects a response to is the last one it sent, and   *)
(* completes what it asks for.                                             *)
LastRequest(e) ==
  \A i \in 1 .. Len(wire[e]) :
    wire[e][i].code = "CONFIG_REQ" /\ wire[e][i].id = expected[e].id =>
      /\ ~wire[e][i].cont
      /\ \A j \in 1 .. Len(wire[e]) : wire[e][j].code = "CONFIG_REQ" =>
           j <= i /\ (j < i => wire[e][j].cont)
      /\ configure_req[Peer(e)].kind = "rest"
           /\ configure_req[Peer(e)].res = "ok"
         => configure_resp[e] = remote_mtu[Peer(e)]
(* The response to it is the last one, and says what the peer took over.   *)
LastResponse(e) ==
  LET p == Peer(e) IN
  \A i \in 1 .. Len(wire[p]) :
    wire[p][i].code = "CONFIG_RSP" /\ wire[p][i].id = expected[e].id =>
      /\ None(wire[e], "CONFIG_REQ")
      /\ \A j \in 1 .. Len(wire[p]) : wire[p][j].code = "CONFIG_RSP" => j <= i
      /\ ~wire[p][i].cont =>
           /\ configure_req[p].kind = "none"
           /\ wire[p][i].res = "ok" =>
                OrDefault(AllPartsMtu(e, wire[p][i])) = remote_mtu[p]
      /\ wire[p][i].cont /\ configure_req[p].kind = "rest"
           /\ configure_req[p].res = "ok" =>
             wire[p][i].mtu \in Mtus /\ wire[p][i].mtu = remote_mtu[p]
Pipeline(e) ==
  state[e] \in Waiting /\ expected[e].count > 0 =>
    LastRequest(e) /\ LastResponse(e)

(* An end whose configuration was accepted has the MTU its peer knows.     *)
Settled == {"WAIT_CONFIG_REQ", "OPEN"}
Agreed(e) == state[e] \in Settled => mtu[e] = remote_mtu[Peer(e)]

Direction(e) == Asks(e) /\ Pipeline(e) /\ Agreed(e)

ChanInv == ChanTypes /\ NotBegun /\ Requested /\ \A e \in Ends : Direction(e)

-----------------------------------------------------------------------------
(* Ends and signals.                                                       *)
LEMMA Peers ==
  \A e \in Ends : /\ Peer(e) \in Ends /\ Peer(e) # e /\ Peer(Peer(e)) = e
                  /\ \A x \in Ends : x = e \/ x = Peer(e)
  BY DEF Ends, Peer

LEMMA Plains ==
  ASSUME NEW code \in Codes, NEW id \in Nat
  PROVE  Plain(code, id) \in Signals /\ Plain(code, id).code = code
  BY DEF Plain, Signal, Signals, Options, Results

LEMMA NextIds == \A id \in Nat : NextId(id) \in Nat \ {0} /\ NextId(id) # id
  BY DEF NextId

LEMMA Joining ==
  ASSUME NEW S, NEW w \in Seq(S), NEW s \in Seq(S)
  PROVE  /\ w \o s \in Seq(S) /\ Len(w \o s) = Len(w) + Len(s)
         /\ \A i \in 1 .. Len(w) : (w \o s)[i] = w[i]
         /\ \A i \in 1 .. Len(s) : (w \o s)[Len(w) + i] = s[i]
         /\ \A i \in 1 .. Len(w \o s) :
              i \in 1 .. Len(w) \/ \E j \in 1 .. Len(s) : i = Len(w) + j
<1>1. /\ w \o s \in Seq(S) /\ Len(w \o s) = Len(w) + Len(s)
      /\ \A i \in 1 .. Len(w) : (w \o s)[i] = w[i]
      /\ \A i \in 1 .. Len(s) : (w \o s)[Len(w) + i] = s[i]
  OBVIOUS
<1>2. ASSUME NEW i \in 1 .. Len(w \o s), i \notin 1 .. Len(w)
      PROVE  \E j \in 1 .. Len(s) : i = Len(w) + j
  <2>1. i - Len(w) \in 1 .. Len(s) /\ i = Len(w) + (i - Len(w))
    BY <1>1, <1>2
  <2> QED BY <2>1
<1> QED BY <1>1, <1>2

LEMMA Consuming ==
  ASSUME NEW S, NEW w \in Seq(S), w # << >>
  PROVE  /\ Head(w) \in S /\ Head(w) = w[1] /\ 1 \in 1 .. Len(w)
         /\ Tail(w) \in Seq(S) /\ Len(Tail(w)) = Len(w) - 1
         /\ \A i \in 1 .. Len(Tail(w)) :
              i + 1 \in 1 .. Len(w) /\ Tail(w)[i] = w[i + 1]
  OBVIOUS

(* What is sent is behind what was sent before, unless it goes nowhere.    *)
Behind(v, w, s) == v = w \o s \/ v = w
LEMMA SendEffect ==
  ASSUME ChanTypes, NEW e \in Ends, NEW s \in Seq(Signals), Send(e, s)
  PROVE  /\ wire' \in [Ends -> Seq(Signals)]
         /\ wire'[Peer(e)] = wire[Peer(e)]
         /\ Behind(wire'[e], wire[e], s)
         /\ Peer(e) \in link => wire'[e] = wire[e] \o s
<1>1. wire \in [Ends -> Seq(Signals)] /\ wire[e] \in Seq(Signals)
  BY DEF ChanTypes
<1>2. wire[e] \o << >> = wire[e]
  BY <1>1
<1>3. Reaching(e, s) \in Seq(Signals)
  BY DEF Reaching
<1>4. wire[e] \o Reaching(e, s) \in Seq(Signals)
  BY <1>1, <1>3
<1>5. wire' = [wire EXCEPT ![e] = wire[e] \o Reaching(e, s)]
  BY DEF Send
<1>6. wire'[e] = wire[e] \o Reaching(e, s)
  BY <1>1, <1>5
<1> QED
  BY <1>1, <1>2, <1>4, <1>5, <1>6, Peers DEF Reaching, Behind

LEMMA AnswerEffect ==
  ASSUME ChanTypes, NEW e \in Ends, NEW s \in Seq(Signals), Answer(e, s),
         wire[Peer(e)] # << >>
  PROVE  /\ wire' \in [Ends -> Seq(Signals)]
         /\ wire'[Peer(e)] = Tail(wire[Peer(e)])
         /\ Behind(wire'[e], wire[e], s)
         /\ Peer(e) \in link => wire'[e] = wire[e] \o s
<1>1. /\ wire \in [Ends -> Seq(Signals)] /\ wire[e] \in Seq(Signals)
      /\ Peer(e) \in Ends /\ Peer(e) # e /\ wire[Peer(e)] \in Seq(Signals)
  BY Peers DEF ChanTypes
<1>2. wire[e] \o << >> = wire[e]
  BY <1>1
<1>3. Reaching(e, s) \in Seq(Signals)
  BY DEF Reaching
<1>4. wire[e] \o Reaching(e, s) \in Seq(Signals)
  BY <1>1, <1>3
<1>5. wire' = [wire EXCEPT ![Peer(e)] = Tail(wire[Peer(e)]),
                           ![e] = wire[e] \o Reaching(e, s)]
  BY <1>1 DEF Answer
<1>6. Tail(wire[Peer(e)]) \in Seq(Signals)
  BY <1>1, Consuming
<1>7. /\ wire'[e] = wire[e] \o Reaching(e, s)
      /\ wire'[Peer(e)] = Tail(wire[Peer(e)])
  BY <1>1, <1>5
<1>8. wire' \in [Ends -> Seq(Signals)]
  BY <1>1, <1>4, <1>5, <1>6
<1> QED
  BY <1>2, <1>7, <1>8 DEF Reaching, Behind

-----------------------------------------------------------------------------
(* Of the signals with some code, v has none that w had not, in the order  *)
(* they had.                                                               *)
Within(v, w, code) ==
  \E k \in Nat : \A i \in 1 .. Len(v) :
    v[i].code = code => i + k \in 1 .. Len(w) /\ v[i] = w[i + k]

LEMMA WithinSame ==
  ASSUME NEW w \in Seq(Signals), NEW code
  PROVE  Within(w, w, code)
<1>1. \A i \in 1 .. Len(w) : i + 0 \in 1 .. Len(w) /\ w[i] = w[i + 0]
  OBVIOUS
<1> QED BY <1>1 DEF Within

LEMMA WithinTail ==
  ASSUME NEW w \in Seq(Signals), w # << >>, NEW code
  PROVE  Within(Tail(w), w, code)
  BY Consuming DEF Within

LEMMA WithinEmpty ==
  ASSUME NEW w \in Seq(Signals), NEW code
  PROVE  Within(<< >>, w, code)
<1>1. 1 .. Len(<< >>) = {} /\ 0 \in Nat
  OBVIOUS
<1> QED BY <1>1 DEF Within

LEMMA WithinBehind ==
  ASSUME NEW w \in Seq(Signals), NEW s \in Seq(Signals), NEW code,
         None(s, code), NEW v, Behind(v, w, s)
  PROVE  Within(v, w, code)
<1>1. CASE v = w
  BY <1>1, WithinSame
<1>2. CASE v = w \o s
  <2>1. ASSUME NEW i \in 1 .. Len(v), v[i].code = code
        PROVE  i + 0 \in 1 .. Len(w) /\ v[i] = w[i + 0]
    <3>1. i \in 1 .. Len(w) /\ v[i] = w[i]
      BY <1>2, <2>1, Joining DEF None
    <3> QED BY <3>1
  <2> QED BY <2>1 DEF Within
<1> QED BY <1>1, <1>2 DEF Behind

LEMMA WithinNone ==
  ASSUME NEW w, NEW v, NEW code, Within(v, w, code), None(w, code)
  PROVE  None(v, code)
  BY DEF Within, None

LEMMA NoneShort ==
  ASSUME NEW m \in Signals, NEW code
  PROVE  /\ <<m>> \in Seq(Signals) /\ << >> \in Seq(Signals)
         /\ None(<< >>, code)
         /\ m.code # code => None(<<m>>, code)
  BY DEF None

-----------------------------------------------------------------------------
(* One direction.  A step that sends no configuration request of e, and    *)
(* nothing in response to one, and leaves what it is about as it was.      *)
Aside(e) ==
  LET p == Peer(e) IN
  /\ Within(wire'[e], wire[e], "CONFIG_REQ")
  /\ Within(wire'[p], wire[p], "CONFIG_RSP")
  /\ configure_req'[p] = configure_req[p] /\ remote_mtu'[p] = remote_mtu[p]
  /\ mtu'[e] = mtu[e] /\ configs'[e] = configs[e]
  /\ state'[e] \in Waiting =>
       /\ state[e] \in Waiting
       /\ expected'[e] = expected[e] /\ configure_resp'[e] = configure_resp[e]
  /\ state'[e] \notin Waiting \cup Closing =>
       state[e] \notin Waiting \cup Closing \/ configs[e].made = 0
  /\ state'[e] \in Settled => state[e] \in Settled

LEMMA AsideKeeps ==
  ASSUME NEW e \in Ends, Direction(e), Aside(e)
  PROVE  Direction(e)'
<1> DEFINE p == Peer(e)
<1>1. Asks(e)'
  <2> SUFFICES ASSUME configs'[e].made = 0 \/ state'[e] \notin Waiting \cup Closing
               PROVE  Quiet(e)'
    BY DEF Asks
  <2>1. Quiet(e)
    BY DEF Aside, Direction, Asks
  <2>2. None(wire'[e], "CONFIG_REQ") /\ None(wire'[p], "CONFIG_RSP")
    BY <2>1, WithinNone DEF Aside, Quiet
  <2> QED
    BY <2>1, <2>2 DEF Aside, Quiet
<1>2. Pipeline(e)'
  <2> SUFFICES ASSUME state'[e] \in Waiting, expected'[e].count > 0
               PROVE  LastRequest(e)' /\ LastResponse(e)'
    BY DEF Pipeline
  <2>1. /\ LastRequest(e) /\ LastResponse(e)
        /\ expected'[e] = expected[e] /\ configure_resp'[e] = configure_resp[e]
        /\ configure_req'[p] = configure_req[p] /\ remote_mtu'[p] = remote_mtu[p]
    BY DEF Aside, Direction, Pipeline
  <2>2. PICK k \in Nat : \A i \in 1 .. Len(wire'[e]) :
          wire'[e][i].code = "CONFIG_REQ" =>
            i + k \in 1 .. Len(wire[e]) /\ wire'[e][i] = wire[e][i + k]
    BY DEF Aside, Within
  <2>3. PICK l \in Nat : \A i \in 1 .. Len(wire'[p]) :
          wire'[p][i].code = "CONFIG_RSP" =>
            i + l \in 1 .. Len(wire[p]) /\ wire'[p][i] = wire[p][i + l]
    BY DEF Aside, Within
  <2>4. LastRequest(e)'
    <3> SUFFICES ASSUME NEW i \in 1 .. Len(wire'[e]),
                        wire'[e][i].code = "CONFIG_REQ",
                        wire'[e][i].id = expected[e].id
                 PROVE  /\ ~wire'[e][i].cont
                        /\ \A j \in 1 .. Len(wire'[e]) :
                             wire'[e][j].code = "CONFIG_REQ" =>
                               j <= i /\ (j < i => wire'[e][j].cont)
                        /\ configure_req[p].kind = "rest"
                             /\ configure_req[p].res = "ok"
                           => configure_resp[e] = remote_mtu[p]
      BY <2>1 DEF LastRequest
    <3>1. /\ i + k \in 1 .. Len(wire[e]) /\ wire'[e][i] = wire[e][i + k]
          /\ wire[e][i + k].code = "CONFIG_REQ"
          /\ wire[e][i + k].id = expected[e].id
      BY <2>2
    <3>2. /\ ~wire[e][i + k].cont
          /\ \A j \in 1 .. Len(wire[e]) : wire[e][j].code = "CONFIG_REQ" =>
               j <= i + k /\ (j < i + k => wire[e][j].cont)
          /\ configure_req[p].kind = "rest" /\ configure_req[p].res = "ok"
             => configure_resp[e] = remote_mtu[p]
      BY <2>1, <3>1 DEF LastRequest
    <3>3. ASSUME NEW j \in 1 .. Len(wire'[e]), wire'[e][j].code = "CONFIG_REQ"
          PROVE  j <= i /\ (j < i => wire'[e][j].cont)
      <4>1. j + k \in 1 .. Len(wire[e]) /\ wire'[e][j] = wire[e][j + k]
        BY <2>2, <3>3
      <4>2. j + k <= i + k /\ (j + k < i + k => wire[e][j + k].cont)
        BY <3>2, <3>3, <4>1
      <4> QED BY <4>1, <4>2
    <3> QED BY <3>1, <3>2, <3>3
  <2>5. LastResponse(e)'
    <3> SUFFICES ASSUME NEW i \in 1 .. Len(wire'[p]),
                        wire'[p][i].code = "CONFIG_RSP",
                        wire'[p][i].id = expected[e].id
                 PROVE  /\ None(wire'[e], "CONFIG_REQ")
                        /\ \A j \in 1 .. Len(wire'[p]) :
                             wire'[p][j].code = "CONFIG_RSP" => j <= i
                        /\ ~wire'[p][i].cont =>
                             /\ configure_req[p].kind = "none"
                             /\ wire'[p][i].res = "ok" =>
                                  OrDefault(AllPartsMtu(e, wire'[p][i]))
                                    = remote_mtu[p]
                        /\ wire'[p][i].cont /\ configure_req[p].kind = "rest"
                             /\ configure_req[p].res = "ok" =>
                             /\ wire'[p][i].mtu \in Mtus
                             /\ wire'[p][i].mtu = remote_mtu[p]
      BY <2>1 DEF LastResponse, AllPartsMtu
    <3>1. /\ i + l \in 1 .. Len(wire[p]) /\ wire'[p][i] = wire[p][i + l]
          /\ wire[p][i + l].code = "CONFIG_RSP"
          /\ wire[p][i + l].id = expected[e].id
      BY <2>3
    <3>2. /\ None(wire[e], "CONFIG_REQ")
          /\ \A j \in 1 .. Len(wire[p]) :
               wire[p][j].code = "CONFIG_RSP" => j <= i + l
          /\ ~wire[p][i + l].cont =>
               /\ configure_req[p].kind = "none"
               /\ wire[p][i + l].res = "ok" =>
                    OrDefault(AllPartsMtu(e, wire[p][i + l])) = remote_mtu[p]
          /\ wire[p][i + l].cont /\ configure_req[p].kind = "rest"
               /\ configure_req[p].res = "ok" =>
               wire[p][i + l].mtu \in Mtus /\ wire[p][i + l].mtu = remote_mtu[p]
      BY <2>1, <3>1 DEF LastResponse
    <3>3. None(wire'[e], "CONFIG_REQ")
      BY <3>2, WithinNone DEF Aside
    <3>4. ASSUME NEW j \in 1 .. Len(wire'[p]), wire'[p][j].code = "CONFIG_RSP"
          PROVE  j <= i
      <4>1. j + l \in 1 .. Len(wire[p]) /\ wire'[p][j] = wire[p][j + l]
        BY <2>3, <3>4
      <4>2. j + l <= i + l
        BY <3>2, <3>4, <4>1
      <4> QED BY <4>1, <4>2
    <3> QED BY <3>1, <3>2, <3>3, <3>4
  <2> QED BY <2>4, <2>5
<1>3. Agreed(e)'
  BY DEF Aside, Direction, Agreed
<1> QED
  BY <1>1, <1>2, <1>3 DEF Direction

-----------------------------------------------------------------------------
(* The beginning.                                                          *)
LEMMA Begun ==
  ASSUME ChanInv, NEW e \in Ends,
         state[e] \in Connected \/ closes[e].told > 0 \/ wire[Peer(e)] # << >>
  PROVE  last_signal_id["outgoing"] # 0
<1> SUFFICES ASSUME last_signal_id["outgoing"] = 0 PROVE FALSE
  OBVIOUS
<1>1. /\ state["outgoing"] = "CLOSED" /\ state["incoming"] = "NONE"
      /\ \A x \in Ends : wire[x] = << >> /\ closes[x].told = 0
  BY DEF ChanInv, NotBegun, Untouched
<1>2. "CLOSED" \notin Connected /\ "NONE" \notin Connected
  BY DEF Connected, ConfigStates
<1>3. e \in {"outgoing", "incoming"} /\ Peer(e) \in Ends
  BY Peers DEF Ends
<1>4. state[e] \notin Connected
  BY <1>1, <1>2, <1>3
<1>5. closes[e].told = 0 /\ wire[Peer(e)] = << >>
  BY <1>1, <1>3
<1>6. ~(closes[e].told > 0)
  BY <1>5
<1> QED
  BY <1>4, <1>5, <1>6

(* Whoever is connected, or has been, has seen the connection request.     *)
LEMMA RequestSeen ==
  ASSUME ChanInv, NEW e \in Ends, state[e] \in Connected \cup {"CLOSED"}
  PROVE  \A x \in Ends : None(wire[x], "CONN_REQ")
<1> SUFFICES ASSUME NEW x \in Ends, NEW i \in 1 .. Len(wire[x]),
                    wire[x][i].code = "CONN_REQ"
             PROVE  FALSE
  BY DEF None
<1>1. /\ state["incoming"] = "NONE"
      /\ state["outgoing"] \in {"WAIT_CONNECT_RSP", "NONE"}
  BY DEF ChanInv, Requested
<1>2. state[e] \notin {"NONE", "WAIT_CONNECT_RSP"}
  BY DEF Connected, ConfigStates
<1> QED
  BY <1>1, <1>2 DEF Ends

(* And whoever receives a signal sees it, if it was not seen.              *)
LEMMA Received ==
  ASSUME ChanInv, NEW e \in Ends, wire[Peer(e)] # << >>,
         NEW s \in Seq(Signals), None(s, "CONN_REQ"), Answer(e, s)
  PROVE  /\ wire' \in [Ends -> Seq(Signals)]
         /\ wire'[Peer(e)] = Tail(wire[Peer(e)])
         /\ Behind(wire'[e], wire[e], s)
         /\ Peer(e) \in link => wire'[e] = wire[e] \o s
         /\ last_signal_id["outgoing"] # 0
         /\ \A x \in Ends : None(wire'[x], "CONN_REQ")
<1> DEFINE p == Peer(e)
<1>1. /\ p \in Ends /\ p # e /\ \A x \in Ends : x = e \/ x = p
      /\ wire[e] \in Seq(Signals) /\ wire[p] \in Seq(Signals)
  BY Peers DEF ChanInv, ChanTypes
<1>2. /\ wire' \in [Ends -> Seq(Signals)]
      /\ wire'[p] = Tail(wire[p]) /\ Behind(wire'[e], wire[e], s)
      /\ p \in link => wire'[e] = wire[e] \o s
  BY AnswerEffect DEF ChanInv
<1>3. last_signal_id["outgoing"] # 0
  BY Begun
<1>4. None(wire[e], "CONN_REQ")
  <2> SUFFICES ASSUME NEW i \in 1 .. Len(wire[e]), wire[e][i].code = "CONN_REQ"
               PROVE  FALSE
    BY DEF None
  <2>1. e = "outgoing" /\ wire["incoming"] = << >>
    BY DEF ChanInv, Requested
  <2> QED
    BY <2>1 DEF Peer
<1>5. None(wire'[e], "CONN_REQ")
  BY <1>1, <1>2, <1>4, WithinBehind, WithinNone
<1>6. None(wire'[p], "CONN_REQ")
  <2> SUFFICES ASSUME NEW i \in 1 .. Len(wire'[p]),
                      wire'[p][i].code = "CONN_REQ"
               PROVE  FALSE
    BY DEF None
  <2>1. i + 1 \in 1 .. Len(wire[p]) /\ wire[p][i + 1].code = "CONN_REQ"
    BY <1>1, <1>2, Consuming
  <2>2. Len(wire[p]) = 1
    BY <1>1, <2>1 DEF ChanInv, Requested
  <2> QED
    BY <2>1, <2>2
<1> QED
  BY <1>1, <1>2, <1>3, <1>5, <1>6

LEMMA StartOver ==
  ASSUME last_signal_id'["outgoing"] # 0,
         \A x \in Ends : None(wire'[x], "CONN_REQ")
  PROVE  NotBegun' /\ Requested'
  BY DEF NotBegun, Requested, None

-----------------------------------------------------------------------------
(* Connection.                                                             *)
LEMMA OutIn ==
  /\ "outgoing" \in Ends /\ "incoming" \in Ends
  /\ Peer("outgoing") = "incoming" /\ Peer("incoming") = "outgoing"
  BY DEF Ends, Peer

LEMMA ConnectionRequestInv ==
  ASSUME ChanInv, ConnectionRequest
  PROVE  ChanInv'
<1> DEFINE e == "outgoing"
           id == NextId(last_signal_id[e])
           s == <<Plain("CONN_REQ", id)>>
<1>1. /\ state[e] = "CLOSED" /\ last_signal_id[e] = 0
      /\ last_signal_id' = [last_signal_id EXCEPT ![e] = id]
      /\ Expect(e, "CONN_RSP", id) /\ Send(e, s)
      /\ state' = [state EXCEPT ![e] = "WAIT_CONNECT_RSP"]
      /\ UNCHANGED <<configure_req, configure_resp, mtu, remote_mtu, link,
                     conf, closes, configs>>
  BY DEF ConnectionRequest, Goto
<1>2. ChanTypes /\ e \in Ends /\ Peer(e) = "incoming"
  BY OutIn DEF ChanInv
<1>3. id \in Nat \ {0}
  BY <1>2, NextIds DEF ChanTypes
<1>4. /\ Plain("CONN_REQ", id) \in Signals /\ s \in Seq(Signals)
      /\ s[1].code = "CONN_REQ" /\ Len(s) = 1
  <2>1. "CONN_REQ" \in Codes
    BY DEF Codes
  <2>2. Plain("CONN_REQ", id) \in Signals /\ Plain("CONN_REQ", id).code = "CONN_REQ"
    BY <1>3, <2>1, Plains
  <2> QED BY <2>2
<1> HIDE DEF s
<1>5. /\ wire' \in [Ends -> Seq(Signals)] /\ wire'["incoming"] = wire["incoming"]
      /\ Behind(wire'[e], wire[e], s)
  BY <1>1, <1>2, <1>4, SendEffect
<1>6. /\ wire[e] = << >> /\ wire["incoming"] = << >>
      /\ state["incoming"] = "NONE"
      /\ \A x \in Ends : Untouched(x)
  BY <1>1, OutIn DEF ChanInv, NotBegun
<1>7. ChanTypes'
  <2>1. state' \in [Ends -> States]
    BY <1>1, <1>2 DEF ChanTypes, States
  <2>2. expected' \in [Ends -> [code : Codes \cup {"none"}, id : Nat,
                                count : Nat]]
    <3>1. "CONN_RSP" \in Codes
      BY DEF Codes
    <3> QED BY <1>1, <1>2, <1>3, <3>1 DEF ChanTypes, Expect
  <2>3. last_signal_id' \in [Ends -> Nat]
    BY <1>1, <1>2, <1>3 DEF ChanTypes
  <2> QED
    BY <1>1, <1>2, <1>5, <2>1, <2>2, <2>3 DEF ChanTypes
<1>8. wire'[e] = s \/ wire'[e] = << >>
  <2>1. << >> \o s = s
    BY <1>4
  <2> QED BY <1>5, <1>6, <2>1 DEF Behind
<1>9. NotBegun'
  BY <1>1, <1>2, <1>3 DEF NotBegun, ChanTypes
<1>10. Requested'
  <2> SUFFICES ASSUME NEW x \in Ends, NEW i \in 1 .. Len(wire'[x]),
                      wire'[x][i].code = "CONN_REQ"
               PROVE  /\ x = e /\ Len(wire'[x]) = 1
                      /\ wire'["incoming"] = << >>
                      /\ state'["incoming"] = "NONE" /\ Untouched("incoming")'
                      /\ state'[x] \in {"WAIT_CONNECT_RSP", "NONE"}
    BY DEF Requested
  <2>1. x = e
    BY <1>5, <1>6 DEF Ends
  <2>2. Len(wire'[x]) = 1
    BY <1>4, <1>8, <2>1
  <2>3. state'["incoming"] = "NONE" /\ state'[e] = "WAIT_CONNECT_RSP"
    BY <1>1, <1>2, <1>6 DEF ChanTypes
  <2>4. Untouched("incoming")'
    <3>1. expected'["incoming"] = expected["incoming"]
      BY <1>1, <1>2 DEF Expect, ChanTypes
    <3> QED BY <1>1, <1>6, <3>1, OutIn DEF Untouched
  <2> QED BY <1>5, <1>6, <2>1, <2>2, <2>3, <2>4
<1>11. ASSUME NEW x \in Ends
       PROVE  Direction(x)'
  <2>1. Direction(x)
    BY DEF ChanInv
  <2>2. /\ None(wire'["incoming"], "CONFIG_REQ")
        /\ None(wire'["incoming"], "CONFIG_RSP")
        /\ None(wire'[e], "CONFIG_REQ") /\ None(wire'[e], "CONFIG_RSP")
    <3>1. None(wire'["incoming"], "CONFIG_REQ")
          /\ None(wire'["incoming"], "CONFIG_RSP")
      BY <1>5, <1>6 DEF None
    <3>2. ASSUME NEW i \in 1 .. Len(wire'[e])
          PROVE  wire'[e][i].code = "CONN_REQ"
      BY <1>4, <1>8
    <3> QED BY <3>1, <3>2 DEF None
  <2>3. /\ Within(wire'[x], wire[x], "CONFIG_REQ")
        /\ Within(wire'[Peer(x)], wire[Peer(x)], "CONFIG_RSP")
    <3>1. 0 \in Nat
      OBVIOUS
    <3> QED BY <2>2, <3>1, OutIn DEF Within, None, Ends
  <2>4. /\ configs[x].made = 0
        /\ state'[x] = state[x] \/ state'[x] = "WAIT_CONNECT_RSP"
        /\ state'[x] # state[x] => x = e
    BY <1>1, <1>2, <1>6 DEF Untouched, ChanTypes, NoRequests
  <2>5. state'[x] \notin Waiting /\ state'[x] \notin Settled
    BY <1>1, <1>2, <1>6 DEF Waiting, Settled, ChanTypes, Ends
  <2>6. Aside(x)
    BY <1>1, <2>3, <2>4, <2>5 DEF Aside
  <2> QED
    BY <2>1, <2>6, AsideKeeps
<1> QED
  BY <1>7, <1>9, <1>10, <1>11 DEF ChanInv

LEMMA HandleConnectionReqInv ==
  ASSUME ChanInv, NEW e \in Ends, wire[Peer(e)] # << >>,
         NEW m, m = Head(wire[Peer(e)]),
         NEW served \in BOOLEAN, HandleConnectionReq(e, m, served)
  PROVE  ChanInv'
<1> DEFINE p == Peer(e)
           r == Signal("CONN_RSP", m.id, FALSE, NoMtu,
                       IF served THEN "ok" ELSE "refused")
<1>1. /\ m.code = "CONN_REQ" /\ Answer(e, <<r>>)
      /\ \/ state' = [state EXCEPT ![e] = "WAIT_CONFIG"]
         \/ state' = state
      /\ UNCHANGED <<expected, last_signal_id, configure_req, configure_resp,
                     mtu, remote_mtu, link, conf, closes, configs>>
  BY DEF HandleConnectionReq, Goto
<1>2. /\ ChanTypes /\ p \in Ends /\ p # e /\ Peer(p) = e
      /\ wire[e] \in Seq(Signals) /\ wire[p] \in Seq(Signals)
      /\ state \in [Ends -> States]
      /\ \A x \in Ends : x = e \/ x = p
  BY Peers DEF ChanInv, ChanTypes
<1>3. m \in Signals /\ m = wire[p][1] /\ 1 \in 1 .. Len(wire[p])
  BY <1>2, Consuming
<1>4. r \in Signals /\ r.code = "CONN_RSP"
  BY <1>3 DEF Signal, Signals, Codes, Options, Results
<1> HIDE DEF r
<1>5. /\ <<r>> \in Seq(Signals) /\ None(<<r>>, "CONN_REQ")
      /\ None(<<r>>, "CONFIG_REQ") /\ None(<<r>>, "CONFIG_RSP")
  BY <1>4, NoneShort
<1>6. /\ wire' \in [Ends -> Seq(Signals)]
      /\ wire'[p] = Tail(wire[p]) /\ Behind(wire'[e], wire[e], <<r>>)
      /\ last_signal_id["outgoing"] # 0
      /\ \A x \in Ends : None(wire'[x], "CONN_REQ")
  BY <1>1, <1>5, Received
<1>7. /\ p = "outgoing" /\ e = "incoming" /\ state[e] = "NONE"
      /\ configs[e].made = 0
  <2>1. /\ p = "outgoing" /\ state["incoming"] = "NONE"
        /\ Untouched("incoming")
    BY <1>1, <1>2, <1>3 DEF ChanInv, Requested
  <2> QED BY <1>2, <2>1, OutIn DEF Untouched, NoRequests
<1>8. ChanTypes'
  <2>1. state' \in [Ends -> States]
    BY <1>1, <1>2 DEF States, Connected, ConfigStates
  <2> QED BY <1>1, <1>2, <1>6, <2>1 DEF ChanTypes
<1>9. NotBegun' /\ Requested'
  BY <1>1, <1>6, StartOver
<1>10. ASSUME NEW x \in Ends PROVE Direction(x)'
  <2>1. Direction(x)
    BY DEF ChanInv
  <2>2. /\ Within(wire'[p], wire[p], "CONFIG_REQ")
        /\ Within(wire'[p], wire[p], "CONFIG_RSP")
        /\ Within(wire'[e], wire[e], "CONFIG_REQ")
        /\ Within(wire'[e], wire[e], "CONFIG_RSP")
    BY <1>2, <1>5, <1>6, WithinTail, WithinBehind
  <2>3. \/ state'[x] = state[x]
        \/ state'[x] = "WAIT_CONFIG" /\ configs[x].made = 0
    BY <1>1, <1>2, <1>7
  <2>4. "WAIT_CONFIG" \notin Waiting /\ "WAIT_CONFIG" \notin Settled
    BY DEF Waiting, Settled
  <2>5. Aside(x)
    BY <1>1, <1>2, <2>2, <2>3, <2>4 DEF Aside
  <2> QED BY <2>1, <2>5, AsideKeeps
<1> QED
  BY <1>8, <1>9, <1>10 DEF ChanInv

(* A signal that arrives and has nothing to do with configuration.         *)
Expectations == [code : Codes \cup {"none"}, id : Nat, count : Nat]
LEMMA ReceivedAside ==
  ASSUME ChanInv, NEW e \in Ends, wire[Peer(e)] # << >>,
         NEW s \in Seq(Signals), None(s, "CONN_REQ"), None(s, "CONFIG_REQ"),
         None(s, "CONFIG_RSP"), Answer(e, s),
         UNCHANGED <<last_signal_id, configure_req, configure_resp, mtu,
                     remote_mtu, link, configs>>,
         state' \in [Ends -> States], expected' \in [Ends -> Expectations],
         closes' \in [Ends -> [asked : Nat, told : Nat]],
         state'[Peer(e)] = state[Peer(e)],
         expected'[Peer(e)] = expected[Peer(e)],
         \/ state'[e] = state[e] /\ expected'[e] = expected[e]
         \/ state'[e] \in Closing
         \/ state'[e] = "WAIT_CONFIG" /\ state[e] \notin Waiting \cup Closing
  PROVE  ChanInv'
<1> DEFINE p == Peer(e)
<1>2. /\ ChanTypes /\ p \in Ends /\ p # e /\ Peer(p) = e
      /\ wire[e] \in Seq(Signals) /\ wire[p] \in Seq(Signals)
      /\ \A x \in Ends : x = e \/ x = p
  BY Peers DEF ChanInv, ChanTypes
<1>6. /\ wire' \in [Ends -> Seq(Signals)]
      /\ wire'[p] = Tail(wire[p]) /\ Behind(wire'[e], wire[e], s)
      /\ last_signal_id["outgoing"] # 0
      /\ \A x \in Ends : None(wire'[x], "CONN_REQ")
  BY Received
<1>8. ChanTypes'
  BY <1>2, <1>6 DEF ChanTypes, Expectations
<1>9. NotBegun' /\ Requested'
  BY <1>6, StartOver
<1>10. ASSUME NEW x \in Ends PROVE Direction(x)'
  <2>1. Direction(x)
    BY DEF ChanInv
  <2>2. /\ Within(wire'[p], wire[p], "CONFIG_REQ")
        /\ Within(wire'[p], wire[p], "CONFIG_RSP")
        /\ Within(wire'[e], wire[e], "CONFIG_REQ")
        /\ Within(wire'[e], wire[e], "CONFIG_RSP")
    BY <1>2, <1>6, WithinTail, WithinBehind
  <2>3. \/ state'[x] = state[x] /\ expected'[x] = expected[x]
        \/ state'[x] \in Closing
        \/ state'[x] = "WAIT_CONFIG" /\ state[x] \notin Waiting \cup Closing
    BY <1>2
  <2>4. /\ "WAIT_CONFIG" \notin Waiting /\ "WAIT_CONFIG" \notin Settled
        /\ Closing \cap (Waiting \cup Settled) = {}
    BY DEF Waiting, Settled, Closing
  <2>5. Aside(x)
    BY <1>2, <2>2, <2>3, <2>4 DEF Aside
  <2> QED BY <2>1, <2>5, AsideKeeps
<1> QED
  BY <1>8, <1>9, <1>10 DEF ChanInv

LEMMA ClosingStates ==
  /\ "CLOSED" \in Closing /\ "NONE" \in Closing /\ "WAIT_DISCONNECT" \in Closing
  /\ Closing \subseteq States
  BY DEF Closing, States, Connected

LEMMA OneLessEffect ==
  ASSUME ChanTypes, NEW e \in Ends, OneLess(e), expected[e].count > 0
  PROVE  /\ expected' \in [Ends -> Expectations]
         /\ expected'[e] = [expected[e] EXCEPT !.count = @ - 1]
         /\ expected'[Peer(e)] = expected[Peer(e)]
<1>1. /\ expected \in [Ends -> Expectations] /\ expected[e] \in Expectations
      /\ Peer(e) \in Ends /\ Peer(e) # e
  BY Peers DEF ChanTypes, Expectations
<1>2. [expected[e] EXCEPT !.count = @ - 1] \in Expectations
  BY <1>1 DEF Expectations
<1>3. expected' = [expected EXCEPT ![e] = [expected[e] EXCEPT !.count = @ - 1]]
  BY DEF OneLess
<1> QED BY <1>1, <1>2, <1>3

LEMMA Handing ==
  ASSUME ChanInv, NEW e \in Ends, wire[Peer(e)] # << >>,
         NEW m, m = Head(wire[Peer(e)])
  PROVE  /\ ChanTypes /\ Peer(e) \in Ends /\ Peer(e) # e
         /\ wire[Peer(e)] \in Seq(Signals)
         /\ m \in Signals /\ m = wire[Peer(e)][1]
         /\ 1 \in 1 .. Len(wire[Peer(e)])
         /\ state \in [Ends -> States] /\ state[e] \in States
         /\ closes \in [Ends -> [asked : Nat, told : Nat]]
         /\ expected \in [Ends -> Expectations]
<1>1. Peer(e) \in Ends /\ Peer(e) # e
  BY Peers
<1>2. wire[Peer(e)] \in Seq(Signals)
  BY <1>1 DEF ChanInv, ChanTypes
<1> QED
  BY <1>1, <1>2, Consuming DEF ChanInv, ChanTypes, Expectations

LEMMA HandleConnectRespInv ==
  ASSUME ChanInv, NEW e \in Ends, wire[Peer(e)] # << >>,
         NEW m, m = Head(wire[Peer(e)]), HandleConnectResp(e, m)
  PROVE  ChanInv'
<1>1. /\ m.code = "CONN_RSP" /\ Handled(e, m) /\ OneLess(e)
      /\ state' = [state EXCEPT ![e] = IF m.res = "ok" THEN "WAIT_CONFIG"
                                       ELSE "NONE"]
      /\ Answer(e, << >>)
      /\ UNCHANGED <<last_signal_id, configure_req, configure_resp, mtu,
                     remote_mtu, link, closes, configs>>
  BY DEF HandleConnectResp, Goto
<1>2. state[e] = "WAIT_CONNECT_RSP" /\ expected[e].count > 0
  BY <1>1 DEF Handled, Matches
<1>3. /\ ChanTypes /\ m \in Signals /\ Peer(e) \in Ends /\ Peer(e) # e
      /\ state \in [Ends -> States]
      /\ closes' \in [Ends -> [asked : Nat, told : Nat]]
  BY <1>1, Handing
<1>4. << >> \in Seq(Signals) /\ \A c \in Codes : None(<< >>, c)
  BY <1>3, NoneShort
<1>5. /\ expected' \in [Ends -> Expectations]
      /\ expected'[Peer(e)] = expected[Peer(e)]
  BY <1>1, <1>2, <1>3, OneLessEffect
<1>6. /\ state'[e] \in {"WAIT_CONFIG", "NONE"} /\ state'[Peer(e)] = state[Peer(e)]
      /\ state' \in [Ends -> States]
  BY <1>1, <1>3 DEF States, Connected, ConfigStates
<1>7. state[e] \notin Waiting \cup Closing
  BY <1>2 DEF Waiting, Closing
<1>8. "CONN_REQ" \in Codes /\ "CONFIG_REQ" \in Codes /\ "CONFIG_RSP" \in Codes
  BY DEF Codes
<1>9. state'[e] \in Closing \/ state'[e] = "WAIT_CONFIG"
  BY <1>6, ClosingStates
<1> QED
  BY <1>1, <1>3, <1>4, <1>5, <1>6, <1>7, <1>8, <1>9, ReceivedAside

LEMMA HandleDisconnectReqInv ==
  ASSUME ChanInv, NEW e \in Ends, wire[Peer(e)] # << >>,
         NEW m, m = Head(wire[Peer(e)]), HandleDisconnectReq(e, m)
  PROVE  ChanInv'
<1>1. /\ ChanTypes /\ m \in Signals /\ Peer(e) \in Ends /\ Peer(e) # e
      /\ state \in [Ends -> States] /\ expected \in [Ends -> Expectations]
      /\ closes \in [Ends -> [asked : Nat, told : Nat]]
  BY Handing
<1>2. PICK c \in {"CMD_REJ", "DISCONN_RSP"} :
        /\ Answer(e, <<Plain(c, m.id)>>)
        /\ \/ UNCHANGED <<state, closes>>
           \/ Goto(e, "CLOSED") /\ HasTold(e)
  BY DEF HandleDisconnectReq
<1>3. UNCHANGED <<expected, last_signal_id, configure_req, configure_resp, mtu,
                  remote_mtu, link, configs>>
  BY DEF HandleDisconnectReq
<1>4. /\ Plain(c, m.id) \in Signals /\ Plain(c, m.id).code = c
  <2>1. m.id \in Nat /\ c \in Codes
    BY <1>1 DEF Signals, Codes
  <2> QED BY <2>1, Plains
<1>5. /\ <<Plain(c, m.id)>> \in Seq(Signals)
      /\ None(<<Plain(c, m.id)>>, "CONN_REQ")
      /\ None(<<Plain(c, m.id)>>, "CONFIG_REQ")
      /\ None(<<Plain(c, m.id)>>, "CONFIG_RSP")
  BY <1>4, NoneShort
<1>6. /\ state' \in [Ends -> States] /\ state'[Peer(e)] = state[Peer(e)]
      /\ state'[e] = state[e] \/ state'[e] \in Closing
  BY <1>1, <1>2, ClosingStates DEF Goto
<1>7. closes' \in [Ends -> [asked : Nat, told : Nat]]
  <2>1. CASE UNCHANGED closes
    BY <1>1, <2>1
  <2>2. CASE HasTold(e)
    <3>1. closes[e].told + 1 \in Nat /\ closes[e] \in [asked : Nat, told : Nat]
      BY <1>1
    <3>2. [closes[e] EXCEPT !.told = @ + 1] \in [asked : Nat, told : Nat]
      BY <3>1
    <3>3. closes' = [closes EXCEPT ![e] = [closes[e] EXCEPT !.told = @ + 1]]
      BY <2>2 DEF HasTold
    <3> QED BY <1>1, <3>2, <3>3
  <2> QED BY <1>2, <2>1, <2>2
<1> QED
  BY <1>1, <1>2, <1>3, <1>5, <1>6, <1>7, ReceivedAside

LEMMA HandleDisconnectRespInv ==
  ASSUME ChanInv, NEW e \in Ends, wire[Peer(e)] # << >>,
         NEW m, m = Head(wire[Peer(e)]), HandleDisconnectResp(e, m)
  PROVE  ChanInv'
<1>1. /\ m.code = "DISCONN_RSP" /\ Handled(e, m) /\ OneLess(e)
      /\ state' = [state EXCEPT ![e] = "CLOSED"] /\ HasTold(e)
      /\ Answer(e, << >>)
      /\ UNCHANGED <<last_signal_id, configure_req, configure_resp, mtu,
                     remote_mtu, link, configs>>
  BY DEF HandleDisconnectResp, Goto
<1>2. expected[e].count > 0
  BY <1>1 DEF Handled, Matches
<1>3. /\ ChanTypes /\ m \in Signals /\ Peer(e) \in Ends /\ Peer(e) # e
      /\ state \in [Ends -> States]
      /\ closes \in [Ends -> [asked : Nat, told : Nat]]
  BY <1>1, Handing
<1>4. << >> \in Seq(Signals) /\ \A c \in Codes : None(<< >>, c)
  BY <1>3, NoneShort
<1>5. /\ expected' \in [Ends -> Expectations]
      /\ expected'[Peer(e)] = expected[Peer(e)]
  BY <1>1, <1>2, <1>3, OneLessEffect
<1>6. /\ state'[e] = "CLOSED" /\ state'[Peer(e)] = state[Peer(e)]
      /\ state' \in [Ends -> States]
  BY <1>1, <1>3, ClosingStates
<1>7. closes' \in [Ends -> [asked : Nat, told : Nat]]
  <2>1. closes[e].told + 1 \in Nat /\ closes[e] \in [asked : Nat, told : Nat]
    BY <1>3
  <2>2. [closes[e] EXCEPT !.told = @ + 1] \in [asked : Nat, told : Nat]
    BY <2>1
  <2>3. closes' = [closes EXCEPT ![e] = [closes[e] EXCEPT !.told = @ + 1]]
    BY <1>1 DEF HasTold
  <2> QED BY <1>3, <2>2, <2>3
<1>8. "CONN_REQ" \in Codes /\ "CONFIG_REQ" \in Codes /\ "CONFIG_RSP" \in Codes
  BY DEF Codes
<1> QED
  BY <1>1, <1>3, <1>4, <1>5, <1>6, <1>7, <1>8, ClosingStates, ReceivedAside

LEMMA IgnoreResponseInv ==
  ASSUME ChanInv, NEW e \in Ends, wire[Peer(e)] # << >>,
         NEW m, m = Head(wire[Peer(e)]), IgnoreResponse(e, m)
  PROVE  ChanInv'
<1>1. /\ Answer(e, << >>)
      /\ UNCHANGED <<channel, link, closes, configs>>
  BY DEF IgnoreResponse
<1>2. /\ ChanTypes /\ m \in Signals
      /\ state' \in [Ends -> States] /\ expected' \in [Ends -> Expectations]
      /\ closes' \in [Ends -> [asked : Nat, told : Nat]]
  BY <1>1, Handing DEF channel
<1>3. << >> \in Seq(Signals) /\ \A c \in Codes : None(<< >>, c)
  BY <1>2, NoneShort
<1>4. "CONN_REQ" \in Codes /\ "CONFIG_REQ" \in Codes /\ "CONFIG_RSP" \in Codes
  BY DEF Codes
<1>5. UNCHANGED <<state, expected, last_signal_id, configure_req,
                  configure_resp, mtu, remote_mtu, link, configs>>
  BY <1>1 DEF channel
<1> QED
  BY <1>1, <1>2, <1>3, <1>4, <1>5, ReceivedAside

-----------------------------------------------------------------------------
(* The client disconnects, drops its reference, or the link goes down.     *)
LEMMA DisconnectInv ==
  ASSUME ChanInv, NEW e \in Ends, Disconnect(e)
  PROVE  ChanInv'
<1> DEFINE p == Peer(e)
           id == NextId(last_signal_id[e])
           s == <<Plain("DISCONN_REQ", id)>>
<1>0. UNCHANGED <<configure_req, configure_resp, mtu, remote_mtu, link, configs>>
  BY DEF Disconnect
<1>1. /\ ChanTypes /\ p \in Ends /\ p # e /\ Peer(p) = e
      /\ \A x \in Ends : x = e \/ x = p
      /\ state \in [Ends -> States] /\ expected \in [Ends -> Expectations]
      /\ closes \in [Ends -> [asked : Nat, told : Nat]]
      /\ last_signal_id \in [Ends -> Nat] /\ wire \in [Ends -> Seq(Signals)]
      /\ wire[e] \in Seq(Signals) /\ wire[p] \in Seq(Signals)
  BY Peers DEF ChanInv, ChanTypes, Expectations
<1>2. last_signal_id["outgoing"] # 0 /\ state[e] \in Connected \cup {"CLOSED"}
  BY Begun DEF Disconnect
<1>3. \A x \in Ends : None(wire[x], "CONN_REQ")
  BY <1>2, RequestSeen
<1>4. CASE state[e] \in Connected
  <2>1. /\ last_signal_id' = [last_signal_id EXCEPT ![e] = id]
        /\ Expect(e, "DISCONN_RSP", id) /\ Send(e, s)
        /\ state' = [state EXCEPT ![e] = "WAIT_DISCONNECT"]
        /\ closes' = [closes EXCEPT ![e].asked = @ + 1]
    BY <1>4 DEF Disconnect, Goto, Connected, ConfigStates
  <2>2. id \in Nat \ {0}
    BY <1>1, NextIds
  <2>3. /\ Plain("DISCONN_REQ", id) \in Signals
        /\ Plain("DISCONN_REQ", id).code = "DISCONN_REQ"
    <3>1. "DISCONN_REQ" \in Codes
      BY DEF Codes
    <3> QED BY <2>2, <3>1, Plains
  <2>4. /\ s \in Seq(Signals) /\ None(s, "CONN_REQ") /\ None(s, "CONFIG_REQ")
        /\ None(s, "CONFIG_RSP")
    BY <2>3, NoneShort
  <2> HIDE DEF s
  <2>5. /\ wire' \in [Ends -> Seq(Signals)] /\ wire'[p] = wire[p]
        /\ Behind(wire'[e], wire[e], s)
    BY <1>1, <2>1, <2>4, SendEffect
  <2>6. ChanTypes'
    <3>1. state' \in [Ends -> States]
      BY <1>1, <2>1, ClosingStates
    <3>2. expected' \in [Ends -> Expectations]
      <4>1. "DISCONN_RSP" \in Codes
        BY DEF Codes
      <4>2. expected[e].count + 1 \in Nat
        BY <1>1 DEF Expectations
      <4>3. [code |-> "DISCONN_RSP", id |-> id, count |-> expected[e].count + 1]
              \in Expectations
        BY <2>2, <4>1, <4>2 DEF Expectations
      <4> QED BY <1>1, <2>1, <4>3 DEF Expect
    <3>3. last_signal_id' \in [Ends -> Nat]
      BY <1>1, <2>1, <2>2
    <3>4. closes' \in [Ends -> [asked : Nat, told : Nat]]
      <4>1. closes[e].asked + 1 \in Nat /\ closes[e] \in [asked : Nat, told : Nat]
        BY <1>1
      <4>2. [closes[e] EXCEPT !.asked = @ + 1] \in [asked : Nat, told : Nat]
        BY <4>1
      <4>3. closes' = [closes EXCEPT ![e] = [closes[e] EXCEPT !.asked = @ + 1]]
        BY <2>1
      <4> QED BY <1>1, <4>2, <4>3
    <3> QED
      BY <1>0, <1>1, <2>5, <3>1, <3>2, <3>3, <3>4 DEF ChanTypes, Expectations
  <2>7. last_signal_id'["outgoing"] # 0
    BY <1>1, <1>2, <2>1, <2>2, OutIn
  <2>8. \A x \in Ends : None(wire'[x], "CONN_REQ")
    BY <1>1, <1>3, <2>4, <2>5, WithinBehind, WithinNone
  <2>9. NotBegun' /\ Requested'
    BY <2>7, <2>8, StartOver
  <2>10. ASSUME NEW x \in Ends PROVE Direction(x)'
    <3>1. Direction(x)
      BY DEF ChanInv
    <3>2. /\ Within(wire'[p], wire[p], "CONFIG_REQ")
          /\ Within(wire'[p], wire[p], "CONFIG_RSP")
          /\ Within(wire'[e], wire[e], "CONFIG_REQ")
          /\ Within(wire'[e], wire[e], "CONFIG_RSP")
      BY <1>1, <2>4, <2>5, WithinSame, WithinBehind
    <3>3. \/ state'[x] = state[x] /\ expected'[x] = expected[x]
          \/ state'[x] \in Closing
      BY <1>1, <2>1, ClosingStates DEF Expect
    <3>4. Closing \cap (Waiting \cup Settled) = {}
      BY DEF Waiting, Settled, Closing
    <3>5. Aside(x)
      BY <1>0, <1>1, <3>2, <3>3, <3>4 DEF Aside
    <3> QED BY <3>1, <3>5, AsideKeeps
  <2> QED BY <2>6, <2>9, <2>10 DEF ChanInv
<1>5. CASE state[e] = "CLOSED"
  <2>1. /\ closes' = [closes EXCEPT ![e] = [asked |-> closes[e].asked + 1,
                                            told |-> closes[e].told + 1]]
        /\ UNCHANGED <<state, expected, last_signal_id, wire>>
    BY <1>5 DEF Disconnect, Connected, ConfigStates
  <2>2. closes' \in [Ends -> [asked : Nat, told : Nat]]
    <3>1. closes[e].asked + 1 \in Nat /\ closes[e].told + 1 \in Nat
      BY <1>1
    <3> QED BY <1>1, <2>1, <3>1
  <2>3. ChanTypes'
    BY <1>0, <1>1, <2>1, <2>2 DEF ChanTypes
  <2>4. NotBegun' /\ Requested'
    BY <1>2, <1>3, <2>1, StartOver
  <2>5. ASSUME NEW x \in Ends PROVE Direction(x)'
    <3>1. Direction(x)
      BY DEF ChanInv
    <3>2. /\ Within(wire'[p], wire[p], "CONFIG_REQ")
          /\ Within(wire'[p], wire[p], "CONFIG_RSP")
          /\ Within(wire'[e], wire[e], "CONFIG_REQ")
          /\ Within(wire'[e], wire[e], "CONFIG_RSP")
      BY <1>1, <2>1, WithinSame
    <3>3. Aside(x)
      BY <1>0, <1>1, <2>1, <3>2 DEF Aside
    <3> QED BY <3>1, <3>3, AsideKeeps
  <2> QED BY <2>3, <2>4, <2>5 DEF ChanInv
<1> QED
  BY <1>2, <1>4, <1>5

LEMMA ReleaseInv ==
  ASSUME ChanInv, NEW e \in Ends, Release(e)
  PROVE  ChanInv'
<1> DEFINE p == Peer(e)
<1>1. /\ state[e] = "CLOSED" /\ closes[e].told > 0
      /\ state' = [state EXCEPT ![e] = "NONE"]
      /\ UNCHANGED <<expected, last_signal_id, configure_req, configure_resp,
                     mtu, remote_mtu, wire, link, closes, configs>>
  BY DEF Release, Goto
<1>2. /\ ChanTypes /\ p \in Ends /\ p # e /\ Peer(p) = e
      /\ \A x \in Ends : x = e \/ x = p
      /\ state \in [Ends -> States]
      /\ wire[e] \in Seq(Signals) /\ wire[p] \in Seq(Signals)
  BY Peers DEF ChanInv, ChanTypes
<1>3. last_signal_id["outgoing"] # 0 /\ state[e] \in Connected \cup {"CLOSED"}
  BY <1>1, Begun
<1>4. \A x \in Ends : None(wire[x], "CONN_REQ")
  BY <1>3, RequestSeen
<1>5. NotBegun' /\ Requested'
  BY <1>1, <1>3, <1>4, StartOver
<1>6. ChanTypes'
  <2>1. state' \in [Ends -> States]
    BY <1>1, <1>2, ClosingStates
  <2> QED BY <1>1, <1>2, <2>1 DEF ChanTypes
<1>7. ASSUME NEW x \in Ends PROVE Direction(x)'
  <2>1. Direction(x)
    BY DEF ChanInv
  <2>2. /\ Within(wire'[p], wire[p], "CONFIG_REQ")
        /\ Within(wire'[p], wire[p], "CONFIG_RSP")
        /\ Within(wire'[e], wire[e], "CONFIG_REQ")
        /\ Within(wire'[e], wire[e], "CONFIG_RSP")
    BY <1>1, <1>2, WithinSame
  <2>3. state'[x] = state[x] \/ state'[x] \in Closing
    BY <1>1, <1>2, ClosingStates
  <2>4. Closing \cap (Waiting \cup Settled) = {}
    BY DEF Waiting, Settled, Closing
  <2>5. Aside(x)
    BY <1>1, <1>2, <2>2, <2>3, <2>4 DEF Aside
  <2> QED BY <2>1, <2>5, AsideKeeps
<1> QED
  BY <1>5, <1>6, <1>7 DEF ChanInv

LEMMA LinkDownInv ==
  ASSUME ChanInv, NEW e \in Ends, LinkDown(e)
  PROVE  ChanInv'
<1> DEFINE p == Peer(e)
<1>1. /\ link' = link \ {e} /\ wire' = [wire EXCEPT ![p] = << >>]
      /\ state' = [state EXCEPT ![e] = IF state[e] = "WAIT_CONNECT_RSP"
                                       THEN "NONE" ELSE state[e]]
      /\ UNCHANGED <<expected, last_signal_id, configure_req, configure_resp,
                     mtu, remote_mtu, closes, configs>>
  BY DEF LinkDown, Goto
<1>2. /\ ChanTypes /\ p \in Ends /\ p # e /\ Peer(p) = e
      /\ \A x \in Ends : x = e \/ x = p
      /\ state \in [Ends -> States] /\ wire \in [Ends -> Seq(Signals)]
      /\ wire[e] \in Seq(Signals) /\ wire[p] \in Seq(Signals)
  BY Peers DEF ChanInv, ChanTypes
<1>3. /\ wire'[p] = << >> /\ wire'[e] = wire[e]
      /\ wire' \in [Ends -> Seq(Signals)]
      /\ \/ state'[e] = state[e]
         \/ state'[e] = "NONE" /\ state[e] = "WAIT_CONNECT_RSP"
      /\ state'[p] = state[p] /\ state' \in [Ends -> States]
  <2>1. << >> \in Seq(Signals)
    OBVIOUS
  <2>2. wire' \in [Ends -> Seq(Signals)] /\ wire'[p] = << >> /\ wire'[e] = wire[e]
    BY <1>1, <1>2, <2>1
  <2>3. "NONE" \in States
    BY ClosingStates
  <2>4. /\ \/ state'[e] = state[e]
           \/ state'[e] = "NONE" /\ state[e] = "WAIT_CONNECT_RSP"
        /\ state'[p] = state[p]
    BY <1>1, <1>2
  <2>5. (IF state[e] = "WAIT_CONNECT_RSP" THEN "NONE" ELSE state[e]) \in States
    BY <1>2, <2>3
  <2>6. state' \in [Ends -> States]
    BY <1>1, <1>2, <2>5
  <2> QED BY <2>2, <2>4, <2>6
<1>4. ChanTypes'
  BY <1>1, <1>2, <1>3 DEF ChanTypes
<1>5. NotBegun'
  <2> SUFFICES ASSUME last_signal_id["outgoing"] = 0
               PROVE  /\ state'["outgoing"] = "CLOSED"
                      /\ state'["incoming"] = "NONE"
                      /\ \A x \in Ends : wire'[x] = << >> /\ Untouched(x)
    BY <1>1 DEF NotBegun, Untouched
  <2>1. /\ state["outgoing"] = "CLOSED" /\ state["incoming"] = "NONE"
        /\ \A x \in Ends : wire[x] = << >> /\ Untouched(x)
    BY DEF ChanInv, NotBegun
  <2>2. state'["outgoing"] = "CLOSED" /\ state'["incoming"] = "NONE"
    BY <1>1, <1>2, <2>1, OutIn
  <2> QED BY <1>2, <1>3, <2>1, <2>2
<1>6. Requested'
  <2> SUFFICES ASSUME NEW x \in Ends, NEW i \in 1 .. Len(wire'[x]),
                      wire'[x][i].code = "CONN_REQ"
               PROVE  /\ x = "outgoing" /\ Len(wire'[x]) = 1
                      /\ wire'["incoming"] = << >>
                      /\ state'["incoming"] = "NONE" /\ Untouched("incoming")'
                      /\ state'[x] \in {"WAIT_CONNECT_RSP", "NONE"}
    BY DEF Requested
  <2>1. x = e /\ wire'[x] = wire[x]
    BY <1>2, <1>3
  <2>2. /\ x = "outgoing" /\ Len(wire[x]) = 1 /\ wire["incoming"] = << >>
        /\ state["incoming"] = "NONE" /\ Untouched("incoming")
        /\ state[x] \in {"WAIT_CONNECT_RSP", "NONE"}
    BY <2>1 DEF ChanInv, Requested
  <2>3. p = "incoming"
    BY <2>1, <2>2, OutIn
  <2>4. Untouched("incoming")'
    BY <1>1, <2>2 DEF Untouched
  <2> QED BY <1>3, <2>1, <2>2, <2>3, <2>4
<1>7. ASSUME NEW x \in Ends PROVE Direction(x)'
  <2>1. Direction(x)
    BY DEF ChanInv
  <2>2. /\ Within(wire'[p], wire[p], "CONFIG_REQ")
        /\ Within(wire'[p], wire[p], "CONFIG_RSP")
        /\ Within(wire'[e], wire[e], "CONFIG_REQ")
        /\ Within(wire'[e], wire[e], "CONFIG_RSP")
    BY <1>2, <1>3, WithinSame, WithinEmpty
  <2>3. state'[x] = state[x] \/ state'[x] \in Closing
    BY <1>2, <1>3, ClosingStates
  <2>4. Closing \cap (Waiting \cup Settled) = {}
    BY DEF Waiting, Settled, Closing
  <2>5. Aside(x)
    BY <1>1, <1>2, <2>2, <2>3, <2>4 DEF Aside
  <2> QED BY <2>1, <2>5, AsideKeeps
<1> QED
  BY <1>4, <1>5, <1>6, <1>7 DEF ChanInv

-----------------------------------------------------------------------------
(* Configuration requests.                                                 *)

LEMMA Prefix ==
  ASSUME NEW S, NEW w \in Seq(S), NEW n \in 1 .. Len(w)
  PROVE  /\ SubSeq(w, 1, n) \in Seq(S) /\ Len(SubSeq(w, 1, n)) = n
         /\ \A i \in 1 .. n : SubSeq(w, 1, n)[i] = w[i]
  OBVIOUS

LEMMA Singles ==
  /\ \A x \in Signals : /\ <<x>> \in Seq(Signals) /\ Len(<<x>>) = 1
                        /\ <<x>>[1] = x
  /\ \A x, y \in Signals :
       /\ <<x, y>> \in Seq(Signals) /\ Len(<<x, y>>) = 2
       /\ <<x, y>>[1] = x /\ <<x, y>>[2] = y
  OBVIOUS

LEMMA LastOf ==
  ASSUME NEW S, NEW w \in Seq(S), Len(w) \in {1, 2}
  PROVE  w[Len(w)] \in S
<1>1. Len(w) \in 1 .. Len(w)
  OBVIOUS
<1> QED BY <1>1

(* The signals of a request: the last of them, when all were sent, is the  *)
(* only one that does not go on.                                           *)
RequestOK(s, size, queued) ==
  /\ s \in Seq(Signals) /\ Len(s) \in {1, 2}
  /\ \A i \in 1 .. Len(s) : s[i].code = "CONFIG_REQ"
  /\ s[Len(s)].id \in Nat \ {0}
  /\ queued = 0 \/ Len(s) = 2 =>
       /\ ~s[Len(s)].cont
       /\ Len(s) = 2 => s[1].cont /\ s[1].id # s[2].id
  /\ queued = 0 => Len(s) = size
LEMMA RequestFacts ==
  ASSUME NEW id \in Nat, NEW size \in {1, 2}, NEW m \in Options,
         NEW queued \in 0 .. 2, queued <= size
  PROVE  RequestOK(RequestSignals(id, size, m, queued), size, queued)
<1> DEFINE a == Signal("CONFIG_REQ", NextId(id), FALSE, m, "none")
           b == Signal("CONFIG_REQ", NextId(id), TRUE, m, "none")
           c == Signal("CONFIG_REQ", NextId(NextId(id)), FALSE, NoMtu, "none")
<1>1. /\ NextId(id) \in Nat \ {0} /\ NextId(NextId(id)) \in Nat \ {0}
      /\ NextId(NextId(id)) # NextId(id)
  BY NextIds
<1>2. /\ a \in Signals /\ b \in Signals /\ c \in Signals
      /\ a.code = "CONFIG_REQ" /\ b.code = "CONFIG_REQ" /\ c.code = "CONFIG_REQ"
      /\ a.id = NextId(id) /\ b.id = NextId(id) /\ c.id = NextId(NextId(id))
      /\ ~a.cont /\ b.cont /\ ~c.cont
  BY <1>1 DEF Signal, Signals, Codes, Options, Results
<1>0. PICK s : s = RequestSignals(id, size, m, queued)
  OBVIOUS
<1>3. PICK all \in Seq(Signals) :
        /\ \/ size = 1 /\ Len(all) = 1 /\ all[1] = a
           \/ size = 2 /\ Len(all) = 2 /\ all[1] = b /\ all[2] = c
        /\ s = IF queued = 0 THEN all ELSE SubSeq(all, 1, queued)
  <2>1. CASE size = 1
    <3>1. <<a>> \in Seq(Signals) /\ Len(<<a>>) = 1 /\ <<a>>[1] = a
      BY <1>2, Singles
    <3>2. s = IF queued = 0 THEN <<a>> ELSE SubSeq(<<a>>, 1, queued)
      BY <1>0, <2>1 DEF RequestSignals
    <3> HIDE DEF a
    <3> QED BY <2>1, <3>1, <3>2
  <2>2. CASE size = 2
    <3>1. /\ <<b, c>> \in Seq(Signals) /\ Len(<<b, c>>) = 2
          /\ <<b, c>>[1] = b /\ <<b, c>>[2] = c
      BY <1>2, Singles
    <3>2. s = IF queued = 0 THEN <<b, c>> ELSE SubSeq(<<b, c>>, 1, queued)
      BY <1>0, <2>2 DEF RequestSignals
    <3> HIDE DEF b, c
    <3> QED BY <2>2, <3>1, <3>2
  <2> QED BY <2>1, <2>2
<1> HIDE DEF a, b, c
<1>4. /\ s \in Seq(Signals) /\ Len(s) = IF queued = 0 THEN size ELSE queued
      /\ \A i \in 1 .. Len(s) : s[i] = all[i]
  <2>1. CASE queued = 0
    BY <1>3, <2>1
  <2>2. CASE queued # 0
    <3>1. queued \in 1 .. Len(all)
      BY <1>3, <2>2
    <3> QED BY <1>3, <2>2, <3>1, Prefix
  <2> QED BY <2>1, <2>2
<1>5. ASSUME Len(s) = 1 PROVE RequestOK(s, size, queued)
  <2>0. 1 \in 1 .. Len(s)
    BY <1>5
  <2>1. s[1] = all[1] /\ (queued = 0 => size = 1)
    <3>1. s[1] = all[1]
      BY <1>4, <2>0
    <3>2. queued = 0 => size = 1
      BY <1>4, <1>5
    <3> QED BY <3>1, <3>2
  <2>2. all[1] \in {a, b} /\ (queued = 0 => all[1] = a)
    BY <1>3, <2>1
  <2> QED BY <1>1, <1>2, <1>4, <1>5, <2>1, <2>2 DEF RequestOK
<1>6. ASSUME Len(s) = 2 PROVE RequestOK(s, size, queued)
  <2>1. s[1] = all[1] /\ s[2] = all[2] /\ size = 2
    BY <1>4, <1>6
  <2>2. all[1] = b /\ all[2] = c
    BY <1>3, <2>1
  <2> QED BY <1>1, <1>2, <1>4, <1>6, <2>1, <2>2 DEF RequestOK
<1>7. Len(s) \in {1, 2}
  BY <1>4
<1> QED
  BY <1>0, <1>5, <1>6, <1>7

(* What is expected for them.                                              *)
ExpectOK(x, exp, s, queued) ==
  /\ x \in Expectations
  /\ queued = 0 \/ Len(s) = 2 =>
       /\ x.code = "CONFIG_RSP" /\ x.id = s[Len(s)].id
       /\ x.count > 0 /\ x.count <= exp.count + Len(s)
       /\ queued = 0 => x.count = exp.count + Len(s)
  /\ queued # 0 /\ Len(s) = 1 => x = exp
LEMMA ExpectFacts ==
  ASSUME NEW exp \in Expectations, NEW s \in Seq(Signals), Len(s) \in {1, 2},
         NEW queued \in 0 .. 2
  PROVE  ExpectOK(ExpectConfig(exp, s, queued), exp, s, queued)
<1>0. PICK x : x = ExpectConfig(exp, s, queued)
  OBVIOUS
<1>1. s[Len(s)] \in Signals /\ s[Len(s)].id \in Nat
  <2>1. s[Len(s)] \in Signals
    BY LastOf
  <2> QED BY <2>1 DEF Signals
<1>2. "CONFIG_RSP" \in Codes /\ exp.count \in Nat
  BY DEF Codes, Expectations
<1> DEFINE counted == Len(s) - (IF queued = 0 THEN 0 ELSE 1)
<1>3. /\ counted \in {0, 1, 2} /\ counted <= Len(s)
      /\ counted = 0 <=> queued # 0 /\ Len(s) = 1
      /\ queued = 0 => counted = Len(s)
  <2>1. CASE Len(s) = 1
    BY <2>1
  <2>2. CASE Len(s) = 2
    BY <2>2
  <2> QED BY <2>1, <2>2
<1>4. x = IF counted = 0 THEN exp
          ELSE [code |-> "CONFIG_RSP", id |-> s[Len(s)].id,
                count |-> exp.count + counted]
  BY <1>0 DEF ExpectConfig
<1> HIDE DEF counted
<1>5. ASSUME counted = 0 PROVE ExpectOK(x, exp, s, queued)
  BY <1>3, <1>4, <1>5 DEF ExpectOK
<1>6. ASSUME counted # 0 PROVE ExpectOK(x, exp, s, queued)
  <2>1. /\ x.code = "CONFIG_RSP" /\ x.id = s[Len(s)].id
        /\ x.count = exp.count + counted
    BY <1>4, <1>6
  <2>2. x \in Expectations
    BY <1>1, <1>2, <1>3, <1>4, <1>6 DEF Expectations
  <2>3. x.count > 0 /\ x.count <= exp.count + Len(s)
    BY <1>2, <1>3, <1>6, <2>1
  <2> QED BY <1>3, <1>6, <2>1, <2>2, <2>3 DEF ExpectOK
<1> QED BY <1>0, <1>5, <1>6

(* A request that is sent when nothing else is under way.                  *)
LEMMA NewRequest ==
  ASSUME ChanTypes, NEW e \in Ends, NEW s \in Seq(Signals), Len(s) \in {1, 2},
         None(wire[e], "CONFIG_REQ"), Behind(wire'[e], wire[e], s),
         ~s[Len(s)].cont, Len(s) = 2 => s[1].cont /\ s[1].id # s[2].id,
         Len(s) = 1 \/ expected'[e].id = s[Len(s)].id,
         configure_req'[Peer(e)].kind = "rest"
           /\ configure_req'[Peer(e)].res = "ok"
         => configure_resp'[e] = remote_mtu'[Peer(e)]
  PROVE  LastRequest(e)'
<1>1. wire[e] \in Seq(Signals)
  BY DEF ChanTypes
<1>2. CASE wire'[e] = wire[e]
  BY <1>2 DEF LastRequest, None
<1>3. CASE wire'[e] = wire[e] \o s
  <2>1. ASSUME NEW i \in 1 .. Len(wire'[e]), wire'[e][i].code = "CONFIG_REQ"
        PROVE  \E k \in 1 .. Len(s) : i = Len(wire[e]) + k /\ wire'[e][i] = s[k]
    BY <1>1, <1>3, <2>1, Joining DEF None
  <2> SUFFICES ASSUME NEW i \in 1 .. Len(wire'[e]),
                      wire'[e][i].code = "CONFIG_REQ",
                      wire'[e][i].id = expected'[e].id
               PROVE  /\ ~wire'[e][i].cont
                      /\ \A j \in 1 .. Len(wire'[e]) :
                           wire'[e][j].code = "CONFIG_REQ" =>
                             j <= i /\ (j < i => wire'[e][j].cont)
    BY DEF LastRequest
  <2>2. PICK k \in 1 .. Len(s) : i = Len(wire[e]) + k /\ wire'[e][i] = s[k]
    BY <2>1
  <2>3. k = Len(s)
    BY <2>2
  <2>4. ASSUME NEW j \in 1 .. Len(wire'[e]), wire'[e][j].code = "CONFIG_REQ"
        PROVE  j <= i /\ (j < i => wire'[e][j].cont)
    <3>1. PICK l \in 1 .. Len(s) : j = Len(wire[e]) + l /\ wire'[e][j] = s[l]
      BY <2>1, <2>4
    <3>2. l <= k /\ (l < k => l = 1 /\ Len(s) = 2)
      BY <2>3
    <3>3. Len(wire[e]) \in Nat
      BY <1>1
    <3> QED BY <2>2, <3>1, <3>2, <3>3
  <2> QED BY <2>2, <2>3, <2>4
<1> QED BY <1>2, <1>3 DEF Behind

LEMMA CountedRequest ==
  ASSUME NEW c \in Counts, NEW size, NEW queued
  PROVE  LET d == CountRequest(c, size, queued)
         IN /\ d \in Counts /\ d.made # 0
            /\ d.first = c.first + IF size = 2 /\ queued # 1 THEN 1 ELSE 0
<1>1. PICK n \in Nat : n = c.made + 1
  BY DEF Counts
<1>2. PICK f \in Nat : f = c.first + IF size = 2 /\ queued # 1 THEN 1 ELSE 0
  BY DEF Counts
<1>3. CountRequest(c, size, queued) = [made |-> n, first |-> f]
  BY <1>1, <1>2 DEF CountRequest
<1>4. n # 0
  BY <1>1 DEF Counts
<1> QED BY <1>2, <1>3, <1>4 DEF Counts

LEMMA ConfigureInv ==
  ASSUME ChanInv, NEW e \in Ends, NEW size \in RequestSizes,
         NEW m \in Mtus \cup {NoMtu}, NEW queued \in 0 .. 2,
         Configure(e, size, m, queued)
  PROVE  ChanInv'
<1> DEFINE p == Peer(e)
           s == RequestSignals(last_signal_id[e], size, m, queued)
<1>1. /\ state[e] \in {"WAIT_CONFIG", "WAIT_SEND_CONFIG", "OPEN"}
      /\ expected[e].count = 0 /\ queued <= size
      /\ configs' = [configs EXCEPT ![e] = CountRequest(@, size, queued)]
      /\ last_signal_id' = [last_signal_id EXCEPT ![e] = s[Len(s)].id]
      /\ expected' = [expected EXCEPT ![e] = ExpectConfig(expected[e], s, queued)]
      /\ Send(e, s) /\ state' = [state EXCEPT ![e] = RequestSent(state[e])]
      /\ UNCHANGED <<configure_req, configure_resp, mtu, remote_mtu, link,
                     closes>>
  BY DEF Configure, MayConfigure, Goto
<1>2. /\ ChanTypes /\ p \in Ends /\ p # e /\ Peer(p) = e
      /\ \A x \in Ends : x = e \/ x = p
      /\ state \in [Ends -> States] /\ expected \in [Ends -> Expectations]
      /\ last_signal_id \in [Ends -> Nat] /\ configs \in [Ends -> Counts]
      /\ wire[e] \in Seq(Signals) /\ wire[p] \in Seq(Signals)
  BY Peers DEF ChanInv, ChanTypes, Expectations
<1>3. /\ s \in Seq(Signals) /\ Len(s) \in {1, 2}
      /\ \A i \in 1 .. Len(s) : s[i].code = "CONFIG_REQ"
      /\ s[Len(s)].id \in Nat \ {0}
      /\ queued = 0 \/ Len(s) = 2 =>
              /\ ~s[Len(s)].cont
              /\ Len(s) = 2 => s[1].cont /\ s[1].id # s[2].id
  <2>1. size \in {1, 2} /\ m \in Options /\ last_signal_id[e] \in Nat
    BY <1>2, L2capSizeAssumption DEF Options
  <2>2. RequestOK(s, size, queued)
    BY <1>1, <2>1, RequestFacts
  <2> HIDE DEF s
  <2> QED BY <2>2 DEF RequestOK
<1> HIDE DEF s
<1>4. /\ wire' \in [Ends -> Seq(Signals)] /\ wire'[p] = wire[p]
      /\ Behind(wire'[e], wire[e], s)
  BY <1>1, <1>2, <1>3, SendEffect
<1>5. /\ None(s, "CONN_REQ") /\ None(s, "CONFIG_RSP")
  BY <1>3 DEF None
<1>6. /\ expected'[e] \in Expectations /\ expected'[p] = expected[p]
      /\ expected' \in [Ends -> Expectations]
      /\ expected'[e].count > 0 =>
           /\ queued = 0 \/ Len(s) = 2
           /\ expected'[e].id = s[Len(s)].id
  <2>1. /\ ExpectConfig(expected[e], s, queued) \in Expectations
        /\ queued = 0 \/ Len(s) = 2 =>
             ExpectConfig(expected[e], s, queued).id = s[Len(s)].id
        /\ queued # 0 /\ Len(s) = 1 =>
             ExpectConfig(expected[e], s, queued) = expected[e]
    <3>1. ExpectOK(ExpectConfig(expected[e], s, queued), expected[e], s, queued)
      BY <1>2, <1>3, ExpectFacts
    <3> QED BY <3>1 DEF ExpectOK
  <2>2. /\ expected'[e] = ExpectConfig(expected[e], s, queued)
        /\ expected'[p] = expected[p] /\ expected' \in [Ends -> Expectations]
    BY <1>1, <1>2, <2>1
  <2>3. queued # 0 /\ Len(s) = 1 => ~(expected'[e].count > 0)
    BY <1>1, <2>1, <2>2
  <2> QED BY <1>3, <2>1, <2>2, <2>3
<1>7. /\ state'[e] \in Waiting /\ state'[p] = state[p]
      /\ state' \in [Ends -> States]
  <2>1. RequestSent(state[e]) \in Waiting
    BY <1>1 DEF RequestSent, Waiting
  <2>2. Waiting \subseteq States
    BY DEF Waiting, States, Connected, ConfigStates
  <2> QED BY <1>1, <1>2, <2>1, <2>2
<1>8. /\ configs' \in [Ends -> Counts] /\ configs'[e].made # 0
      /\ configs'[p] = configs[p] /\ last_signal_id' \in [Ends -> Nat]
  <2>1. PICK c \in Counts : c = configs[e]
    BY <1>2
  <2>2. CountRequest(c, size, queued) \in Counts
        /\ CountRequest(c, size, queued).made # 0
    BY CountedRequest
  <2> QED BY <1>1, <1>2, <1>3, <2>1, <2>2
<1>9. ChanTypes'
  BY <1>1, <1>2, <1>4, <1>6, <1>7, <1>8 DEF ChanTypes, Expectations
<1>10. NotBegun' /\ Requested'
  <2>1. state[e] \in Connected
    BY <1>1 DEF Connected, ConfigStates
  <2>2. last_signal_id["outgoing"] # 0 /\ \A x \in Ends : None(wire[x], "CONN_REQ")
    BY <2>1, Begun, RequestSeen
  <2>3. last_signal_id'["outgoing"] # 0
    BY <1>1, <1>2, <1>3, <2>2, OutIn
  <2>4. \A x \in Ends : None(wire'[x], "CONN_REQ")
    BY <1>2, <1>3, <1>4, <1>5, <2>2, WithinBehind, WithinNone
  <2> QED BY <2>3, <2>4, StartOver
<1>11. Direction(p)'
  <2>1. Direction(p)
    BY <1>2 DEF ChanInv
  <2>2. /\ Within(wire'[p], wire[p], "CONFIG_REQ")
        /\ Within(wire'[e], wire[e], "CONFIG_RSP")
    BY <1>2, <1>3, <1>4, <1>5, WithinSame, WithinBehind
  <2>3. Aside(p)
    BY <1>1, <1>2, <1>6, <1>7, <1>8, <2>2 DEF Aside
  <2> QED BY <1>2, <2>1, <2>3, AsideKeeps
<1>12. Direction(e)'
  <2>1. Quiet(e)
    <3>1. state[e] \notin Waiting \cup Closing
      BY <1>1 DEF Waiting, Closing
    <3> QED BY <3>1 DEF ChanInv, Direction, Asks
  <2>2. Asks(e)'
    BY <1>7, <1>8 DEF Asks
  <2>3. Agreed(e)'
    BY <1>7 DEF Agreed, Waiting, Settled
  <2>4. ASSUME expected'[e].count > 0 PROVE LastRequest(e)' /\ LastResponse(e)'
    <3>1. LastRequest(e)'
      <4>1. configure_req'[p].kind # "rest"
        BY <1>1, <2>1 DEF Quiet
      <4>2. None(wire[e], "CONFIG_REQ")
        BY <2>1 DEF Quiet
      <4> QED BY <1>2, <1>3, <1>4, <1>6, <2>4, <4>1, <4>2, NewRequest
    <3>2. LastResponse(e)'
      BY <1>4, <2>1 DEF LastResponse, Quiet, None
    <3> QED BY <3>1, <3>2
  <2> QED BY <2>2, <2>3, <2>4 DEF Direction, Pipeline
<1> QED
  BY <1>2, <1>9, <1>10, <1>11, <1>12 DEF ChanInv

-----------------------------------------------------------------------------
(* Configuration requests that arrive.                                     *)
LEMMA MtuFacts ==
  ASSUME NEW a \in Options, NEW b \in Options
  PROVE  /\ Merge(a, b) \in Options /\ OrDefault(a) \in Mtus
         /\ b \in Mtus => Merge(a, b) = b
         /\ a \in Mtus => Merge(a, b) \in Mtus /\ OrDefault(a) = a
         /\ NoMtu \notin Mtus /\ "none" \notin Mtus
         /\ NoMtu # MinMtu /\ "none" # MinMtu /\ NoMtu # "none"
  BY MtuAssumption DEF Merge, OrDefault, Options, NoMtu, MinMtu

(* What answering a request may do to the state of e.                      *)
Answering(s, t) ==
  \/ t = s
  \/ s = "WAIT_CONFIG" /\ t = "WAIT_SEND_CONFIG"
  \/ s = "WAIT_CONFIG_REQ_RSP" /\ t = "WAIT_CONFIG_RSP"
  \/ s = "WAIT_CONFIG_REQ" /\ t = "OPEN"
LEMMA FinishedEffect ==
  ASSUME state \in [Ends -> States], NEW e \in Ends, NEW res, Finished(e, res)
  PROVE  /\ state' \in [Ends -> States] /\ Answering(state[e], state'[e])
         /\ state'[Peer(e)] = state[Peer(e)]
         /\ res = "ok" /\ state[e] \in Configurable =>
              state'[e] \in {"WAIT_SEND_CONFIG", "WAIT_CONFIG_RSP", "OPEN"}
<1> DEFINE t == IF res = "ok" THEN ResponseSent(state[e]) ELSE state[e]
<1>1. state' = [state EXCEPT ![e] = t] /\ state[e] \in States
  BY DEF Finished, Goto
<1>2. Answering(state[e], t) /\ t \in States
  BY <1>1 DEF Answering, ResponseSent, States, Connected, ConfigStates
<1>3. res = "ok" /\ state[e] \in Configurable =>
        t \in {"WAIT_SEND_CONFIG", "WAIT_CONFIG_RSP", "OPEN"}
  BY DEF ResponseSent, Configurable
<1> HIDE DEF t
<1> QED BY <1>1, <1>2, <1>3, Peers

LEMMA AnsweringAside ==
  ASSUME NEW s, NEW t, Answering(s, t)
  PROVE  /\ t \in Waiting <=> s \in Waiting
         /\ t \in Settled => s \in Settled
         /\ t \in Waiting \cup Closing <=> s \in Waiting \cup Closing
  BY DEF Answering, Waiting, Settled, Closing

LEMMA RespondedInv ==
  ASSUME ChanInv, NEW e \in Ends, wire[Peer(e)] # << >>,
         NEW m, m = Head(wire[Peer(e)]), m.code = "CONFIG_REQ",
         NEW r \in Signals, r.code = "CONFIG_RSP", r.id = m.id,
         Answer(e, <<r>>),
         UNCHANGED <<expected, last_signal_id, configure_resp, mtu, link,
                     closes, configs>>,
         state' \in [Ends -> States], Answering(state[e], state'[e]),
         state'[Peer(e)] = state[Peer(e)],
         ChanTypes => /\ configure_req' \in
                           [Ends -> [kind : {"none", "partial", "rest"},
                                     mtu : Options, res : Results]]
                      /\ remote_mtu' \in [Ends -> Mtus \cup {MinMtu}],
         configure_req'[Peer(e)] = configure_req[Peer(e)],
         remote_mtu'[Peer(e)] = remote_mtu[Peer(e)],
         configure_req'[e].kind = "rest" => ~m.cont,
         ~m.cont /\ ~r.cont => configure_req'[e].kind = "none",
         ~m.cont /\ ~r.cont /\ r.res = "ok" =>
           \/ r.mtu \in Mtus /\ remote_mtu'[e] = r.mtu
           \/ /\ r.mtu = NoMtu /\ remote_mtu'[e] = remote_mtu[e]
              /\ configure_req[e].kind = "rest" /\ configure_req[e].res = "ok",
         ~m.cont /\ r.cont /\ configure_req'[e].kind = "rest"
             /\ configure_req'[e].res = "ok" =>
           r.mtu \in Mtus /\ remote_mtu'[e] = r.mtu
  PROVE  ChanInv'
<1> DEFINE p == Peer(e)
<1>1. /\ ChanTypes /\ p \in Ends /\ p # e /\ Peer(p) = e
      /\ \A x \in Ends : x = e \/ x = p
      /\ wire[e] \in Seq(Signals) /\ wire[p] \in Seq(Signals)
  BY Peers DEF ChanInv, ChanTypes
<1>2. m \in Signals /\ m = wire[p][1] /\ 1 \in 1 .. Len(wire[p])
  BY Handing
<1>3. /\ <<r>> \in Seq(Signals) /\ None(<<r>>, "CONN_REQ")
      /\ None(<<r>>, "CONFIG_REQ")
  BY NoneShort
<1>4. /\ wire' \in [Ends -> Seq(Signals)]
      /\ wire'[p] = Tail(wire[p]) /\ Behind(wire'[e], wire[e], <<r>>)
      /\ last_signal_id["outgoing"] # 0
      /\ \A x \in Ends : None(wire'[x], "CONN_REQ")
  BY <1>3, Received
<1>5. NotBegun' /\ Requested'
  BY <1>4, StartOver
<1>6. ChanTypes'
  BY <1>1, <1>4 DEF ChanTypes
<1>7. Direction(e)'
  <2>1. Direction(e)
    BY DEF ChanInv
  <2>2. /\ Within(wire'[e], wire[e], "CONFIG_REQ")
        /\ Within(wire'[p], wire[p], "CONFIG_RSP")
    BY <1>1, <1>3, <1>4, WithinTail, WithinBehind
  <2>3. Aside(e)
    BY <2>2, AnsweringAside DEF Aside
  <2> QED BY <2>1, <2>3, AsideKeeps
<1>8. Direction(p)'
  <2>1. Direction(p)
    BY <1>1 DEF ChanInv
  <2>2. ~Quiet(p)
    BY <1>2 DEF Quiet, None
  <2>3. configs[p].made # 0 /\ state[p] \in Waiting \cup Closing
    BY <2>1, <2>2 DEF Direction, Asks
  <2>4. Asks(p)' /\ Agreed(p)'
    <3>1. state[p] \notin Settled
      BY <2>3 DEF Waiting, Closing, Settled
    <3> QED BY <2>3, <3>1 DEF Asks, Agreed
  <2>5. ASSUME state[p] \in Waiting, expected[p].count > 0
        PROVE  LastRequest(p)' /\ LastResponse(p)'
    <3> DEFINE x == expected[p].id
    <3>1. LastRequest(p) /\ LastResponse(p)
      BY <2>1, <2>5 DEF Direction, Pipeline
    <3>2. \A i \in 1 .. Len(wire'[p]) :
            i + 1 \in 1 .. Len(wire[p]) /\ wire'[p][i] = wire[p][i + 1]
      BY <1>1, <1>4, Consuming
    <3>3. LastRequest(p)'
      <4> SUFFICES ASSUME NEW i \in 1 .. Len(wire'[p]),
                          wire'[p][i].code = "CONFIG_REQ",
                          wire'[p][i].id = x
                   PROVE  /\ ~wire'[p][i].cont
                          /\ \A j \in 1 .. Len(wire'[p]) :
                               wire'[p][j].code = "CONFIG_REQ" =>
                                 j <= i /\ (j < i => wire'[p][j].cont)
                          /\ configure_req'[e].kind # "rest"
        BY <1>1 DEF LastRequest
      <4>1. /\ i + 1 \in 1 .. Len(wire[p]) /\ wire'[p][i] = wire[p][i + 1]
            /\ wire[p][i + 1].code = "CONFIG_REQ" /\ wire[p][i + 1].id = x
        BY <3>2
      <4>2. /\ ~wire[p][i + 1].cont
            /\ \A j \in 1 .. Len(wire[p]) : wire[p][j].code = "CONFIG_REQ" =>
                 j <= i + 1 /\ (j < i + 1 => wire[p][j].cont)
        BY <3>1, <4>1 DEF LastRequest
      <4>3. m.cont
        BY <1>2, <4>1, <4>2
      <4>4. ASSUME NEW j \in 1 .. Len(wire'[p]),
                   wire'[p][j].code = "CONFIG_REQ"
            PROVE  j <= i /\ (j < i => wire'[p][j].cont)
        <5>1. j + 1 \in 1 .. Len(wire[p]) /\ wire'[p][j] = wire[p][j + 1]
          BY <3>2
        <5>2. j + 1 <= i + 1 /\ (j + 1 < i + 1 => wire[p][j + 1].cont)
          BY <4>2, <4>4, <5>1
        <5> QED BY <5>1, <5>2
      <4> QED BY <4>1, <4>2, <4>3, <4>4
    <3>4. LastResponse(p)'
      <4> SUFFICES ASSUME NEW i \in 1 .. Len(wire'[e]),
                          wire'[e][i].code = "CONFIG_RSP",
                          wire'[e][i].id = x
                   PROVE  /\ None(wire'[p], "CONFIG_REQ")
                          /\ \A j \in 1 .. Len(wire'[e]) :
                               wire'[e][j].code = "CONFIG_RSP" => j <= i
                          /\ ~wire'[e][i].cont =>
                               /\ configure_req'[e].kind = "none"
                               /\ wire'[e][i].res = "ok" =>
                                    OrDefault(AllPartsMtu(p, wire'[e][i]))
                                      = remote_mtu'[e]
                          /\ wire'[e][i].cont /\ configure_req'[e].kind = "rest"
                               /\ configure_req'[e].res = "ok" =>
                               /\ wire'[e][i].mtu \in Mtus
                               /\ wire'[e][i].mtu = remote_mtu'[e]
        BY <1>1 DEF LastResponse, AllPartsMtu
      <4>1. \A j \in 1 .. Len(wire[e]) :
              wire[e][j].code = "CONFIG_RSP" => wire[e][j].id # x
        BY <1>1, <1>2, <3>1 DEF LastResponse, None
      <4>2. i = Len(wire'[e]) /\ wire'[e][i] = r
        <5>1. CASE wire'[e] = wire[e]
          BY <4>1, <5>1
        <5>2. CASE wire'[e] = wire[e] \o <<r>>
          <6>1. Len(<<r>>) = 1 /\ <<r>>[1] = r
            OBVIOUS
          <6>2. i \notin 1 .. Len(wire[e])
            BY <1>1, <1>3, <4>1, <5>2, Joining
          <6>3. PICK k \in 1 .. Len(<<r>>) : i = Len(wire[e]) + k
            BY <1>1, <1>3, <5>2, <6>2, Joining
          <6>4. k = 1
            BY <6>1
          <6>5. Len(wire'[e]) = Len(wire[e]) + 1 /\ wire'[e][Len(wire[e]) + k] = r
            BY <1>1, <1>3, <5>2, <6>1, <6>4, Joining
          <6> QED BY <6>3, <6>4, <6>5
        <5> QED BY <1>4, <5>1, <5>2 DEF Behind
      <4>3. /\ m.id = x /\ ~m.cont
            /\ \A j \in 1 .. Len(wire[p]) :
                 wire[p][j].code = "CONFIG_REQ" => j <= 1
            /\ configure_req[e].kind = "rest" /\ configure_req[e].res = "ok"
               => configure_resp[p] = remote_mtu[e]
        BY <1>1, <1>2, <3>1, <4>2 DEF LastRequest
      <4>4. None(wire'[p], "CONFIG_REQ")
        <5> SUFFICES ASSUME NEW j \in 1 .. Len(wire'[p]),
                            wire'[p][j].code = "CONFIG_REQ"
                     PROVE  FALSE
          BY DEF None
        <5>1. j + 1 \in 1 .. Len(wire[p]) /\ wire[p][j + 1].code = "CONFIG_REQ"
          BY <3>2
        <5> QED BY <4>3, <5>1
      <4>5. \A j \in 1 .. Len(wire'[e]) : j <= i
        BY <4>2
      <4>6. ASSUME ~r.cont, r.res = "ok"
            PROVE  OrDefault(AllPartsMtu(p, r)) = remote_mtu'[e]
        <5> DEFINE old == IF configure_resp[p] = "none" THEN NoMtu
                          ELSE configure_resp[p]
        <5>1. old \in Options /\ AllPartsMtu(p, r) = Merge(old, r.mtu)
          BY <1>1 DEF AllPartsMtu, ChanTypes, Options
        <5>2. CASE r.mtu \in Mtus /\ remote_mtu'[e] = r.mtu
          <6>1. r.mtu \in Options
            BY <5>2 DEF Options
          <6> HIDE DEF old
          <6> QED BY <5>1, <5>2, <6>1, MtuFacts
        <5>3. CASE /\ r.mtu = NoMtu /\ remote_mtu'[e] = remote_mtu[e]
                   /\ configure_req[e].kind = "rest"
                   /\ configure_req[e].res = "ok"
          <6>1. configure_resp[p] = remote_mtu[e]
            BY <4>3, <5>3
          <6>2. remote_mtu[e] \in Mtus \cup {MinMtu}
            BY <1>1 DEF ChanTypes
          <6>3. NoMtu \in Options
            BY DEF Options
          <6>4. NoMtu # remote_mtu[e] /\ "none" # remote_mtu[e]
            BY <6>2, <6>3, MtuFacts
          <6>5. old = remote_mtu[e]
            BY <6>1, <6>4
          <6> QED BY <5>1, <5>3, <6>4, <6>5 DEF Merge, OrDefault
        <5> QED BY <4>3, <4>6, <5>2, <5>3
      <4> QED BY <4>2, <4>3, <4>4, <4>5, <4>6
    <3> QED BY <3>3, <3>4
  <2> QED BY <2>4, <2>5 DEF Direction, Pipeline
<1> QED
  BY <1>1, <1>5, <1>6, <1>7, <1>8 DEF ChanInv

LEMMA HandleConfigureReqInv ==
  ASSUME ChanInv, NEW e \in Ends, wire[Peer(e)] # << >>,
         NEW m, m = Head(wire[Peer(e)]), NEW res \in {"ok", "rej"},
         NEW fix \in Options, NEW size \in {1, 2}, NEW queued \in BOOLEAN,
         HandleConfigureReq(e, m, res, fix, size, queued)
  PROVE  ChanInv'
<1> DEFINE p == Peer(e)
<1>1. /\ m.code = "CONFIG_REQ"
      /\ UNCHANGED <<expected, last_signal_id, configure_resp, mtu, link,
                     closes, configs>>
  BY DEF HandleConfigureReq
<1>2. /\ ChanTypes /\ p \in Ends /\ p # e /\ m \in Signals
      /\ state \in [Ends -> States] /\ expected \in [Ends -> Expectations]
      /\ closes \in [Ends -> [asked : Nat, told : Nat]]
  BY Handing
<1>3. /\ m.id \in Nat /\ m.cont \in BOOLEAN /\ m.mtu \in Options
      /\ configure_req[e].mtu \in Options /\ configure_req[e].res \in Results
      /\ configure_req \in [Ends -> [kind : {"none", "partial", "rest"},
                                     mtu : Options, res : Results]]
      /\ remote_mtu \in [Ends -> Mtus \cup {MinMtu}]
      /\ NoMtu \in Options /\ "ok" \in Results /\ res \in Results
  BY <1>2 DEF Signals, ChanTypes, Options, Results
<1>4. CASE /\ state[e] \notin Configurable
           /\ Answer(e, <<Plain("CMD_REJ", m.id)>>)
           /\ UNCHANGED <<state, configure_req, remote_mtu>>
  <2>1. "CMD_REJ" \in Codes
    BY DEF Codes
  <2>2. /\ Plain("CMD_REJ", m.id) \in Signals
        /\ Plain("CMD_REJ", m.id).code = "CMD_REJ"
    BY <1>3, <2>1, Plains
  <2>3. /\ <<Plain("CMD_REJ", m.id)>> \in Seq(Signals)
        /\ None(<<Plain("CMD_REJ", m.id)>>, "CONN_REQ")
        /\ None(<<Plain("CMD_REJ", m.id)>>, "CONFIG_REQ")
        /\ None(<<Plain("CMD_REJ", m.id)>>, "CONFIG_RSP")
    BY <2>2, NoneShort
  <2> QED BY <1>1, <1>2, <1>4, <2>3, ReceivedAside
<1>5. CASE SendRest(e, m)
  <2> DEFINE r == Signal("CONFIG_RSP", m.id, FALSE, NoMtu, configure_req[e].res)
  <2>1. /\ configure_req[e].kind = "rest" /\ Answer(e, <<r>>)
        /\ Finished(e, configure_req[e].res)
        /\ configure_req' = [configure_req EXCEPT ![e] = NoReq]
        /\ UNCHANGED remote_mtu
    BY <1>5 DEF SendRest
  <2>2. /\ r \in Signals /\ r.code = "CONFIG_RSP" /\ r.id = m.id /\ ~r.cont
        /\ r.mtu = NoMtu /\ r.res = configure_req[e].res
    BY <1>3 DEF Signal, Signals, Codes
  <2> HIDE DEF r
  <2>3. /\ NoReq.kind = "none"
        /\ NoReq \in [kind : {"none", "partial", "rest"}, mtu : Options,
                      res : Results]
    BY <1>3 DEF NoReq, Results
  <2>4. /\ configure_req' \in [Ends -> [kind : {"none", "partial", "rest"},
                                        mtu : Options, res : Results]]
        /\ configure_req'[e].kind = "none" /\ configure_req'[p] = configure_req[p]
    BY <1>2, <1>3, <2>1, <2>3
  <2>5. /\ state' \in [Ends -> States] /\ Answering(state[e], state'[e])
        /\ state'[p] = state[p]
    BY <1>2, <2>1, FinishedEffect
  <2>6. /\ remote_mtu' \in [Ends -> Mtus \cup {MinMtu}]
        /\ remote_mtu'[e] = remote_mtu[e] /\ remote_mtu'[p] = remote_mtu[p]
    BY <1>3, <2>1
  <2> QED
    BY <1>1, <2>1, <2>2, <2>4, <2>5, <2>6, RespondedInv
<1>6. CASE AckPart(e, m)
  <2> DEFINE r == Signal("CONFIG_RSP", m.id, TRUE, NoMtu, "ok")
             part == Partial(Merge(configure_req[e].mtu, m.mtu))
  <2>1. /\ m.cont /\ Answer(e, <<r>>)
        /\ configure_req' = [configure_req EXCEPT ![e] = part]
        /\ UNCHANGED <<state, remote_mtu>>
    BY <1>6 DEF AckPart
  <2>2. r \in Signals /\ r.code = "CONFIG_RSP" /\ r.id = m.id
    BY <1>3 DEF Signal, Signals, Codes
  <2> HIDE DEF r
  <2>3. /\ part.kind = "partial"
        /\ part \in [kind : {"none", "partial", "rest"}, mtu : Options,
                     res : Results]
    <3>1. Merge(configure_req[e].mtu, m.mtu) \in Options
      BY <1>3, MtuFacts
    <3> QED BY <3>1 DEF Partial, Results
  <2> HIDE DEF part
  <2>4. /\ configure_req' \in [Ends -> [kind : {"none", "partial", "rest"},
                                        mtu : Options, res : Results]]
        /\ configure_req'[e].kind = "partial"
        /\ configure_req'[p] = configure_req[p]
    BY <1>2, <1>3, <2>1, <2>3
  <2>5. /\ state' \in [Ends -> States] /\ Answering(state[e], state'[e])
        /\ state'[p] = state[p]
    BY <1>2, <2>1 DEF Answering
  <2>6. /\ remote_mtu' \in [Ends -> Mtus \cup {MinMtu}]
        /\ remote_mtu'[p] = remote_mtu[p]
    BY <1>3, <2>1
  <2>7. configure_req'[e].kind # "rest"
    BY <2>4
  <2> QED
    BY <1>1, <2>1, <2>2, <2>4, <2>5, <2>6, <2>7, RespondedInv
<1>7. CASE Respond(e, m, res, fix, size, queued)
  <2> DEFINE all == Merge(ApplyAll(configure_req[e].mtu, m), fix)
             r == Signal("CONFIG_RSP", m.id, size > 1,
                         IF res = "ok" THEN all ELSE NoMtu, res)
             goes_on == size > 1 /\ ~queued
             rest == IF goes_on THEN Rest(res) ELSE NoReq
  <2>1. /\ ~m.cont /\ Answer(e, <<r>>)
        /\ remote_mtu' = IF res = "ok" THEN [remote_mtu EXCEPT ![e] = all]
                         ELSE remote_mtu
        /\ configure_req' = [configure_req EXCEPT ![e] = rest]
        /\ IF goes_on THEN UNCHANGED state ELSE Finished(e, res)
    BY <1>7 DEF Respond
  <2>2. all \in Mtus
    <3>1. Merge(configure_req[e].mtu, m.mtu) \in Options
      BY <1>3, MtuFacts
    <3>2. ApplyAll(configure_req[e].mtu, m) \in Mtus
      BY <3>1, MtuFacts DEF ApplyAll
    <3>3. ApplyAll(configure_req[e].mtu, m) \in Options
      BY <3>2 DEF Options
    <3> QED BY <3>2, <3>3, MtuFacts
  <2> HIDE DEF all
  <2>3. /\ r \in Signals /\ r.code = "CONFIG_RSP" /\ r.id = m.id
        /\ r.cont <=> size > 1
        /\ r.res = res /\ (res = "ok" => r.mtu = all)
    <3>1. (IF res = "ok" THEN all ELSE NoMtu) \in Options
      BY <2>2 DEF Options
    <3>2. (size > 1) \in BOOLEAN
      OBVIOUS
    <3> QED BY <1>3, <3>1, <3>2 DEF Signal, Signals, Codes
  <2> HIDE DEF r
  <2>4. /\ rest \in [kind : {"none", "partial", "rest"}, mtu : Options,
                     res : Results]
        /\ ~(size > 1) => rest.kind = "none"
        /\ rest.kind = "rest" => rest.res = res
    <3>1. /\ Rest(res) \in [kind : {"none", "partial", "rest"}, mtu : Options,
                            res : Results]
          /\ Rest(res).res = res
      BY <1>3 DEF Rest
    <3>2. /\ NoReq \in [kind : {"none", "partial", "rest"}, mtu : Options,
                        res : Results]
          /\ NoReq.kind = "none"
      BY <1>3 DEF NoReq, Results
    <3> QED BY <3>1, <3>2
  <2> HIDE DEF rest
  <2>5. /\ configure_req' \in [Ends -> [kind : {"none", "partial", "rest"},
                                        mtu : Options, res : Results]]
        /\ configure_req'[e] = rest /\ configure_req'[p] = configure_req[p]
    BY <1>2, <1>3, <2>1, <2>4
  <2>6. /\ state' \in [Ends -> States] /\ Answering(state[e], state'[e])
        /\ state'[p] = state[p]
    <3>1. CASE goes_on
      BY <1>2, <2>1, <3>1 DEF Answering
    <3>2. CASE ~goes_on
      BY <1>2, <2>1, <3>2, FinishedEffect
    <3> QED BY <3>1, <3>2
  <2>7. /\ remote_mtu' \in [Ends -> Mtus \cup {MinMtu}]
        /\ remote_mtu'[p] = remote_mtu[p]
        /\ res = "ok" => remote_mtu'[e] = all
    BY <1>2, <1>3, <2>1, <2>2
  <2> QED
    BY <1>1, <2>1, <2>2, <2>3, <2>4, <2>5, <2>6, <2>7, RespondedInv
<1> QED
  BY <1>4, <1>5, <1>6, <1>7 DEF HandleConfigureReq

-----------------------------------------------------------------------------
(* Configuration responses.                                                *)
LEMMA ResponseGoesOnInv ==
  ASSUME ChanInv, NEW e \in Ends, wire[Peer(e)] # << >>,
         NEW m, m = Head(wire[Peer(e)]), NEW queued \in {0, 1},
         HandleConfigResp(e, m, queued), ResponseGoesOn(e, m, queued)
  PROVE  ChanInv'
<1> DEFINE p == Peer(e)
           ask == expected[e].count - 1 = 1
           null == RequestSignals(last_signal_id[e], 1, NoMtu, queued)
           less == [expected[e] EXCEPT !.count = @ - 1]
           s == IF ask THEN null ELSE << >>
<1>1. /\ m.code = "CONFIG_RSP" /\ Handled(e, m) /\ m.cont
      /\ configure_resp' = [configure_resp EXCEPT ![e] = AllPartsMtu(e, m)]
      /\ expected' = [expected EXCEPT ![e] =
                        IF ask THEN ExpectConfig(less, null, queued) ELSE less]
      /\ last_signal_id' = [last_signal_id EXCEPT ![e] =
                              IF ask THEN null[1].id ELSE last_signal_id[e]]
      /\ Answer(e, s)
      /\ UNCHANGED <<state, mtu, configure_req, remote_mtu, link, closes,
                     configs>>
  BY DEF HandleConfigResp, ResponseGoesOn
<1>2. /\ ChanTypes /\ p \in Ends /\ p # e /\ Peer(p) = e
      /\ \A x \in Ends : x = e \/ x = p
      /\ wire[e] \in Seq(Signals) /\ wire[p] \in Seq(Signals)
      /\ expected \in [Ends -> Expectations] /\ expected[e] \in Expectations
      /\ last_signal_id \in [Ends -> Nat]
  BY Peers DEF ChanInv, ChanTypes, Expectations
<1>3. m \in Signals /\ m = wire[p][1] /\ 1 \in 1 .. Len(wire[p])
  BY Handing
<1>4. /\ state[e] \in Waiting /\ expected[e].count > 0
      /\ m.id = expected[e].id
  BY <1>1 DEF Handled, Matches, Waiting
<1>5. less \in Expectations /\ less.id = expected[e].id
  <2>1. PICK x \in Expectations : x = expected[e]
    BY <1>2
  <2>2. x.count - 1 \in Nat
    BY <1>4, <2>1 DEF Expectations
  <2>3. /\ [x EXCEPT !.count = x.count - 1] \in Expectations
        /\ [x EXCEPT !.count = x.count - 1].id = x.id
    BY <2>1, <2>2 DEF Expectations
  <2> QED BY <2>1, <2>3
<1>6. /\ null \in Seq(Signals) /\ Len(null) = 1
      /\ null[1].code = "CONFIG_REQ" /\ null[1].id \in Nat \ {0}
      /\ queued = 0 => ~null[1].cont
      /\ ~null[1].cont
  <2>1. NoMtu \in Options /\ last_signal_id[e] \in Nat /\ 1 \in {1, 2}
        /\ queued \in 0 .. 2 /\ queued <= 1
    BY <1>2 DEF Options
  <2>3. null \in Seq(Signals) /\ Len(null) = 1 /\ null[1] = Signal("CONFIG_REQ",
          NextId(last_signal_id[e]), FALSE, NoMtu, "none")
    <3> DEFINE a == Signal("CONFIG_REQ", NextId(last_signal_id[e]), FALSE, NoMtu,
                           "none")
    <3>1. a \in Signals
      BY <2>1, NextIds DEF Signal, Signals, Codes, Results
    <3>2. null = IF queued = 0 THEN <<a>> ELSE SubSeq(<<a>>, 1, queued)
      BY DEF RequestSignals
    <3> HIDE DEF a, null
    <3>3. <<a>> \in Seq(Signals) /\ Len(<<a>>) = 1 /\ <<a>>[1] = a
      BY <3>1, Singles
    <3>4. PICK w \in Seq(Signals) : w = <<a>>
      BY <3>3
    <3>5. 1 \in 1 .. Len(w)
      BY <3>3, <3>4
    <3>6. /\ SubSeq(w, 1, 1) \in Seq(Signals) /\ Len(SubSeq(w, 1, 1)) = 1
          /\ SubSeq(w, 1, 1)[1] = w[1]
      BY <3>5, Prefix
    <3> QED BY <3>2, <3>3, <3>4, <3>6 DEF a
  <2>4. /\ ~null[1].cont /\ null[1].code = "CONFIG_REQ"
        /\ null[1].id = NextId(last_signal_id[e])
    BY <2>3 DEF Signal
  <2> HIDE DEF null
  <2> QED BY <2>1, <2>3, <2>4, NextIds
<1> HIDE DEF null, less
<1>7. s \in Seq(Signals) /\ None(s, "CONN_REQ") /\ None(s, "CONFIG_RSP")
  <2>1. << >> \in Seq(Signals) /\ None(<< >>, "CONN_REQ")
        /\ None(<< >>, "CONFIG_RSP")
    BY <1>3, NoneShort
  <2>2. None(null, "CONN_REQ") /\ None(null, "CONFIG_RSP")
    BY <1>6 DEF None
  <2> QED BY <1>6, <2>1, <2>2
<1> HIDE DEF s
<1>8. /\ wire' \in [Ends -> Seq(Signals)]
      /\ wire'[p] = Tail(wire[p]) /\ Behind(wire'[e], wire[e], s)
      /\ last_signal_id["outgoing"] # 0
      /\ \A x \in Ends : None(wire'[x], "CONN_REQ")
  BY <1>1, <1>7, Received
<1>9. /\ expected' \in [Ends -> Expectations] /\ expected'[p] = expected[p]
      /\ ask => ExpectOK(expected'[e], less, null, queued)
      /\ ~ask => expected'[e] = less
  <2>1. ExpectOK(ExpectConfig(less, null, queued), less, null, queued)
    BY <1>5, <1>6, ExpectFacts
  <2>2. ExpectConfig(less, null, queued) \in Expectations
    BY <2>1 DEF ExpectOK
  <2> QED BY <1>1, <1>2, <1>5, <2>1, <2>2
<1>10. last_signal_id' \in [Ends -> Nat] /\ last_signal_id'["outgoing"] # 0
  <2> DEFINE v == IF ask THEN null[1].id ELSE last_signal_id[e]
  <2>1. v \in Nat /\ (v # 0 \/ v = last_signal_id[e])
    BY <1>2, <1>6
  <2>9. last_signal_id' = [last_signal_id EXCEPT ![e] = v]
    BY <1>1
  <2> HIDE DEF v
  <2>2. last_signal_id' \in [Ends -> Nat]
    BY <2>9, <1>2, <2>1
  <2>3. CASE e = "outgoing"
    BY <2>9, <1>2, <1>8, <2>1, <2>3
  <2>4. CASE e # "outgoing"
    BY <2>2, <2>9, <1>2, <1>8, <2>4, OutIn
  <2> QED BY <2>2, <2>3, <2>4
<1>11. NotBegun' /\ Requested'
  BY <1>8, <1>10, StartOver
<1>12. /\ configure_resp' \in [Ends -> Options \cup {"none"}]
       /\ configure_resp'[e] = AllPartsMtu(e, m)
       /\ m.mtu \in Mtus => AllPartsMtu(e, m) = m.mtu
  <2> DEFINE old == IF configure_resp[e] = "none" THEN NoMtu
                    ELSE configure_resp[e]
  <2>1. /\ old \in Options /\ m.mtu \in Options
        /\ configure_resp \in [Ends -> Options \cup {"none"}]
    BY <1>2, <1>3 DEF ChanTypes, Options, Signals
  <2>2. AllPartsMtu(e, m) = Merge(old, m.mtu)
    BY DEF AllPartsMtu
  <2> HIDE DEF old
  <2>3. AllPartsMtu(e, m) \in Options /\ (m.mtu \in Mtus => AllPartsMtu(e, m) = m.mtu)
    BY <2>1, <2>2, MtuFacts
  <2> QED BY <1>1, <2>1, <2>3
<1>13. ChanTypes'
  BY <1>1, <1>2, <1>8, <1>9, <1>10, <1>12 DEF ChanTypes, Expectations
<1>14. Direction(p)'
  <2>1. Direction(p)
    BY <1>2 DEF ChanInv
  <2>2. /\ Within(wire'[p], wire[p], "CONFIG_REQ")
        /\ Within(wire'[e], wire[e], "CONFIG_RSP")
    BY <1>2, <1>7, <1>8, WithinTail, WithinBehind
  <2>3. configure_resp'[p] = configure_resp[p]
    BY <1>1, <1>2
  <2>4. Aside(p)
    BY <1>1, <1>2, <1>9, <2>2, <2>3 DEF Aside
  <2> QED BY <1>2, <2>1, <2>4, AsideKeeps
<1>15. Direction(e)'
  <2>1. /\ configs[e].made # 0 /\ LastResponse(e)
    <3>1. ~Quiet(e)
      BY <1>1, <1>3 DEF Quiet, None
    <3> QED BY <1>4, <3>1 DEF ChanInv, Direction, Asks, Pipeline
  <2>2. /\ None(wire[e], "CONFIG_REQ")
        /\ \A j \in 1 .. Len(wire[p]) : wire[p][j].code = "CONFIG_RSP" => j <= 1
        /\ configure_req[p].kind = "rest" /\ configure_req[p].res = "ok" =>
             m.mtu \in Mtus /\ m.mtu = remote_mtu[p]
    BY <1>1, <1>3, <1>4, <2>1 DEF LastResponse
  <2>3. None(wire'[p], "CONFIG_RSP")
    <3> SUFFICES ASSUME NEW j \in 1 .. Len(wire'[p]),
                        wire'[p][j].code = "CONFIG_RSP"
                 PROVE  FALSE
      BY DEF None
    <3>1. j + 1 \in 1 .. Len(wire[p]) /\ wire[p][j + 1].code = "CONFIG_RSP"
      BY <1>2, <1>8, Consuming
    <3> QED BY <2>2, <3>1
  <2>4. Asks(e)' /\ Agreed(e)'
    BY <1>1, <1>4, <2>1 DEF Asks, Agreed, Waiting, Settled
  <2>5. LastResponse(e)'
    BY <2>3 DEF LastResponse, None
  <2>6. configure_req'[p].kind = "rest" /\ configure_req'[p].res = "ok" =>
          configure_resp'[e] = remote_mtu'[p]
    BY <1>1, <1>12, <2>2
  <2>7. LastRequest(e)'
    <3>1. CASE ask
      <4>1. s = null
        BY <3>1 DEF s
      <4>2. s \in Seq(Signals) /\ Len(s) = 1 /\ ~s[Len(s)].cont
        BY <1>6, <4>1
      <4>3. Len(s) \in {1, 2} /\ Len(s) # 2
        BY <4>2
      <4> QED BY <1>2, <1>8, <2>2, <2>6, <4>2, <4>3, NewRequest
    <3>2. CASE ~ask
      <4>1. None(s, "CONFIG_REQ")
        BY <3>2 DEF s, None
      <4>2. None(wire'[e], "CONFIG_REQ")
        BY <1>2, <1>7, <1>8, <2>2, <4>1, WithinBehind, WithinNone
      <4> QED BY <4>2 DEF LastRequest, None
    <3> QED BY <3>1, <3>2
  <2> QED BY <2>4, <2>5, <2>7 DEF Direction, Pipeline
<1> QED
  BY <1>2, <1>11, <1>13, <1>14, <1>15 DEF ChanInv

LEMMA ResponseEndsInv ==
  ASSUME ChanInv, NEW e \in Ends, wire[Peer(e)] # << >>,
         NEW m, m = Head(wire[Peer(e)]), NEW queued,
         HandleConfigResp(e, m, queued), ResponseEnds(e, m)
  PROVE  ChanInv'
<1> DEFINE p == Peer(e)
           t == IF m.res = "ok" THEN ResponseReceived(state[e])
                ELSE ResponseRejected(state[e])
           n == OrDefault(AllPartsMtu(e, m))
<1>1. /\ m.code = "CONFIG_RSP" /\ Handled(e, m) /\ ~m.cont /\ OneLess(e)
      /\ mtu' = IF m.res = "ok" THEN [mtu EXCEPT ![e] = n] ELSE mtu
      /\ state' = [state EXCEPT ![e] = t]
      /\ configure_resp' = [configure_resp EXCEPT ![e] = "none"]
      /\ Answer(e, << >>)
      /\ UNCHANGED <<last_signal_id, configure_req, remote_mtu, link, closes,
                     configs>>
  BY DEF HandleConfigResp, ResponseEnds, Goto
<1>2. /\ ChanTypes /\ p \in Ends /\ p # e /\ Peer(p) = e
      /\ \A x \in Ends : x = e \/ x = p
      /\ wire[e] \in Seq(Signals) /\ wire[p] \in Seq(Signals)
      /\ state \in [Ends -> States] /\ mtu \in [Ends -> Mtus]
      /\ configure_resp \in [Ends -> Options \cup {"none"}]
  BY Peers DEF ChanInv, ChanTypes
<1>3. m \in Signals /\ m = wire[p][1] /\ 1 \in 1 .. Len(wire[p])
  BY Handing
<1>4. /\ state[e] \in Waiting /\ expected[e].count > 0
      /\ m.id = expected[e].id
  BY <1>1 DEF Handled, Matches, Waiting
<1>5. /\ << >> \in Seq(Signals) /\ None(<< >>, "CONN_REQ")
      /\ None(<< >>, "CONFIG_REQ") /\ None(<< >>, "CONFIG_RSP")
  BY <1>3, NoneShort
<1>6. /\ wire' \in [Ends -> Seq(Signals)]
      /\ wire'[p] = Tail(wire[p]) /\ Behind(wire'[e], wire[e], << >>)
      /\ last_signal_id["outgoing"] # 0
      /\ \A x \in Ends : None(wire'[x], "CONN_REQ")
  BY <1>1, <1>5, Received
<1>7. NotBegun' /\ Requested'
  BY <1>1, <1>6, StartOver
<1>8. /\ expected' \in [Ends -> Expectations] /\ expected'[p] = expected[p]
  BY <1>1, <1>2, <1>4, OneLessEffect
<1>9. /\ state'[e] = t /\ state'[p] = state[p] /\ state' \in [Ends -> States]
      /\ t \notin Waiting \cup Closing /\ (t \in Settled => m.res = "ok")
  <2>1. /\ t \in States /\ t \notin Waiting \cup Closing
        /\ (t \in Settled => m.res = "ok")
    BY <1>4 DEF ResponseReceived, ResponseRejected, States, Connected,
                ConfigStates, Waiting, Closing, Settled
  <2> HIDE DEF t
  <2> QED BY <1>1, <1>2, <2>1
<1> HIDE DEF t
<1>10. /\ mtu' \in [Ends -> Mtus] /\ mtu'[p] = mtu[p]
       /\ m.res = "ok" => mtu'[e] = n
  <2> DEFINE old == IF configure_resp[e] = "none" THEN NoMtu
                    ELSE configure_resp[e]
  <2>1. old \in Options /\ m.mtu \in Options
    BY <1>2, <1>3 DEF Options, Signals
  <2>2. AllPartsMtu(e, m) = Merge(old, m.mtu)
    BY DEF AllPartsMtu
  <2> HIDE DEF old
  <2>3. AllPartsMtu(e, m) \in Options
    BY <2>1, <2>2, MtuFacts
  <2>4. n \in Mtus
    BY <2>3, MtuFacts
  <2> HIDE DEF n
  <2> QED BY <1>1, <1>2, <2>4
<1>11. /\ configure_resp' \in [Ends -> Options \cup {"none"}]
       /\ configure_resp'[p] = configure_resp[p]
  BY <1>1, <1>2
<1>12. ChanTypes'
  BY <1>1, <1>2, <1>6, <1>8, <1>9, <1>10, <1>11 DEF ChanTypes, Expectations
<1>13. Direction(p)'
  <2>1. Direction(p)
    BY <1>2 DEF ChanInv
  <2>2. /\ Within(wire'[p], wire[p], "CONFIG_REQ")
        /\ Within(wire'[e], wire[e], "CONFIG_RSP")
    BY <1>2, <1>5, <1>6, WithinTail, WithinBehind
  <2>3. Aside(p)
    BY <1>1, <1>2, <1>8, <1>9, <1>10, <1>11, <2>2 DEF Aside
  <2> QED BY <1>2, <2>1, <2>3, AsideKeeps
<1>14. Direction(e)'
  <2>1. LastResponse(e)
    BY <1>4 DEF ChanInv, Direction, Pipeline
  <2>2. /\ None(wire[e], "CONFIG_REQ")
        /\ \A j \in 1 .. Len(wire[p]) : wire[p][j].code = "CONFIG_RSP" => j <= 1
        /\ configure_req[p].kind = "none"
        /\ m.res = "ok" => n = remote_mtu[p]
    BY <1>1, <1>3, <1>4, <2>1 DEF LastResponse
  <2>3. None(wire'[p], "CONFIG_RSP")
    <3> SUFFICES ASSUME NEW j \in 1 .. Len(wire'[p]),
                        wire'[p][j].code = "CONFIG_RSP"
                 PROVE  FALSE
      BY DEF None
    <3>1. j + 1 \in 1 .. Len(wire[p]) /\ wire[p][j + 1].code = "CONFIG_RSP"
      BY <1>2, <1>6, Consuming
    <3> QED BY <2>2, <3>1
  <2>4. None(wire'[e], "CONFIG_REQ")
    BY <1>2, <1>5, <1>6, <2>2, WithinBehind, WithinNone
  <2>5. Quiet(e)'
    BY <1>1, <2>2, <2>3, <2>4 DEF Quiet
  <2>6. Agreed(e)'
    BY <1>1, <1>9, <1>10, <2>2 DEF Agreed
  <2>7. Pipeline(e)'
    BY <1>9 DEF Pipeline
  <2> QED BY <2>5, <2>6, <2>7 DEF Direction, Asks
<1> QED
  BY <1>2, <1>7, <1>12, <1>13, <1>14 DEF ChanInv

-----------------------------------------------------------------------------
(* The whole of the specification.                                         *)
LEMMA ChanInvInit ==
  ASSUME Init
  PROVE  ChanInv
<1>1. \A e \in Ends : /\ wire[e] = << >> /\ configure_req[e] = NoReq
                      /\ state[e] \in Closing
                      /\ expected[e].count = 0 /\ configs[e] = NoRequests
                      /\ closes[e] = [asked |-> 0, told |-> 0]
  BY DEF Init, NoResponse, Closing
<1>2. ChanTypes
  <2>1. NoReq \in [kind : {"none", "partial", "rest"}, mtu : Options,
                   res : Results]
    BY DEF NoReq, Options, Results
  <2>2. NoResponse \in [code : Codes \cup {"none"}, id : Nat, count : Nat]
    BY DEF NoResponse
  <2>3. DefaultMtu \in Mtus /\ << >> \in Seq(Signals)
    BY MtuAssumption
  <2>4. "CLOSED" \in States /\ "NONE" \in States
    BY DEF States
  <2>5. NoRequests \in Counts
    BY DEF NoRequests, Counts
  <2> QED
    BY <2>1, <2>2, <2>3, <2>4, <2>5 DEF Init, ChanTypes
<1>3. NotBegun
  BY <1>1, OutIn DEF Init, NotBegun, Untouched
<1>4. \A e \in Ends, c \in Codes : None(wire[e], c)
  <2>1. 1 .. Len(<< >>) = {}
    OBVIOUS
  <2> QED BY <1>1, <2>1 DEF None
<1>5. Requested
  BY <1>4 DEF Requested, None, Codes
<1>6. ASSUME NEW e \in Ends
      PROVE  Direction(e)
  <2>1. Quiet(e)
    BY <1>1, <1>4, Peers DEF Quiet, NoReq, Codes
  <2>2. state[e] \notin Waiting /\ state[e] \notin Settled
    BY <1>1 DEF Closing, Waiting, Settled
  <2> QED
    BY <2>1, <2>2 DEF Direction, Asks, Pipeline, Agreed
<1> QED
  BY <1>2, <1>3, <1>5, <1>6 DEF ChanInv

LEMMA Receptions ==
  ASSUME NEW e \in Ends, Receive(e), NEW m, m = Head(wire[Peer(e)])
  PROVE  /\ e \in link /\ wire[Peer(e)] # << >>
         /\ \/ \E served \in BOOLEAN : HandleConnectionReq(e, m, served)
            \/ \E res \in {"ok", "rej"}, fix \in Options, size \in ReplySizes,
                  queued \in {FALSE, MayQueue} :
                 HandleConfigureReq(e, m, res, fix, size, queued)
            \/ HandleDisconnectReq(e, m)
            \/ HandleConnectResp(e, m)
            \/ \E queued \in {0} \cup (IF MayQueue THEN {1} ELSE {}) :
                 HandleConfigResp(e, m, queued)
            \/ HandleDisconnectResp(e, m)
            \/ IgnoreResponse(e, m)
<1>1. /\ {"ok"} \cup (IF MayReject THEN {"rej"} ELSE {}) \subseteq {"ok", "rej"}
      /\ {NoMtu} \cup (IF MayReject THEN Mtus ELSE {}) \subseteq Options
  BY DEF Options
<1> QED
  BY <1>1 DEF Receive

LEMMA ReceiveInv ==
  ASSUME ChanInv, NEW e \in Ends, Receive(e)
  PROVE  ChanInv'
<1>1. PICK m : m = Head(wire[Peer(e)])
  OBVIOUS
<1>2. wire[Peer(e)] # << >>
  BY <1>1, Receptions
<1>3. ReplySizes \subseteq {1, 2} /\ {FALSE, MayQueue} \subseteq BOOLEAN
  BY L2capSizeAssumption, L2capEnvironmentAssumption
<1>4. CASE \E served \in BOOLEAN : HandleConnectionReq(e, m, served)
  BY <1>1, <1>2, <1>4, HandleConnectionReqInv
<1>5. CASE \E res \in {"ok", "rej"}, fix \in Options, size \in ReplySizes,
              queued \in {FALSE, MayQueue} :
             HandleConfigureReq(e, m, res, fix, size, queued)
  BY <1>1, <1>2, <1>3, <1>5, HandleConfigureReqInv
<1>6. CASE HandleDisconnectReq(e, m)
  BY <1>1, <1>2, <1>6, HandleDisconnectReqInv
<1>7. CASE HandleConnectResp(e, m)
  BY <1>1, <1>2, <1>7, HandleConnectRespInv
<1>8. CASE \E queued \in {0} \cup (IF MayQueue THEN {1} ELSE {}) :
             HandleConfigResp(e, m, queued)
  <2>1. PICK queued \in {0, 1} : HandleConfigResp(e, m, queued)
    BY <1>8
  <2>2. ResponseGoesOn(e, m, queued) \/ ResponseEnds(e, m)
    BY <2>1 DEF HandleConfigResp
  <2>3. CASE ResponseGoesOn(e, m, queued)
    BY <1>1, <1>2, <2>1, <2>3, ResponseGoesOnInv
  <2>4. CASE ResponseEnds(e, m)
    BY <1>1, <1>2, <2>1, <2>4, ResponseEndsInv
  <2> QED BY <2>2, <2>3, <2>4
<1>9. CASE HandleDisconnectResp(e, m)
  BY <1>1, <1>2, <1>9, HandleDisconnectRespInv
<1>10. CASE IgnoreResponse(e, m)
  BY <1>1, <1>2, <1>10, IgnoreResponseInv
<1> QED
  BY <1>1, <1>4, <1>5, <1>6, <1>7, <1>8, <1>9, <1>10, Receptions

LEMMA ChanInvNext ==
  ASSUME ChanInv, [Next]_vars
  PROVE  ChanInv'
<1>1. CASE ConnectionRequest
  BY <1>1, ConnectionRequestInv
<1>2. CASE \E e \in Ends, size \in RequestSizes, m \in Mtus \cup {NoMtu},
              q \in 0 .. 2 : Configure(e, size, m, q)
  BY <1>2, ConfigureInv
<1>3. CASE \E e \in Ends : Disconnect(e) \/ Release(e) \/ LinkDown(e)
  BY <1>3, DisconnectInv, ReleaseInv, LinkDownInv
<1>4. CASE \E e \in Ends : Receive(e)
  BY <1>4, ReceiveInv
<1>5. CASE UNCHANGED vars
  <2>1. UNCHANGED <<state, expected, last_signal_id, configure_req,
                    configure_resp, mtu, remote_mtu, wire, link, closes,
                    configs>>
    BY <1>5 DEF vars
  <2>2. ChanTypes' /\ NotBegun' /\ Requested'
    BY <2>1 DEF ChanInv, ChanTypes, NotBegun, Requested, Untouched
  <2>3. ASSUME NEW e \in Ends
        PROVE  Direction(e)'
    BY <2>1 DEF ChanInv, Direction, Asks, Pipeline, Agreed, Quiet, None,
                LastRequest, LastResponse, AllPartsMtu
  <2> QED BY <2>2, <2>3 DEF ChanInv
<1> QED
  BY <1>1, <1>2, <1>3, <1>4, <1>5 DEF Next

LEMMA ChanInvariance == Spec => []ChanInv
  BY ChanInvInit, ChanInvNext, PTL DEF Spec

(* Two ends that are both open agree on the MTU of each direction, for any *)
(* MTUs and any number of packets, rejections, corrections, requests that  *)
(* are repeated or queued, disconnections and losses of the link: what     *)
(* bte_l2cap_create_message lets one send, acl_incoming_data_check_cb of   *)
(* the other takes.                                                        *)
THEOREM MtusAgree == Spec => []MtuAgree
<1>1. ChanInv => MtuAgree
  BY DEF ChanInv, Direction, Agreed, Settled, MtuAgree
<1> QED
  BY <1>1, ChanInvariance, PTL
==============================================================================

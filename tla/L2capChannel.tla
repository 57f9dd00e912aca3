---------------------------- MODULE L2capChannel ----------------------------
(***************************************************************************)
(* One L2CAP channel of bt-embedded between two hosts that both run the    *)
(* library: connection, configuration in both directions, disconnection    *)
(* and the loss of the link (l2cap.c, l2cap_server.c).                     *)
(*                                                                         *)
(* The ACL link carries the signals of each side in order and without      *)
(* loss until it goes down.  An action is one call of a client or one      *)
(* signal that arrives; the callbacks that a handler makes come last in    *)
(* it, so what a client does in them is the next action.                   *)
(*                                                                         *)
(* Of the options of a configuration only the MTU is kept, and how many    *)
(* packets the options take.                                               *)
(***************************************************************************)
EXTENDS Integers, Sequences

CONSTANTS
  Mtus,         \* MTU values a client may ask for
  DefaultMtu,   \* L2CAP_MTU_DEFAULT, in force when the option is absent
  RequestSizes, \* packets that a configuration request may take
  ReplySizes,   \* packets that a configuration response may take
  MaxConfigs,   \* per end, bound on its client's configuration requests
  MaxCloses,    \* per end, bound on the calls of bte_l2cap_disconnect
  MayReject,    \* whether a client may reject or correct a configuration
  MayQueue,     \* whether bte_acl_send_message may have to queue
  MayLoseLink,  \* whether the link may go down
  Reconfigure   \* whether a client may configure an open channel

(* The end that connects and the end that a server accepts for it.         *)
Ends == {"outgoing", "incoming"}

NoMtu == "no mtu"        \* the option is absent
MinMtu == "minimum mtu"  \* L2CAP_MTU_MIN

ASSUME MtuAssumption == DefaultMtu \in Mtus /\ {NoMtu, "none"} \cap Mtus = {}
ASSUME L2capSizeAssumption ==
  /\ RequestSizes \subseteq {1, 2}
  /\ ReplySizes \subseteq {1, 2}
  /\ MaxConfigs \in [Ends -> Nat]
ASSUME L2capClosesAssumption == MaxCloses \in [Ends -> Nat]
ASSUME L2capEnvironmentAssumption ==
  {MayReject, MayQueue, MayLoseLink, Reconfigure} \subseteq BOOLEAN

Peer(e) == IF e = "outgoing" THEN "incoming" ELSE "outgoing"

ConfigStates == {"WAIT_CONFIG", "WAIT_SEND_CONFIG", "WAIT_CONFIG_REQ_RSP",
                 "WAIT_CONFIG_RSP", "WAIT_CONFIG_REQ"}
Connected == ConfigStates \cup {"OPEN", "WAIT_DISCONNECT"}
States == Connected \cup {"NONE", "CLOSED", "WAIT_CONNECT_RSP"}
Codes == {"CONN_REQ", "CONN_RSP", "CONFIG_REQ", "CONFIG_RSP", "DISCONN_REQ",
          "DISCONN_RSP", "CMD_REJ"}

(* Signals.  cont is the continuation flag, res the result.                *)
Signal(code, id, cont, mtu, res) ==
  [code |-> code, id |-> id, cont |-> cont, mtu |-> mtu, res |-> res]
Plain(code, id) == Signal(code, id, FALSE, NoMtu, "none")

(* configure_req: nothing, the options of a request that goes on, or the   *)
(* rest of a response that waits for the next request.                     *)
NoReq == [kind |-> "none", mtu |-> NoMtu, res |-> "none"]
Partial(mtu) == [kind |-> "partial", mtu |-> mtu, res |-> "none"]
Rest(res) == [kind |-> "rest", mtu |-> NoMtu, res |-> res]

VARIABLES
  state,          \* per end, the BteL2capState ("NONE": no object)
  expected,       \* per end, expected_response_code, _id and _count
  last_signal_id, \* per end, s_last_signal_id
  configure_req,  \* per end, the configuration received in parts
  configure_resp, \* per end, the MTU of a response received in parts
  mtu,            \* per end, what it accepts
  remote_mtu,     \* per end, what it believes the other accepts
  wire,           \* per end, the signals it sent that have not arrived
  link,           \* the ends whose ACL link is up
  conf,           \* per end, its client's configuration: see Asked
  closes,         \* per end, calls of disconnect and of disconnect_cb
  configs         \* per end, its configuration requests: see CountRequest
channel == <<state, expected, last_signal_id, configure_req, configure_resp,
             mtu, remote_mtu>>
vars == <<state, expected, last_signal_id, configure_req, configure_resp,
          mtu, remote_mtu, wire, link, conf, closes, configs>>

(* What the client knows of its last configuration: whether its callback   *)
(* is still to come, what the callback said, and what the peer had said.   *)
NoConf == [owed |-> FALSE, said |-> "nothing", was |-> "nothing"]
Asked == [owed |-> TRUE, said |-> "nothing", was |-> "nothing"]
Told(said, was) == [owed |-> FALSE, said |-> said, was |-> was]

(* History: the requests that a client made, and of their packets those    *)
(* that others follow.                                                     *)
NoRequests == [made |-> 0, first |-> 0]
CountRequest(c, size, queued) ==
  [made |-> c.made + 1,
   first |-> c.first + IF size = 2 /\ queued # 1 THEN 1 ELSE 0]

NoResponse == [code |-> "none", id |-> 0, count |-> 0]

Init ==
  /\ state = [e \in Ends |-> IF e = "outgoing" THEN "CLOSED" ELSE "NONE"]
  /\ expected = [e \in Ends |-> NoResponse]
  /\ last_signal_id = [e \in Ends |-> 0]
  /\ configure_req = [e \in Ends |-> NoReq]
  /\ configure_resp = [e \in Ends |-> "none"]
  /\ mtu = [e \in Ends |-> DefaultMtu]
  /\ remote_mtu = [e \in Ends |-> MinMtu]
  /\ wire = [e \in Ends |-> << >>]
  /\ link = Ends
  /\ conf = [e \in Ends |-> NoConf]
  /\ closes = [e \in Ends |-> [asked |-> 0, told |-> 0]]
  /\ configs = [e \in Ends |-> NoRequests]

-----------------------------------------------------------------------------
(* Sending.  What is sent after the other end lost the link goes nowhere.  *)
Reaching(e, signals) == IF Peer(e) \in link THEN signals ELSE << >>
Send(e, signals) == wire' = [wire EXCEPT ![e] = @ \o Reaching(e, signals)]
(* The signal that arrives at e is answered with signals.                  *)
Answer(e, signals) ==
  wire' = [wire EXCEPT ![Peer(e)] = Tail(@),
                       ![e] = @ \o Reaching(e, signals)]

(* next_signal_id                                                          *)
NextId(id) == IF id = 255 THEN 1 ELSE id + 1

ExpectEarlier(e, code, id) ==  \* mutant: the id is not stored
  expected' = [expected EXCEPT ![e] =
                 [code |-> code, id |-> @.id, count |-> @.count + 1]]
(* l2cap_signal: one more response is expected, the one to this signal.    *)
Expect(e, code, id) ==
  expected' = [expected EXCEPT ![e] =
                 [code |-> code, id |-> id, count |-> @.count + 1]]
Goto(e, s) == state' = [state EXCEPT ![e] = s]

-----------------------------------------------------------------------------
(* Connection.                                                             *)

(* l2cap_connection_request, for bte_l2cap_new_outgoing.                   *)
ConnectionRequest ==
  LET e == "outgoing"
      id == NextId(last_signal_id[e])
  IN /\ e \in link
     /\ state[e] = "CLOSED" /\ last_signal_id[e] = 0
     /\ last_signal_id' = [last_signal_id EXCEPT ![e] = id]
     /\ Expect(e, "CONN_RSP", id)
     /\ Send(e, <<Plain("CONN_REQ", id)>>)
     /\ Goto(e, "WAIT_CONNECT_RSP")
     /\ UNCHANGED <<configure_req, configure_resp, mtu, remote_mtu, link,
                    conf, closes, configs>>

(* acl_l2cap_handle_connection_req: a server for the PSM makes a channel,  *)
(* or there is none.                                                       *)
HandleConnectionReq(e, m, served) ==
  /\ m.code = "CONN_REQ"
  /\ IF served THEN Goto(e, "WAIT_CONFIG") ELSE UNCHANGED state
  /\ Answer(e, <<Signal("CONN_RSP", m.id, FALSE, NoMtu,
                        IF served THEN "ok" ELSE "refused")>>)
  /\ UNCHANGED <<expected, last_signal_id, configure_req, configure_resp, mtu,
                 remote_mtu, link, conf, closes, configs>>

-----------------------------------------------------------------------------
(* Configuration requests: l2cap_config_send without a message id.         *)

(* The state once the request has been sent.                               *)
RequestSentLate(s) ==  \* mutant: as if the peer's request were still to come
  IF s \in {"WAIT_CONFIG", "OPEN", "WAIT_SEND_CONFIG"}
  THEN "WAIT_CONFIG_REQ_RSP" ELSE s
RequestSent(s) ==
  CASE s \in {"WAIT_CONFIG", "OPEN"} -> "WAIT_CONFIG_REQ_RSP"
    [] s = "WAIT_SEND_CONFIG" -> "WAIT_CONFIG_RSP"
    [] OTHER -> s

(* The signals for a request of size packets of which the queued-th (0:    *)
(* none) was queued by bte_acl_send_message, which counts as a failure and *)
(* ends the loop.                                                          *)
RequestSignals(id, size, m, queued) ==
  LET all == IF size = 1
             THEN <<Signal("CONFIG_REQ", NextId(id), FALSE, m, "none")>>
             ELSE <<Signal("CONFIG_REQ", NextId(id), TRUE, m, "none"),
                    Signal("CONFIG_REQ", NextId(NextId(id)), FALSE, NoMtu,
                           "none")>>
  IN IF queued = 0 THEN all ELSE SubSeq(all, 1, queued)

ExpectUncounted(exp, signals, queued) ==  \* mutant: only the last id is noted
  [exp EXCEPT !.code = "CONFIG_RSP", !.id = signals[Len(signals)].id]
(* The responses expected after those signals, when exp was expected       *)
(* before: only for packets that were sent at once, with the last id.      *)
ExpectConfig(exp, signals, queued) ==
  LET counted == Len(signals) - (IF queued = 0 THEN 0 ELSE 1)
  IN IF counted = 0 THEN exp
     ELSE [code |-> "CONFIG_RSP", id |-> signals[Len(signals)].id,
           count |-> exp.count + counted]

(* bte_l2cap_configure, when it does not refuse.                           *)
MayConfigure(e) ==
  /\ state[e] \in {"WAIT_CONFIG", "WAIT_SEND_CONFIG"}
                    \cup (IF Reconfigure THEN {"OPEN"} ELSE {})
  /\ expected[e].count = 0
Configure(e, size, m, queued) ==
  LET signals == RequestSignals(last_signal_id[e], size, m, queued)
  IN /\ e \in link
     /\ MayConfigure(e)
     /\ configs[e].made < MaxConfigs[e]
     /\ queued <= size /\ (queued > 0 => MayQueue)
     /\ configs' = [configs EXCEPT ![e] = CountRequest(@, size, queued)]
     /\ last_signal_id' = [last_signal_id EXCEPT ![e] =
                             signals[Len(signals)].id]
     /\ expected' = [expected EXCEPT ![e] = ExpectConfig(@, signals, queued)]
     /\ Send(e, signals)
     /\ Goto(e, RequestSent(state[e]))
     /\ conf' = [conf EXCEPT ![e] = IF queued = 0 THEN Asked
                                    ELSE Told("rejected", "nothing")]
     /\ UNCHANGED <<configure_req, configure_resp, mtu, remote_mtu, link,
                    closes>>

-----------------------------------------------------------------------------
(* Configuration requests that arrive: acl_l2cap_handle_configure_req.     *)
Merge(old, new) == IF new = NoMtu THEN old ELSE new
OrDefault(m) == IF m = NoMtu THEN DefaultMtu ELSE m

ResponseSentNotOpen(s) ==  \* mutant: the last case is missing
  CASE s = "WAIT_CONFIG" -> "WAIT_SEND_CONFIG"
    [] s = "WAIT_CONFIG_REQ_RSP" -> "WAIT_CONFIG_RSP"
    [] OTHER -> s
(* l2cap_config_send with a message id: the state once the last packet of  *)
(* a positive response has been sent.                                      *)
ResponseSent(s) ==
  CASE s = "WAIT_CONFIG" -> "WAIT_SEND_CONFIG"
    [] s = "WAIT_CONFIG_REQ_RSP" -> "WAIT_CONFIG_RSP"
    [] s = "WAIT_CONFIG_REQ" -> "OPEN"
    [] OTHER -> s
Finished(e, res) ==
  Goto(e, IF res = "ok" THEN ResponseSent(state[e]) ELSE state[e])

(* The rest of a response goes out with the id of the next request.        *)
SendRest(e, m) ==
  /\ configure_req[e].kind = "rest"
  /\ Answer(e, <<Signal("CONFIG_RSP", m.id, FALSE, NoMtu,
                        configure_req[e].res)>>)
  /\ Finished(e, configure_req[e].res)
  /\ configure_req' = [configure_req EXCEPT ![e] = NoReq]
  /\ UNCHANGED remote_mtu

(* A request that goes on is only acknowledged.                            *)
AckPart(e, m) ==
  /\ configure_req[e].kind # "rest" /\ m.cont
  /\ Answer(e, <<Signal("CONFIG_RSP", m.id, TRUE, NoMtu, "ok")>>)
  /\ configure_req' = [configure_req EXCEPT ![e] =
                         Partial(Merge(@.mtu, m.mtu))]
  /\ UNCHANGED <<state, remote_mtu>>

ApplyAll(all, m) == OrDefault(Merge(all, m.mtu))
(* The request is complete: in its callback the client rejects it (res =   *)
(* "rej"), corrects the MTU to fix, or leaves it; the response takes size   *)
(* packets, of which the first may be queued.                              *)
Respond(e, m, res, fix, size, queued) ==
  LET all == Merge(ApplyAll(configure_req[e].mtu, m), fix)
      goes_on == size > 1 /\ ~queued
  IN /\ configure_req[e].kind # "rest" /\ ~m.cont
     /\ Answer(e, <<Signal("CONFIG_RSP", m.id, size > 1,
                           IF res = "ok" THEN all ELSE NoMtu, res)>>)
     /\ remote_mtu' = IF res = "ok" THEN [remote_mtu EXCEPT ![e] = all]
                      ELSE remote_mtu
     /\ configure_req' = [configure_req EXCEPT ![e] =
                            IF goes_on THEN Rest(res) ELSE NoReq]
     /\ IF goes_on THEN UNCHANGED state ELSE Finished(e, res)

Configurable == {"WAIT_CONFIG", "WAIT_CONFIG_REQ", "WAIT_CONFIG_REQ_RSP",
                 "OPEN"}
HandleConfigureReq(e, m, res, fix, size, queued) ==
  /\ m.code = "CONFIG_REQ"
  /\ \/ /\ state[e] \notin Configurable
        /\ Answer(e, <<Plain("CMD_REJ", m.id)>>)
        /\ UNCHANGED <<state, configure_req, remote_mtu>>
     \/ /\ state[e] \in Configurable
        /\ \/ SendRest(e, m)
           \/ AckPart(e, m)
           \/ Respond(e, m, res, fix, size, queued)
  /\ UNCHANGED <<expected, last_signal_id, configure_resp, mtu, link, conf,
                 closes, configs>>

-----------------------------------------------------------------------------
(* Responses: acl_l2cap_handle_response.                                   *)
Matches(e, m) ==
  /\ expected[e].count > 0
  /\ m.id = expected[e].id
  /\ m.code \in {expected[e].code, "CMD_REJ"}
HandledInAnyState(e, m) ==  \* mutant: a disconnection response in any state
  /\ Matches(e, m)
  /\ \/ m.code = "CONN_RSP" /\ state[e] = "WAIT_CONNECT_RSP"
     \/ /\ m.code = "CONFIG_RSP"
        /\ state[e] \in {"WAIT_CONFIG_RSP", "WAIT_CONFIG_REQ_RSP"}
     \/ m.code = "DISCONN_RSP" /\ state[e] # "NONE"
(* What the handlers take on: the others leave everything as it was.       *)
Handled(e, m) ==
  /\ Matches(e, m)
  /\ \/ m.code = "CONN_RSP" /\ state[e] = "WAIT_CONNECT_RSP"
     \/ /\ m.code = "CONFIG_RSP"
        /\ state[e] \in {"WAIT_CONFIG_RSP", "WAIT_CONFIG_REQ_RSP"}
     \/ m.code = "DISCONN_RSP" /\ state[e] = "WAIT_DISCONNECT"
NoneLess(e) == UNCHANGED expected  \* mutant: the response is not counted
OneLess(e) == expected' = [expected EXCEPT ![e].count = @ - 1]

(* l2cap_connect_cb: after an error the object is freed.                   *)
HandleConnectResp(e, m) ==
  /\ m.code = "CONN_RSP" /\ Handled(e, m)
  /\ OneLess(e)
  /\ Goto(e, IF m.res = "ok" THEN "WAIT_CONFIG" ELSE "NONE")
  /\ Answer(e, << >>)
  /\ UNCHANGED <<last_signal_id, configure_req, configure_resp, mtu,
                 remote_mtu, link, conf, closes, configs>>

LastPartMtu(e, m) == m.mtu  \* mutant: only the last packet's options count
(* The MTU of a response, all its packets so far and m taken together.     *)
AllPartsMtu(e, m) ==
  Merge(IF configure_resp[e] = "none" THEN NoMtu ELSE configure_resp[e], m.mtu)

(* l2cap_handle_config_resp.  A response that goes on is added up, and     *)
(* answered by an empty request when one more response is expected.        *)
ResponseGoesOn(e, m, queued) ==
  LET ask == expected[e].count - 1 = 1
      null == RequestSignals(last_signal_id[e], 1, NoMtu, queued)
      less == [expected[e] EXCEPT !.count = @ - 1]
  IN /\ m.cont
     /\ configure_resp' = [configure_resp EXCEPT ![e] = AllPartsMtu(e, m)]
     /\ expected' = [expected EXCEPT ![e] =
                       IF ask THEN ExpectConfig(less, null, queued) ELSE less]
     /\ last_signal_id' = [last_signal_id EXCEPT ![e] =
                             IF ask THEN null[1].id ELSE @]
     /\ Answer(e, IF ask THEN null ELSE << >>)
     /\ UNCHANGED <<state, mtu, conf>>

ResponseReceived(s) ==
  IF s = "WAIT_CONFIG_RSP" THEN "OPEN" ELSE "WAIT_CONFIG_REQ"
ResponseRejected(s) ==
  IF s = "WAIT_CONFIG_RSP" THEN "WAIT_SEND_CONFIG" ELSE "WAIT_CONFIG"
(* The last packet of the response.  The result that bt-embedded itself    *)
(* sends for a rejected request names no rejected option, and the client   *)
(* looks at those only: its callback says that all were accepted.          *)
ResponseEnds(e, m) ==
  /\ ~m.cont
  /\ OneLess(e)
  /\ mtu' = IF m.res = "ok"
            THEN [mtu EXCEPT ![e] = OrDefault(AllPartsMtu(e, m))] ELSE mtu
  /\ Goto(e, IF m.res = "ok" THEN ResponseReceived(state[e])
             ELSE ResponseRejected(state[e]))
  /\ conf' = [conf EXCEPT ![e] = Told("accepted", m.res)]
  /\ configure_resp' = [configure_resp EXCEPT ![e] = "none"]
  /\ Answer(e, << >>)
  /\ UNCHANGED last_signal_id

HandleConfigResp(e, m, queued) ==
  /\ m.code = "CONFIG_RSP" /\ Handled(e, m)
  /\ ResponseGoesOn(e, m, queued) \/ ResponseEnds(e, m)
  /\ UNCHANGED <<configure_req, remote_mtu, link, closes, configs>>

IgnoreResponse(e, m) ==
  /\ m.code \in {"CONN_RSP", "CONFIG_RSP", "DISCONN_RSP", "CMD_REJ"}
  /\ ~Handled(e, m)
  /\ Answer(e, << >>)
  /\ UNCHANGED <<channel, link, conf, closes, configs>>

-----------------------------------------------------------------------------
(* Disconnection.                                                          *)
HasTold(e) == closes' = [closes EXCEPT ![e].told = @ + 1]

(* bte_l2cap_disconnect: a client has a channel to disconnect once it is   *)
(* connected, and keeps it until it drops its reference.                   *)
Disconnect(e) ==
  LET id == NextId(last_signal_id[e])
  IN /\ e \in link
     /\ closes[e].asked < MaxCloses[e]
     /\ \/ /\ state[e] \in Connected
           /\ last_signal_id' = [last_signal_id EXCEPT ![e] = id]
           /\ Expect(e, "DISCONN_RSP", id)
           /\ Send(e, <<Plain("DISCONN_REQ", id)>>)
           /\ Goto(e, "WAIT_DISCONNECT")
           /\ closes' = [closes EXCEPT ![e].asked = @ + 1]
        \/ /\ state[e] = "CLOSED" /\ closes[e].told > 0
           /\ closes' = [closes EXCEPT ![e] = [asked |-> @.asked + 1,
                                               told |-> @.told + 1]]
           /\ UNCHANGED <<state, expected, last_signal_id, wire>>
     /\ UNCHANGED <<configure_req, configure_resp, mtu, remote_mtu, link, conf,
                    configs>>

(* acl_l2cap_handle_disconnect_req: whatever the state of the channel.     *)
HandleDisconnectReq(e, m) ==
  /\ m.code = "DISCONN_REQ"
  /\ \/ /\ state[e] = "NONE"
        /\ Answer(e, <<Plain("CMD_REJ", m.id)>>)
        /\ UNCHANGED <<state, closes>>
     \/ /\ state[e] # "NONE"
        /\ Answer(e, <<Plain("DISCONN_RSP", m.id)>>)
        /\ Goto(e, "CLOSED")
        /\ HasTold(e)
  /\ UNCHANGED <<expected, last_signal_id, configure_req, configure_resp, mtu,
                 remote_mtu, link, conf, configs>>

(* l2cap_handle_disconnect_resp                                            *)
HandleDisconnectResp(e, m) ==
  /\ m.code = "DISCONN_RSP" /\ Handled(e, m)
  /\ OneLess(e)
  /\ Goto(e, "CLOSED")
  /\ HasTold(e)
  /\ Answer(e, << >>)
  /\ UNCHANGED <<last_signal_id, configure_req, configure_resp, mtu,
                 remote_mtu, link, conf, configs>>

(* bte_l2cap_unref by the client of a channel that it knows to be closed.  *)
Release(e) ==
  /\ state[e] = "CLOSED" /\ closes[e].told > 0
  /\ Goto(e, "NONE")
  /\ UNCHANGED <<expected, last_signal_id, configure_req, configure_resp, mtu,
                 remote_mtu, wire, link, conf, closes, configs>>

(* l2cap_disconnect_cb, when the ACL link of e goes down: a connection that *)
(* was attempted fails and its object is freed; otherwise the state stays. *)
LinkDown(e) ==
  /\ MayLoseLink /\ e \in link
  /\ link' = link \ {e}
  /\ wire' = [wire EXCEPT ![Peer(e)] = << >>]
  /\ conf' = [conf EXCEPT ![e] =
                IF state[e] = "WAIT_CONFIG_REQ_RSP"
                THEN Told("rejected", "link lost") ELSE @]
  /\ Goto(e, IF state[e] = "WAIT_CONNECT_RSP" THEN "NONE" ELSE state[e])
  /\ UNCHANGED <<expected, last_signal_id, configure_req, configure_resp, mtu,
                 remote_mtu, closes, configs>>

-----------------------------------------------------------------------------
(* acl_data_received_cb                                                    *)
Receive(e) ==
  /\ e \in link /\ wire[Peer(e)] # << >>
  /\ LET m == Head(wire[Peer(e)])
     IN \/ \E served \in BOOLEAN : HandleConnectionReq(e, m, served)
        \/ \E res \in {"ok"} \cup (IF MayReject THEN {"rej"} ELSE {}),
              fix \in {NoMtu} \cup (IF MayReject THEN Mtus ELSE {}),
              size \in ReplySizes,
              queued \in {FALSE, MayQueue} :
             HandleConfigureReq(e, m, res, fix, size, queued)
        \/ HandleDisconnectReq(e, m)
        \/ HandleConnectResp(e, m)
        \/ \E queued \in {0} \cup (IF MayQueue THEN {1} ELSE {}) :
             HandleConfigResp(e, m, queued)
        \/ HandleDisconnectResp(e, m)
        \/ IgnoreResponse(e, m)

Next ==
  \/ ConnectionRequest
  \/ \E e \in Ends, size \in RequestSizes, m \in Mtus \cup {NoMtu}, q \in 0..2 :
       Configure(e, size, m, q)
  \/ \E e \in Ends : Disconnect(e) \/ Release(e) \/ LinkDown(e)
  \/ \E e \in Ends : Receive(e)

Spec == Init /\ [][Next]_vars
(* What the ACL link carries arrives, and a link that one end has lost the *)
(* other loses too.                                                        *)
FairSpec ==
  /\ Spec
  /\ \A e \in Ends : /\ WF_vars(Receive(e))
                     /\ WF_vars(Peer(e) \notin link /\ LinkDown(e))

-----------------------------------------------------------------------------
(* Properties.                                                             *)

(* When both ends are open they agree on the size of messages in each      *)
(* direction, whatever was split, rejected, corrected or asked again: what *)
(* one may send (bte_l2cap_create_message) the other takes                 *)
(* (acl_incoming_data_check_cb).                                           *)
MtuAgree ==
  (\A e \in Ends : state[e] = "OPEN") =>
    \A e \in Ends : mtu[e] = remote_mtu[Peer(e)]

InFlight(e, codes) == \E i \in 1..Len(wire[e]) : wire[e][i].code \in codes
Closing == {"WAIT_DISCONNECT", "CLOSED", "NONE"}

(* An end that is open and may send data has an open peer, or one that     *)
(* the response under way will open, or one that is closing the channel:   *)
(* the two state machines of l2cap_config_send and                         *)
(* l2cap_handle_config_resp cannot disagree for good.                      *)
OpenNotHalf ==
  \A e \in Ends :
    state[e] = "OPEN" /\ link = Ends =>
      \/ state[Peer(e)] \in Closing \cup {"OPEN"}
      \/ state[Peer(e)] = "WAIT_CONFIG_RSP" /\ InFlight(e, {"CONFIG_RSP"})

(* bte_l2cap_configure refuses a request while a response is expected.     *)
(* Apart from the responses to the first packets of long requests, of      *)
(* which none is ever taken for the one expected (l2cap.c:1262 compares    *)
(* with the id of the last packet only), a response is expected only while *)
(* the request or its response is under way, so the refusal ends.          *)
AwaitsOnlyOutstanding ==
  \A e \in Ends :
    /\ expected[e].count > configs[e].first
    /\ link = Ends
    /\ state[e] \notin Closing /\ state[Peer(e)] \notin Closing
    => \/ InFlight(e, {"CONN_REQ", "CONFIG_REQ"})
       \/ InFlight(Peer(e), {"CONN_RSP", "CONFIG_RSP"})

(* disconnect_cb is called once for a channel, also when both ends         *)
(* disconnect at the same time; only the client's own call on a channel    *)
(* that is closed calls it again.                                          *)
ToldOnce ==
  [][\A e \in Ends : closes'[e].told > closes[e].told =>
       closes[e].told = 0 \/ closes'[e].asked > closes[e].asked]_vars

(* The code does not ask for the rest of a long response to a request that *)
(* took one packet: it compares with one response that is still expected   *)
(* (l2cap.c:810), where none is after the last one.                        *)
CutShort(e) == configure_resp[e] # "none" /\ expected[e].count = 0
(* The loss of the link is told to a client that waits in one of the two   *)
(* states only (l2cap.c:1345).                                             *)
Unheard(e) == e \notin link /\ state[e] = "WAIT_CONFIG_RSP"

(* bte_l2cap_configure: the callback is called, also when the link is      *)
(* lost, unless the channel is being closed or in the two cases above.     *)
ConfigureAnswered ==
  \A e \in Ends :
    conf[e].owed ~> \/ ~conf[e].owed \/ state[e] \in Closing
                    \/ state[Peer(e)] \in Closing
                    \/ CutShort(e) \/ Unheard(e)

(* Two clients that both asked for their configuration, in any order of    *)
(* requests and responses, get an open channel, unless one rejects the     *)
(* other's or closes the channel, a long response is cut short, or the     *)
(* link is lost.                                                           *)
BothOpen ==
  (\A e \in Ends : configs[e].made > 0) ~>
    \/ \A e \in Ends : state[e] = "OPEN"
    \/ \E e \in Ends : \/ state[e] \in Closing \/ conf[e].was = "rej"
                       \/ CutShort(e)
    \/ link # Ends

(* bte_l2cap_disconnect: the channel gets closed, also when the peer       *)
(* disconnects, configures or drops its object at the same time, unless    *)
(* the link is lost.                                                       *)
DisconnectDone ==
  \A e \in Ends : state[e] = "WAIT_DISCONNECT" ~>
                    state[e] \in {"CLOSED", "NONE"} \/ link # Ends

(* l2cap.h: the configuration callback is "Invoked when the configuration  *)
(* request is replied to".                                                 *)
ToldWhenReplied ==
  \A e \in Ends : conf[e].said # "nothing" => conf[e].was # "nothing"
=============================================================================

------------------------------ MODULE AclLink -------------------------------
(***************************************************************************)
(* The life of ACL connections (acl.c) and of the L2CAP channels on them   *)
(* (l2cap.c, l2cap_server.c): who refers to whom, when a link is made,     *)
(* authenticated, shared, closed and lost, and whom that is told to.       *)
(*                                                                         *)
(* An application asks for a channel and is told the outcome; it is given  *)
(* the channel in its callback and may keep a reference.  What it does in  *)
(* a callback, asking for another channel included, happens while the      *)
(* library is in the middle of a loop: `frame' is that loop.  Controller   *)
(* and peer are external; a link has its device's number as its handle,    *)
(* which the next link to that device gets again.                          *)
(***************************************************************************)
EXTENDS Integers, Sequences, FiniteSets

CONSTANTS
  Devices,        \* addresses of other devices: numbers from 1 on
  MaxAcls,        \* bound on the BteAcl objects of a behaviour
  MaxChans,       \* bound on the BteL2cap objects of a behaviour
  MaxClients,     \* BTE_ACL_MAX_CLIENTS
  AuthSites,      \* where applications ask an ACL for authentication
  FailsBeside     \* whether one may fail while the ACL has open channels

ASSUME LinkAssumption ==
  /\ Devices \subseteq Nat \ {0} /\ IsFiniteSet(Devices)
  /\ MaxAcls \in Nat /\ MaxChans \in Nat /\ MaxClients \in Nat \ {0}
ASSUME UseAssumption ==
  /\ AuthSites \subseteq {"linked", "unlinked", "full", "loop"}
  /\ FailsBeside \in BOOLEAN

Acls == 1 .. MaxAcls      \* dev->acls has a place for each
Chans == 1 .. MaxChans
Places == 1 .. MaxClients
None == 0                 \* a null pointer
INVALID == 0              \* BTE_CONN_HANDLE_INVALID

VARIABLES
  acl,         \* the BteAcl objects
  table,       \* dev->acls
  chan,        \* the BteL2cap objects
  link,        \* controller: per device, whether there is a link
  connecting,  \* controller: ACLs for which it creates a connection
  auth,        \* controller: ACLs that it authenticates
  frame        \* the loop over the channels of an ACL that is under way
controller == <<link, connecting, auth>>
vars == <<acl, table, chan, link, connecting, auth, frame>>

NewAcl == [life |-> "none", device |-> None, refs |-> 0, handle |-> INVALID,
           incoming |-> FALSE, required |-> FALSE, requested |-> FALSE,
           completed |-> FALSE, blind |-> FALSE,
           clients |-> [i \in Places |-> None]]
NewChan == [life |-> "none", acl |-> None, refs |-> 0, remote |-> FALSE,
            state |-> "CLOSED", held |-> FALSE, told |-> << >>,
            late |-> FALSE]
NoFrame == [kind |-> "none", acl |-> None, i |-> 0, ok |-> FALSE,
            chan |-> None, drop |-> FALSE]

Idle == frame = NoFrame
InCallback == frame.chan # None
AppRuns == Idle \/ InCallback

Init ==
  /\ acl = [a \in Acls |-> NewAcl]
  /\ table = [i \in Acls |-> None]
  /\ chan = [x \in Chans |-> NewChan]
  /\ link = [d \in Devices |-> "down"]
  /\ connecting = {} /\ auth = {}
  /\ frame = NoFrame

FreshAcl(a) ==
  acl[a].life = "none" /\ \A b \in 1 .. a - 1 : acl[b].life # "none"
FreshChan(x) ==
  chan[x].life = "none" /\ \A y \in 1 .. x - 1 : chan[y].life # "none"
Lowest(S) == CHOOSE i \in S : \A j \in S : i <= j

(* bte_acl_make_public, and the end of bte_acl_disconnected. *)
InTable(a) == \E i \in Acls : table[i] = a
MadePublic(a) == [table EXCEPT ![Lowest({i \in Acls : table[i] = None})] = a]
Without(t, a) == [i \in Acls |-> IF t[i] = a THEN None ELSE t[i]]

(* bte_acl_get_for_address: the first one in the table, or None. *)
AclFor(d) ==
  LET at == {i \in Acls : table[i] # None /\ acl[table[i]].device = d} IN
  IF at = {} THEN None ELSE table[Lowest(at)]

(* acl_l2cap_add_client and acl_l2cap_remove_client. *)
FreePlaces(r) == {i \in Places : r.clients[i] = None}
AddClient(r, x) == [r EXCEPT !.clients[Lowest(FreePlaces(r))] = x]
KeepClient(r, x) == r  \* mutant: a channel that is freed stays in its place
RemoveClient(r, x) ==
  [r EXCEPT !.clients = [i \in Places |-> IF @[i] = x THEN None ELSE @[i]]]
IsUnused(r) == FreePlaces(r) = Places

(* bte_acl_unref of n references: with the last one the object leaves the  *)
(* table and is freed.                                                     *)
Unref(r, n) ==
  IF r.refs = n
  THEN [r EXCEPT !.refs = 0, !.life = "freed", !.handle = INVALID]
  ELSE [r EXCEPT !.refs = @ - n]
TableAfter(t, a, r) == IF r.life = "freed" THEN Without(t, a) ELSE t

(* bte_acl_disconnect: a link is asked to close.  The command has no       *)
(* callback; when it cannot be sent, the host has done with a link that    *)
(* the controller keeps.                                                   *)
Standing == {"up", "abandoned"}
CloseNever(r) == {link}  \* mutant: the link is left open
Close(r) ==
  IF r.handle # INVALID /\ link[r.handle] \in Standing
  THEN {[link EXCEPT ![r.handle] = s] : s \in {"closing", "abandoned"}}
  ELSE {link}

(* bte_l2cap_unref by the library or the application, given the objects as *)
(* they are at that moment: the last reference takes the channel off its   *)
(* ACL, closes the link if no channel is left, and gives up the ACL.       *)
DropChan(x, acls, chans) ==
  LET a == chans[x].acl
      left == RemoveClient(acls[a], x)
      after == Unref(left, 1) IN
  IF chans[x].refs > 1
  THEN /\ chan' = [chans EXCEPT ![x].refs = @ - 1]
       /\ acl' = acls
       /\ UNCHANGED <<table, link>>
  ELSE /\ chan' = [chans EXCEPT ![x].refs = 0, ![x].life = "freed"]
       /\ acl' = [acls EXCEPT ![a] = after]
       /\ table' = TableAfter(table, a, after)
       /\ link' \in IF IsUnused(left) THEN Close(left) ELSE {link}

Tell(chans, x, what) == [chans EXCEPT ![x].told = Append(@, what)]
-----------------------------------------------------------------------------
(* The application. *)

(* bte_acl_request_auth: nothing when it was called before.  A request for *)
(* an ACL that has no handle is one that the controller has to refuse.     *)
RequestsAuth(a, asks) == asks /\ ~acl[a].requested
AskedFor(r, asks) ==
  IF asks THEN [r EXCEPT !.required = TRUE, !.requested = TRUE,
                         !.blind = @ \/ (~r.requested /\ r.handle = INVALID)]
  ELSE r

(* Bound on the applications: of which ACLs they ask for it, AuthSites.    *)
(* Of one without a handle, the refusal ends the channels and frees an ACL *)
(* that connect_cb may still be called with; a full one, or one in the     *)
(* loop over its channels, need not have a channel that keeps it until the *)
(* answer comes.                                                           *)
Site(a) ==
  IF acl[a].handle = INVALID THEN "unlinked"
  ELSE IF FreePlaces(acl[a]) = {} THEN "full"
  ELSE IF frame.acl = a /\ frame.kind = "connected" THEN "loop" ELSE "linked"

MayRequest(r) == r.handle # INVALID /\ r.completed = r.required
Open(x) == chan[x].life = "live" /\ chan[x].state = "WAIT_CONFIG"
LiveChans(a) == {x \in Chans : chan[x].life = "live" /\ chan[x].acl = a}

(* bte_l2cap_new_outgoing to a device that there is an ACL for. *)
Joined(x, a) == [NewChan EXCEPT !.life = "live", !.acl = a, !.refs = 1]
(* History: it comes too late for what the ACL's channels wait for.  The   *)
(* ACL has no connection and none is being made, or its authentication was *)
(* asked for, has failed and is not asked for again.                       *)
Late(a) ==
  \/ acl[a].handle = INVALID /\ a \notin connecting
  \/ acl[a].requested /\ ~acl[a].completed /\ a \notin auth
JoinAcl(x, a, asks) ==
  LET r == [AskedFor(acl[a], asks) EXCEPT !.refs = @ + 1]
      joined == [acl EXCEPT ![a] = AddClient(r, x)]
      made == [chan EXCEPT ![x] = [Joined(x, a) EXCEPT !.late = Late(a)]] IN
  /\ RequestsAuth(a, asks) => Site(a) \in AuthSites
  /\ auth' = IF RequestsAuth(a, asks) THEN auth \cup {a} ELSE auth
  /\ \/ /\ FreePlaces(r) = {}    \* refused at once
        /\ acl' = [acl EXCEPT ![a] = AskedFor(acl[a], asks)]
        /\ chan' = [chan EXCEPT ![x] = [NewChan EXCEPT !.life = "freed",
                                          !.acl = a, !.told = <<"failed">>]]
        /\ UNCHANGED <<table, link>>
     \/ /\ FreePlaces(r) # {} /\ ~MayRequest(r)
        /\ acl' = joined /\ chan' = made
        /\ UNCHANGED <<table, link>>
     \/ /\ FreePlaces(r) # {} /\ MayRequest(r)
        /\ acl' = joined
        /\ chan' = [made EXCEPT ![x].state = "WAIT_CONNECT_RSP"]
        /\ UNCHANGED <<table, link>>
     \/ /\ FreePlaces(r) # {} /\ MayRequest(r)    \* not sent
        /\ DropChan(x, joined, Tell(made, x, "failed"))
  /\ UNCHANGED <<connecting, frame>>

(* The same, to a device that there is none for: bte_acl_new, which keeps  *)
(* the client alive, and bte_acl_connect.                                  *)
NewLink(x, a, d, asks) ==
  LET r == [NewAcl EXCEPT !.life = "live", !.device = d, !.refs = 1,
                          !.required = asks] IN
  /\ FreshAcl(a)
  /\ acl' = [acl EXCEPT ![a] = AddClient(r, x)]
  /\ table' = MadePublic(a)
  /\ chan' = [chan EXCEPT ![x] = Joined(x, a)]
  /\ connecting' = connecting \cup {a}
  /\ UNCHANGED <<link, auth, frame>>

NewOutgoing(x, d, asks) ==
  /\ AppRuns /\ FreshChan(x)
  /\ \/ AclFor(d) # None /\ JoinAcl(x, AclFor(d), asks)
     \/ AclFor(d) = None /\ \E a \in Acls : NewLink(x, a, d, asks)

(* bte_l2cap_ref in the callback that brings a channel. *)
TakeRef ==
  /\ InCallback /\ frame.drop
  /\ Open(frame.chan) /\ ~chan[frame.chan].held
  /\ chan' = [chan EXCEPT ![frame.chan].held = TRUE,
                       ![frame.chan].refs = @ + 1]
  /\ UNCHANGED <<acl, table, controller, frame>>

(* bte_l2cap_unref by the application. *)
AppUnref(x) ==
  /\ AppRuns /\ chan[x].held
  /\ DropChan(x, acl, [chan EXCEPT ![x].held = FALSE])
  /\ UNCHANGED <<connecting, auth, frame>>
-----------------------------------------------------------------------------
(* The loops over the channels of an ACL. *)

(* acl_connected_cb, bte_acl_disconnected and, for the callback of a       *)
(* server, acl_l2cap_handle_connection_req hold a reference meanwhile.     *)
Guarded == {"connected", "disconnected", "opened"}
Enter(kind, a, ok, acls) ==
  /\ acl' = [acls EXCEPT ![a].refs = @ + 1]
  /\ frame' = [NoFrame EXCEPT !.kind = kind, !.acl = a, !.ok = ok, !.i = 1]

(* The next client, if there is one. *)
Client == acl[frame.acl].clients[frame.i]
(* Mutant: the place after a client is left out. *)
PassedTwo(f) == [f EXCEPT !.i = @ + 2, !.chan = None, !.drop = FALSE]
Passed(f) == [f EXCEPT !.i = @ + 1, !.chan = None, !.drop = FALSE]
Looping(kind) == frame.kind = kind /\ ~InCallback /\ frame.i <= MaxClients

LoopSkips ==
  /\ Looping("connected") \/ Looping("disconnected")
  /\ Client = None
  /\ frame' = Passed(frame)
  /\ UNCHANGED <<acl, table, chan, controller>>

(* acl_l2cap_connected_cb: the channel sends its connection request, if it *)
(* has not done so before.                                                 *)
LoopRequests ==
  /\ Looping("connected") /\ Client # None /\ frame.ok
  /\ chan' = IF chan[Client].state = "CLOSED"
             THEN [chan EXCEPT ![Client].state = "WAIT_CONNECT_RSP"] ELSE chan
  /\ frame' = Passed(frame)
  /\ UNCHANGED <<acl, table, controller>>

(* It is told of the failure, and loses a reference afterwards. *)
LoopFails ==
  /\ Looping("connected") /\ Client # None
  /\ ~frame.ok \/ chan[Client].state = "CLOSED"
  /\ chan' = Tell(chan, Client, "failed")
  /\ frame' = [frame EXCEPT !.chan = Client, !.drop = TRUE]
  /\ UNCHANGED <<acl, table, controller>>

(* l2cap_disconnect_cb: a channel without a remote identifier was being    *)
(* made, and goes; an application that holds one of the others is told     *)
(* that the link is lost.                                                  *)
IsAny(x) == TRUE  \* mutant: channels that are made go too
IsForming(x) == ~chan[x].remote
LoopDisconnects ==
  /\ Looping("disconnected") /\ Client # None
  /\ \/ /\ IsForming(Client)
        /\ chan' = Tell(chan, Client, "failed")
        /\ frame' = [frame EXCEPT !.chan = Client, !.drop = TRUE]
     \/ /\ ~IsForming(Client) /\ chan[Client].held
        /\ chan' = Tell(chan, Client, "lost")
        /\ frame' = [frame EXCEPT !.chan = Client]
     \/ /\ ~IsForming(Client) /\ ~chan[Client].held
        /\ frame' = Passed(frame)
        /\ UNCHANGED chan
  /\ UNCHANGED <<acl, table, controller>>

(* A callback returns. *)
CallbackReturns ==
  /\ InCallback
  /\ IF frame.drop THEN DropChan(frame.chan, acl, chan)
     ELSE UNCHANGED <<acl, table, chan, link>>
  /\ frame' = IF frame.kind = "response" THEN NoFrame ELSE Passed(frame)
  /\ UNCHANGED <<connecting, auth>>

(* The loop ends: the reference is given back, and bte_acl_disconnected    *)
(* takes the ACL from the table and, if it is an incoming one, the         *)
(* reference that it holds to itself.                                      *)
OwnRefNever(r) == 0  \* mutant: the reference is forgotten
OwnRef(r) == IF r.incoming THEN 1 ELSE 0
LoopEnds ==
  LET a == frame.acl
      r == Unref(acl[a], IF frame.kind = "disconnected" THEN 1 + OwnRef(acl[a])
                         ELSE 1) IN
  /\ frame.kind \in Guarded
  /\ ~InCallback /\ frame.i > MaxClients
  /\ acl' = [acl EXCEPT ![a] = r]
  /\ table' = IF frame.kind = "disconnected" THEN Without(table, a)
              ELSE TableAfter(table, a, r)
  /\ frame' = NoFrame
  /\ UNCHANGED <<chan, controller>>
-----------------------------------------------------------------------------
(* Events of the controller. *)

(* connect_status_cb and connect_cb.  An ACL that needs authentication     *)
(* asks for it first, unless somebody did so before.                       *)
NeedsAuth(r) == r.required /\ ~r.completed
ConnectFails(a) ==
  /\ Idle /\ a \in connecting
  /\ connecting' = connecting \ {a}
  /\ Enter("connected", a, FALSE, acl)
  /\ UNCHANGED <<table, chan, link, auth>>

Connected(a) ==
  LET r == [acl[a] EXCEPT !.handle = acl[a].device] IN
  /\ Idle /\ a \in connecting /\ link[acl[a].device] = "down"
  /\ connecting' = connecting \ {a}
  /\ link' = [link EXCEPT ![acl[a].device] = "up"]
  /\ IF NeedsAuth(r)
     THEN /\ acl' = [acl EXCEPT ![a] = [r EXCEPT !.requested = TRUE]]
          /\ auth' = IF r.requested THEN auth ELSE auth \cup {a}
          /\ UNCHANGED frame
     ELSE /\ Enter("connected", a, TRUE, [acl EXCEPT ![a] = r])
          /\ UNCHANGED auth
  /\ UNCHANGED <<table, chan>>

(* auth_requested_cb, with the result of the authentication or with the   *)
(* error of the command's status.                                          *)
AuthComplete(a, ok) ==
  /\ Idle /\ a \in auth
  /\ ok => ~acl[a].blind
  /\ ok \/ FailsBeside \/ \A x \in LiveChans(a) : ~Open(x)
  /\ auth' = auth \ {a}
  /\ Enter("connected", a, ok, [acl EXCEPT ![a].completed = @ \/ ok])
  /\ UNCHANGED <<table, chan, link, connecting>>

(* on_disconnection_complete.  The controller ends what it does on a link  *)
(* before it reports the end of the link.                                  *)
Disconnection(d) ==
  LET found == {a \in Acls : InTable(a) /\ acl[a].handle = d} IN
  /\ Idle /\ link[d] # "down"
  /\ \A a \in auth : acl[a].handle # d
  /\ link' = [link EXCEPT ![d] = "down"]
  /\ IF found = {} THEN UNCHANGED <<acl, frame>>
     ELSE LET a == CHOOSE a \in found : TRUE IN
          Enter("disconnected", a, FALSE,
                [acl EXCEPT ![a].handle = INVALID])
  /\ UNCHANGED <<table, chan, connecting, auth>>

(* hci_accept_connection_cb: a device connects, bte_acl_new_connected. *)
Incoming(a, d) ==
  /\ Idle /\ FreshAcl(a) /\ link[d] = "down"
  /\ link' = [link EXCEPT ![d] = "up"]
  /\ acl' = [acl EXCEPT ![a] =
               [NewAcl EXCEPT !.life = "live", !.device = d, !.refs = 1,
                              !.handle = d, !.incoming = TRUE]]
  /\ table' = MadePublic(a)
  /\ UNCHANGED <<chan, connecting, auth, frame>>
-----------------------------------------------------------------------------
(* Signals of the peer, on a link that stands. *)
Reachable(a) ==
  /\ acl[a].handle # INVALID /\ link[acl[a].handle] \in Standing
  /\ InTable(a)
CallBack(x) == [NoFrame EXCEPT !.kind = "response", !.acl = chan[x].acl,
                               !.chan = x, !.drop = TRUE]

(* l2cap_connect_cb: the channel is made, refused, or not decided upon. *)
PeerAnswers(x, result) ==
  /\ Idle /\ chan[x].life = "live"
  /\ chan[x].state = "WAIT_CONNECT_RSP" /\ Reachable(chan[x].acl)
  /\ \/ /\ result = "ok"
        /\ chan' = Tell([chan EXCEPT ![x].state = "WAIT_CONFIG",
                                     ![x].remote = TRUE], x, "made")
        /\ frame' = CallBack(x)
     \/ /\ result = "refused"
        /\ chan' = Tell([chan EXCEPT ![x].state = "CLOSED"], x, "failed")
        /\ frame' = CallBack(x)
     \/ /\ result = "pending" /\ ~chan[x].remote
        /\ chan' = [chan EXCEPT ![x].remote = TRUE]
        /\ UNCHANGED frame
  /\ UNCHANGED <<acl, table, controller>>

(* A peer opens a channel to a server: _bte_l2cap_new_connected, and       *)
(* rely_to_client.                                                         *)
PeerOpens(x, a) ==
  /\ Idle /\ FreshChan(x) /\ acl[a].life = "live" /\ Reachable(a)
  /\ FreePlaces(acl[a]) # {}
  /\ acl' = [acl EXCEPT ![a] = AddClient([acl[a] EXCEPT !.refs = @ + 2], x)]
  /\ chan' = [chan EXCEPT ![x] =
                [Joined(x, a) EXCEPT !.remote = TRUE, !.state = "WAIT_CONFIG",
                                     !.told = <<"made">>]]
  /\ frame' = [CallBack(x) EXCEPT !.kind = "opened", !.acl = a,
                                  !.i = MaxClients]
  /\ UNCHANGED <<table, controller>>
-----------------------------------------------------------------------------
Results == {"ok", "refused", "pending"}
Library == LoopSkips \/ LoopRequests \/ LoopFails \/ LoopDisconnects
           \/ CallbackReturns \/ LoopEnds
Controller == \E a \in Acls : \/ ConnectFails(a) \/ Connected(a)
                              \/ \E ok \in BOOLEAN : AuthComplete(a, ok)
PeerDecides(x) == PeerAnswers(x, "ok") \/ PeerAnswers(x, "refused")
Closed(d) == link[d] = "closing" /\ Disconnection(d)

Next ==
  \/ \E x \in Chans : \/ \E d \in Devices, asks \in BOOLEAN :
                           NewOutgoing(x, d, asks)
                      \/ AppUnref(x)
                      \/ \E result \in Results : PeerAnswers(x, result)
                      \/ \E a \in Acls : PeerOpens(x, a)
  \/ TakeRef
  \/ Library
  \/ Controller
  \/ \E d \in Devices : Disconnection(d) \/ \E a \in Acls : Incoming(a, d)

Spec == Init /\ [][Next]_vars

(* Callbacks return and loops go on; the controller answers its commands,  *)
(* and a peer decides on a request, unless the link goes.                  *)
FairSpec ==
  /\ Spec
  /\ WF_vars(Library) /\ WF_vars(Controller)
  /\ \A d \in Devices : WF_vars(Closed(d))
  /\ \A x \in Chans : WF_vars(PeerDecides(x))
-----------------------------------------------------------------------------
(* Properties. *)

(* bte_acl_ref and bte_acl_unref are balanced: an ACL has one reference    *)
(* for each of its channels, one for itself while it is an incoming one    *)
(* that is connected, and one while a loop runs over its channels or a     *)
(* server is given one.  It is freed with the last one, neither sooner nor *)
(* later.                                                                  *)
RefsBalanced ==
  \A a \in Acls :
    LET looped == IF frame.kind \in Guarded /\ frame.acl = a THEN 1 ELSE 0
        own == IF acl[a].incoming /\ InTable(a) THEN 1 ELSE 0
        refs == Cardinality(LiveChans(a)) + looped + own IN
    /\ acl[a].life # "none" => acl[a].refs = refs
    /\ acl[a].life = "live" <=> refs > 0

(* bte_l2cap_ref: the object is not destroyed while the client has a       *)
(* reference to it.                                                        *)
ReferenceKeeps == \A x \in Chans : chan[x].held => chan[x].life = "live"

(* Nothing points to an object that was freed: neither the channels of an  *)
(* ACL, nor the ACL of a channel, nor dev->acls, nor the userdata of a     *)
(* command that the controller still answers, nor an application that kept *)
(* a reference.                                                            *)
NoDangling ==
  /\ \A a \in Acls :
       InTable(a) \/ a \in connecting \cup auth => acl[a].life = "live"
  /\ \A x \in Chans : chan[x].life = "live" =>
       /\ acl[chan[x].acl].life = "live"
       /\ \E i \in Places : acl[chan[x].acl].clients[i] = x
  /\ \A a \in Acls, i \in Places :
       acl[a].clients[i] # None => acl[a].clients[i] \in LiveChans(a)
  /\ ReferenceKeeps

(* A link that is up has an ACL in the table, and one that this side made  *)
(* has a channel: there is no link that nobody is going to close, but for  *)
(* the abandoned ones, whose closing could not be sent.                    *)
LinkHasUser ==
  \A d \in Devices : link[d] = "up" =>
    \E a \in Acls : /\ InTable(a) /\ acl[a].handle = d
                    /\ acl[a].incoming \/ LiveChans(a) # {}

(* A request for a channel gets one answer: it is made or it failed.  The  *)
(* loss of the link is told after that, once, and only of a channel that   *)
(* was made.                                                               *)
AnsweredOnce ==
  \A x \in Chans :
    chan[x].told \in {<< >>, <<"made">>, <<"failed">>, <<"made", "lost">>}

(* The requests that the code leaves without an answer: those that came   *)
(* too late, and those whose peer had named its end of the channel, with a *)
(* pending response, when the link was lost: the loop takes such a channel *)
(* for one that is made.                                                   *)
Stranded(x) ==
  \/ chan[x].late
  \/ chan[x].remote /\ acl[chan[x].acl].handle = INVALID

(* Every request of bte_l2cap_new_outgoing is answered, under the fairness *)
(* above, unless it is stranded.                                           *)
EventuallyAnswered ==
  \A x \in Chans : chan[x].life # "none" ~> chan[x].told # << >> \/ Stranded(x)
=============================================================================

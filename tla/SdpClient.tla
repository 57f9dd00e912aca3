----------------------------- MODULE SdpClient ------------------------------
(***************************************************************************)
(* The SDP client (services/sdp.c): one request at a time over an L2CAP    *)
(* channel, answered in one reply or in several, each of which but the     *)
(* last makes the client ask for the rest.  The server and the channel are *)
(* external: the channel delivers in order until it is lost, and the       *)
(* server answers each request it gets, in fragments of its choice and     *)
(* possibly wrongly.                                                       *)
(*                                                                         *)
(* Requests are numbered.  What the server holds for request r is a        *)
(* sequence of parts <<r, 1>>, <<r, 2>>...: service handles for a search,  *)
(* pieces of one data element for the attributes.                          *)
(***************************************************************************)
EXTENDS Integers, Sequences, SequencesExt, FiniteSets

CONSTANTS
  MaxRequests, \* bound on the requests of a behaviour
  MaxFailures, \* bound on the requests that cannot be sent
  MaxRefs,     \* bound on the references that the application takes
  Sizes,       \* how many parts an answer may have
  MaxTotal,    \* total_size, from which on a fragmented answer is refused
  IdSpace,     \* number of transaction ids, 2^16 in the code
  Faults,      \* what may go wrong, see below
  MaxRepeats   \* bound on the replies that the server repeats

ASSUME SdpSizeAssumption ==
  /\ MaxRequests \in Nat /\ MaxFailures \in Nat /\ MaxRepeats \in Nat
  /\ MaxRefs \in Nat
  /\ Sizes \subseteq Nat \ {0}
  /\ MaxTotal \in Nat
  /\ IdSpace \in Nat /\ IdSpace > 1
(* The server answers with an error, or an error without a code, or bytes  *)
(* that do not parse, or too few or too many parts; a packet cannot be     *)
(* made or sent; the link goes away.                                       *)
ASSUME SdpFaultAssumption ==
  Faults \subseteq {"error", "no code", "malformed", "short", "long",
                    "not sent", "lost"}

Kinds == {"search", "attr"}
Requests == 1 .. MaxRequests
Ids == 0 .. IdSpace - 1
PARSER == "parser"  \* BTE_SDP_ERROR_PARSER
OK == "ok"

VARIABLES
  last_req,      \* the request that is being answered, or NoRequest
  list,          \* attr_list_de and written: the parts collected so far
  next_id,       \* s_next_transaction_id
  refs,          \* ref_count; the client is freed when it gets to 0
  kept,          \* whether the application kept the channel of a freed client
  answer,        \* per request made so far: its kind and size
  failures,      \* how many requests could not be sent
  told,          \* per request, the replies its callback was given
  channel,       \* external: whether the channel is open
  to_server,     \* external: PDUs on the way
  to_client,
  repeats,       \* external: how many replies were repeated
  stuck,         \* requests whose answer the client can no longer get
  dangling       \* whether the client was used after it was freed
requestVars == <<last_req, list, next_id>>
peerVars == <<channel, to_server, to_client, repeats>>
vars == <<last_req, list, next_id, refs, kept, answer, failures, told, channel, to_server,
          to_client, repeats, stuck, dangling>>

NoRequest == [r |-> 0, id |-> 0]
NoList == << >>  \* the null pointer: a list has at least its header
Parts(r, from, to) == [i \in 1 .. to - from + 1 |-> <<r, from + i - 1>>]
Pending == last_req # NoRequest
Kind(r) == answer[r].kind
Size(r) == answer[r].size

Init ==
  /\ last_req = NoRequest
  /\ list = NoList
  /\ next_id = 0
  /\ refs = 1
  /\ kept = FALSE
  /\ answer = << >>
  /\ failures = 0
  /\ told = << >>
  /\ channel = "open"
  /\ to_server = << >>
  /\ to_client = << >>
  /\ repeats = 0
  /\ stuck = {}
  /\ dangling = FALSE

MaySend == channel = "open"
MayFail == channel # "open" \/ "not sent" \in Faults

-----------------------------------------------------------------------------
(* Requests.                                                               *)

(* next_transaction_id: the counter is wider than the field it goes to.    *)
NextId(id) == (id + 1) % IdSpace

(* create_pdu and bte_l2cap_send_message of a request with the given       *)
(* continuation state.                                                     *)
Pdu(id, r, cont) == [id |-> id, r |-> r, cont |-> cont]

(* bte_sdp_service_search_req, bte_sdp_service_attr_req and                *)
(* bte_sdp_service_search_attr_req: refused while a request is pending,    *)
(* which includes its callback.  The latter two forget the list that the   *)
(* request before them left behind.                                        *)
NewList(kind) == IF kind = "attr" THEN NoList ELSE list
Request(kind, size) ==
  /\ refs > 0 /\ ~Pending
  /\ Len(answer) < MaxRequests
  /\ MaySend
  /\ last_req' = [r |-> Len(answer) + 1, id |-> next_id]
  /\ next_id' = NextId(next_id)
  /\ answer' = Append(answer, [kind |-> kind, size |-> size])
  /\ told' = Append(told, << >>)
  /\ list' = NewList(kind)
  /\ to_server' = Append(to_server, Pdu(next_id, Len(answer) + 1, 0))
  /\ UNCHANGED <<refs, kept, failures, channel, to_client, repeats, stuck, dangling>>

(* One that cannot be sent takes a transaction id, and returns false.      *)
RequestFails ==
  /\ refs > 0 /\ ~Pending
  /\ failures < MaxFailures
  /\ MayFail
  /\ failures' = failures + 1
  /\ next_id' = NextId(next_id)
  /\ UNCHANGED <<last_req, list, refs, kept, answer, told, stuck, dangling, peerVars>>

(* bte_sdp_client_ref and bte_sdp_client_unref by the application, outside *)
(* of callbacks.  A client that is freed gives up its reference to the     *)
(* channel, which goes unless the application has one of its own; if it    *)
(* has, the channel goes on with the client's message callback, and the    *)
(* client as its userdata.                                                 *)
LosesChannel(count, keeps) == count = 0 /\ ~keeps
Ref ==
  /\ refs > 0 /\ refs < MaxRefs
  /\ refs' = refs + 1
  /\ UNCHANGED <<requestVars, kept, answer, failures, told, stuck, dangling, peerVars>>

Unref(keeps) ==
  /\ refs > 0
  /\ refs' = refs - 1
  /\ kept' = (refs = 1 /\ keeps)
  /\ IF LosesChannel(refs - 1, keeps)
     THEN channel' = "closed" /\ to_server' = << >> /\ to_client' = << >>
     ELSE UNCHANGED <<channel, to_server, to_client>>
  /\ UNCHANGED <<requestVars, answer, failures, told, repeats, stuck, dangling>>

-----------------------------------------------------------------------------
(* Replies.  A reply is [id, r, code, parts, next, good]: next is the      *)
(* continuation state, 0 for none, and good whether it parses.             *)

(* parse_service_attr_reply: the list with the fragment added to it, and   *)
(* whether it is as it should be.  Only a fragmented answer is collected.  *)
Fragmented(reply) == reply.next # 0 \/ list # NoList
TotalSize(parts) == Size(parts[1][1])  \* from the header of the element
AttrReply(reply) ==
  LET whole == IF Fragmented(reply) THEN list \o reply.parts ELSE reply.parts
      fits == /\ list = NoList => TotalSize(whole) < MaxTotal
              /\ Len(whole) <= TotalSize(whole)
      ends == reply.next = 0 => Len(whole) = TotalSize(whole)
  IN [good |-> reply.good /\ (Fragmented(reply) => fits) /\ ends,
      list |-> IF reply.good /\ Fragmented(reply) /\ fits THEN whole ELSE list,
      whole |-> whole]

(* What the callback is given, and whether this reply is the last.         *)
Result(reply) ==
  LET attr == AttrReply(reply)
      good == IF Kind(last_req.r) = "attr" THEN attr.good ELSE reply.good
  IN CASE reply.code # OK ->
            [code |-> reply.code, parts |-> << >>, more |-> FALSE]
       [] reply.code = OK /\ ~good ->
            [code |-> PARSER, parts |-> << >>, more |-> FALSE]
       [] OTHER ->
            [code |-> OK, more |-> reply.next # 0,
             parts |-> IF Kind(last_req.r) = "attr" THEN attr.whole
                       ELSE reply.parts]

(* The guards of on_message_received: the reply is for the request that is *)
(* pending and answers such a request, and an error has a code.            *)
MatchesKind(reply) ==  \* mutant: the id is not compared
  Pending /\ reply.code # "none" /\ Kind(reply.r) = Kind(last_req.r)
MatchesAnswer(reply) ==  \* mutant: an error does not answer the request
  Pending /\ reply.id = last_req.id /\ reply.code = OK
Matches(reply) ==
  /\ Pending
  /\ reply.id = last_req.id
  /\ reply.code = OK => Kind(reply.r) = Kind(last_req.r)
  /\ reply.code # "none"

(* What the handler adds to ref_count before it calls the callback, which  *)
(* may drop a reference of the application, and takes away at its end.  In *)
(* between it uses the client's request, list and channel.                 *)
NoTempRef == 0  \* mutant: it holds none
TempRef == 1

(* send_continuation_request: a new id, the parameters of the request and  *)
(* the continuation state.  Nothing is done about a failure, be it that    *)
(* the packet cannot be made or that it cannot be sent.                    *)
ContinueOldId(reply) ==  \* mutant: last_req stays the first request
  /\ next_id' = NextId(next_id)
  /\ to_server' = Append(to_server, Pdu(next_id, last_req.r, reply.next))
  /\ UNCHANGED <<last_req, stuck>>
Continue(reply) ==
  /\ next_id' = NextId(next_id)
  /\ \/ /\ MaySend
        /\ last_req' = [last_req EXCEPT !.id = next_id]
        /\ to_server' = Append(to_server, Pdu(next_id, last_req.r, reply.next))
        /\ UNCHANGED stuck
     \/ /\ MayFail
        /\ last_req' \in {last_req, [last_req EXCEPT !.id = next_id]}
        /\ stuck' = stuck \cup {last_req.r}
        /\ UNCHANGED to_server

(* Whether the callback is called: that of a search for every reply, the   *)
(* other for the last one.                                                 *)
CalledAlways(kind, more) == TRUE  \* mutant: for every reply
Called(kind, more) == kind = "search" \/ ~more

(* on_message_received, with the answer of a search callback (wants_more), *)
(* whether the callback drops a reference to the client, and whether the   *)
(* application keeps the channel.                                          *)
OnMessage(wants_more, drops, keeps) ==
  LET reply == Head(to_client)
      result == Result(reply)
      called == Called(Kind(last_req.r), result.more)
      complete == ~result.more \/ (Kind(last_req.r) = "search" /\ ~wants_more)
      within == refs + TempRef - (IF called /\ drops THEN 1 ELSE 0)
      closes == LosesChannel(within - TempRef, keeps)
  IN /\ to_client # << >> /\ refs > 0
     /\ Matches(reply)
     /\ told' = IF called THEN [told EXCEPT ![last_req.r] =
                                  Append(@, [result EXCEPT !.more = ~complete])]
                ELSE told
     /\ list' = IF Kind(last_req.r) = "attr" /\ reply.code = OK
                THEN AttrReply(reply).list ELSE list
     /\ refs' = within - TempRef
     /\ kept' = (within = TempRef /\ keeps)
     /\ dangling' = (dangling \/ within = 0)
     /\ IF complete
        THEN /\ last_req' = NoRequest
             /\ IF closes THEN to_server' = << >> ELSE UNCHANGED to_server
             /\ UNCHANGED <<next_id, stuck>>
        ELSE IF closes THEN /\ to_server' = << >>
                            /\ next_id' = NextId(next_id)
                            /\ UNCHANGED <<last_req, stuck>>
        ELSE Continue(reply)
     /\ channel' = IF closes THEN "closed" ELSE channel
     /\ to_client' = IF closes THEN << >> ELSE Tail(to_client)
     /\ UNCHANGED <<answer, failures, repeats>>

(* A message that matches no request is ignored; when the reason is an     *)
(* error without a code, no other answer will come.                        *)
IgnoreMessage ==
  /\ to_client # << >> /\ refs > 0
  /\ ~Matches(Head(to_client))
  /\ stuck' = IF /\ Pending /\ Head(to_client).id = last_req.id
                 /\ Head(to_client).code = "none"
              THEN stuck \cup {last_req.r} ELSE stuck
  /\ to_client' = Tail(to_client)
  /\ UNCHANGED <<requestVars, refs, kept, answer, failures, told, channel, to_server,
                 repeats, dangling>>

(* A message for a channel that outlived the client: on_message_received   *)
(* reads freed memory, and nothing is said of what comes after.            *)
MessageAfterFree ==
  /\ to_client # << >> /\ refs = 0
  /\ dangling' = TRUE
  /\ channel' = "closed"
  /\ to_server' = << >>
  /\ to_client' = << >>
  /\ UNCHANGED <<requestVars, refs, kept, answer, failures, told, repeats, stuck>>

-----------------------------------------------------------------------------
(* The server and the channel (external).                                  *)
Reply(pdu, code, parts, next, good) ==
  [id |-> pdu.id, r |-> pdu.r, code |-> code, parts |-> parts, next |-> next,
   good |-> good]

ServerReplies(pdu) ==
  LET r == pdu.r
      rest == pdu.cont + 1 .. Size(r)
  IN {Reply(pdu, OK, Parts(r, pdu.cont + 1, to),
            IF to = Size(r) THEN 0 ELSE to, TRUE) : to \in rest}
     \cup {Reply(pdu, OK, Parts(r, pdu.cont + 1, to), 0, TRUE) :
             to \in {t \in rest : "short" \in Faults}}
     \cup {Reply(pdu, OK, Parts(r, pdu.cont + 1, Size(r) + 1), next, TRUE) :
             next \in {n \in {0, Size(r) + 1} : "long" \in Faults /\ rest # {}}}
     \cup {Reply(pdu, "error", << >>, 0, TRUE) :
             x \in {y \in {0} : "error" \in Faults \/ rest = {}}}
     \cup {Reply(pdu, "none", << >>, 0, TRUE) : x \in Faults \cap {"no code"}}
     \cup {Reply(pdu, OK, << >>, 0, FALSE) : x \in Faults \cap {"malformed"}}

ServerAnswers ==
  /\ to_server # << >>
  /\ \E reply \in ServerReplies(Head(to_server)) :
       to_client' = Append(to_client, reply)
  /\ to_server' = Tail(to_server)
  /\ UNCHANGED <<requestVars, refs, kept, answer, failures, told, channel, repeats,
                 stuck, dangling>>

(* A reply is repeated by a server that is not careful.                    *)
ServerRepeats ==
  /\ to_client # << >>
  /\ repeats < MaxRepeats
  /\ repeats' = repeats + 1
  /\ to_client' = Append(to_client, Last(to_client))
  /\ UNCHANGED <<requestVars, refs, kept, answer, failures, told, channel, to_server,
                 stuck, dangling>>

(* The channel is lost.  The client does not ask to be told of it.         *)
ChannelLost ==
  /\ channel = "open" /\ "lost" \in Faults
  /\ channel' = "closed"
  /\ to_server' = << >>
  /\ to_client' = << >>
  /\ UNCHANGED <<requestVars, refs, kept, answer, failures, told, repeats, stuck, dangling>>

-----------------------------------------------------------------------------
MessageArrives ==
  \E wants_more, drops, keeps \in BOOLEAN : OnMessage(wants_more, drops, keeps)

Next ==
  \/ \E kind \in Kinds, size \in Sizes : Request(kind, size)
  \/ RequestFails
  \/ Ref
  \/ \E keeps \in BOOLEAN : Unref(keeps)
  \/ MessageArrives
  \/ IgnoreMessage
  \/ MessageAfterFree
  \/ ServerAnswers
  \/ ServerRepeats
  \/ ChannelLost

(* The server answers, and the main loop delivers what the channel brings. *)
Fairness ==
  /\ WF_vars(ServerAnswers)
  /\ WF_vars(MessageArrives)
  /\ WF_vars(IgnoreMessage)
Spec == Init /\ [][Next]_vars
FairSpec == Spec /\ Fairness

-----------------------------------------------------------------------------
(* Properties.                                                             *)

Concatenated(r) ==
  FlattenSeq([i \in DOMAIN told[r] |-> told[r][i].parts])
Completed(r) == r \in DOMAIN told /\ told[r] # << >> /\ ~Last(told[r]).more
Failed(r) == \E i \in DOMAIN told[r] : told[r][i].code # OK

(* An attribute list that a callback is given without an error is the one  *)
(* that the server holds for that request, whole and in order, however it  *)
(* was split and whatever was repeated, cut short or added on the way.  A  *)
(* request that is stuck is left out: it may take a repeated reply.  The   *)
(* callbacks of a search are given the handles that the server sent, once  *)
(* each and in order.                                                      *)
AnswersUnmixed ==
  \A r \in DOMAIN answer \ stuck :
    /\ Kind(r) = "attr" /\ told[r] # << >> /\ ~Failed(r) =>
         Concatenated(r) = Parts(r, 1, Size(r))
    /\ Kind(r) = "search" => IsPrefix(Concatenated(r), Parts(r, 1, Size(r) + 1))

(* A request has one last callback: none comes after it, and the callback  *)
(* of an attribute request is called no more than once.                    *)
OneLastCallback ==
  \A r \in DOMAIN answer :
    /\ \A i \in 1 .. Len(told[r]) - 1 : told[r][i].more /\ told[r][i].code = OK
    /\ Kind(r) = "attr" => Len(told[r]) <= 1

(* While the client waits, and so refuses requests, an answer is on its    *)
(* way, or it will never come because the continuation could not be sent   *)
(* or the server sent an error without a code.                             *)
WaitsOnlyForAnswer ==
  Pending /\ refs > 0 /\ channel = "open" /\ last_req.r \notin stuck =>
    \/ \E i \in DOMAIN to_server : to_server[i].id = last_req.id
    \/ \E i \in DOMAIN to_client : to_client[i].id = last_req.id

(* The client is not used after it is freed: not by the handler of a       *)
(* message, whose callback may drop the last reference of the application, *)
(* and not by a message that comes later.  The one exception is a channel  *)
(* to which the application keeps a reference of its own, as               *)
(* bte_sdp_client_free does not take back the message callback.            *)
NotUsedFreed == dangling => kept

(* Every request that was accepted gets its last callback, unless the      *)
(* client is freed, the channel lost or the request stuck.                 *)
RequestCompletes ==
  \A r \in Requests :
    r \in DOMAIN answer ~> Completed(r) \/ refs = 0 \/ channel = "closed" \/ r \in stuck
=============================================================================

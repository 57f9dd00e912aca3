-------------------------- MODULE SdpClient_proofs --------------------------
(***************************************************************************)
(* Proofs about SdpClient, for any number of requests, failures and        *)
(* repeated replies, any sizes of answers and of the space of transaction  *)
(* ids, and whatever goes wrong on the way.  Only that answers are not     *)
(* mixed takes that the ids do not run out, see Unmixed.                   *)
(***************************************************************************)
EXTENDS SdpClient, SequenceTheorems, WellFoundedInduction, TLAPS

-----------------------------------------------------------------------------
(* The inductive invariant.                                                *)
Part == Nat \X Nat
Codes == {OK, PARSER, "error", "none"}
Known == 1 .. Len(answer)
Answers == [kind : Kinds, size : Nat]
Tolds == [code : Codes, parts : Seq(Part), more : BOOLEAN]
Pdus == [id : Nat, r : Known, cont : Nat]
Replies == [id : Nat, r : Known, code : Codes, parts : Seq(Part), next : Nat,
            good : BOOLEAN]

SdpTypes ==
  /\ last_req \in [r : Nat, id : Nat]
  /\ list \in Seq(Part)
  /\ next_id \in Nat
  /\ answer \in Seq(Answers)
  /\ told \in Seq(Seq(Tolds)) /\ Len(told) = Len(answer)
  /\ to_server \in Seq(Pdus)
  /\ to_client \in Seq(Replies)

(* The request that is pending is one that was made, and so far its        *)
(* callback was only told that there is more; that of an attribute request *)
(* was not called.                                                         *)
PendingOpen ==
  Pending => /\ last_req.r \in Known
             /\ \A i \in DOMAIN told[last_req.r] :
                  /\ told[last_req.r][i].more
                  /\ told[last_req.r][i].code = OK
             /\ Kind(last_req.r) = "attr" => told[last_req.r] = << >>

(* What is on its way has not only the id of the pending request: it is    *)
(* about that request, so that it is not ignored for its kind.             *)
Coming ==
  Pending /\ channel = "open" /\ last_req.r \notin stuck =>
    \/ \E i \in DOMAIN to_server : /\ to_server[i].id = last_req.id
                                   /\ to_server[i].r = last_req.r
    \/ \E i \in DOMAIN to_client : /\ to_client[i].id = last_req.id
                                   /\ to_client[i].r = last_req.r

SdpInv ==
  SdpTypes /\ PendingOpen /\ Coming /\ OneLastCallback

-----------------------------------------------------------------------------
(* What the operators of the client and of the server return.              *)
LEMMA Appending ==
  ASSUME NEW S, NEW q \in Seq(S), NEW x \in S
  PROVE  /\ Append(q, x) \in Seq(S)
         /\ Len(Append(q, x)) = Len(q) + 1
         /\ \A i \in 1 .. Len(q) : Append(q, x)[i] = q[i]
         /\ Append(q, x)[Len(q) + 1] = x
  OBVIOUS

LEMMA Consuming ==
  ASSUME NEW S, NEW q \in Seq(S), q # << >>
  PROVE  /\ Head(q) \in S /\ Head(q) = q[1]
         /\ Tail(q) \in Seq(S)
         /\ Len(Tail(q)) = Len(q) - 1
         /\ \A i \in 1 .. Len(q) - 1 : Tail(q)[i] = q[i + 1]
  OBVIOUS

LEMMA Changing ==
  ASSUME NEW S, NEW q \in Seq(S), NEW i \in 1 .. Len(q), NEW x \in S
  PROVE  /\ [q EXCEPT ![i] = x] \in Seq(S)
         /\ Len([q EXCEPT ![i] = x]) = Len(q)
         /\ \A j \in 1 .. Len(q) :
              [q EXCEPT ![i] = x][j] = IF j = i THEN x ELSE q[j]
  OBVIOUS

LEMMA PartsType ==
  ASSUME NEW r \in Nat, NEW from \in Nat \ {0}, NEW to \in Nat, to + 1 >= from
  PROVE  Parts(r, from, to) \in Seq(Part)
<1>1. to - from + 1 \in Nat
  OBVIOUS
<1>2. Parts(r, from, to) \in [1 .. to - from + 1 -> Part]
  BY <1>1 DEF Parts, Part
<1> QED
  BY <1>1, <1>2

LEMMA NextIdType == ASSUME NEW id \in Nat PROVE NextId(id) \in Nat
  BY SdpSizeAssumption DEF NextId

LEMMA AttrType ==
  ASSUME SdpTypes, NEW reply \in Replies
  PROVE  /\ AttrReply(reply).list \in Seq(Part)
         /\ AttrReply(reply).whole \in Seq(Part)
<1>1. reply.parts \in Seq(Part) /\ list \in Seq(Part)
  BY DEF Replies, SdpTypes
<1>2. list \o reply.parts \in Seq(Part)
  BY <1>1
<1> QED
  BY <1>1, <1>2, Zenon DEF AttrReply

(* There is more only after a reply without an error.                      *)
LEMMA ResultType ==
  ASSUME SdpTypes, NEW reply \in Replies
  PROVE  /\ Result(reply) \in Tolds
         /\ Result(reply).more => Result(reply).code = OK
<1> DEFINE attr == AttrReply(reply)
           good == IF Kind(last_req.r) = "attr" THEN attr.good ELSE reply.good
           parts == IF Kind(last_req.r) = "attr" THEN attr.whole ELSE reply.parts
<1>1. parts \in Seq(Part)
  BY AttrType DEF Replies
<1>2. reply.code \in Codes /\ OK \in Codes /\ PARSER \in Codes
  BY DEF Replies, Codes
<1>3. << >> \in Seq(Part)
  OBVIOUS
<1> HIDE DEF parts, good
<1>4. CASE reply.code # OK
  <2>1. Result(reply) = [code |-> reply.code, parts |-> << >>, more |-> FALSE]
    BY <1>4, Zenon DEF Result
  <2> QED
    BY <2>1, <1>2, <1>3 DEF Tolds
<1>5. CASE reply.code = OK /\ ~good
  <2>1. Result(reply) = [code |-> PARSER, parts |-> << >>, more |-> FALSE]
    BY <1>5 DEF Result, good
  <2> QED
    BY <2>1, <1>2, <1>3 DEF Tolds
<1>6. CASE reply.code = OK /\ good
  <2>1. Result(reply) = [code |-> OK, more |-> reply.next # 0, parts |-> parts]
    BY <1>6 DEF Result, good, parts
  <2> QED
    BY <2>1, <1>1, <1>2 DEF Tolds
<1> QED
  BY <1>4, <1>5, <1>6

(* A reply is about the request of the PDU that it answers, with its id.   *)
LEMMA ReplyTypes ==
  ASSUME SdpTypes, NEW pdu \in Pdus, NEW reply \in ServerReplies(pdu)
  PROVE  reply \in Replies /\ reply.id = pdu.id /\ reply.r = pdu.r
<1> DEFINE r == pdu.r
           rest == pdu.cont + 1 .. Size(r)
<1>1. r \in Known /\ r \in Nat /\ pdu.id \in Nat /\ pdu.cont \in Nat
  BY DEF Pdus, Known
<1>2. Size(r) \in Nat
  <2>1. answer \in Seq(Answers) /\ r \in 1 .. Len(answer)
    BY <1>1 DEF SdpTypes, Known
  <2> HIDE DEF r
  <2>2. answer[r] \in Answers
    BY <2>1
  <2> QED
    BY <2>2 DEF Size, Answers
<1>3. OK \in Codes /\ "error" \in Codes /\ "none" \in Codes
  BY DEF Codes
<1>4. CASE \E to \in rest :
             reply = Reply(pdu, OK, Parts(r, pdu.cont + 1, to),
                           IF to = Size(r) THEN 0 ELSE to, TRUE)
  <2>1. PICK to \in rest :
               reply = Reply(pdu, OK, Parts(r, pdu.cont + 1, to),
                             IF to = Size(r) THEN 0 ELSE to, TRUE)
    BY <1>4
  <2>a. /\ pdu.cont + 1 \in Nat \ {0} /\ to \in Nat
        /\ to + 1 >= pdu.cont + 1
    BY <1>1, <1>2
  <2>2. Parts(r, pdu.cont + 1, to) \in Seq(Part)
    BY <1>1, <2>a, PartsType, Zenon
  <2>3. (IF to = Size(r) THEN 0 ELSE to) \in Nat
    BY <1>1, <1>2
  <2> QED
    BY <1>1, <1>3, <2>1, <2>2, <2>3 DEF Reply, Replies
<1>5. CASE \E to \in rest :
             reply = Reply(pdu, OK, Parts(r, pdu.cont + 1, to), 0, TRUE)
  <2>1. PICK to \in rest :
               reply = Reply(pdu, OK, Parts(r, pdu.cont + 1, to), 0, TRUE)
    BY <1>5
  <2>a. /\ pdu.cont + 1 \in Nat \ {0} /\ to \in Nat
        /\ to + 1 >= pdu.cont + 1
    BY <1>1, <1>2
  <2>2. Parts(r, pdu.cont + 1, to) \in Seq(Part)
    BY <1>1, <2>a, PartsType, Zenon
  <2> QED
    BY <1>1, <1>3, <2>1, <2>2 DEF Reply, Replies
<1>6. CASE \E next \in {0, Size(r) + 1} :
             /\ rest # {}
             /\ reply = Reply(pdu, OK, Parts(r, pdu.cont + 1, Size(r) + 1),
                              next, TRUE)
  <2>1. PICK next \in {0, Size(r) + 1} :
             /\ rest # {}
             /\ reply = Reply(pdu, OK, Parts(r, pdu.cont + 1, Size(r) + 1),
                              next, TRUE)
    BY <1>6
  <2>a. /\ pdu.cont + 1 \in Nat \ {0} /\ Size(r) + 1 \in Nat
        /\ Size(r) + 1 + 1 >= pdu.cont + 1
    BY <1>1, <1>2, <2>1
  <2>2. Parts(r, pdu.cont + 1, Size(r) + 1) \in Seq(Part)
    BY <1>1, <2>a, PartsType, Zenon
  <2>3. next \in Nat
    BY <1>2
  <2> QED
    BY <1>1, <1>3, <2>1, <2>2, <2>3 DEF Reply, Replies
<1>7. CASE \/ reply = Reply(pdu, "error", << >>, 0, TRUE)
           \/ reply = Reply(pdu, "none", << >>, 0, TRUE)
           \/ reply = Reply(pdu, OK, << >>, 0, FALSE)
  <2>a. << >> \in Seq(Part)
    OBVIOUS
  <2>1. PICK none \in Seq(Part) : none = << >>
    BY <2>a, Zenon
  <2>2. PICK code \in Codes, good \in BOOLEAN :
               reply = Reply(pdu, code, none, 0, good)
    BY <1>3, <1>7, <2>1, Zenon
  <2> QED
    BY <1>1, <2>2 DEF Reply, Replies
<1> QED
  BY <1>4, <1>5, <1>6, <1>7 DEF ServerReplies

-----------------------------------------------------------------------------
(* Every step preserves the invariant.                                     *)
LEMMA SameKnown ==
  ASSUME answer' = answer
  PROVE  Known' = Known /\ Pdus' = Pdus /\ Replies' = Replies
  BY DEF Known, Pdus, Replies

LEMMA RequestInv ==
  ASSUME SdpInv, NEW kind \in Kinds, NEW size \in Sizes, Request(kind, size)
  PROVE  SdpInv'
<1> DEFINE n == Len(answer) + 1
           entry == [kind |-> kind, size |-> size]
           pdu == Pdu(next_id, n, 0)
<1>1. /\ answer \in Seq(Answers) /\ told \in Seq(Seq(Tolds))
      /\ Len(told) = Len(answer) /\ next_id \in Nat /\ Len(answer) \in Nat
      /\ to_server \in Seq(Pdus) /\ to_client \in Seq(Replies)
  BY DEF SdpInv, SdpTypes
<1>2. entry \in Answers /\ << >> \in Seq(Tolds) /\ Len(<< >>) = 0
  BY SdpSizeAssumption DEF Answers
<1>3. /\ last_req' = [r |-> n, id |-> next_id]
      /\ answer' = Append(answer, entry) /\ told' = Append(told, << >>)
      /\ to_server' = Append(to_server, pdu)
      /\ to_client' = to_client
  BY DEF Request
<1> HIDE DEF entry
<1>4. /\ answer' \in Seq(Answers) /\ Len(answer') = n
      /\ \A r \in 1 .. Len(answer) : answer'[r] = answer[r]
  BY <1>1, <1>2, <1>3
<1>5. /\ told' \in Seq(Seq(Tolds)) /\ Len(told') = n
      /\ \A r \in 1 .. Len(answer) : told'[r] = told[r]
      /\ told'[n] = << >>
  <2>1. PICK none \in Seq(Tolds) : none = << >>
    BY <1>2, Zenon
  <2>2. told' = Append(told, none)
    BY <1>3, <2>1
  <2> QED
    BY <1>1, <2>1, <2>2, Appending
<1>6. Known \subseteq Known' /\ n \in Known'
  BY <1>1, <1>4 DEF Known
<1>7. Pdus \subseteq Pdus' /\ Replies \subseteq Replies' /\ pdu \in Pdus'
  BY <1>1, <1>6 DEF Pdus, Replies, Pdu
<1>8. /\ to_server' \in Seq(Pdus') /\ to_client' \in Seq(Replies')
      /\ Len(to_server) + 1 \in DOMAIN to_server'
      /\ to_server'[Len(to_server) + 1] = pdu
  <2>1. to_server \in Seq(Pdus') /\ to_client \in Seq(Replies')
    BY <1>1, <1>7
  <2> HIDE DEF pdu
  <2> QED
    BY <1>3, <1>7, <2>1
<1>9. SdpTypes'
  <2>1. last_req' \in [r : Nat, id : Nat]
    BY <1>1, <1>3
  <2>2. list' \in Seq(Part)
    BY DEF SdpInv, SdpTypes, Request, NewList, NoList
  <2>3. next_id' \in Nat
    BY <1>1, NextIdType DEF Request
  <2> QED
    BY <1>3, <1>4, <1>5, <1>8, <2>1, <2>2, <2>3 DEF SdpInv, SdpTypes
<1>10. last_req'.r = n /\ last_req'.id = next_id
  BY <1>3
<1>11. PendingOpen'
  BY <1>5, <1>6, <1>10 DEF PendingOpen
<1>12. Coming'
  <2>1. pdu.id = next_id /\ pdu.r = n
    BY DEF Pdu
  <2> QED
    BY <1>8, <1>10, <2>1 DEF Coming
<1>13. OneLastCallback'
  <2> SUFFICES ASSUME NEW r \in DOMAIN answer'
               PROVE  /\ \A i \in 1 .. Len(told'[r]) - 1 :
                           told'[r][i].more /\ told'[r][i].code = OK
                      /\ answer'[r].kind = "attr" => Len(told'[r]) <= 1
    BY DEF OneLastCallback, Kind
  <2>1. r \in 1 .. n
    BY <1>4
  <2>2. CASE r = n
    BY <1>2, <1>5, <2>2
  <2>3. CASE r \in 1 .. Len(answer)
    <3>1. answer'[r] = answer[r] /\ told'[r] = told[r]
      BY <1>4, <1>5, <2>3, Zenon
    <3>2. r \in DOMAIN answer
      BY <1>1, <2>3
    <3> QED
      BY <3>1, <3>2 DEF SdpInv, OneLastCallback, Kind
  <2> QED
    BY <1>1, <2>1, <2>2, <2>3
<1> QED
  BY <1>9, <1>11, <1>12, <1>13 DEF SdpInv

(* The steps that leave the requests and what was told of them alone.      *)
LEMMA RequestsSame ==
  ASSUME SdpInv, UNCHANGED <<last_req, list, answer, told>>, next_id' \in Nat,
         to_server' \in Seq(Pdus), to_client' \in Seq(Replies), Coming'
  PROVE  SdpInv'
<1>1. SdpTypes'
  BY SameKnown DEF SdpInv, SdpTypes
<1>2. PendingOpen' /\ OneLastCallback'
  BY DEF SdpInv, PendingOpen, OneLastCallback, Pending, Kind, Known
<1> QED
  BY <1>1, <1>2 DEF SdpInv

(* The steps that close the channel and those that change nothing but the  *)
(* references to the client.                                               *)
Closes ==
  /\ channel' = "closed" /\ to_server' = << >> /\ to_client' = << >>
  /\ UNCHANGED <<last_req, list, next_id, answer, failures, told, repeats, stuck>>
Still ==
  UNCHANGED <<last_req, list, next_id, answer, failures, told, channel, to_server,
              to_client, repeats, stuck>>

LEMMA ClosingSteps ==
  /\ ChannelLost \/ MessageAfterFree => Closes
  /\ \A keeps \in BOOLEAN : Unref(keeps) => Closes \/ Still
  /\ Ref \/ UNCHANGED vars => Still
<1>1. ChannelLost \/ MessageAfterFree => Closes
  BY DEF ChannelLost, MessageAfterFree, Closes, requestVars
<1>2. ASSUME NEW keeps \in BOOLEAN, Unref(keeps) PROVE Closes \/ Still
  BY <1>2 DEF Unref, Closes, Still, requestVars
<1>3. Ref \/ UNCHANGED vars => Still
  BY DEF Ref, Still, requestVars, peerVars, vars
<1> QED
  BY <1>1, <1>2, <1>3

LEMMA ClosedInv ==
  ASSUME SdpInv, Closes
  PROVE  SdpInv'
<1>1. Coming'
  BY DEF Closes, Coming
<1>2. to_server' \in Seq(Pdus) /\ to_client' \in Seq(Replies)
  <2>1. to_server' = << >> /\ to_client' = << >>
    BY DEF Closes
  <2> QED
    BY <2>1
<1>3. next_id' \in Nat
  BY DEF Closes, SdpInv, SdpTypes
<1> QED
  BY <1>1, <1>2, <1>3, RequestsSame DEF Closes

LEMMA StillInv ==
  ASSUME SdpInv, Still
  PROVE  SdpInv'
  BY SameKnown
     DEF Still, SdpInv, SdpTypes, PendingOpen, Coming, OneLastCallback, Pending,
         Kind, Known

LEMMA RequestFailsInv ==
  ASSUME SdpInv, RequestFails
  PROVE  SdpInv'
<1>1. Coming'
  BY DEF RequestFails, Coming, Pending
<1>2. next_id' \in Nat
  BY NextIdType DEF RequestFails, SdpInv, SdpTypes
<1> QED
  BY <1>1, <1>2, RequestsSame DEF RequestFails, peerVars, SdpInv, SdpTypes

(* Of what is ignored, only an error without a code could have been the    *)
(* answer, and then the request is stuck.                                  *)
LEMMA IgnoreInv ==
  ASSUME SdpInv, IgnoreMessage
  PROVE  SdpInv'
<1> DEFINE reply == Head(to_client)
<1>1. /\ reply \in Replies /\ reply = to_client[1]
      /\ to_client' \in Seq(Replies) /\ Len(to_client') = Len(to_client) - 1
      /\ \A i \in 1 .. Len(to_client) - 1 : to_client'[i] = to_client[i + 1]
      /\ Len(to_client) \in Nat
  BY Consuming DEF SdpInv, SdpTypes, IgnoreMessage
<1>2. Coming'
  <2> SUFFICES ASSUME Pending', channel' = "open", last_req'.r \notin stuck'
               PROVE  \/ \E i \in DOMAIN to_server' :
                           /\ to_server'[i].id = last_req'.id
                           /\ to_server'[i].r = last_req'.r
                      \/ \E i \in DOMAIN to_client' :
                           /\ to_client'[i].id = last_req'.id
                           /\ to_client'[i].r = last_req'.r
    BY DEF Coming
  <2>1. UNCHANGED <<last_req, channel, to_server>>
    BY DEF IgnoreMessage, requestVars
  <2>2. Pending /\ channel = "open" /\ last_req.r \notin stuck
    BY <2>1 DEF Pending, IgnoreMessage
  <2>3. reply.id = last_req.id => reply.code # "none"
    BY <2>1, <2>2 DEF IgnoreMessage
  <2>4. ~(reply.id = last_req.id /\ reply.r = last_req.r)
    BY <2>2, <2>3 DEF IgnoreMessage, Matches
  <2>5. CASE \E i \in DOMAIN to_server : /\ to_server[i].id = last_req.id
                                         /\ to_server[i].r = last_req.r
    BY <2>1, <2>5
  <2>6. CASE \E i \in DOMAIN to_client : /\ to_client[i].id = last_req.id
                                         /\ to_client[i].r = last_req.r
    <3>1. PICK i \in DOMAIN to_client : /\ to_client[i].id = last_req.id
                                        /\ to_client[i].r = last_req.r
      BY <2>6
    <3>2. i \in 1 .. Len(to_client) /\ i # 1
      BY <1>1, <2>4, <3>1 DEF SdpInv, SdpTypes
    <3>3. i - 1 \in DOMAIN to_client' /\ to_client'[i - 1] = to_client[i]
      BY <1>1, <3>2
    <3> QED
      BY <2>1, <3>1, <3>3
  <2> QED
    BY <2>2, <2>5, <2>6 DEF SdpInv, Coming
<1> QED
  BY <1>1, <1>2, RequestsSame DEF IgnoreMessage, requestVars, SdpInv, SdpTypes

LEMMA AnswersInv ==
  ASSUME SdpInv, ServerAnswers
  PROVE  SdpInv'
<1> DEFINE pdu == Head(to_server)
<1>1. /\ pdu \in Pdus /\ pdu = to_server[1]
      /\ to_server' \in Seq(Pdus) /\ Len(to_server') = Len(to_server) - 1
      /\ \A i \in 1 .. Len(to_server) - 1 : to_server'[i] = to_server[i + 1]
      /\ Len(to_server) \in Nat
  BY Consuming DEF SdpInv, SdpTypes, ServerAnswers
<1>2. PICK reply \in ServerReplies(pdu) : to_client' = Append(to_client, reply)
  BY DEF ServerAnswers
<1>3. reply \in Replies /\ reply.id = pdu.id /\ reply.r = pdu.r
  BY <1>1, ReplyTypes DEF SdpInv
<1>4. /\ to_client' \in Seq(Replies) /\ Len(to_client') = Len(to_client) + 1
      /\ \A i \in 1 .. Len(to_client) : to_client'[i] = to_client[i]
      /\ to_client'[Len(to_client) + 1] = reply
      /\ Len(to_client) \in Nat
  BY <1>2, <1>3, Appending DEF SdpInv, SdpTypes
<1>5. Coming'
  <2> SUFFICES ASSUME Pending', channel' = "open", last_req'.r \notin stuck'
               PROVE  \/ \E i \in DOMAIN to_server' :
                           /\ to_server'[i].id = last_req'.id
                           /\ to_server'[i].r = last_req'.r
                      \/ \E i \in DOMAIN to_client' :
                           /\ to_client'[i].id = last_req'.id
                           /\ to_client'[i].r = last_req'.r
    BY DEF Coming
  <2>1. UNCHANGED <<last_req, channel, stuck>>
    BY DEF ServerAnswers, requestVars
  <2>2. Pending /\ channel = "open" /\ last_req.r \notin stuck
    BY <2>1 DEF Pending
  <2>3. CASE \E i \in DOMAIN to_server : /\ to_server[i].id = last_req.id
                                         /\ to_server[i].r = last_req.r
    <3>1. PICK i \in DOMAIN to_server : /\ to_server[i].id = last_req.id
                                        /\ to_server[i].r = last_req.r
      BY <2>3
    <3>2. i \in 1 .. Len(to_server)
      BY <3>1 DEF SdpInv, SdpTypes
    <3>3. CASE i = 1
      <4>1. Len(to_client) + 1 \in DOMAIN to_client'
        BY <1>4
      <4> QED
        BY <1>1, <1>3, <1>4, <2>1, <3>1, <3>3, <4>1
    <3>4. CASE i # 1
      <4>1. i - 1 \in DOMAIN to_server' /\ to_server'[i - 1] = to_server[i]
        BY <1>1, <3>2, <3>4
      <4> QED
        BY <2>1, <3>1, <4>1
    <3> QED
      BY <3>3, <3>4
  <2>4. CASE \E i \in DOMAIN to_client : /\ to_client[i].id = last_req.id
                                         /\ to_client[i].r = last_req.r
    <3>1. PICK i \in DOMAIN to_client : /\ to_client[i].id = last_req.id
                                        /\ to_client[i].r = last_req.r
      BY <2>4
    <3>2. i \in 1 .. Len(to_client)
      BY <3>1 DEF SdpInv, SdpTypes
    <3>3. i \in DOMAIN to_client' /\ to_client'[i] = to_client[i]
      BY <1>4, <3>2
    <3> QED
      BY <2>1, <3>1, <3>3
  <2> QED
    BY <2>2, <2>3, <2>4 DEF SdpInv, Coming
<1> QED
  BY <1>1, <1>4, <1>5, RequestsSame
     DEF ServerAnswers, requestVars, SdpInv, SdpTypes

LEMMA RepeatsInv ==
  ASSUME SdpInv, ServerRepeats
  PROVE  SdpInv'
<1>1. Last(to_client) \in Replies
  <2>1. to_client \in Seq(Replies) /\ to_client # << >>
    BY DEF SdpInv, SdpTypes, ServerRepeats
  <2> QED
    BY <2>1 DEF Last
<1>2. /\ to_client' \in Seq(Replies) /\ Len(to_client') = Len(to_client) + 1
      /\ \A i \in 1 .. Len(to_client) : to_client'[i] = to_client[i]
      /\ Len(to_client) \in Nat /\ DOMAIN to_client = 1 .. Len(to_client)
  BY <1>1, Appending DEF SdpInv, SdpTypes, ServerRepeats
<1>3. \A i \in DOMAIN to_client :
        i \in DOMAIN to_client' /\ to_client'[i] = to_client[i]
  BY <1>2
<1>4. Coming'
  BY <1>3 DEF SdpInv, Coming, Pending, ServerRepeats, requestVars
<1> QED
  BY <1>2, <1>4, RequestsSame DEF ServerRepeats, requestVars, SdpInv, SdpTypes

(* A message for the pending request: if the answer is not complete, the   *)
(* callback was told that there is more or not called, and the rest was    *)
(* asked for unless that failed or the client is gone.                     *)
LEMMA MessageInv ==
  ASSUME SdpInv, NEW wants_more \in BOOLEAN, NEW drops \in BOOLEAN,
         NEW keeps \in BOOLEAN, OnMessage(wants_more, drops, keeps)
  PROVE  SdpInv'
<1> DEFINE reply == Head(to_client)
           result == Result(reply)
           called == Called(Kind(last_req.r), result.more)
           complete == ~result.more \/ (Kind(last_req.r) = "search" /\ ~wants_more)
           within == refs + TempRef - (IF called /\ drops THEN 1 ELSE 0)
           gone == LosesChannel(within - TempRef, keeps)
           last == last_req.r
           given == [result EXCEPT !.more = ~complete]
<1>1. Pending /\ last \in Known /\ to_client # << >>
  BY DEF OnMessage, Matches, SdpInv, PendingOpen
<1>2. reply \in Replies /\ Tail(to_client) \in Seq(Replies)
  BY <1>1, Consuming DEF SdpInv, SdpTypes
<1>3. /\ result \in Tolds /\ result.more \in BOOLEAN
      /\ result.more => result.code = OK
  BY <1>2, ResultType DEF SdpInv, Tolds
<1>4. AttrReply(reply).list \in Seq(Part)
  BY <1>2, AttrType DEF SdpInv
<1>5. /\ answer' = answer
      /\ told' = IF called THEN [told EXCEPT ![last] = Append(@, given)]
                 ELSE told
      /\ list' = IF Kind(last) = "attr" /\ reply.code = OK
                 THEN AttrReply(reply).list ELSE list
      /\ channel' = IF gone THEN "closed" ELSE channel
      /\ to_client' = IF gone THEN << >> ELSE Tail(to_client)
  BY DEF OnMessage
<1>6. /\ complete => last_req' = NoRequest /\ UNCHANGED next_id
      /\ complete => to_server' = IF gone THEN << >> ELSE to_server
      /\ ~complete /\ gone => /\ UNCHANGED last_req /\ to_server' = << >>
                              /\ next_id' = NextId(next_id)
      /\ ~complete /\ ~gone => Continue(reply)
  BY DEF OnMessage
<1>7. Kind(last) \in Kinds
  <2>1. answer \in Seq(Answers) /\ last \in 1 .. Len(answer)
    BY <1>1 DEF SdpInv, SdpTypes, Known
  <2> HIDE DEF last
  <2>2. answer[last] \in Answers
    BY <2>1
  <2> QED
    BY <2>2 DEF Kind, Answers
<1>8. PICK over \in BOOLEAN : over = complete
  OBVIOUS
<1>10. PICK told_now \in BOOLEAN : told_now = called
  BY DEF Called
<1>11. /\ given \in Tolds /\ given.more = ~over
       /\ ~over => given.code = OK
  <2>1. given = [result EXCEPT !.more = ~over]
    BY <1>8
  <2>2. ~over => result.code = OK
    BY <1>3, <1>8
  <2> HIDE DEF given, result, reply, complete
  <2> QED
    BY <1>3, <2>1, <2>2 DEF Tolds
<1>12. Kind(last) = "attr" /\ ~over => ~told_now
  BY <1>8, <1>10 DEF Called
<1> HIDE DEF reply, result, called, complete, within, gone, given
<1>13. PICK prior \in Seq(Tolds) : prior = told[last]
  <2>1. told \in Seq(Seq(Tolds)) /\ last \in 1 .. Len(told)
    BY <1>1 DEF SdpInv, SdpTypes, Known
  <2> HIDE DEF last
  <2> QED
    BY <2>1
<1>14. PICK now \in Seq(Tolds) :
         /\ now = IF told_now THEN Append(prior, given) ELSE prior
         /\ told_now => /\ Len(now) = Len(prior) + 1
                        /\ \A i \in 1 .. Len(prior) : now[i] = prior[i]
                        /\ now[Len(prior) + 1] = given
  <2>1. given \in Tolds
    BY <1>11
  <2>2. /\ Append(prior, given) \in Seq(Tolds)
        /\ Len(Append(prior, given)) = Len(prior) + 1
        /\ \A i \in 1 .. Len(prior) : Append(prior, given)[i] = prior[i]
        /\ Append(prior, given)[Len(prior) + 1] = given
    BY <2>1, Appending
  <2>3. CASE told_now
    BY <2>2, <2>3
  <2>4. CASE ~told_now
    BY <2>4
  <2> QED BY <2>3, <2>4
<1>15. /\ told' \in Seq(Seq(Tolds)) /\ Len(told') = Len(told)
       /\ \A r \in 1 .. Len(told) : told'[r] = IF r = last THEN now ELSE told[r]
  <2>1. told \in Seq(Seq(Tolds)) /\ last \in 1 .. Len(told)
    BY <1>1 DEF SdpInv, SdpTypes, Known
  <2>2. told' = IF told_now THEN [told EXCEPT ![last] = Append(prior, given)]
                ELSE told
    BY <1>5, <1>10, <1>13
  <2>3. CASE told_now
    <3>1. told' = [told EXCEPT ![last] = now]
      BY <1>14, <2>2, <2>3
    <3> HIDE DEF last
    <3> QED
      BY <2>1, <3>1, Changing
  <2>4. CASE ~told_now
    BY <1>13, <1>14, <2>1, <2>2, <2>4
  <2> QED
    BY <2>3, <2>4
<1>16. Len(told) = Len(answer) /\ Len(answer) \in Nat /\ answer \in Seq(Answers)
  BY DEF SdpInv, SdpTypes
<1>17. \A i \in 1 .. Len(prior) : prior[i].more /\ prior[i].code = OK
  BY <1>1, <1>13 DEF SdpInv, PendingOpen
<1>18. Kind(last) = "attr" => prior = << >>
  BY <1>1, <1>13 DEF SdpInv, PendingOpen
<1>19. SdpTypes'
  <2>1. list' \in Seq(Part)
    BY <1>4, <1>5 DEF SdpInv, SdpTypes
  <2>2. to_client' \in Seq(Replies)'
    <3>1. to_client' \in Seq(Replies)
      BY <1>2, <1>5
    <3> QED
      BY <1>5, <3>1, SameKnown
  <2>3. next_id' \in Nat
    BY <1>6, NextIdType DEF SdpInv, SdpTypes, Continue
  <2>4. last_req' \in [r : Nat, id : Nat]
    BY <1>6 DEF SdpInv, SdpTypes, Continue, NoRequest
  <2>5. to_server' \in Seq(Pdus)'
    <3>1. Pdu(next_id, last, reply.next) \in Pdus
      BY <1>1, <1>2 DEF SdpInv, SdpTypes, Pdu, Pdus, Replies
    <3>2. << >> \in Seq(Pdus) /\ to_server \in Seq(Pdus)
      BY DEF SdpInv, SdpTypes
    <3>3. Append(to_server, Pdu(next_id, last, reply.next)) \in Seq(Pdus)
      BY <3>1, <3>2, Appending
    <3>4. to_server' \in Seq(Pdus)
      BY <1>6, <3>2, <3>3 DEF Continue
    <3> QED
      BY <1>5, <3>4, SameKnown
  <2> QED
    BY <1>5, <1>15, <1>16, <2>1, <2>2, <2>3, <2>4, <2>5 DEF SdpInv, SdpTypes
<1>20. Pending' => last_req'.r = last /\ ~over
  BY <1>6, <1>8 DEF Pending, Continue, SdpInv, SdpTypes
<1>21. PendingOpen'
  <2> SUFFICES ASSUME Pending'
               PROVE  /\ last \in Known'
                      /\ \A i \in DOMAIN told'[last] :
                           told'[last][i].more /\ told'[last][i].code = OK
                      /\ answer'[last].kind = "attr" => told'[last] = << >>
    BY <1>20 DEF PendingOpen, Kind
  <2>1. ~over
    BY <1>20
  <2>2. last \in Known' /\ told'[last] = now /\ answer'[last] = answer[last]
    BY <1>1, <1>5, <1>15, <1>16 DEF Known
  <2>3. ASSUME NEW i \in 1 .. Len(now)
        PROVE  now[i].more /\ now[i].code = OK
    <3>1. CASE i \in 1 .. Len(prior)
      BY <1>14, <1>17, <3>1
    <3>2. CASE i \notin 1 .. Len(prior)
      <4>1. now[i] = given
        BY <1>14, <2>3, <3>2
      <4> QED
        BY <1>11, <2>1, <4>1
    <3> QED
      BY <3>1, <3>2
  <2>4. Kind(last) = "attr" => now = << >>
    BY <1>12, <1>14, <1>18, <2>1
  <2>5. DOMAIN now = 1 .. Len(now)
    OBVIOUS
  <2> QED
    BY <2>2, <2>3, <2>4, <2>5 DEF Kind
<1>22. Coming'
  <2> SUFFICES ASSUME Pending', channel' = "open", last_req'.r \notin stuck'
               PROVE  \E i \in DOMAIN to_server' :
                        /\ to_server'[i].id = last_req'.id
                        /\ to_server'[i].r = last_req'.r
    BY DEF Coming
  <2>1. ~complete /\ ~gone
    BY <1>5, <1>8, <1>20
  <2>2. last_req'.r = last
    BY <1>20
  <2>3. /\ last_req' = [last_req EXCEPT !.id = next_id]
        /\ to_server' = Append(to_server, Pdu(next_id, last, reply.next))
    BY <1>6, <2>1, <2>2 DEF Continue
  <2>4. last_req'.id = next_id
    BY <2>3 DEF SdpInv, SdpTypes
  <2>5. /\ Len(to_server) + 1 \in DOMAIN to_server'
        /\ to_server'[Len(to_server) + 1] = Pdu(next_id, last, reply.next)
    BY <2>3 DEF SdpInv, SdpTypes
  <2> QED
    BY <2>2, <2>4, <2>5 DEF Pdu
<1>23. OneLastCallback'
  <2> SUFFICES ASSUME NEW r \in 1 .. Len(answer)
               PROVE  /\ \A i \in 1 .. Len(told'[r]) - 1 :
                           told'[r][i].more /\ told'[r][i].code = OK
                      /\ answer[r].kind = "attr" => Len(told'[r]) <= 1
    BY <1>5, <1>16 DEF OneLastCallback, Kind
  <2>1. CASE r # last
    <3>1. told'[r] = told[r] /\ r \in DOMAIN answer
      BY <1>15, <1>16, <2>1
    <3> QED
      BY <3>1 DEF SdpInv, OneLastCallback, Kind
  <2>2. CASE r = last
    <3>1. told'[r] = now
      BY <1>15, <1>16, <2>2
    <3>2. ASSUME NEW i \in 1 .. Len(now) - 1
          PROVE  now[i].more /\ now[i].code = OK
      BY <1>14, <1>17
    <3>3. Kind(last) = "attr" => Len(now) <= 1
      <4>1. prior = << >> => Len(prior) = 0
        OBVIOUS
      <4> QED
        BY <1>14, <1>18, <4>1
    <3> QED
      BY <2>2, <3>1, <3>2, <3>3 DEF Kind
  <2> QED
    BY <2>1, <2>2
<1> QED
  BY <1>19, <1>21, <1>22, <1>23 DEF SdpInv

LEMMA SdpInductive == SdpInv /\ [Next]_vars => SdpInv'
<1> SUFFICES ASSUME SdpInv, [Next]_vars PROVE SdpInv'
  OBVIOUS
<1>1. ASSUME NEW kind \in Kinds, NEW size \in Sizes, Request(kind, size)
      PROVE  SdpInv'
  BY <1>1, RequestInv
<1>2. ASSUME NEW wants_more \in BOOLEAN, NEW drops \in BOOLEAN,
             NEW keeps \in BOOLEAN, OnMessage(wants_more, drops, keeps)
      PROVE  SdpInv'
  BY <1>2, MessageInv
<1> QED
  BY <1>1, <1>2, ClosingSteps, ClosedInv, StillInv, RequestFailsInv, IgnoreInv,
     AnswersInv, RepeatsInv, Zenon
     DEF Next, MessageArrives

LEMMA SdpInitially == Init => SdpInv
<1> SUFFICES ASSUME Init PROVE SdpInv
  OBVIOUS
<1>1. /\ list = << >> /\ told = << >> /\ answer = << >> /\ to_server = << >>
      /\ to_client = << >> /\ last_req = NoRequest /\ next_id = 0
  BY DEF Init, NoList
<1>2. /\ list \in Seq(Part) /\ told \in Seq(Seq(Tolds)) /\ answer \in Seq(Answers)
      /\ to_server \in Seq(Pdus) /\ to_client \in Seq(Replies)
      /\ Len(told) = Len(answer)
  <2>1. \A S : << >> \in Seq(S)
    OBVIOUS
  <2> QED
    BY <1>1, <2>1, Zenon
<1>6. last_req \in [r : Nat, id : Nat]
  BY <1>1 DEF NoRequest
<1>7. next_id \in Nat
  BY <1>1
<1>3. SdpTypes
  BY <1>2, <1>6, <1>7 DEF SdpTypes
<1>4. PendingOpen /\ Coming
  BY <1>1 DEF PendingOpen, Coming, Pending
<1>5. OneLastCallback
  BY <1>1 DEF OneLastCallback
<1> QED
  BY <1>3, <1>4, <1>5 DEF SdpInv

LEMMA SdpAlways == Spec => []SdpInv
  BY SdpInitially, SdpInductive, PTL DEF Spec

-----------------------------------------------------------------------------
(* A request has one last callback, and that of an attribute request is    *)
(* called no more than once, whatever the server sends and whatever        *)
(* transaction ids are reused (on_message_received).                       *)
THEOREM OneLast == Spec => []OneLastCallback
<1>1. SdpInv => OneLastCallback
  BY DEF SdpInv
<1> QED
  BY <1>1, SdpAlways, PTL

(* While the client refuses requests, what it waits for is on its way or   *)
(* can no longer come (on_message_received, send_continuation_request).    *)
THEOREM WaitsForAnswer == Spec => []WaitsOnlyForAnswer
<1>1. SdpInv => WaitsOnlyForAnswer
  BY DEF SdpInv, Coming, WaitsOnlyForAnswer
<1> QED
  BY <1>1, SdpAlways, PTL

(* A client that is freed has nothing to come on a channel that the        *)
(* application did not keep, and has not been used.                        *)
FreedInv ==
  /\ refs \in Nat
  /\ refs > 0 => ~dangling
  /\ refs = 0 => kept \/ channel = "closed"
  /\ channel = "closed" => to_server = << >> /\ to_client = << >>
  /\ NotUsedFreed

LEMMA FreedInductive ==
  ASSUME FreedInv, [Next]_vars
  PROVE  FreedInv'
<1> USE DEF FreedInv, NotUsedFreed
<1>1. CASE Ref \/ UNCHANGED vars
  BY <1>1 DEF Ref, vars, peerVars
<1>2. ASSUME NEW keeps \in BOOLEAN, Unref(keeps) PROVE FreedInv'
  BY <1>2 DEF Unref, LosesChannel
<1>3. ASSUME NEW kind \in Kinds, NEW size \in Sizes, Request(kind, size)
      PROVE  FreedInv'
  BY <1>3 DEF Request, MaySend
<1>4. CASE RequestFails \/ IgnoreMessage \/ ChannelLost
  BY <1>4 DEF RequestFails, IgnoreMessage, ChannelLost, peerVars
<1>5. CASE MessageAfterFree
  BY <1>5 DEF MessageAfterFree
<1>6. CASE ServerAnswers \/ ServerRepeats
  BY <1>6 DEF ServerAnswers, ServerRepeats
<1>7. ASSUME NEW wants_more \in BOOLEAN, NEW drops \in BOOLEAN,
             NEW keeps \in BOOLEAN, OnMessage(wants_more, drops, keeps)
      PROVE  FreedInv'
  <2> DEFINE reply == Head(to_client)
             called == Called(Kind(last_req.r), Result(reply).more)
             within == refs + TempRef - (IF called /\ drops THEN 1 ELSE 0)
             closes == LosesChannel(within - TempRef, keeps)
  <2>1. /\ refs > 0 /\ to_client # << >>
        /\ refs' = within - TempRef
        /\ kept' = (within = TempRef /\ keeps)
        /\ dangling' = (dangling \/ within = 0)
        /\ channel' = IF closes THEN "closed" ELSE channel
        /\ to_client' = IF closes THEN << >> ELSE Tail(to_client)
        /\ closes => to_server' = << >>
    BY <1>7 DEF OnMessage
  <2>2. within \in {refs, refs + 1} /\ TempRef = 1
    BY DEF TempRef
  <2> HIDE DEF within, called
  <2>3. refs' \in Nat /\ ~dangling' /\ channel # "closed"
    <3>1. refs' \in Nat /\ within # 0
      BY <2>1, <2>2
    <3>2. ~dangling' /\ channel # "closed"
      BY <2>1, <3>1, Zenon
    <3> QED
      BY <3>1, <3>2
  <2>4. refs' = 0 => within = TempRef
    BY <2>1, <2>2
  <2>5. CASE closes
    BY <2>1, <2>3, <2>5
  <2>6. CASE ~closes
    BY <2>1, <2>3, <2>4, <2>6 DEF LosesChannel
  <2> QED
    BY <2>5, <2>6
<1> QED
  BY <1>1, <1>2, <1>3, <1>4, <1>5, <1>6, <1>7 DEF Next, MessageArrives

(* The client is used after it is freed only by a message on a channel     *)
(* that the application kept: a callback that drops the last reference     *)
(* does not free it under on_message_received, and nothing comes on a      *)
(* channel that went with it (bte_sdp_client_unref, bte_sdp_client_free).  *)
THEOREM NeverUsedFreed == Spec => []NotUsedFreed
<1>1. Init => FreedInv
  BY DEF Init, FreedInv, NotUsedFreed
<1>2. FreedInv /\ [Next]_vars => FreedInv'
  BY FreedInductive
<1>3. FreedInv => NotUsedFreed
  BY DEF FreedInv
<1> QED
  BY <1>1, <1>2, <1>3, PTL DEF Spec

-----------------------------------------------------------------------------
(* A set of numbers has a least one: what induction over the naturals      *)
(* stands on here.                                                         *)
LEMMA LeastNat ==
  ASSUME NEW T, T \subseteq Nat, T # {}
  PROVE  \E n \in T : \A m \in T : n <= m
<1> DEFINE R == OpToRel(<, Nat)
<1>1. IsWellFoundedOn(R, Nat)
  BY NatLessThanWellFounded
<1> HIDE DEF R
<1>2. PICK n \in T : \A m \in T : ~ (<<m, n>> \in R)
  BY <1>1, WFMin
<1>3. \A m \in T : ~(m < n)
  BY <1>2 DEF R, OpToRel
<1> QED
  BY <1>3

-----------------------------------------------------------------------------
(* FlattenSeq, by which the parts that a request was told are put together. *)
FlatBody(f, s, i) == IF i = 1 THEN s[i] ELSE f[i - 1] \o s[i]
Flat(f, s, k) == f = [i \in 1 .. k |-> IF i = 1 THEN s[i] ELSE f[i - 1] \o s[i]]

LEMMA FlatExists ==
  ASSUME NEW s, NEW k \in Nat
  PROVE  \E f : Flat(f, s, k)
<1> DEFINE T == {n \in Nat : ~ \E f : Flat(f, s, n)}
<1> SUFFICES ASSUME T # {} PROVE FALSE
  OBVIOUS
<1>1. PICK n \in T : \A m \in T : n <= m
  <2>1. T \subseteq Nat
    OBVIOUS
  <2> HIDE DEF T
  <2> QED BY <2>1, LeastNat
<1>2. CASE n = 0
  <2>1. Flat([i \in 1 .. 0 |-> s[i]], s, 0)
    BY DEF Flat
  <2> QED
    BY <1>2, <2>1
<1>3. CASE n # 0
  <2>1. n - 1 \in Nat /\ n - 1 \notin T
    BY <1>1, <1>3
  <2>2. PICK g : Flat(g, s, n - 1)
    BY <2>1
  <2> DEFINE f == [i \in 1 .. n |-> IF i = n THEN FlatBody(g, s, n) ELSE g[i]]
  <2>3. \A i \in 1 .. n - 1 : g[i] = FlatBody(g, s, i)
    BY <2>2 DEF Flat, FlatBody
  <2>4. \A i \in 1 .. n : f[i] = FlatBody(f, s, i)
    <3> TAKE i \in 1 .. n
    <3>1. CASE i = n
      <4>1. i # 1 => f[i - 1] = g[n - 1]
        BY <1>3, <3>1
      <4> QED
        BY <1>3, <3>1, <4>1 DEF FlatBody
    <3>2. CASE i # n
      <4>1. f[i] = g[i] /\ i \in 1 .. n - 1
        BY <3>2
      <4>2. i # 1 => f[i - 1] = g[i - 1]
        BY <3>2
      <4>3. g[i] = FlatBody(g, s, i)
        BY <2>3, <4>1
      <4> HIDE DEF f
      <4> QED
        BY <4>1, <4>2, <4>3 DEF FlatBody
    <3> QED BY <3>1, <3>2
  <2>5. Flat(f, s, n)
    <3>1. f = [i \in 1 .. n |-> f[i]]
      OBVIOUS
    <3> HIDE DEF f
    <3>2. f = [i \in 1 .. n |-> FlatBody(f, s, i)]
      BY <2>4, <3>1
    <3> QED BY <3>2 DEF Flat, FlatBody
  <2> QED
    BY <2>5
<1> QED
  BY <1>2, <1>3

LEMMA FlatSteps ==
  ASSUME NEW s, NEW k \in Nat, NEW f, Flat(f, s, k)
  PROVE  \A i \in 1 .. k : f[i] = FlatBody(f, s, i)
  BY DEF Flat, FlatBody

LEMMA FlattenIs ==
  ASSUME NEW S, NEW s \in Seq(S), Len(s) # 0
  PROVE  \E f : /\ FlattenSeq(s) = f[Len(s)]
                /\ \A i \in 1 .. Len(s) : f[i] = FlatBody(f, s, i)
<1> DEFINE chosen == CHOOSE f : Flat(f, s, Len(s))
<1>1. Flat(chosen, s, Len(s))
  <2>1. Len(s) \in Nat
    OBVIOUS
  <2>2. \E f : Flat(f, s, Len(s))
    BY <2>1, FlatExists, Zenon
  <2> QED BY <2>2, Zenon
<1>2. FlattenSeq(s) = chosen[Len(s)]
  BY DEF FlattenSeq, Flat
<1>3. Len(s) \in Nat
  OBVIOUS
<1> HIDE DEF chosen
<1>4. \A i \in 1 .. Len(s) : chosen[i] = FlatBody(chosen, s, i)
  BY <1>1, <1>3, FlatSteps
<1> QED
  BY <1>2, <1>4

(* What was told is put together in order.                                 *)
LEMMA FlattenOne ==
  ASSUME NEW x
  PROVE  FlattenSeq(<<x>>) = x
<1>1. <<x>> \in Seq({x}) /\ Len(<<x>>) = 1 /\ <<x>>[1] = x
  OBVIOUS
<1>2. PICK s \in Seq({x}) : s = <<x>>
  BY <1>1
<1>3. Len(s) = 1 /\ s[1] = x
  BY <1>1, <1>2
<1>4. PICK f : /\ FlattenSeq(s) = f[Len(s)]
               /\ \A i \in 1 .. Len(s) : f[i] = FlatBody(f, s, i)
  BY <1>3, FlattenIs
<1>5. FlattenSeq(s) = x
  BY <1>3, <1>4 DEF FlatBody
<1> QED
  BY <1>2, <1>5

LEMMA FlattenAppend ==
  ASSUME NEW S, NEW s \in Seq(Seq(S)), NEW x \in Seq(S), Len(s) # 0
  PROVE  /\ FlattenSeq(s) \in Seq(S)
         /\ FlattenSeq(Append(s, x)) = FlattenSeq(s) \o x
<1> DEFINE t == Append(s, x)
           n == Len(s)
<1>1. /\ t \in Seq(Seq(S)) /\ Len(t) = n + 1 /\ n \in Nat /\ n # 0
      /\ \A i \in 1 .. n : t[i] = s[i] /\ s[i] \in Seq(S)
      /\ t[n + 1] = x
  OBVIOUS
<1> HIDE DEF t
<1>2. PICK f : /\ FlattenSeq(s) = f[n]
               /\ \A i \in 1 .. n : f[i] = FlatBody(f, s, i)
  BY FlattenIs
<1>3. PICK g : /\ FlattenSeq(t) = g[n + 1]
               /\ \A i \in 1 .. n + 1 : g[i] = FlatBody(g, t, i)
  <2>1. Len(t) # 0
    BY <1>1
  <2> QED
    BY <1>1, <2>1, FlattenIs
<1> HIDE DEF n
<1>4. \A i \in 1 .. n : f[i] = g[i] /\ f[i] \in Seq(S)
  <2> DEFINE T == {i \in 1 .. n : ~(f[i] = g[i] /\ f[i] \in Seq(S))}
  <2> SUFFICES ASSUME T # {} PROVE FALSE
    OBVIOUS
  <2>1. PICK i \in T : \A m \in T : i <= m
    <3>1. T \subseteq Nat
      BY <1>1
    <3> HIDE DEF T
    <3> QED BY <3>1, LeastNat
  <2>2. i \in 1 .. n /\ i \in 1 .. n + 1
    BY <1>1
  <2>3. f[i] = FlatBody(f, s, i) /\ g[i] = FlatBody(g, t, i)
    BY <1>2, <1>3, <2>2
  <2>4. t[i] = s[i] /\ s[i] \in Seq(S)
    BY <1>1, <2>2
  <2>5. CASE i = 1
    BY <2>3, <2>4, <2>5 DEF FlatBody
  <2>6. CASE i # 1
    <3>1. i - 1 \in 1 .. n /\ i - 1 \notin T
      BY <1>1, <2>1, <2>2, <2>6
    <3>2. f[i - 1] = g[i - 1] /\ f[i - 1] \in Seq(S)
      BY <3>1
    <3>3. f[i] = f[i - 1] \o s[i] /\ g[i] = g[i - 1] \o s[i]
      BY <2>3, <2>4, <2>6 DEF FlatBody
    <3>4. f[i - 1] \o s[i] \in Seq(S)
      BY <2>4, <3>2
    <3> QED
      BY <3>2, <3>3, <3>4
  <2> QED
    BY <2>5, <2>6
<1>5. f[n] = g[n] /\ f[n] \in Seq(S)
  <2>1. n \in 1 .. n
    BY <1>1
  <2> QED
    BY <1>4, <2>1, Zenon
<1>6. g[n + 1] = g[n] \o x
  <2>1. n + 1 \in 1 .. n + 1 /\ n + 1 # 1 /\ (n + 1) - 1 = n
    BY <1>1
  <2> QED
    BY <1>1, <1>3, <2>1 DEF FlatBody
<1> QED
  BY <1>2, <1>3, <1>5, <1>6 DEF t, n
(* The parts that the callbacks of a request were given, put together.     *)
TellsOf(t) == FlattenSeq([i \in DOMAIN t |-> t[i].parts])

LEMMA TellsNone == TellsOf(<< >>) = << >>
<1>1. [i \in DOMAIN << >> |-> << >>[i].parts] = << >>
  OBVIOUS
<1>2. Len(<< >>) = 0
  OBVIOUS
<1> QED
  BY <1>1, <1>2 DEF TellsOf, FlattenSeq

LEMMA TellsMore ==
  ASSUME NEW t \in Seq(Tolds), NEW g \in Tolds
  PROVE  /\ TellsOf(t) \in Seq(Part)
         /\ TellsOf(Append(t, g)) = TellsOf(t) \o g.parts
<1> DEFINE u == Append(t, g)
           s == [i \in 1 .. Len(t) |-> t[i].parts]
           v == [i \in 1 .. Len(u) |-> u[i].parts]
<1>1. /\ u \in Seq(Tolds) /\ Len(u) = Len(t) + 1 /\ Len(t) \in Nat
      /\ \A i \in 1 .. Len(t) : u[i] = t[i]
      /\ u[Len(t) + 1] = g
  BY Appending
<1>2. g.parts \in Seq(Part)
  BY DEF Tolds
<1>3. s \in Seq(Seq(Part)) /\ Len(s) = Len(t)
  <2>1. \A i \in 1 .. Len(t) : t[i].parts \in Seq(Part)
    <3> TAKE i \in 1 .. Len(t)
    <3>1. t[i] \in Tolds
      BY ElementOfSeq
    <3> QED
      BY <3>1 DEF Tolds
  <2>2. s \in [1 .. Len(t) -> Seq(Part)]
    BY <2>1
  <2> QED
    BY <1>1, <2>2
<1>4. TellsOf(t) = FlattenSeq(s) /\ TellsOf(u) = FlattenSeq(v)
  <2>1. DOMAIN t = 1 .. Len(t) /\ DOMAIN u = 1 .. Len(u)
    BY <1>1
  <2> QED
    BY <2>1 DEF TellsOf
<1> HIDE DEF u
<1>5. v = Append(s, g.parts)
  <2> DEFINE w == Append(s, g.parts)
  <2>1. /\ w \in Seq(Seq(Part)) /\ Len(w) = Len(t) + 1
        /\ \A i \in 1 .. Len(t) : w[i] = s[i]
        /\ w[Len(t) + 1] = g.parts
    <3> HIDE DEF s
    <3> QED
      BY <1>2, <1>3, Appending
  <2>2. \A i \in 1 .. Len(t) : s[i] = t[i].parts
    OBVIOUS
  <2>3. \A i \in 1 .. Len(t) + 1 : w[i] = u[i].parts
    <3> HIDE DEF w, s
    <3> SUFFICES ASSUME NEW i \in 1 .. Len(t) + 1 PROVE w[i] = u[i].parts
      OBVIOUS
    <3>1. CASE i = Len(t) + 1
      BY <1>1, <2>1, <3>1
    <3>2. CASE i # Len(t) + 1
      <4>1. i \in 1 .. Len(t)
        BY <1>1, <3>2
      <4> QED
        BY <1>1, <2>1, <2>2, <4>1
    <3> QED
      BY <3>1, <3>2
  <2>4. w = [i \in 1 .. Len(t) + 1 |-> w[i]]
    <3> HIDE DEF w
    <3> QED
      BY <1>1, <2>1
  <2> HIDE DEF w, s
  <2>5. w = [i \in 1 .. Len(t) + 1 |-> u[i].parts]
    BY <2>3, <2>4
  <2> QED
    BY <1>1, <2>5 DEF w
<1> HIDE DEF s, v
<1>6. CASE Len(t) # 0
  <2>1. FlattenSeq(s) \in Seq(Part)
    BY <1>2, <1>3, <1>6, FlattenAppend
  <2>2. FlattenSeq(Append(s, g.parts)) = FlattenSeq(s) \o g.parts
    BY <1>2, <1>3, <1>6, FlattenAppend
  <2> QED
    BY <1>4, <1>5, <2>1, <2>2 DEF u
<1>7. CASE Len(t) = 0
  <2>1. t = << >> /\ s = << >>
    BY <1>3, <1>7
  <2>2. TellsOf(t) = << >>
    BY <2>1, TellsNone
  <2>3. v = <<g.parts>>
    BY <1>5, <2>1
  <2>4. FlattenSeq(v) = g.parts
    BY <2>3, FlattenOne
  <2>5. << >> \in Seq(Part) /\ << >> \o g.parts = g.parts
    BY <1>2
  <2> QED
    BY <1>4, <2>2, <2>4, <2>5 DEF u
<1> QED
  BY <1>6, <1>7

LEMMA PartsJoin ==
  ASSUME NEW r \in Nat, NEW c \in Nat, NEW to \in Nat, c <= to
  PROVE  /\ Parts(r, 1, c) \in Seq(Part) /\ Len(Parts(r, 1, c)) = c
         /\ Parts(r, 1, c) \o Parts(r, c + 1, to) = Parts(r, 1, to)
<1>1. /\ c - 1 + 1 = c /\ to - 1 + 1 = to /\ to - (c + 1) + 1 = to - c
      /\ to - c \in Nat
  OBVIOUS
<1> DEFINE a == [i \in 1 .. c |-> <<r, 1 + i - 1>>]
           b == [i \in 1 .. to - c |-> <<r, c + 1 + i - 1>>]
           d == [i \in 1 .. to |-> <<r, 1 + i - 1>>]
<1>2. Parts(r, 1, c) = a /\ Parts(r, c + 1, to) = b /\ Parts(r, 1, to) = d
  BY <1>1 DEF Parts
<1>3. a \in Seq(Part) /\ Len(a) = c /\ \A i \in 1 .. c : a[i] = <<r, i>>
  <2>1. a \in [1 .. c -> Part]
    BY DEF Part
  <2> QED
    BY <2>1
<1>4. /\ b \in Seq(Part) /\ Len(b) = to - c
      /\ \A i \in 1 .. to - c : b[i] = <<r, c + i>>
  <2>1. b \in [1 .. to - c -> Part]
    BY DEF Part
  <2> QED
    BY <1>1, <2>1
<1>5. d \in Seq(Part) /\ Len(d) = to /\ \A i \in 1 .. to : d[i] = <<r, i>>
  <2>1. d \in [1 .. to -> Part]
    BY DEF Part
  <2> QED
    BY <2>1
<1> HIDE DEF a, b, d
<1>6. a \o b = d
  <2>1. /\ a \o b \in Seq(Part) /\ Len(a \o b) = Len(a) + Len(b)
        /\ \A i \in 1 .. Len(a) + Len(b) :
             (a \o b)[i] = IF i <= Len(a) THEN a[i] ELSE b[i - Len(a)]
    BY <1>3, <1>4, ConcatProperties
  <2>2. Len(a) + Len(b) = to
    BY <1>1, <1>3, <1>4
  <2>3. \A i \in 1 .. to : (a \o b)[i] = d[i]
    <3> SUFFICES ASSUME NEW i \in 1 .. to PROVE (a \o b)[i] = d[i]
      OBVIOUS
    <3>1. (a \o b)[i] = IF i <= c THEN a[i] ELSE b[i - c]
      BY <1>3, <2>1, <2>2
    <3>2. d[i] = <<r, i>>
      BY <1>5
    <3>3. CASE i <= c
      BY <1>3, <3>1, <3>2, <3>3
    <3>4. CASE i > c
      <4>1. i - c \in 1 .. to - c /\ c + (i - c) = i /\ ~(i <= c)
        BY <3>4
      <4>2. b[i - c] = <<r, i>>
        BY <1>4, <4>1
      <4> QED
        BY <3>1, <3>2, <4>1, <4>2
    <3> QED
      <4>1. i <= c \/ i > c
        OBVIOUS
      <4> QED BY <3>3, <3>4, <4>1
  <2> QED
    BY <1>5, <2>1, <2>2, <2>3, SeqEqual
<1> QED
  BY <1>2, <1>3, <1>6

LEMMA PartsFirst ==
  ASSUME NEW r \in Nat, NEW to \in Nat, NEW c \in Nat, c <= to
  PROVE  /\ to > 0 => Parts(r, 1, to)[1] = <<r, 1>>
         /\ IsPrefix(Parts(r, 1, c), Parts(r, 1, to))
<1> DEFINE a == [i \in 1 .. c |-> <<r, 1 + i - 1>>]
           d == [i \in 1 .. to |-> <<r, 1 + i - 1>>]
<1>1. Parts(r, 1, c) = a /\ Parts(r, 1, to) = d
  <2>1. c - 1 + 1 = c /\ to - 1 + 1 = to
    OBVIOUS
  <2> QED
    BY <2>1 DEF Parts
<1>3. a \in Seq(Part) /\ Len(a) = c /\ \A i \in 1 .. c : a[i] = <<r, i>>
  <2>1. a \in [1 .. c -> Part]
    BY DEF Part
  <2> QED
    BY <2>1
<1>5. d \in Seq(Part) /\ Len(d) = to /\ \A i \in 1 .. to : d[i] = <<r, i>>
  <2>1. d \in [1 .. to -> Part]
    BY DEF Part
  <2> QED
    BY <2>1
<1> HIDE DEF a, d
<1>6. IsPrefix(a, d)
  <2>a. /\ \A i \in 1 .. c : a[i] \in Part /\ d[i] \in Part
        /\ c - 1 + 1 = c
    BY <1>3, <1>5
  <2>1. /\ SubSeq(a, 1, c) \in Seq(Part)
        /\ Len(SubSeq(a, 1, c)) = IF 1 <= c THEN c - 1 + 1 ELSE 0
        /\ \A i \in 1 .. c - 1 + 1 : SubSeq(a, 1, c)[i] = a[1 + i - 1]
    BY <2>a, SubSeqProperties
  <2>2. /\ SubSeq(d, 1, c) \in Seq(Part)
        /\ Len(SubSeq(d, 1, c)) = IF 1 <= c THEN c - 1 + 1 ELSE 0
        /\ \A i \in 1 .. c - 1 + 1 : SubSeq(d, 1, c)[i] = d[1 + i - 1]
    BY <2>a, SubSeqProperties
  <2>b. Len(SubSeq(a, 1, c)) = c /\ Len(SubSeq(d, 1, c)) = c
    BY <2>1, <2>2
  <2>3. \A i \in 1 .. c : SubSeq(a, 1, c)[i] = SubSeq(d, 1, c)[i]
    <3> SUFFICES ASSUME NEW i \in 1 .. c
                 PROVE  SubSeq(a, 1, c)[i] = SubSeq(d, 1, c)[i]
      OBVIOUS
    <3>1. 1 + i - 1 = i /\ i \in 1 .. c - 1 + 1 /\ i \in 1 .. to
      OBVIOUS
    <3>2. SubSeq(a, 1, c)[i] = a[i] /\ SubSeq(d, 1, c)[i] = d[i]
      BY <2>1, <2>2, <3>1
    <3> QED
      BY <1>3, <1>5, <3>1, <3>2
  <2>4. SubSeq(a, 1, c) = SubSeq(d, 1, c)
    BY <2>1, <2>2, <2>b, <2>3, SeqEqual
  <2> QED
    BY <1>3, <1>5, <2>4 DEF IsPrefix
<1> QED
  BY <1>1, <1>5, <1>6

(* A reply that parses brings the parts that follow those which the PDU    *)
(* says the client has, and the number of the last one if there are more.  *)
LEMMA GoodReply ==
  ASSUME SdpTypes, NEW pdu \in Pdus, NEW reply \in ServerReplies(pdu),
         reply.code = OK, reply.good
  PROVE  \E to \in pdu.cont + 1 .. Size(pdu.r) + 1 :
           /\ reply.parts = Parts(pdu.r, pdu.cont + 1, to)
           /\ reply.next \in {0, to}
<1> DEFINE r == pdu.r
           rest == pdu.cont + 1 .. Size(r)
<1>1. pdu.cont \in Nat
  BY DEF Pdus
<1>2. Size(r) \in Nat
  <2>1. answer \in Seq(Answers) /\ r \in 1 .. Len(answer)
    BY DEF SdpTypes, Known, Pdus
  <2> HIDE DEF r
  <2>2. answer[r] \in Answers
    BY <2>1
  <2> QED
    BY <2>2 DEF Size, Answers
<1> HIDE DEF r
<1>4. CASE \E to \in rest :
             reply = Reply(pdu, OK, Parts(r, pdu.cont + 1, to),
                           IF to = Size(r) THEN 0 ELSE to, TRUE)
  BY <1>1, <1>2, <1>4 DEF Reply, r
<1>5. CASE \E to \in rest :
             reply = Reply(pdu, OK, Parts(r, pdu.cont + 1, to), 0, TRUE)
  BY <1>1, <1>2, <1>5 DEF Reply, r
<1>6. CASE \E next \in {0, Size(r) + 1} :
             /\ rest # {}
             /\ reply = Reply(pdu, OK, Parts(r, pdu.cont + 1, Size(r) + 1),
                              next, TRUE)
  <2>1. Size(r) + 1 \in pdu.cont + 1 .. Size(r) + 1
    BY <1>1, <1>2, <1>6
  <2> QED
    BY <1>6, <2>1 DEF Reply, r
<1>7. CASE \/ reply = Reply(pdu, "error", << >>, 0, TRUE)
           \/ reply = Reply(pdu, "none", << >>, 0, TRUE)
           \/ reply = Reply(pdu, OK, << >>, 0, FALSE)
  BY <1>7 DEF Reply, OK
<1> QED
  BY <1>4, <1>5, <1>6, <1>7 DEF ServerReplies, r
-----------------------------------------------------------------------------
(* No two answers are mixed.  A reply that is out of date has the id of    *)
(* the request that was answered last; ids that were taken since, for      *)
(* requests and continuations that could not be sent, must not come round  *)
(* to it.                                                                  *)
IdsLast == IdSpace > MaxFailures + MaxRepeats

Settled ==
  /\ next_id \in Ids /\ last_req.id \in Ids
  /\ \A i \in 1 .. Len(to_client) : to_client[i].id \in Ids
  /\ failures \in 0 .. MaxFailures /\ repeats \in 0 .. MaxRepeats
  /\ channel # "open" => to_server = << >> /\ to_client = << >>

(* Nothing is on its way but repeated replies, all of one id; how many ids *)
(* were taken since is bounded by what failed and by the repeated replies  *)
(* that are no longer there.                                               *)
Since(d) ==
  \A i \in 1 .. Len(to_client) :
    next_id \in {to_client[i].id + d, to_client[i].id + d - IdSpace}
MostSince ==
  (IF Pending THEN 2 ELSE 1) + failures + repeats - Len(to_client)
NothingComes ==
  /\ Pending => last_req.r \in stuck
  /\ to_server = << >>
  /\ Len(to_client) <= repeats
  /\ \E d \in 1 .. MostSince : Since(d)

(* An answer is on its way: after replies that are out of date come a PDU  *)
(* to the server or the reply to it, and repetitions of that.  The client  *)
(* has the parts before the ones that the PDU asks for.                    *)
Collected(r, c) ==
  /\ c \in 0 .. Size(r) + 1
  /\ IF Kind(r) = "attr" THEN list = Parts(r, 1, c)
     ELSE Concatenated(r) = Parts(r, 1, c)
Answering(n, c) ==
  /\ last_req.r \notin stuck => Collected(last_req.r, c)
  /\ \A i \in 1 .. n : to_client[i].id # last_req.id
  /\ n = Len(to_client) => to_server = <<Pdu(last_req.id, last_req.r, c)>>
  /\ n < Len(to_client) => to_server = << >>
  /\ \A i \in n + 1 .. Len(to_client) :
       /\ to_client[i] = to_client[n + 1]
       /\ to_client[i] \in ServerReplies(Pdu(last_req.id, last_req.r, c))
AnswerComes ==
  /\ Pending
  /\ next_id = NextId(last_req.id)
  /\ Len(to_client) + Len(to_server) <= repeats + 1
  /\ \E n \in 0 .. Len(to_client), c \in Nat : Answering(n, c)

Flow == channel = "open" => NothingComes \/ AnswerComes
UnmixedInv == Settled /\ Flow /\ AnswersUnmixed

LEMMA NextIdIs ==
  ASSUME NEW id \in Ids
  PROVE  /\ NextId(id) = IF id = IdSpace - 1 THEN 0 ELSE id + 1
         /\ NextId(id) \in Ids /\ NextId(id) # id
<1>1. IdSpace \in Nat \ {0} /\ IdSpace > 1 /\ id \in Nat /\ id <= IdSpace - 1
  BY SdpSizeAssumption DEF Ids
<1>2. CASE id = IdSpace - 1
  <2>1. (id + 1) % IdSpace = 0
    <3>1. id + 1 = IdSpace
      BY <1>1, <1>2
    <3>2. IdSpace % IdSpace = 0
      BY <1>1
    <3> QED
      BY <3>1, <3>2
  <2> QED
    BY <1>1, <1>2, <2>1 DEF NextId, Ids
<1>3. CASE id # IdSpace - 1
  <2>1. (id + 1) % IdSpace = id + 1
    BY <1>1, <1>3
  <2> QED
    BY <1>1, <1>3, <2>1 DEF NextId, Ids
<1> QED
  BY <1>2, <1>3

(* What was told of a request only matters while it is not stuck.          *)
LEMMA UnmixedSame ==
  ASSUME AnswersUnmixed, UNCHANGED <<answer, told>>, stuck \subseteq stuck'
  PROVE  AnswersUnmixed'
  BY DEF AnswersUnmixed, Concatenated, Failed, Kind, Size

LEMMA ClosedUnmixed ==
  ASSUME UnmixedInv, Closes
  PROVE  UnmixedInv'
<1>1. /\ UNCHANGED <<answer, told, stuck, last_req, next_id, failures, repeats>>
      /\ channel' = "closed" /\ to_server' = << >> /\ to_client' = << >>
  BY DEF Closes
<1>2. AnswersUnmixed'
  BY <1>1, UnmixedSame DEF UnmixedInv
<1>3. Settled'
  <2>1. Len(<< >>) = 0 /\ 1 .. 0 = {}
    OBVIOUS
  <2> QED
    BY <1>1, <2>1 DEF UnmixedInv, Settled
<1> QED
  BY <1>1, <1>2, <1>3 DEF UnmixedInv, Flow

(* One more id is taken while nothing comes.                               *)
LEMMA SinceNext ==
  ASSUME Settled, NEW d \in Nat \ {0}, d < IdSpace, Since(d),
         NEW i \in 1 .. Len(to_client)
  PROVE  /\ to_client[i].id # next_id
         /\ NextId(next_id) \in {to_client[i].id + (d + 1),
                                 to_client[i].id + (d + 1) - IdSpace}
<1>1. /\ to_client[i].id \in 0 .. IdSpace - 1 /\ next_id \in 0 .. IdSpace - 1
      /\ next_id \in {to_client[i].id + d, to_client[i].id + d - IdSpace}
      /\ IdSpace \in Nat
  BY SdpSizeAssumption DEF Settled, Since, Ids
<1>2. NextId(next_id) = IF next_id = IdSpace - 1 THEN 0 ELSE next_id + 1
  BY NextIdIs DEF Settled
<1> QED
  BY <1>1, <1>2

LEMMA RequestFailsUnmixed ==
  ASSUME IdsLast, SdpInv, UnmixedInv, RequestFails
  PROVE  UnmixedInv'
<1>1. /\ UNCHANGED <<answer, told, stuck, last_req, repeats, channel, to_server,
                     to_client>>
      /\ ~Pending /\ failures' = failures + 1 /\ failures < MaxFailures
      /\ next_id' = NextId(next_id)
  BY DEF RequestFails, peerVars
<1>2. AnswersUnmixed'
  BY <1>1, UnmixedSame DEF UnmixedInv
<1>3. Settled'
  <2>1. failures' \in 0 .. MaxFailures
    BY <1>1, SdpSizeAssumption DEF UnmixedInv, Settled
  <2>2. next_id' \in Ids
    BY <1>1, NextIdIs DEF UnmixedInv, Settled
  <2> QED
    BY <1>1, <2>1, <2>2 DEF UnmixedInv, Settled
<1>4. Flow'
  <2> SUFFICES ASSUME channel = "open" PROVE NothingComes'
    BY <1>1 DEF Flow
  <2>1. NothingComes
    BY <1>1 DEF UnmixedInv, Flow, AnswerComes
  <2>2. PICK d \in 1 .. MostSince : Since(d)
    BY <2>1 DEF NothingComes
  <2>3. Len(to_client) \in Nat /\ failures \in Nat /\ repeats \in Nat
    BY SdpSizeAssumption DEF SdpInv, SdpTypes, UnmixedInv, Settled
  <2>4. MostSince = 1 + failures + repeats - Len(to_client)
    BY <1>1 DEF MostSince
  <2>5. MostSince' = 1 + (failures + 1) + repeats - Len(to_client)
    BY <1>1 DEF MostSince, Pending
  <2>6. d + 1 \in 1 .. MostSince'
    BY <2>3, <2>4, <2>5
  <2>7. Since(d + 1)'
    <3> SUFFICES ASSUME NEW i \in 1 .. Len(to_client)
                 PROVE  next_id' \in {to_client[i].id + (d + 1),
                                      to_client[i].id + (d + 1) - IdSpace}
      BY <1>1 DEF Since
    <3>1. d \in Nat \ {0} /\ d < IdSpace
      <4>1. failures <= MaxFailures /\ repeats <= MaxRepeats
        BY DEF UnmixedInv, Settled
      <4>2. IdSpace \in Nat /\ MaxFailures \in Nat /\ MaxRepeats \in Nat
        BY SdpSizeAssumption
      <4> QED
        BY <2>3, <2>4, <4>1, <4>2 DEF IdsLast
    <3> QED
      BY <1>1, <2>2, <3>1, SinceNext DEF UnmixedInv
  <2> QED
    BY <1>1, <2>1, <2>6, <2>7 DEF NothingComes, Pending
<1> QED
  BY <1>2, <1>3, <1>4 DEF UnmixedInv

LEMMA PartsNone ==
  ASSUME NEW r \in Nat
  PROVE  Parts(r, 1, 0) = << >>
<1>1. Parts(r, 1, 0) \in Seq(Part) /\ Len(Parts(r, 1, 0)) = 0
  BY PartsJoin
<1> QED
  BY <1>1, EmptySeq

LEMMA SizeType ==
  ASSUME SdpTypes, NEW r \in Known
  PROVE  Size(r) \in Nat /\ Kind(r) \in Kinds
<1>1. answer \in Seq(Answers) /\ r \in 1 .. Len(answer)
  BY DEF SdpTypes, Known
<1>2. answer[r] \in Answers
  BY <1>1
<1> QED
  BY <1>2 DEF Size, Kind, Answers

LEMMA RequestUnmixed ==
  ASSUME IdsLast, SdpInv, UnmixedInv, NEW kind \in Kinds, NEW size \in Sizes,
         Request(kind, size)
  PROVE  UnmixedInv'
<1>0. PICK n \in Nat : n = Len(answer) + 1
  BY DEF SdpInv, SdpTypes
<1> DEFINE entry == [kind |-> kind, size |-> size]
<1>1. /\ last_req' = [r |-> n, id |-> next_id]
      /\ answer' = Append(answer, entry) /\ told' = Append(told, << >>)
      /\ to_server' = Append(to_server, Pdu(next_id, n, 0))
      /\ next_id' = NextId(next_id)
      /\ list' = IF kind = "attr" THEN << >> ELSE list
      /\ UNCHANGED <<to_client, failures, repeats, stuck, channel>>
      /\ ~Pending /\ channel = "open"
  BY <1>0 DEF Request, NewList, NoList, MaySend
<1>2. /\ answer \in Seq(Answers) /\ told \in Seq(Seq(Tolds))
      /\ Len(told) = Len(answer) /\ Len(answer) \in Nat
      /\ to_client \in Seq(Replies) /\ Len(to_client) \in Nat
  BY DEF SdpInv, SdpTypes
<1>3. entry \in Answers /\ entry.kind = kind /\ entry.size = size /\ size \in Nat
  BY SdpSizeAssumption DEF Answers
<1> HIDE DEF entry
<1>4. /\ Len(answer') = n /\ answer'[n] = entry
      /\ \A r \in 1 .. Len(answer) : answer'[r] = answer[r]
      /\ DOMAIN answer' = 1 .. n
  BY <1>0, <1>1, <1>2, <1>3
<1>5. /\ \A r \in 1 .. Len(answer) : told'[r] = told[r]
      /\ told'[n] = << >>
  <2>1. << >> \in Seq(Tolds)
    OBVIOUS
  <2>2. PICK none \in Seq(Tolds) : none = << >>
    BY <2>1, Zenon
  <2>3. told' = Append(told, none)
    BY <1>1, <2>2
  <2> QED
    BY <1>0, <1>2, <2>2, <2>3, Appending
<1>6. n \in Nat /\ n \in 1 .. n
  BY <1>0, <1>2
<1>7. last_req'.r = n /\ last_req'.id = next_id /\ next_id \in Ids
  BY <1>1 DEF UnmixedInv, Settled
<1>8. Concatenated(n)' = << >>
  BY <1>5, TellsNone DEF Concatenated, TellsOf
<1>9. Settled'
  <2>1. next_id' \in Ids
    BY <1>1, <1>7, NextIdIs
  <2> QED
    BY <1>1, <1>7, <2>1 DEF UnmixedInv, Settled
<1>10. NothingComes
  BY <1>1 DEF UnmixedInv, Flow, AnswerComes
<1>11. Flow'
  <2>1. Pending'
    <3>1. last_req'.r # 0 /\ NoRequest.r = 0
      BY <1>6, <1>7 DEF NoRequest
    <3> QED
      BY <3>1 DEF Pending
  <2>2. next_id' = NextId(last_req'.id)
    BY <1>1, <1>7
  <2>3. to_server' = <<Pdu(next_id, n, 0)>>
    <3>1. to_server = << >>
      BY <1>10 DEF NothingComes
    <3> QED
      BY <1>1, <3>1
  <2>4. Len(to_client') + Len(to_server') <= repeats' + 1
    <3>1. Len(to_server') = 1
      BY <2>3
    <3>2. Len(to_client) <= repeats /\ repeats \in Nat
      BY <1>10, SdpSizeAssumption DEF NothingComes, UnmixedInv, Settled
    <3> QED
      BY <1>1, <1>2, <3>1, <3>2
  <2>5. \A i \in 1 .. Len(to_client) : to_client[i].id # next_id
    <3> SUFFICES ASSUME NEW i \in 1 .. Len(to_client)
                 PROVE  to_client[i].id # next_id
      OBVIOUS
    <3>1. PICK d \in 1 .. MostSince : Since(d)
      BY <1>10 DEF NothingComes
    <3>2. MostSince = 1 + failures + repeats - Len(to_client)
      BY <1>1 DEF MostSince
    <3>3. d \in Nat \ {0} /\ d < IdSpace
      <4>1. /\ failures <= MaxFailures /\ repeats <= MaxRepeats
            /\ failures \in Nat /\ repeats \in Nat
        BY SdpSizeAssumption DEF UnmixedInv, Settled
      <4>2. IdSpace \in Nat /\ MaxFailures \in Nat /\ MaxRepeats \in Nat
        BY SdpSizeAssumption
      <4> QED
        BY <1>2, <3>2, <4>1, <4>2 DEF IdsLast
    <3> QED
      BY <3>1, <3>3, SinceNext DEF UnmixedInv
  <2>6. Collected(n, 0)'
    <3>1. Parts(n, 1, 0) = << >>
      BY <1>6, PartsNone
    <3>2. answer'[n].kind = kind /\ answer'[n].size = size
      BY <1>3, <1>4
    <3>3. 0 \in 0 .. size + 1
      BY <1>3
    <3>4. CASE kind = "attr"
      BY <1>1, <3>1, <3>2, <3>3, <3>4 DEF Collected, Kind, Size, Parts
    <3>5. CASE kind # "attr"
      BY <1>8, <3>1, <3>2, <3>3, <3>5 DEF Collected, Kind, Size, Parts
    <3> QED
      BY <3>4, <3>5
  <2>7. Answering(Len(to_client), 0)'
    <3>2. to_client' = to_client
      BY <1>1
    <3>3. \A i \in Len(to_client) + 1 .. Len(to_client) : FALSE
      BY <1>2
    <3>4. ~(Len(to_client) < Len(to_client))
      BY <1>2
    <3>5. \A i \in 1 .. Len(to_client) : to_client'[i].id # last_req'.id
      BY <1>7, <2>5, <3>2
    <3>6. Collected(last_req.r, 0)'
      BY <1>7, <2>6
    <3>7. to_server' = <<Pdu(last_req.id, last_req.r, 0)>>'
      BY <1>7, <2>3 DEF Pdu
    <3> QED
      BY <3>2, <3>3, <3>4, <3>5, <3>6, <3>7 DEF Answering
  <2>8. AnswerComes'
    <3>1. Len(to_client) \in 0 .. Len(to_client)'
      BY <1>1, <1>2
    <3> QED
      BY <2>1, <2>2, <2>4, <2>7, <3>1 DEF AnswerComes
  <2> QED
    BY <2>8 DEF Flow
<1>12. AnswersUnmixed'
  <2> SUFFICES ASSUME NEW r \in 1 .. n, r \notin stuck
               PROVE  (/\ Kind(r) = "attr" /\ told[r] # << >> /\ ~Failed(r) =>
                           Concatenated(r) = Parts(r, 1, Size(r))
                       /\ Kind(r) = "search" =>
                           IsPrefix(Concatenated(r), Parts(r, 1, Size(r) + 1)))'
    BY <1>1, <1>4 DEF AnswersUnmixed
  <2>1. CASE r = n
    <3>1. Parts(n, 1, 0) = << >>
      BY <1>6, PartsNone
    <3>2. answer'[n].size + 1 \in Nat /\ 0 <= answer'[n].size + 1
      BY <1>3, <1>4
    <3>3. IsPrefix(Parts(n, 1, 0), Parts(n, 1, answer'[n].size + 1))
      BY <1>6, <3>2, PartsFirst
    <3> QED
      BY <1>5, <1>8, <2>1, <3>1, <3>3 DEF Kind, Size, Parts
  <2>2. CASE r \in 1 .. Len(answer)
    <3>1. answer'[r] = answer[r] /\ told'[r] = told[r] /\ r \in DOMAIN answer
      BY <1>2, <1>4, <1>5, <2>2
    <3> QED
      BY <3>1 DEF UnmixedInv, AnswersUnmixed, Kind, Size, Failed, Concatenated
  <2> QED
    BY <1>0, <1>2, <2>1, <2>2
<1> QED
  BY <1>9, <1>11, <1>12 DEF UnmixedInv

(* The steps that neither ask nor tell: what is collected stays.           *)
LEMMA CollectedSame ==
  ASSUME UNCHANGED <<answer, told, list>>, NEW r, NEW c
  PROVE  Collected(r, c)' = Collected(r, c)
  BY DEF Collected, Concatenated, Kind, Size

LEMMA RepliesSame ==
  ASSUME answer' = answer, NEW pdu
  PROVE  ServerReplies(pdu)' = ServerReplies(pdu)
  BY DEF ServerReplies, Size, Reply, Parts

LEMMA AskedSame ==
  ASSUME UNCHANGED <<answer, last_req>>, NEW c
  PROVE  ServerReplies(Pdu(last_req.id, last_req.r, c))'
           = ServerReplies(Pdu(last_req.id, last_req.r, c))
  BY DEF ServerReplies, Size, Reply, Parts, Pdu

LEMMA AnswersUnmixedStep ==
  ASSUME SdpInv, UnmixedInv, ServerAnswers
  PROVE  UnmixedInv'
<1>1. /\ UNCHANGED <<answer, told, stuck, last_req, list, next_id, failures,
                     repeats, channel>>
      /\ to_server # << >> /\ to_server' = Tail(to_server)
  BY DEF ServerAnswers, requestVars
<1>2. PICK reply \in ServerReplies(Head(to_server)) :
        to_client' = Append(to_client, reply)
  BY DEF ServerAnswers
<1>3. AnswersUnmixed'
  BY <1>1, UnmixedSame DEF UnmixedInv
<1>4. channel = "open" /\ AnswerComes
  BY <1>1 DEF UnmixedInv, Settled, Flow, NothingComes
<1>5. PICK n \in 0 .. Len(to_client), c \in Nat : Answering(n, c)
  BY <1>4 DEF AnswerComes
<1>6. PICK pdu : pdu = Pdu(last_req.id, last_req.r, c)
  OBVIOUS
<1>7. Len(to_client) \in Nat /\ to_client \in Seq(Replies) /\ SdpTypes
  BY DEF SdpInv, SdpTypes
<1>8. n = Len(to_client) /\ to_server = <<pdu>>
  BY <1>1, <1>5, <1>6, <1>7 DEF Answering
<1>9. Head(to_server) = pdu /\ to_server' = << >>
  BY <1>1, <1>8
<1>10. pdu \in Pdus /\ pdu.id = last_req.id
  <2>1. last_req.r \in Known
    BY <1>4 DEF AnswerComes, SdpInv, PendingOpen
  <2> QED
    BY <1>6, <2>1 DEF Pdus, Pdu, SdpInv, SdpTypes
<1>11. reply \in Replies /\ reply.id = last_req.id
  BY <1>2, <1>7, <1>9, <1>10, ReplyTypes
<1>12. /\ Len(to_client') = Len(to_client) + 1
       /\ \A i \in 1 .. Len(to_client) : to_client'[i] = to_client[i]
       /\ to_client'[Len(to_client) + 1] = reply
  BY <1>2, <1>7, <1>11, Appending
<1>13. Settled'
  <2> SUFFICES ASSUME NEW i \in 1 .. Len(to_client')
               PROVE  to_client'[i].id \in Ids
    BY <1>1, <1>4 DEF UnmixedInv, Settled
  <2>1. CASE i \in 1 .. Len(to_client)
    BY <1>12, <2>1 DEF UnmixedInv, Settled
  <2>2. CASE i = Len(to_client) + 1
    BY <1>11, <1>12, <2>2 DEF UnmixedInv, Settled
  <2> QED
    BY <1>7, <1>12, <2>1, <2>2
<1>14. Answering(n, c)'
  <2>1. (last_req.r \notin stuck => Collected(last_req.r, c))'
    BY <1>1, <1>5, CollectedSame DEF Answering
  <2>2. \A i \in 1 .. n : to_client'[i].id # last_req'.id
    BY <1>1, <1>5, <1>8, <1>12 DEF Answering
  <2>3. n < Len(to_client') /\ ~(n = Len(to_client'))
    BY <1>7, <1>8, <1>12
  <2>5. ServerReplies(pdu)' = ServerReplies(pdu)
    BY <1>1, RepliesSame
  <2>6. ASSUME NEW i \in n + 1 .. Len(to_client')
        PROVE  /\ to_client'[i] = to_client'[n + 1]
               /\ to_client'[i] \in ServerReplies(pdu)'
    <3>1. i = n + 1 /\ to_client'[i] = reply
      BY <1>7, <1>8, <1>12
    <3> QED
      BY <1>2, <1>9, <2>5, <3>1
  <2>8. ServerReplies(Pdu(last_req.id, last_req.r, c))' = ServerReplies(pdu)
    BY <1>1, <1>6, AskedSame
  <2> QED
    BY <1>9, <2>1, <2>2, <2>3, <2>5, <2>6, <2>8 DEF Answering
<1>15. AnswerComes'
  <2>1. Len(to_client') + Len(to_server') <= repeats' + 1
    <3>1. Len(<<pdu>>) = 1 /\ Len(<< >>) = 0
      OBVIOUS
    <3>a. Len(to_server) = 1 /\ Len(to_server') = 0
      BY <1>8, <1>9, <3>1, Zenon
    <3>2. Len(to_client) + Len(to_server) <= repeats + 1 /\ repeats \in Nat
      BY <1>4, SdpSizeAssumption DEF AnswerComes, UnmixedInv, Settled
    <3> QED
      <4>1. Len(to_client) + 1 <= repeats + 1 /\ repeats' = repeats
        BY <1>1, <3>a, <3>2
      <4>2. Len(to_client') = Len(to_client) + 1
        BY <1>12
      <4>3. Len(to_client) + 1 + 0 <= repeats + 1
        BY <1>7, <4>1, <3>2
      <4> QED
        BY <3>a, <4>1, <4>2, <4>3
  <2>2. n \in 0 .. Len(to_client')
    BY <1>7, <1>12
  <2>4. Pending' /\ next_id' = NextId(last_req'.id)
    BY <1>1, <1>4 DEF AnswerComes, Pending
  <2> QED
    BY <1>14, <2>1, <2>2, <2>4 DEF AnswerComes, NextId
<1> QED
  BY <1>3, <1>13, <1>15 DEF UnmixedInv, Flow

LEMMA RepeatsUnmixed ==
  ASSUME SdpInv, UnmixedInv, ServerRepeats
  PROVE  UnmixedInv'
<1>1. /\ UNCHANGED <<answer, told, stuck, last_req, list, next_id, failures,
                     channel, to_server>>
      /\ to_client # << >> /\ repeats < MaxRepeats /\ repeats' = repeats + 1
  BY DEF ServerRepeats, requestVars
<1>2. Len(to_client) \in Nat /\ to_client \in Seq(Replies)
  BY DEF SdpInv, SdpTypes
<1>3. Len(to_client) > 0
  BY <1>1, <1>2, EmptySeq
<1>4. PICK copy \in Replies : copy = to_client[Len(to_client)]
  BY <1>2, <1>3
<1>5. /\ Len(to_client') = Len(to_client) + 1
      /\ \A i \in 1 .. Len(to_client) : to_client'[i] = to_client[i]
      /\ to_client'[Len(to_client) + 1] = copy
  <2>1. to_client' = Append(to_client, copy)
    BY <1>4 DEF ServerRepeats, Last
  <2> QED
    BY <1>2, <2>1, Appending
<1>6. AnswersUnmixed'
  BY <1>1, UnmixedSame DEF UnmixedInv
<1>7. repeats \in Nat /\ repeats' \in 0 .. MaxRepeats /\ failures \in Nat
  BY <1>1, SdpSizeAssumption DEF UnmixedInv, Settled
<1>8. \A i \in 1 .. Len(to_client') :
        \/ i \in 1 .. Len(to_client) /\ to_client'[i] = to_client[i]
        \/ i = Len(to_client) + 1 /\ to_client'[i] = to_client[Len(to_client)]
  BY <1>2, <1>4, <1>5
<1>9. Len(to_client) \in 1 .. Len(to_client)
  BY <1>2, <1>3
<1>10. channel = "open"
  BY <1>1 DEF UnmixedInv, Settled
<1>11. Settled'
  <2>1. \A i \in 1 .. Len(to_client') : to_client'[i].id \in Ids
    BY <1>8, <1>9 DEF UnmixedInv, Settled
  <2> QED
    BY <1>1, <1>7, <1>10, <2>1 DEF UnmixedInv, Settled
<1>12. CASE NothingComes
  <2>1. PICK d \in 1 .. MostSince : Since(d)
    BY <1>12 DEF NothingComes
  <2>2. MostSince' = MostSince
    <3>1. PICK k \in 1 .. 2 : k = IF Pending THEN 2 ELSE 1
      OBVIOUS
    <3>2. Pending' <=> Pending
      BY <1>1 DEF Pending
    <3>3. /\ MostSince = k + failures + repeats - Len(to_client)
          /\ MostSince' = k + failures + (repeats + 1) - (Len(to_client) + 1)
      BY <1>1, <1>5, <3>1, <3>2 DEF MostSince
    <3> QED
      BY <1>2, <1>7, <3>3
  <2>3. Since(d)'
    <3> SUFFICES ASSUME NEW i \in 1 .. Len(to_client')
                 PROVE  next_id' \in {to_client'[i].id + d,
                                      to_client'[i].id + d - IdSpace}
      BY DEF Since
    <3> QED
      BY <1>1, <1>8, <1>9, <2>1 DEF Since
  <2>4. Len(to_client') <= repeats'
    BY <1>1, <1>2, <1>5, <1>7, <1>12 DEF NothingComes
  <2>5. NothingComes'
    BY <1>1, <1>12, <2>1, <2>2, <2>3, <2>4 DEF NothingComes, Pending
  <2> QED
    BY <1>6, <1>11, <2>5 DEF UnmixedInv, Flow
<1>13. CASE AnswerComes
  <2>1. PICK n \in 0 .. Len(to_client), c \in Nat : Answering(n, c)
    BY <1>13 DEF AnswerComes
  <2>3. ServerReplies(Pdu(last_req.id, last_req.r, c))'
          = ServerReplies(Pdu(last_req.id, last_req.r, c))
    BY <1>1, AskedSame
  <2>4. (last_req.r \notin stuck => Collected(last_req.r, c))'
    BY <1>1, <2>1, CollectedSame DEF Answering
  <2>a. /\ Pending' /\ (next_id = NextId(last_req.id))'
        /\ Len(to_client') + Len(to_server') <= repeats' + 1
    <3>1. Pending' /\ (next_id = NextId(last_req.id))'
      BY <1>1, <1>13 DEF AnswerComes, Pending, NextId
    <3>2. Len(to_client) + Len(to_server) <= repeats + 1 /\ Len(to_server) \in Nat
      BY <1>13 DEF AnswerComes, SdpInv, SdpTypes
    <3>3. Len(to_server') = Len(to_server)
      BY <1>1
    <3> QED
      BY <1>1, <1>2, <1>5, <1>7, <3>1, <3>2, <3>3
  <2>5. CASE n = Len(to_client)
    <3>1. \A i \in 1 .. n + 1 : to_client'[i].id # last_req'.id
      BY <1>1, <1>5, <1>8, <1>9, <2>1, <2>5 DEF Answering
    <3>2. n + 1 = Len(to_client') /\ ~(n + 1 < Len(to_client'))
      BY <1>2, <1>5, <2>5
    <3>3. \A i \in (n + 1) + 1 .. Len(to_client') : FALSE
      BY <1>2, <1>5, <2>5
    <3>4. to_server' = <<Pdu(last_req.id, last_req.r, c)>>'
      BY <1>1, <2>1, <2>5 DEF Answering, Pdu
    <3>5. Answering(n + 1, c)'
      BY <2>4, <3>1, <3>2, <3>3, <3>4 DEF Answering
    <3>6. n + 1 \in 0 .. Len(to_client')
      BY <1>2, <3>2
    <3> QED
      BY <2>a, <3>5, <3>6, <1>6, <1>11 DEF UnmixedInv, Flow, AnswerComes
  <2>6. CASE n # Len(to_client)
    <3>1. n < Len(to_client) /\ n < Len(to_client') /\ ~(n = Len(to_client'))
      BY <1>2, <1>5, <2>6
    <3>2. n + 1 \in 1 .. Len(to_client)
      BY <1>2, <3>1
    <3>3. \A i \in 1 .. n : to_client'[i].id # last_req'.id
      <4>1. \A i \in 1 .. n : i \in 1 .. Len(to_client)
        BY <1>2
      <4> QED
        BY <1>1, <1>5, <2>1, <4>1 DEF Answering
    <3>4. ASSUME NEW i \in n + 1 .. Len(to_client')
          PROVE  /\ to_client'[i] = to_client'[n + 1]
                 /\ to_client'[i] \in
                      ServerReplies(Pdu(last_req.id, last_req.r, c))
      <4>1. PICK j \in n + 1 .. Len(to_client) : to_client'[i] = to_client[j]
        <5>1. i \in 1 .. Len(to_client')
          BY <1>2, <1>5
        <5>2. Len(to_client) \in n + 1 .. Len(to_client)
          BY <1>2, <3>1
        <5> QED
          BY <1>2, <1>8, <5>1, <5>2
      <4>2. to_client'[n + 1] = to_client[n + 1]
        BY <1>5, <3>2
      <4> QED
        BY <2>1, <4>1, <4>2 DEF Answering
    <3>5. to_server' = << >>
      BY <1>1, <2>1, <3>1 DEF Answering
    <3>6. Answering(n, c)'
      BY <2>3, <2>4, <3>1, <3>3, <3>4, <3>5 DEF Answering
    <3>7. n \in 0 .. Len(to_client')
      BY <1>2, <3>1, <1>5
    <3> QED
      BY <2>a, <3>6, <3>7, <1>6, <1>11 DEF UnmixedInv, Flow, AnswerComes
  <2> QED
    BY <2>5, <2>6
<1> QED
  BY <1>10, <1>12, <1>13 DEF UnmixedInv, Flow

(* What is left when the first message is taken.                           *)
LEMMA Taking ==
  ASSUME SdpInv, UnmixedInv, to_client # << >>, to_client' = Tail(to_client)
  PROVE  /\ Len(to_client) \in Nat /\ Len(to_client) > 0
         /\ Len(to_client') = Len(to_client) - 1
         /\ \A i \in 1 .. Len(to_client') : to_client'[i] = to_client[i + 1]
         /\ \A i \in 1 .. Len(to_client') : i + 1 \in 1 .. Len(to_client)
         /\ \A i \in 1 .. Len(to_client') : to_client'[i].id \in Ids
         /\ Head(to_client) = to_client[1] /\ Head(to_client) \in Replies
         /\ channel = "open"
         /\ failures \in Nat /\ repeats \in Nat
         /\ failures <= MaxFailures /\ repeats <= MaxRepeats
<1>1. to_client \in Seq(Replies)
  BY DEF SdpInv, SdpTypes
<1>2. Len(to_client) \in Nat /\ Len(to_client) > 0
  BY <1>1, EmptySeq
<1>3. /\ Len(to_client') = Len(to_client) - 1
      /\ \A i \in 1 .. Len(to_client) - 1 : to_client'[i] = to_client[i + 1]
      /\ Head(to_client) = to_client[1] /\ Head(to_client) \in Replies
  BY <1>1, Consuming
<1>4. \A i \in 1 .. Len(to_client') : i + 1 \in 1 .. Len(to_client)
  BY <1>2, <1>3
<1>5. \A i \in 1 .. Len(to_client') : to_client'[i].id \in Ids
  BY <1>3, <1>4 DEF UnmixedInv, Settled
<1>6. /\ failures \in Nat /\ repeats \in Nat
      /\ failures <= MaxFailures /\ repeats <= MaxRepeats
      /\ channel = "open"
  BY SdpSizeAssumption DEF UnmixedInv, Settled
<1> QED
  BY <1>2, <1>3, <1>4, <1>5, <1>6

(* Nothing was on its way, and now one message less is.                    *)
LEMMA TakingNothing ==
  ASSUME SdpInv, UnmixedInv, to_client # << >>, to_client' = Tail(to_client),
         NothingComes, UNCHANGED <<next_id, failures, repeats, to_server>>,
         Pending' => Pending /\ last_req'.r = last_req.r, stuck \subseteq stuck'
  PROVE  NothingComes'
<1>1. PICK d \in 1 .. MostSince : Since(d)
  BY DEF NothingComes
<1>2. /\ Len(to_client) \in Nat /\ Len(to_client) > 0
      /\ Len(to_client') = Len(to_client) - 1
      /\ \A i \in 1 .. Len(to_client') : to_client'[i] = to_client[i + 1]
      /\ \A i \in 1 .. Len(to_client') : i + 1 \in 1 .. Len(to_client)
      /\ failures \in Nat /\ repeats \in Nat
  BY Taking
<1>3. d \in 1 .. MostSince'
  <2>1. PICK k \in 1 .. 2 : k = IF Pending THEN 2 ELSE 1
    OBVIOUS
  <2>2. PICK m \in 1 .. 2 : m = IF Pending' THEN 2 ELSE 1
    OBVIOUS
  <2>3. k <= m + 1
    OBVIOUS
  <2>4. /\ MostSince = k + failures + repeats - Len(to_client)
        /\ MostSince' = m + failures + repeats - (Len(to_client) - 1)
    BY <1>2, <2>1, <2>2 DEF MostSince
  <2> QED
    BY <1>2, <2>3, <2>4
<1>4. Since(d)'
  <2> SUFFICES ASSUME NEW i \in 1 .. Len(to_client')
               PROVE  next_id' \in {to_client'[i].id + d,
                                    to_client'[i].id + d - IdSpace}
    BY DEF Since
  <2> QED
    BY <1>1, <1>2 DEF Since
<1>5. Len(to_client') <= repeats'
  BY <1>2 DEF NothingComes
<1>6. (Pending => last_req.r \in stuck)'
  BY DEF NothingComes
<1> QED
  BY <1>3, <1>4, <1>5, <1>6 DEF NothingComes

(* The answer itself was taken: what is left are repetitions of it, of the *)
(* id that was taken last.                                                 *)
LEMMA TakingAnswer ==
  ASSUME SdpInv, UnmixedInv, to_client # << >>, to_client' = Tail(to_client),
         NEW c \in Nat, Answering(0, c), AnswerComes
  PROVE  /\ to_server = << >> /\ Len(to_client') <= repeats
         /\ Head(to_client) \in ServerReplies(Pdu(last_req.id, last_req.r, c))
         /\ \A i \in 1 .. Len(to_client') : to_client'[i].id = last_req.id
         /\ next_id = NextId(last_req.id) /\ last_req.id \in Ids
         /\ next_id \in Ids /\ next_id # last_req.id
<1>1. /\ Len(to_client) \in Nat /\ Len(to_client) > 0
      /\ Len(to_client') = Len(to_client) - 1
      /\ \A i \in 1 .. Len(to_client') : to_client'[i] = to_client[i + 1]
      /\ \A i \in 1 .. Len(to_client') : i + 1 \in 1 .. Len(to_client)
      /\ failures \in Nat /\ repeats \in Nat
      /\ Head(to_client) = to_client[1]
  BY Taking
<1>2. to_server = << >> /\ 0 + 1 = 1
  BY <1>1 DEF Answering
<1>3. \A i \in 1 .. Len(to_client) :
        /\ to_client[i] = to_client[1]
        /\ to_client[i] \in ServerReplies(Pdu(last_req.id, last_req.r, c))
  BY <1>2 DEF Answering
<1>4. 1 \in 1 .. Len(to_client)
  BY <1>1
<1>5. Pdu(last_req.id, last_req.r, c) \in Pdus
  BY DEF Pdus, Pdu, SdpInv, SdpTypes, PendingOpen, AnswerComes
<1>6. to_client[1].id = last_req.id
  <2>1. Pdu(last_req.id, last_req.r, c).id = last_req.id
    BY DEF Pdu
  <2> QED
    BY <1>3, <1>4, <1>5, <2>1, ReplyTypes DEF SdpInv
<1>7. next_id = NextId(last_req.id) /\ last_req.id \in Ids /\ next_id \in Ids
  BY DEF AnswerComes, UnmixedInv, Settled
<1>8. Len(to_client') <= repeats
  <2>1. Len(to_server) = 0
    BY <1>2
  <2>2. Len(to_client) + Len(to_server) <= repeats + 1
    BY DEF AnswerComes
  <2> QED
    BY <1>1, <2>1, <2>2
<1>9. \A i \in 1 .. Len(to_client') : to_client'[i].id = last_req.id
  BY <1>1, <1>3, <1>6
<1> QED
  BY <1>1, <1>2, <1>3, <1>4, <1>7, <1>8, <1>9, NextIdIs

(* Repetitions are all that is left of an answer.                          *)
LEMMA NothingAfterAnswer ==
  ASSUME Settled, Len(to_client') \in Nat, UNCHANGED <<failures, repeats>>,
         Len(to_client') <= repeats, to_server' = << >>,
         Pending' => last_req'.r \in stuck',
         NEW id \in Ids, \A i \in 1 .. Len(to_client') : to_client'[i].id = id,
         \/ next_id' = NextId(id)
         \/ next_id' = NextId(NextId(id)) /\ Pending'
  PROVE  NothingComes'
<1>1. failures \in Nat /\ repeats \in Nat /\ IdSpace \in Nat /\ IdSpace > 1
  BY SdpSizeAssumption DEF Settled
<1>2. PICK k \in 1 .. 2 : k = IF Pending' THEN 2 ELSE 1
  OBVIOUS
<1>3. MostSince' = k + failures + repeats - Len(to_client')
  BY <1>2 DEF MostSince
<1>4. id \in 0 .. IdSpace - 1
  BY DEF Ids
<1>5. CASE next_id' = NextId(id)
  <2>1. next_id' \in {id + 1, id + 1 - IdSpace}
    BY <1>1, <1>4, <1>5, NextIdIs
  <2>2. Since(1)'
    BY <2>1 DEF Since
  <2>3. 1 \in 1 .. MostSince'
    BY <1>1, <1>3
  <2> QED
    BY <2>2, <2>3 DEF NothingComes
<1>6. CASE next_id' = NextId(NextId(id)) /\ Pending'
  <2>1. next_id' \in {id + 2, id + 2 - IdSpace}
    <3>1. NextId(id) \in Ids /\ NextId(id) = IF id = IdSpace - 1 THEN 0 ELSE id + 1
      BY NextIdIs
    <3>2. NextId(NextId(id)) = IF NextId(id) = IdSpace - 1 THEN 0
                               ELSE NextId(id) + 1
      BY <3>1, NextIdIs
    <3> HIDE DEF NextId
    <3> QED
      BY <1>1, <1>4, <1>6, <3>1, <3>2
  <2>2. Since(2)'
    BY <2>1 DEF Since
  <2>3. 2 \in 1 .. MostSince'
    BY <1>1, <1>2, <1>3, <1>6
  <2> QED
    BY <2>2, <2>3 DEF NothingComes
<1> QED
  BY <1>5, <1>6

LEMMA IgnoreUnmixed ==
  ASSUME SdpInv, UnmixedInv, IgnoreMessage
  PROVE  UnmixedInv'
<1>1. /\ UNCHANGED <<answer, told, last_req, list, next_id, failures, repeats,
                     channel, to_server>>
      /\ to_client # << >> /\ to_client' = Tail(to_client)
      /\ ~Matches(Head(to_client))
      /\ stuck' = IF /\ Pending /\ Head(to_client).id = last_req.id
                     /\ Head(to_client).code = "none"
                  THEN stuck \cup {last_req.r} ELSE stuck
  BY DEF IgnoreMessage, requestVars
<1>2. /\ Len(to_client) \in Nat /\ Len(to_client) > 0
      /\ Len(to_client') = Len(to_client) - 1
      /\ \A i \in 1 .. Len(to_client') : to_client'[i] = to_client[i + 1]
      /\ \A i \in 1 .. Len(to_client') : to_client'[i].id \in Ids
      /\ Head(to_client) = to_client[1]
      /\ channel = "open"
      /\ failures \in Nat /\ repeats \in Nat
  BY <1>1, Taking
<1>3. AnswersUnmixed'
  BY <1>1, UnmixedSame DEF UnmixedInv
<1>4. Settled'
  BY <1>1, <1>2 DEF UnmixedInv, Settled
<1>5. CASE NothingComes
  <2>1. NothingComes'
    BY <1>1, <1>5, TakingNothing DEF Pending
  <2> QED
    BY <1>3, <1>4, <2>1 DEF UnmixedInv, Flow
<1>6. CASE AnswerComes
  <2>1. PICK n \in 0 .. Len(to_client), c \in Nat : Answering(n, c)
    BY <1>6 DEF AnswerComes
  <2>2. CASE n = 0
    <3>1. /\ to_server = << >> /\ Len(to_client') <= repeats
          /\ Head(to_client) \in ServerReplies(Pdu(last_req.id, last_req.r, c))
          /\ \A i \in 1 .. Len(to_client') : to_client'[i].id = last_req.id
          /\ next_id = NextId(last_req.id) /\ last_req.id \in Ids
      BY <1>1, <1>6, <2>1, <2>2, TakingAnswer
    <3>2. Pending
      BY <1>6 DEF AnswerComes
    <3>3. Head(to_client).id = last_req.id /\ Head(to_client).r = last_req.r
      <4>1. Pdu(last_req.id, last_req.r, c) \in Pdus
        BY <3>2 DEF Pdus, Pdu, SdpInv, SdpTypes, PendingOpen
      <4>2. /\ Pdu(last_req.id, last_req.r, c).id = last_req.id
            /\ Pdu(last_req.id, last_req.r, c).r = last_req.r
        BY DEF Pdu
      <4> QED
        BY <3>1, <4>1, <4>2, ReplyTypes DEF SdpInv
    <3>4. Head(to_client).code = "none"
      BY <1>1, <3>2, <3>3 DEF Matches
    <3>5. last_req'.r \in stuck'
      BY <1>1, <3>2, <3>3, <3>4
    <3>6. Len(to_client') \in Nat
      BY <1>2
    <3>7. NothingComes'
      BY <1>1, <3>1, <3>5, <3>6, NothingAfterAnswer DEF UnmixedInv
    <3> QED
      BY <1>3, <1>4, <3>7 DEF UnmixedInv, Flow
  <2>3. CASE n # 0
    <3>0. n \in Nat /\ n > 0 /\ n - 1 \in 0 .. Len(to_client') /\ (n - 1) + 1 = n
      BY <1>2, <2>3
    <3>1. stuck' = stuck
      <4>1. to_client[1].id # last_req.id
        BY <2>1, <3>0 DEF Answering
      <4> QED
        BY <1>1, <1>2, <4>1
    <3>2. (last_req.r \notin stuck => Collected(last_req.r, c))'
      BY <1>1, <2>1, <3>1, CollectedSame DEF Answering
    <3>3. \A i \in 1 .. n - 1 : to_client'[i].id # last_req'.id
      <4>1. \A i \in 1 .. n - 1 : i \in 1 .. Len(to_client') /\ i + 1 \in 1 .. n
        BY <1>2, <3>0
      <4> QED
        BY <1>1, <1>2, <2>1, <4>1 DEF Answering
    <3>4. n - 1 = Len(to_client') => n = Len(to_client)
      BY <1>2, <3>0
    <3>5. n - 1 < Len(to_client') => n < Len(to_client)
      BY <1>2, <3>0
    <3>6. n - 1 = Len(to_client')
            => to_server' = <<Pdu(last_req.id, last_req.r, c)>>'
      BY <1>1, <2>1, <3>4 DEF Answering, Pdu
    <3>7. n - 1 < Len(to_client') => to_server' = << >>
      BY <1>1, <2>1, <3>5 DEF Answering
    <3>8. ServerReplies(Pdu(last_req.id, last_req.r, c))'
            = ServerReplies(Pdu(last_req.id, last_req.r, c))
      BY <1>1, AskedSame
    <3>9. ASSUME NEW i \in (n - 1) + 1 .. Len(to_client')
          PROVE  /\ to_client'[i] = to_client'[(n - 1) + 1]
                 /\ to_client'[i] \in
                      ServerReplies(Pdu(last_req.id, last_req.r, c))
      <4>1. i + 1 \in n + 1 .. Len(to_client) /\ i \in 1 .. Len(to_client')
        BY <1>2, <3>0
      <4>2. n \in 1 .. Len(to_client')
        BY <1>2, <3>0, <4>1
      <4>3. to_client'[i] = to_client[i + 1] /\ to_client'[n] = to_client[n + 1]
        BY <1>2, <4>1, <4>2
      <4> QED
        BY <2>1, <3>0, <4>1, <4>3 DEF Answering
    <3>10. Answering(n - 1, c)'
      BY <3>2, <3>3, <3>6, <3>7, <3>8, <3>9 DEF Answering
    <3>11. Pending' /\ (next_id = NextId(last_req.id))'
      BY <1>1, <1>6 DEF AnswerComes, Pending, NextId
    <3>12. Len(to_client') + Len(to_server') <= repeats' + 1
      <4>1. Len(to_client) + Len(to_server) <= repeats + 1 /\ Len(to_server) \in Nat
        BY <1>6 DEF AnswerComes, SdpInv, SdpTypes
      <4>2. Len(to_server') = Len(to_server)
        BY <1>1
      <4> QED
        BY <1>1, <1>2, <4>1, <4>2
    <3>13. AnswerComes'
      BY <2>1, <3>0, <3>10, <3>11, <3>12 DEF AnswerComes
    <3> QED
      BY <1>3, <1>4, <3>13 DEF UnmixedInv, Flow
  <2> QED
    BY <2>2, <2>3
<1> QED
  BY <1>2, <1>5, <1>6 DEF UnmixedInv, Flow

(* What the reply to a PDU adds to what was collected before it: the list  *)
(* goes on where it ended and is complete when it is given out, and the    *)
(* handles of a search follow those that were given before.                *)
LEMMA ListGoesOn ==
  ASSUME SdpTypes, NEW r \in Known, last_req.r = r, NEW c \in Nat,
         Collected(r, c), NEW reply \in ServerReplies(Pdu(last_req.id, r, c)),
         reply.code = OK, Kind(r) = "attr", reply.good
  PROVE  \E to \in c + 1 .. Size(r) + 1 :
           /\ AttrReply(reply).whole = Parts(r, 1, to)
           /\ reply.next \in {0, to}
           /\ AttrReply(reply).good /\ reply.next # 0 =>
                AttrReply(reply).list = Parts(r, 1, to)
           /\ AttrReply(reply).good /\ reply.next = 0 => to = Size(r)
<1>1. Pdu(last_req.id, r, c) \in Pdus
  BY DEF Pdus, Pdu, SdpTypes
<1>2. Pdu(last_req.id, r, c).cont = c /\ Pdu(last_req.id, r, c).r = r
  BY DEF Pdu
<1>3. PICK to \in c + 1 .. Size(r) + 1 :
        reply.parts = Parts(r, c + 1, to) /\ reply.next \in {0, to}
  BY <1>1, <1>2, GoodReply
<1>4. r \in Nat /\ Size(r) \in Nat
  BY SizeType DEF Known, SdpTypes
<1>5. to \in Nat /\ c <= to /\ to > 0
  BY <1>4
<1>6. list = Parts(r, 1, c)
  BY DEF Collected
<1>7. list \o reply.parts = Parts(r, 1, to)
  <2>1. Parts(r, 1, c) \o Parts(r, c + 1, to) = Parts(r, 1, to)
    BY <1>4, <1>5, PartsJoin, Zenon
  <2> QED
    BY <1>3, <1>6, <2>1, Zenon
<1>8. ~Fragmented(reply) => reply.parts = list \o reply.parts
  <2>1. reply.parts \in Seq(Part)
    BY <1>1, ReplyTypes DEF Replies
  <2>2. << >> \o reply.parts = reply.parts
    BY <2>1, ConcatEmptySeq
  <2> QED
    BY <2>2 DEF Fragmented, NoList
<1> DEFINE whole == IF Fragmented(reply) THEN list \o reply.parts ELSE reply.parts
           fits == /\ list = NoList => TotalSize(whole) < MaxTotal
                   /\ Len(whole) <= TotalSize(whole)
           ends == reply.next = 0 => Len(whole) = TotalSize(whole)
<1>9. whole = Parts(r, 1, to)
  BY <1>7, <1>8
<1>10. Len(whole) = to /\ whole[1] = <<r, 1>>
  <2>1. to <= to
    BY <1>5
  <2>2. Len(Parts(r, 1, to)) = to
    BY <1>4, <1>5, <2>1, PartsJoin, Zenon
  <2>3. Parts(r, 1, to)[1] = <<r, 1>>
    BY <1>4, <1>5, <2>1, PartsFirst, Zenon
  <2> QED
    BY <1>9, <2>2, <2>3, Zenon
<1>11. TotalSize(whole) = Size(r)
  BY <1>10 DEF TotalSize
<1>12. /\ AttrReply(reply).whole = whole
       /\ AttrReply(reply).good = (reply.good /\ (Fragmented(reply) => fits) /\ ends)
       /\ AttrReply(reply).list =
            IF reply.good /\ Fragmented(reply) /\ fits THEN whole ELSE list
  BY DEF AttrReply
<1>13. reply.next # 0 => Fragmented(reply)
  BY DEF Fragmented
<1>14. AttrReply(reply).good /\ reply.next # 0 =>
         AttrReply(reply).list = Parts(r, 1, to)
  <2> HIDE DEF whole, fits, ends
  <2> QED
    BY <1>9, <1>12, <1>13
<1>15. AttrReply(reply).good /\ reply.next = 0 => to = Size(r)
  <2>1. AttrReply(reply).good => ends
    <3> HIDE DEF whole, fits, ends
    <3> QED
      BY <1>12
  <2> HIDE DEF whole
  <2> QED
    BY <1>10, <1>11, <2>1
<1> QED
  <2>1. AttrReply(reply).whole = Parts(r, 1, to)
    BY <1>9, <1>12
  <2> HIDE DEF whole, fits, ends
  <2> QED
    BY <1>3, <1>14, <1>15, <2>1

LEMMA AttrTold ==
  ASSUME SdpTypes, NEW r \in Known, last_req.r = r, NEW c \in Nat,
         Collected(r, c), NEW reply \in ServerReplies(Pdu(last_req.id, r, c)),
         Kind(r) = "attr"
  PROVE  /\ Result(reply).code = OK /\ ~Result(reply).more =>
              Result(reply).parts = Parts(r, 1, Size(r))
         /\ Result(reply).more =>
              /\ reply.code = OK
              /\ reply.next \in 0 .. Size(r) + 1
              /\ AttrReply(reply).list = Parts(r, 1, reply.next)
<1> DEFINE attr == AttrReply(reply)
<1>0. OK # PARSER
  BY DEF OK, PARSER
<1>1. CASE reply.code # OK
  <2>1. Result(reply) = [code |-> reply.code, parts |-> << >>, more |-> FALSE]
    BY <1>1, Zenon DEF Result
  <2> QED
    BY <1>1, <2>1
<1>2. CASE reply.code = OK /\ ~attr.good
  <2>1. Result(reply) = [code |-> PARSER, parts |-> << >>, more |-> FALSE]
    BY <1>2 DEF Result
  <2> QED
    BY <1>0, <2>1
<1>3. CASE reply.code = OK /\ attr.good
  <2>1. Result(reply) = [code |-> OK, more |-> reply.next # 0,
                         parts |-> attr.whole]
    BY <1>3 DEF Result
  <2>2. reply.good
    <3>1. attr.good => reply.good
      BY DEF AttrReply
    <3> QED
      BY <1>3, <3>1
  <2>3. PICK to \in c + 1 .. Size(r) + 1 :
           /\ attr.whole = Parts(r, 1, to)
           /\ reply.next \in {0, to}
           /\ attr.good /\ reply.next # 0 => attr.list = Parts(r, 1, to)
           /\ attr.good /\ reply.next = 0 => to = Size(r)
    BY <1>3, <2>2, ListGoesOn
  <2>4. Size(r) \in Nat
    BY SizeType
  <2> HIDE DEF attr
  <2>5. Result(reply).more = (reply.next # 0) /\ Result(reply).parts = attr.whole
    BY <2>1
  <2>6. CASE reply.next = 0
    BY <1>3, <2>3, <2>5, <2>6
  <2>7. CASE reply.next # 0
    <3>1. reply.next = to /\ to \in 0 .. Size(r) + 1
      BY <2>3, <2>4, <2>7
    <3>2. attr.list = Parts(r, 1, reply.next)
      BY <1>3, <2>3, <2>7, <3>1
    <3> QED
      BY <1>3, <2>5, <2>7, <3>1, <3>2 DEF attr
  <2> QED
    BY <2>6, <2>7
<1> QED
  BY <1>1, <1>2, <1>3

LEMMA SearchTold ==
  ASSUME SdpTypes, NEW r \in Known, last_req.r = r, NEW c \in Nat,
         Collected(r, c), NEW reply \in ServerReplies(Pdu(last_req.id, r, c)),
         Kind(r) # "attr"
  PROVE  \E to \in 0 .. Size(r) + 1 :
           /\ Concatenated(r) \o Result(reply).parts = Parts(r, 1, to)
           /\ Result(reply).more => reply.next = to
<1> DEFINE told_before == Concatenated(r)
<1>1. r \in Nat /\ Size(r) \in Nat
  BY SizeType DEF Known, SdpTypes
<1>2. told_before = Parts(r, 1, c) /\ c \in 0 .. Size(r) + 1
  BY DEF Collected
<1>3. told_before \o << >> = Parts(r, 1, c)
  <2>1. Parts(r, 1, c) \in Seq(Part)
    BY <1>1, PartsJoin
  <2> QED
    BY <1>2, <2>1, ConcatEmptySeq
<1>4. CASE reply.code # OK
  <2>1. Result(reply) = [code |-> reply.code, parts |-> << >>, more |-> FALSE]
    BY <1>4, Zenon DEF Result
  <2>2. Result(reply).parts = << >> /\ ~Result(reply).more
    BY <2>1
  <2> HIDE DEF told_before
  <2> QED
    BY <1>2, <1>3, <2>2 DEF told_before
<1>5. CASE reply.code = OK /\ ~reply.good
  <2>1. Result(reply) = [code |-> PARSER, parts |-> << >>, more |-> FALSE]
    BY <1>5 DEF Result
  <2>2. Result(reply).parts = << >> /\ ~Result(reply).more
    BY <2>1
  <2> HIDE DEF told_before
  <2> QED
    BY <1>2, <1>3, <2>2 DEF told_before
<1>6. CASE reply.code = OK /\ reply.good
  <2>1. Result(reply) = [code |-> OK, more |-> reply.next # 0,
                         parts |-> reply.parts]
    BY <1>6 DEF Result
  <2>2. Pdu(last_req.id, r, c) \in Pdus
    BY DEF Pdus, Pdu, SdpTypes
  <2>3. Pdu(last_req.id, r, c).cont = c /\ Pdu(last_req.id, r, c).r = r
    BY DEF Pdu
  <2>4. PICK to \in c + 1 .. Size(r) + 1 :
          reply.parts = Parts(r, c + 1, to) /\ reply.next \in {0, to}
    BY <1>6, <2>2, <2>3, GoodReply
  <2>5. to \in Nat /\ c <= to /\ to \in 0 .. Size(r) + 1
    BY <1>1
  <2>6. told_before \o reply.parts = Parts(r, 1, to)
    <3>1. Parts(r, 1, c) \o Parts(r, c + 1, to) = Parts(r, 1, to)
      BY <1>1, <2>5, PartsJoin, Zenon
    <3> QED
      BY <1>2, <2>4, <3>1, Zenon
  <2>7. /\ Result(reply).parts = reply.parts
        /\ Result(reply).more => reply.next = to
    <3>1. Result(reply).more = (reply.next # 0) /\ Result(reply).parts = reply.parts
      BY <2>1
    <3> QED
      BY <2>4, <3>1, Zenon
  <2> HIDE DEF told_before
  <2> QED
    BY <2>5, <2>6, <2>7 DEF told_before
<1> QED
  BY <1>4, <1>5, <1>6

(* The rest is asked for, and the messages still there are out of date.    *)
LEMMA AskedForMore ==
  ASSUME SdpInv, UnmixedInv, NEW c \in Nat, NEW r \in Nat \ {0},
         UNCHANGED <<repeats>>,
         last_req' = [last_req EXCEPT !.id = next_id], last_req.r = r,
         next_id' = NextId(next_id), to_server = << >>,
         to_server' = Append(to_server, Pdu(next_id, r, c)),
         Len(to_client') \in Nat, Len(to_client') <= repeats,
         \A i \in 1 .. Len(to_client') : to_client'[i].id # next_id,
         r \notin stuck' => Collected(r, c)'
  PROVE  AnswerComes'
<1>1. last_req'.id = next_id /\ last_req'.r = r
  BY DEF SdpInv, SdpTypes
<1>2. Pending'
  <2>1. last_req'.r # 0 /\ NoRequest.r = 0
    BY <1>1 DEF NoRequest
  <2> QED
    BY <2>1 DEF Pending
<1>3. to_server' = <<Pdu(next_id, r, c)>>
  OBVIOUS
<1>4. to_server' = <<Pdu(last_req.id, last_req.r, c)>>'
  BY <1>1, <1>3 DEF Pdu
<1>5. Len(to_client') + Len(to_server') <= repeats' + 1
  <2>1. Len(<<Pdu(next_id, r, c)>>) = 1
    OBVIOUS
  <2>2. Len(to_server') = 1
    BY <1>3, <2>1, Zenon
  <2>3. repeats \in Nat
    BY SdpSizeAssumption DEF UnmixedInv, Settled
  <2> QED
    BY <2>2, <2>3
<1>6. (next_id = NextId(last_req.id))'
  BY <1>1 DEF NextId
<1>7. PICK n \in Nat : n = Len(to_client')
  OBVIOUS
<1>8. Answering(n, c)'
  <2>1. ~(n < Len(to_client'))
    BY <1>7
  <2>2. \A i \in n + 1 .. Len(to_client') : FALSE
    BY <1>7
  <2>3. (last_req.r \notin stuck => Collected(last_req.r, c))'
    BY <1>1
  <2>4. \A i \in 1 .. n : to_client'[i].id # last_req'.id
    BY <1>1, <1>7
  <2> QED
    BY <1>4, <2>1, <2>2, <2>3, <2>4 DEF Answering
<1>9. n \in 0 .. Len(to_client')
  BY <1>7
<1> QED
  BY <1>2, <1>5, <1>6, <1>8, <1>9 DEF AnswerComes

(* One more id is taken by a request that is stuck.                        *)
LEMMA NothingAgain ==
  ASSUME IdsLast, SdpInv, UnmixedInv, NothingComes, Pending,
         to_client # << >>, to_client' = Tail(to_client),
         UNCHANGED <<failures, repeats, to_server>>,
         next_id' = NextId(next_id), Pending', last_req'.r \in stuck'
  PROVE  NothingComes'
<1>1. PICK d \in 1 .. MostSince : Since(d)
  BY DEF NothingComes
<1>2. /\ Len(to_client) \in Nat /\ Len(to_client) > 0
      /\ Len(to_client') = Len(to_client) - 1
      /\ \A i \in 1 .. Len(to_client') : to_client'[i] = to_client[i + 1]
      /\ \A i \in 1 .. Len(to_client') : i + 1 \in 1 .. Len(to_client)
      /\ failures \in Nat /\ repeats \in Nat
      /\ failures <= MaxFailures /\ repeats <= MaxRepeats
  BY Taking
<1>3. /\ MostSince = 2 + failures + repeats - Len(to_client)
      /\ MostSince' = 2 + failures + repeats - (Len(to_client) - 1)
  BY <1>2 DEF MostSince
<1>4. d + 1 \in 1 .. MostSince'
  BY <1>2, <1>3
<1>5. Since(d + 1)'
  <2> SUFFICES ASSUME NEW i \in 1 .. Len(to_client')
               PROVE  next_id' \in {to_client'[i].id + (d + 1),
                                    to_client'[i].id + (d + 1) - IdSpace}
    BY DEF Since
  <2>1. d \in Nat \ {0} /\ d < IdSpace
    <3>1. IdSpace \in Nat /\ MaxFailures \in Nat /\ MaxRepeats \in Nat
      BY SdpSizeAssumption
    <3>2. Len(to_client) >= 2
      BY <1>2
    <3> QED
      BY <1>2, <1>3, <3>1, <3>2 DEF IdsLast
  <2>2. i + 1 \in 1 .. Len(to_client)
    BY <1>2
  <2> QED
    BY <1>1, <1>2, <2>1, <2>2, SinceNext DEF UnmixedInv
<1>6. Len(to_client') <= repeats'
  BY <1>2 DEF NothingComes
<1> QED
  BY <1>4, <1>5, <1>6 DEF NothingComes

LEMMA NothingAskedAgain ==
  ASSUME IdsLast, SdpInv, UnmixedInv, NothingComes, Pending,
         to_client # << >>, to_client' = Tail(to_client)
  PROVE  \A i \in 1 .. Len(to_client') : to_client'[i].id # next_id
<1>1. PICK d \in 1 .. MostSince : Since(d)
  BY DEF NothingComes
<1>2. /\ Len(to_client) \in Nat /\ Len(to_client) > 0
      /\ Len(to_client') = Len(to_client) - 1
      /\ \A i \in 1 .. Len(to_client') : to_client'[i] = to_client[i + 1]
      /\ \A i \in 1 .. Len(to_client') : i + 1 \in 1 .. Len(to_client)
      /\ failures \in Nat /\ repeats \in Nat
      /\ failures <= MaxFailures /\ repeats <= MaxRepeats
  BY Taking
<1>3. MostSince = 2 + failures + repeats - Len(to_client)
  BY DEF MostSince
<1> SUFFICES ASSUME NEW i \in 1 .. Len(to_client')
             PROVE  to_client'[i].id # next_id
  OBVIOUS
<1>4. d \in Nat \ {0} /\ d < IdSpace
  <2>1. IdSpace \in Nat /\ MaxFailures \in Nat /\ MaxRepeats \in Nat
    BY SdpSizeAssumption
  <2>2. Len(to_client) >= 2
    BY <1>2
  <2> QED
    BY <1>2, <1>3, <2>1, <2>2 DEF IdsLast
<1> QED
  BY <1>1, <1>2, <1>4, SinceNext DEF UnmixedInv

LEMMA MessageUnmixed ==
  ASSUME IdsLast, SdpInv, UnmixedInv, NEW wants_more \in BOOLEAN,
         NEW drops \in BOOLEAN, NEW keeps \in BOOLEAN,
         OnMessage(wants_more, drops, keeps)
  PROVE  UnmixedInv'
<1>0. PICK last \in Nat : last = last_req.r
  BY DEF SdpInv, SdpTypes
<1>a. PICK reply : reply = Head(to_client)
  OBVIOUS
<1>b. PICK result : result = Result(reply)
  OBVIOUS
<1> DEFINE called == Called(Kind(last), result.more)
           complete == ~result.more \/ (Kind(last) = "search" /\ ~wants_more)
           within == refs + TempRef - (IF called /\ drops THEN 1 ELSE 0)
           gone == LosesChannel(within - TempRef, keeps)
           given == [result EXCEPT !.more = ~complete]
<1>1. /\ Pending /\ last \in Known /\ last # 0 /\ to_client # << >>
      /\ reply.id = last_req.id
  BY <1>0, <1>a DEF OnMessage, Matches, SdpInv, PendingOpen, Known
<1>2. reply \in Replies
  BY <1>1, <1>a, Consuming DEF SdpInv, SdpTypes
<1>3. /\ result \in Tolds /\ result.more \in BOOLEAN
      /\ result.more => result.code = OK
  BY <1>2, <1>b, ResultType DEF SdpInv, Tolds
<1>5. /\ UNCHANGED <<answer, failures, repeats>>
      /\ told' = IF called THEN [told EXCEPT ![last] = Append(@, given)]
                 ELSE told
      /\ list' = IF Kind(last) = "attr" /\ reply.code = OK
                 THEN AttrReply(reply).list ELSE list
      /\ channel' = IF gone THEN "closed" ELSE channel
      /\ to_client' = IF gone THEN << >> ELSE Tail(to_client)
  BY <1>0, <1>a, <1>b, Zenon DEF OnMessage
<1>6. /\ complete => last_req' = NoRequest /\ UNCHANGED <<next_id, stuck>>
      /\ complete => to_server' = IF gone THEN << >> ELSE to_server
      /\ ~complete /\ gone => /\ UNCHANGED <<last_req, stuck>>
                              /\ to_server' = << >>
                              /\ next_id' = NextId(next_id)
      /\ ~complete /\ ~gone => Continue(reply)
  BY <1>0, <1>a, <1>b DEF OnMessage
<1>7. Kind(last) \in Kinds /\ Size(last) \in Nat
  BY <1>1, SizeType DEF SdpInv
<1>8. given \in Tolds /\ given.parts = result.parts /\ given.code = result.code
  <2>1. PICK more \in BOOLEAN : more = ~complete
    OBVIOUS
  <2>2. given = [result EXCEPT !.more = more]
    BY <2>1
  <2> HIDE DEF given, complete
  <2> QED
    BY <1>3, <2>2 DEF Tolds
<1> HIDE DEF called, complete, within, gone, given
<1>9. stuck \subseteq stuck'
  BY <1>6 DEF Continue
<1>10. last_req'.id \in Ids /\ next_id' \in Ids
  <2>1. next_id \in Ids /\ last_req.id \in Ids /\ NextId(next_id) \in Ids
    BY NextIdIs DEF UnmixedInv, Settled
  <2>2. NoRequest.id \in Ids
    BY SdpSizeAssumption DEF NoRequest, Ids
  <2>3. CASE complete
    BY <1>6, <2>1, <2>2, <2>3
  <2>4. CASE ~complete /\ gone
    BY <1>6, <2>1, <2>4
  <2>5. CASE ~complete /\ ~gone
    BY <1>6, <2>1, <2>5 DEF Continue, SdpInv, SdpTypes
  <2> QED
    BY <2>3, <2>4, <2>5
<1>11. PICK prior \in Seq(Tolds) : prior = told[last]
  <2>1. told \in Seq(Seq(Tolds)) /\ last \in 1 .. Len(told)
    BY <1>1 DEF SdpInv, SdpTypes, Known
  <2> QED
    BY <2>1
<1>12. /\ told'[last] = IF called THEN Append(prior, given) ELSE prior
       /\ \A r \in 1 .. Len(answer) : r # last => told'[r] = told[r]
  <2>1. told \in Seq(Seq(Tolds)) /\ last \in 1 .. Len(told)
    BY <1>1 DEF SdpInv, SdpTypes, Known
  <2>2. PICK now \in Seq(Tolds) : now = Append(prior, given)
    BY <1>8, <1>11, Appending
  <2>3. told' = IF called THEN [told EXCEPT ![last] = now] ELSE told
    BY <1>5, <1>11, <2>2
  <2>4. Len(told) = Len(answer)
    BY DEF SdpInv, SdpTypes
  <2> QED
    BY <1>11, <2>1, <2>2, <2>3, <2>4, Changing
<1>13. Concatenated(last)' =
         IF called THEN Concatenated(last) \o result.parts ELSE Concatenated(last)
  <2>1. Concatenated(last) = TellsOf(prior)
    BY <1>11 DEF Concatenated, TellsOf
  <2>2. Concatenated(last)' = TellsOf(told'[last])
    BY DEF Concatenated, TellsOf
  <2>3. TellsOf(Append(prior, given)) = TellsOf(prior) \o given.parts
    BY <1>8, <1>11, TellsMore
  <2> QED
    BY <1>8, <1>12, <2>1, <2>2, <2>3
<1>14. Settled'
  <2>1. CASE gone
    <3>1. to_client' = << >> /\ to_server' = << >>
      BY <1>5, <1>6, <2>1
    <3>2. Len(<< >>) = 0 /\ 1 .. 0 = {}
      OBVIOUS
    <3> QED
      BY <1>5, <1>10, <3>1, <3>2 DEF UnmixedInv, Settled
  <2>2. CASE ~gone
    <3>1. channel = "open" /\ \A i \in 1 .. Len(to_client') : to_client'[i].id \in Ids
      BY <1>1, <1>5, <2>2, Taking
    <3> QED
      BY <1>5, <1>10, <2>2, <3>1 DEF UnmixedInv, Settled
  <2> QED
    BY <2>1, <2>2
<1>c. DOMAIN answer' = 1 .. Len(answer)
  <2>1. DOMAIN answer = 1 .. Len(answer)
    BY DEF SdpInv, SdpTypes
  <2> QED
    BY <1>5, <2>1
<1>15. CASE NothingComes
  <2>1. last \in stuck /\ to_server = << >>
    BY <1>0, <1>1, <1>15 DEF NothingComes
  <2>2. AnswersUnmixed'
    <3> SUFFICES ASSUME NEW r \in 1 .. Len(answer), r \notin stuck'
                 PROVE  (/\ Kind(r) = "attr" /\ told[r] # << >> /\ ~Failed(r) =>
                             Concatenated(r) = Parts(r, 1, Size(r))
                         /\ Kind(r) = "search" =>
                             IsPrefix(Concatenated(r), Parts(r, 1, Size(r) + 1)))'
      BY <1>c DEF AnswersUnmixed
    <3>1. r # last /\ r \in DOMAIN answer \ stuck
      BY <1>9, <2>1 DEF SdpInv, SdpTypes
    <3>2. told'[r] = told[r] /\ answer'[r] = answer[r]
      BY <1>5, <1>12, <3>1
    <3> QED
      BY <3>1, <3>2 DEF UnmixedInv, AnswersUnmixed, Kind, Size, Failed, Concatenated
  <2>3. Flow'
    <3> SUFFICES ASSUME ~gone PROVE NothingComes' \/ AnswerComes'
      BY <1>5 DEF Flow
    <3>0. to_client' = Tail(to_client)
      BY <1>5
    <3>1. CASE complete
      <4>1. ~Pending' /\ UNCHANGED <<next_id, to_server, stuck>>
        BY <1>6, <3>1 DEF Pending
      <4> QED
        BY <1>1, <1>5, <1>15, <3>0, <4>1, TakingNothing
    <3>2. CASE ~complete
      <4>1. Continue(reply)
        BY <1>6, <3>2
      <4>2. next_id' = NextId(next_id)
        BY <4>1 DEF Continue
      <4>3. CASE /\ last_req' = [last_req EXCEPT !.id = next_id]
                 /\ to_server' = Append(to_server, Pdu(next_id, last_req.r, reply.next))
                 /\ UNCHANGED stuck
        <5>1. \A i \in 1 .. Len(to_client') : to_client'[i].id # next_id
          BY <1>1, <1>15, <3>0, NothingAskedAgain
        <5>2. Len(to_client') \in Nat /\ Len(to_client') <= repeats
          <6>1. /\ Len(to_client) \in Nat /\ Len(to_client) > 0 /\ repeats \in Nat
                /\ Len(to_client') = Len(to_client) - 1
            BY <1>1, <3>0, Taking
          <6> QED
            BY <1>15, <6>1 DEF NothingComes
        <5>3. reply.next \in Nat /\ last \in Nat \ {0}
          BY <1>1, <1>2 DEF Replies
        <5>4. last \in stuck'
          BY <2>1, <4>3
        <5>5. to_server' = Append(to_server, Pdu(next_id, last, reply.next))
          BY <1>0, <4>3
        <5> QED
          BY <1>0, <1>5, <2>1, <4>2, <4>3, <5>1, <5>2, <5>3, <5>4, <5>5,
             AskedForMore
      <4>4. CASE /\ last_req' \in {last_req, [last_req EXCEPT !.id = next_id]}
                 /\ stuck' = stuck \cup {last_req.r}
                 /\ UNCHANGED to_server
        <5>1. last_req'.r = last
          BY <1>0, <4>4 DEF SdpInv, SdpTypes
        <5>2. Pending' /\ last_req'.r \in stuck'
          <6>1. NoRequest.r = 0
            BY DEF NoRequest
          <6> QED
            BY <1>1, <1>9, <2>1, <5>1, <6>1 DEF Pending
        <5> QED
          BY <1>1, <1>5, <1>15, <3>0, <4>2, <4>4, <5>2, NothingAgain
      <4> QED
        BY <4>1, <4>3, <4>4 DEF Continue
    <3> QED
      BY <3>1, <3>2
  <2> QED
    BY <1>14, <2>2, <2>3 DEF UnmixedInv
<1>16. CASE AnswerComes
  <2>1. PICK n \in 0 .. Len(to_client), c \in Nat : Answering(n, c)
    BY <1>16 DEF AnswerComes
  <2>3. n = 0
    <3>1. reply = to_client[1]
      BY <1>1, <1>a, Consuming DEF SdpInv, SdpTypes
    <3>2. ~(1 \in 1 .. n)
      BY <1>1, <2>1, <3>1 DEF Answering
    <3> QED
      BY <3>2
  <2>4. to_server = << >>
    <3>1. Len(to_client) # 0 /\ Len(to_client) \in Nat
      BY <1>1, EmptySeq DEF SdpInv, SdpTypes
    <3> QED
      BY <2>1, <2>3, <3>1 DEF Answering
  <2>5. reply \in ServerReplies(Pdu(last_req.id, last, c))
    <3>1. /\ 1 \in 0 + 1 .. Len(to_client) /\ reply = to_client[1]
      <4>1. to_client \in Seq(Replies)
        BY DEF SdpInv, SdpTypes
      <4>2. Len(to_client) \in Nat /\ Len(to_client) > 0 /\ reply = to_client[1]
        BY <1>1, <1>a, <4>1, EmptySeq, Consuming
      <4> QED
        BY <4>2
    <3> QED
      BY <1>0, <2>1, <2>3, <3>1 DEF Answering
  <2>6. last \notin stuck => Collected(last, c)
    BY <1>0, <2>1 DEF Answering
  <2>7. ASSUME last \notin stuck, Kind(last) = "attr"
        PROVE  /\ result.code = OK /\ ~result.more =>
                    result.parts = Parts(last, 1, Size(last))
               /\ result.more =>
                    /\ reply.next \in 0 .. Size(last) + 1
                    /\ list' = Parts(last, 1, reply.next)
               /\ prior = << >>
    <3>1. /\ result.code = OK /\ ~result.more =>
                result.parts = Parts(last, 1, Size(last))
          /\ result.more =>
                /\ reply.code = OK
                /\ reply.next \in 0 .. Size(last) + 1
                /\ AttrReply(reply).list = Parts(last, 1, reply.next)
      BY <1>0, <1>1, <1>b, <2>5, <2>6, <2>7, AttrTold DEF SdpInv
    <3>2. prior = << >>
      BY <1>0, <1>1, <1>11, <2>7 DEF SdpInv, PendingOpen
    <3> QED
      BY <1>5, <2>7, <3>1, <3>2
  <2>8. ASSUME last \notin stuck, Kind(last) # "attr"
        PROVE  \E to \in 0 .. Size(last) + 1 :
                 /\ Concatenated(last)' = Parts(last, 1, to)
                 /\ result.more => reply.next = to
    <3>1. PICK to \in 0 .. Size(last) + 1 :
            /\ Concatenated(last) \o result.parts = Parts(last, 1, to)
            /\ result.more => reply.next = to
      BY <1>0, <1>1, <1>b, <2>5, <2>6, <2>8, SearchTold DEF SdpInv
    <3>2. called
      BY <1>7, <2>8 DEF called, Called, Kinds
    <3> QED
      BY <1>13, <3>1, <3>2
  <2>9. AnswersUnmixed'
    <3> SUFFICES ASSUME NEW r \in 1 .. Len(answer), r \notin stuck'
                 PROVE  (/\ Kind(r) = "attr" /\ told[r] # << >> /\ ~Failed(r) =>
                             Concatenated(r) = Parts(r, 1, Size(r))
                         /\ Kind(r) = "search" =>
                             IsPrefix(Concatenated(r), Parts(r, 1, Size(r) + 1)))'
      BY <1>c DEF AnswersUnmixed
    <3>1. CASE r # last
      <4>1. r \in DOMAIN answer \ stuck
        BY <1>9 DEF SdpInv, SdpTypes
      <4>2. told'[r] = told[r] /\ answer'[r] = answer[r]
        BY <1>5, <1>12, <3>1
      <4> QED
        BY <4>1, <4>2
           DEF UnmixedInv, AnswersUnmixed, Kind, Size, Failed, Concatenated
    <3>2. CASE r = last
      <4>0. last \notin stuck /\ answer' = answer
        BY <1>5, <1>9, <3>2
      <4>1. ASSUME Kind(last) = "attr", told'[last] # << >>,
                   ~Failed(last)'
            PROVE  Concatenated(last)' = Parts(last, 1, Size(last))
        <5>1. prior = << >>
          BY <2>7, <4>0, <4>1
        <5>2. called /\ told'[last] = Append(prior, given)
          BY <1>12, <4>1, <5>1
        <5>3. ~result.more
          BY <4>1, <5>2 DEF called, Called
        <5>4. told'[last] = <<given>>
          BY <1>8, <5>1, <5>2
        <5>5. result.code = OK
          <6>1. 1 \in DOMAIN told'[last] /\ told'[last][1] = given
            BY <5>4
          <6> QED
            BY <1>8, <4>1, <6>1 DEF Failed
        <5>6. result.parts = Parts(last, 1, Size(last))
          BY <2>7, <4>0, <4>1, <5>3, <5>5
        <5>7. Concatenated(last) = << >>
          BY <1>11, <5>1, TellsNone DEF Concatenated, TellsOf
        <5>8. << >> \o result.parts = result.parts
          BY <1>3, ConcatEmptySeq DEF Tolds
        <5> QED
          BY <1>13, <5>2, <5>6, <5>7, <5>8
      <4>2. ASSUME Kind(last) = "search"
            PROVE  IsPrefix(Concatenated(last)', Parts(last, 1, Size(last) + 1))
        <5>1. PICK to \in 0 .. Size(last) + 1 :
                 Concatenated(last)' = Parts(last, 1, to)
          BY <2>8, <4>0, <4>2
        <5>2. to \in Nat /\ Size(last) + 1 \in Nat /\ to <= Size(last) + 1
          BY <1>7
        <5>3. IsPrefix(Parts(last, 1, to), Parts(last, 1, Size(last) + 1))
          BY <5>2, PartsFirst, Zenon
        <5> QED
          BY <5>1, <5>3
      <4>3. Kind(last)' = Kind(last) /\ Size(last)' = Size(last)
        BY <4>0 DEF Kind, Size
      <4>4. /\ Parts(last, 1, Size(last))' = Parts(last, 1, Size(last))
            /\ Parts(last, 1, Size(last) + 1)' = Parts(last, 1, Size(last) + 1)
        BY <4>3 DEF Parts
      <4>6. (Kind(last) = "attr" /\ told[last] # << >> /\ ~Failed(last) =>
               Concatenated(last) = Parts(last, 1, Size(last)))'
        BY <4>1, <4>3, <4>4
      <4>7. (Kind(last) = "search" =>
               IsPrefix(Concatenated(last), Parts(last, 1, Size(last) + 1)))'
        BY <4>2, <4>3, <4>4 DEF IsPrefix
      <4> QED
        BY <3>2, <4>6, <4>7
    <3> QED
      BY <3>1, <3>2
  <2>10. Flow'
    <3> SUFFICES ASSUME ~gone PROVE NothingComes' \/ AnswerComes'
      BY <1>5 DEF Flow
    <3>0. to_client' = Tail(to_client)
      BY <1>5
    <3>1. /\ Len(to_client') <= repeats
          /\ \A i \in 1 .. Len(to_client') : to_client'[i].id = last_req.id
          /\ next_id = NextId(last_req.id) /\ last_req.id \in Ids
          /\ next_id # last_req.id
      BY <1>1, <1>16, <2>1, <2>3, <3>0, TakingAnswer
    <3>2. Len(to_client') \in Nat
      <4>1. /\ Len(to_client) \in Nat /\ Len(to_client) > 0
            /\ Len(to_client') = Len(to_client) - 1
        BY <1>1, <3>0, Taking
      <4> QED
        BY <4>1
    <3>3. CASE complete
      <4>1. ~Pending' /\ UNCHANGED <<next_id, to_server>>
        BY <1>6, <3>3 DEF Pending
      <4> QED
        BY <1>5, <2>4, <3>1, <3>2, <4>1, NothingAfterAnswer DEF UnmixedInv
    <3>4. CASE ~complete
      <4>1. Continue(reply)
        BY <1>6, <3>4
      <4>2. next_id' = NextId(next_id) /\ result.more
        BY <3>4, <4>1 DEF Continue, complete
      <4>3. CASE /\ last_req' = [last_req EXCEPT !.id = next_id]
                 /\ to_server' = Append(to_server, Pdu(next_id, last_req.r, reply.next))
                 /\ UNCHANGED stuck
        <5>1. \A i \in 1 .. Len(to_client') : to_client'[i].id # next_id
          BY <3>1
        <5>2. reply.next \in Nat /\ last \in Nat \ {0}
          BY <1>1, <1>2 DEF Replies
        <5>3. to_server' = Append(to_server, Pdu(next_id, last, reply.next))
          BY <1>0, <4>3
        <5>4. ASSUME last \notin stuck PROVE Collected(last, reply.next)'
          <6>1. PICK next \in Nat : next = reply.next
            BY <5>2
          <6>2. Kind(last)' = Kind(last) /\ Size(last)' = Size(last)
            BY <1>5 DEF Kind, Size
          <6>3. CASE Kind(last) = "attr"
            <7>1. next \in 0 .. Size(last) + 1 /\ list' = Parts(last, 1, next)
              BY <2>7, <4>2, <5>4, <6>1, <6>3
            <7> QED
              BY <6>1, <6>2, <6>3, <7>1 DEF Collected, Parts
          <6>4. CASE Kind(last) # "attr"
            <7>1. /\ next \in 0 .. Size(last) + 1
                  /\ Concatenated(last)' = Parts(last, 1, next)
              BY <2>8, <4>2, <5>4, <6>1, <6>4
            <7> QED
              BY <6>1, <6>2, <6>4, <7>1 DEF Collected, Parts
          <6> QED
            BY <6>3, <6>4
        <5> QED
          BY <1>0, <1>5, <2>4, <3>1, <3>2, <4>2, <4>3, <5>1, <5>2, <5>3, <5>4,
             AskedForMore
      <4>4. CASE /\ last_req' \in {last_req, [last_req EXCEPT !.id = next_id]}
                 /\ stuck' = stuck \cup {last_req.r}
                 /\ UNCHANGED to_server
        <5>1. last_req'.r = last
          BY <1>0, <4>4 DEF SdpInv, SdpTypes
        <5>2. Pending' /\ last_req'.r \in stuck'
          <6>1. NoRequest.r = 0
            BY DEF NoRequest
          <6> QED
            BY <1>0, <1>1, <4>4, <5>1, <6>1 DEF Pending
        <5>3. next_id' = NextId(NextId(last_req.id)) /\ to_server' = << >>
          BY <2>4, <3>1, <4>2, <4>4
        <5> QED
          BY <1>5, <3>1, <3>2, <5>2, <5>3, NothingAfterAnswer DEF UnmixedInv
      <4> QED
        BY <4>1, <4>3, <4>4 DEF Continue
    <3> QED
      BY <3>3, <3>4
  <2> QED
    BY <1>14, <2>9, <2>10 DEF UnmixedInv
<1> QED
  <2>1. channel = "open"
    BY <1>1 DEF UnmixedInv, Settled
  <2> QED
    BY <1>15, <1>16, <2>1 DEF UnmixedInv, Flow

LEMMA StillUnmixed ==
  ASSUME UnmixedInv, Still
  PROVE  UnmixedInv'
<1>1. UNCHANGED <<last_req, list, next_id, answer, failures, told, channel,
                  to_server, to_client, repeats, stuck>>
  BY DEF Still
<1>2. AnswersUnmixed'
  BY <1>1, UnmixedSame DEF UnmixedInv
<1>3. Settled'
  BY <1>1 DEF UnmixedInv, Settled
<1>4. NothingComes => NothingComes'
  BY <1>1 DEF NothingComes, Since, MostSince, Pending
<1>5. ASSUME NEW n \in 0 .. Len(to_client), NEW c \in Nat, Answering(n, c)
      PROVE  Answering(n, c)'
  <2>1. ServerReplies(Pdu(last_req.id, last_req.r, c))'
          = ServerReplies(Pdu(last_req.id, last_req.r, c))
    BY <1>1, AskedSame
  <2>2. (last_req.r \notin stuck => Collected(last_req.r, c))'
    BY <1>1, <1>5, CollectedSame DEF Answering
  <2>3. <<Pdu(last_req.id, last_req.r, c)>>' = <<Pdu(last_req.id, last_req.r, c)>>
    BY <1>1 DEF Pdu
  <2> QED
    BY <1>1, <1>5, <2>1, <2>2, <2>3 DEF Answering
<1>6. AnswerComes => AnswerComes'
  <2> SUFFICES ASSUME AnswerComes PROVE AnswerComes'
    OBVIOUS
  <2>1. PICK n \in 0 .. Len(to_client), c \in Nat : Answering(n, c)
    BY DEF AnswerComes
  <2>2. Answering(n, c)'
    BY <1>5, <2>1
  <2>3. Pending' /\ (next_id = NextId(last_req.id))'
    BY <1>1 DEF AnswerComes, Pending, NextId
  <2>4. n \in 0 .. Len(to_client')
    BY <1>1, <2>1
  <2> QED
    BY <1>1, <2>2, <2>3, <2>4 DEF AnswerComes
<1> QED
  BY <1>1, <1>2, <1>3, <1>4, <1>6 DEF UnmixedInv, Flow

LEMMA UnmixedInductive ==
  ASSUME IdsLast, SdpInv, UnmixedInv, [Next]_vars
  PROVE  UnmixedInv'
<1>1. ASSUME NEW kind \in Kinds, NEW size \in Sizes, Request(kind, size)
      PROVE  UnmixedInv'
  BY <1>1, RequestUnmixed
<1>2. ASSUME NEW wants_more \in BOOLEAN, NEW drops \in BOOLEAN,
             NEW keeps \in BOOLEAN, OnMessage(wants_more, drops, keeps)
      PROVE  UnmixedInv'
  BY <1>2, MessageUnmixed
<1> QED
  BY <1>1, <1>2, ClosingSteps, ClosedUnmixed, StillUnmixed, RequestFailsUnmixed,
     IgnoreUnmixed, AnswersUnmixedStep, RepeatsUnmixed, Zenon
     DEF Next, MessageArrives

LEMMA UnmixedInitially == Init => UnmixedInv
<1> SUFFICES ASSUME Init PROVE UnmixedInv
  OBVIOUS
<1>1. /\ told = << >> /\ answer = << >> /\ to_server = << >>
      /\ to_client = << >> /\ last_req = NoRequest /\ next_id = 0
      /\ failures = 0 /\ repeats = 0 /\ channel = "open"
  BY DEF Init
<1>2. Len(<< >>) = 0 /\ DOMAIN << >> = {} /\ 1 .. 0 = {} /\ 0 <= 0
  OBVIOUS
<1>3. Settled
  <2>1. 0 \in Ids /\ NoRequest.id = 0
    BY SdpSizeAssumption DEF Ids, NoRequest
  <2>2. 0 \in 0 .. MaxFailures /\ 0 \in 0 .. MaxRepeats
    BY SdpSizeAssumption
  <2> QED
    BY <1>1, <1>2, <2>1, <2>2, Zenon DEF Settled
<1>4. AnswersUnmixed
  BY <1>1, <1>2, Zenon DEF AnswersUnmixed
<1>5. ~Pending
  BY <1>1 DEF Pending
<1>6. MostSince = 1
  <2>1. Len(to_client) = 0
    BY <1>1, <1>2, Zenon
  <2> QED
    BY <1>1, <1>5, <2>1 DEF MostSince
<1>7. Since(1)
  BY <1>1, <1>2 DEF Since
<1>8. NothingComes
  <2>1. Len(to_client) <= repeats
    BY <1>1, <1>2
  <2> QED
    BY <1>1, <1>5, <1>6, <1>7, <2>1 DEF NothingComes
<1> QED
  BY <1>3, <1>4, <1>8 DEF UnmixedInv, Flow

(* As long as the requests that fail and the replies that are repeated are *)
(* fewer than the transaction ids (65536 in the code), an attribute list   *)
(* that a callback is given without an error is the one that the server    *)
(* holds for that request, and the callbacks of a search are given handles *)
(* in order and once each, whatever the server repeats, cuts short or adds *)
(* and whatever cannot be sent (on_message_received,                       *)
(* parse_service_attr_reply, send_continuation_request).  The hypothesis   *)
(* cannot go: with two ids, one failure and one repetition a reply that is *)
(* out of date answers a later request.                                    *)
THEOREM Unmixed ==
  ASSUME IdSpace > MaxFailures + MaxRepeats
  PROVE  Spec => []AnswersUnmixed
<1>1. IdsLast
  BY DEF IdsLast
<1>2. Init => SdpInv /\ UnmixedInv
  BY SdpInitially, UnmixedInitially
<1>3. (SdpInv /\ UnmixedInv) /\ [Next]_vars => (SdpInv /\ UnmixedInv)'
  BY <1>1, SdpInductive, UnmixedInductive
<1>4. UnmixedInv => AnswersUnmixed
  BY DEF UnmixedInv
<1> QED
  BY <1>2, <1>3, <1>4, PTL DEF Spec
=============================================================================

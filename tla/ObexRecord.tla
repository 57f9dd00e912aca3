----------------------------- MODULE ObexRecord -----------------------------
(***************************************************************************)
(* What bte_obex_discover finds in the attributes that an SDP server       *)
(* returns (services/obex.c): the RFCOMM channel and the L2CAP PSM of an   *)
(* object push service, read with the reader of SdpElement from a list of  *)
(* records.  A record is a sequence of attribute ids and values.           *)
(***************************************************************************)
EXTENDS SdpElement

CONSTANT Records  \* the lists of records, some of Trees
ASSUME RecordsAssumption == Records \subseteq Trees

PROTO_DESC_LIST == <<0, 4>>
GOEP_L2CAP_PSM == <<2, 0>>
RFCOMM == <<0, 3>>

(* find_rfcomm_channel, at the value of a protocol descriptor list: each   *)
(* protocol is a sequence of a UUID and parameters.                        *)
RECURSIVE RfcommLoop(_, _, _)
ParamOfAny(de, uuid) == ReaderNext(de, uuid.to)  \* mutant: of any protocol
Param(de, uuid) ==
  IF ReadUint16(DataAt(de, uuid.to)) = RFCOMM THEN ReaderNext(de, uuid.to)
  ELSE [to |-> uuid.to, ok |-> FALSE]
NextProtocol(de, param, channel) ==
  RfcommLoop(de, ReaderLeave(de, param.to).to,
             IF param.ok THEN ReadUint(1, DataAt(de, param.to)) ELSE channel)
Protocol(de, inner, uuid, channel) ==
  IF inner.ok /\ uuid.ok THEN NextProtocol(de, Param(de, uuid), channel)
  ELSE [to |-> uuid.to, error |-> TRUE, channel |-> Zero(1)]
RfcommLoop(de, r, channel) ==
  LET protocol == ReaderNext(de, r)
      inner == ReaderEnter(de, protocol.to)
  IN IF protocol.ok THEN Protocol(de, inner, ReaderNext(de, inner.to), channel)
     ELSE [to |-> protocol.to, error |-> FALSE, channel |-> channel]
LeaveList(de, found) ==
  IF found.error THEN found ELSE [found EXCEPT !.to = ReaderLeave(de, found.to).to]
FindRfcommChannel(de, r) ==
  IF ReaderEnter(de, r).ok
  THEN LeaveList(de, RfcommLoop(de, ReaderEnter(de, r).to, Zero(1)))
  ELSE [to |-> r, error |-> TRUE, channel |-> Zero(1)]

(* service_search_attr_cb: the loops over the records and over the         *)
(* attributes of one.  It reports what it has found so far when an element *)
(* is not what it expects.  The reader does not go on behind a sequence    *)
(* that it entered and found empty, as next_called is FALSE when it has    *)
(* left it: it comes to an empty record again and again, and takes an      *)
(* empty descriptor list for the next attribute id.                        *)
RECURSIVE Attributes(_, _, _)
FoundList(de, found, reply) ==
  IF found.error THEN [to |-> found.to, error |-> TRUE, reply |-> reply]
  ELSE Attributes(de, found.to, reply)
Attribute(de, attr_id, value, reply) ==
  CASE attr_id = PROTO_DESC_LIST ->
         LET found == FindRfcommChannel(de, value)
         IN FoundList(de, found, [reply EXCEPT !.channel = found.channel])
    [] attr_id = GOEP_L2CAP_PSM ->
         Attributes(de, value, [reply EXCEPT !.psm = ReadUint16(DataAt(de, value))])
    [] OTHER -> Attributes(de, value, reply)
Attributes(de, r, reply) ==
  LET id == ReaderNext(de, r)
      value == ReaderNext(de, id.to)
  IN IF ~id.ok THEN [to |-> id.to, error |-> FALSE, reply |-> reply]
     ELSE IF ~value.ok THEN [to |-> value.to, error |-> TRUE, reply |-> reply]
     ELSE Attribute(de, ReadUint16(DataAt(de, id.to)), value.to, reply)
NeverEnds == "never ends"
RECURSIVE RecordLoop(_, _, _)
NextRecord(de, record, attributes) ==
  LET left == ReaderLeave(de, attributes.to).to
  IN IF attributes.error THEN attributes.reply
     ELSE IF ReaderNext(de, left).to = record THEN NeverEnds
     ELSE RecordLoop(de, left, attributes.reply)
RecordLoop(de, r, reply) ==
  LET record == ReaderNext(de, r)
      inner == ReaderEnter(de, record.to)
  IN IF record.ok /\ inner.ok
     THEN NextRecord(de, record.to, Attributes(de, inner.to, reply))
     ELSE reply
NoReply == [channel |-> Zero(1), psm |-> Zero(2)]
Discover(de) ==
  IF ~ReaderEnter(de, ReaderInit).ok THEN NoReply
  ELSE RecordLoop(de, ReaderEnter(de, ReaderInit).to, NoReply)

-----------------------------------------------------------------------------
(* Properties.                                                             *)

(* The attributes of a record and of the first n records of a list.        *)
AttributesOf(record) ==
  [i \in 1 .. Len(record.kids) \div 2 |->
     [id |-> record.kids[2 * i - 1].data, value |-> record.kids[2 * i]]]
FirstAttributes(list, n) ==
  FlattenSeq([i \in 1 .. n |-> AttributesOf(list.kids[i])])

(* A descriptor list that is empty or holds an empty descriptor.           *)
Hollow(attribute) ==
  /\ attribute.id = PROTO_DESC_LIST
  /\ \/ attribute.value.kids = << >>
     \/ \E i \in DOMAIN attribute.value.kids :
          attribute.value.kids[i].kids = << >>
UpToHollow(attributes) ==
  LET hollow == {i \in DOMAIN attributes : Hollow(attributes[i])}
  IN IF hollow = {} THEN attributes ELSE SubSeq(attributes, 1, Min(hollow))

(* The channel that a protocol descriptor list gives for RFCOMM, the last  *)
(* one, and none when find_rfcomm_channel gives up on it.                  *)
ChannelOf(attribute) ==
  LET rfcomm == SelectSeq(attribute.value.kids,
                  LAMBDA p : p.kids[1].data = RFCOMM /\ Len(p.kids) > 1)
  IN IF Hollow(attribute) \/ rfcomm = << >> THEN Zero(1)
     ELSE Last(rfcomm).kids[2].data

(* What the attributes up to the first hollow list tell.                   *)
Told(attributes) ==
  LET Having(id) == SelectSeq(UpToHollow(attributes), LAMBDA a : a.id = id)
      lists == Having(PROTO_DESC_LIST)
      psms == Having(GOEP_L2CAP_PSM)
  IN [channel |-> IF lists = << >> THEN Zero(1) ELSE ChannelOf(Last(lists)),
      psm |-> IF psms = << >> THEN Zero(2) ELSE Last(psms).value.data]

(* A discovery reports the last RFCOMM channel of the last descriptor list *)
(* and the last PSM, wherever they are among records and attributes that   *)
(* it has no use for.  Two things a server may send stop it short.  A      *)
(* descriptor list that is empty or has an empty descriptor ends it, with  *)
(* what was found up to there and no channel (an empty list only when at   *)
(* most one attribute is behind it in its record: the ids and values of    *)
(* more are taken for one another).  An empty record, unless one of those  *)
(* comes first, keeps it in its loop for ever.                             *)
DiscoverFinds ==
  step = "visit" /\ visits = << >> /\ tree \in Records =>
    LET empty == {i \in DOMAIN tree.kids : tree.kids[i].kids = << >>}
        before == FirstAttributes(tree, IF empty = {} THEN Len(tree.kids)
                                        ELSE Min(empty) - 1)
        stops == \E i \in DOMAIN before : Hollow(before[i])
    IN (\A i \in DOMAIN tree.kids : Len(AttributesOf(tree.kids[i])) <= 2) =>
         Discover(buffer) =
           IF empty # {} /\ ~stops THEN NeverEnds ELSE Told(before)
=============================================================================

---------------------------- MODULE AclTransfer ----------------------------
(***************************************************************************)
(* Messages over an ACL link: bte_l2cap_create_message lays a message out  *)
(* in packets of the controller's size, the application writes it through  *)
(* a BteBufferWriter, and at the other end on_data_received puts the       *)
(* packets together again and the application reads them through a         *)
(* BteBufferReader.  The two ends are two devices that both run the        *)
(* library; what the queue of acl.c does between them is in AclQueue.      *)
(*                                                                         *)
(* The controllers (external) keep the order of packets.  They may cut a   *)
(* packet in two, and they may flush: the rest of the message that is on   *)
(* its way is dropped, which is what PB_FIRST_FLUSH permits.               *)
(***************************************************************************)
EXTENDS Integers, Sequences, SequencesExt, FiniteSetsExt

CONSTANTS
  PacketSize,  \* the sender's bte_hci_get_acl_mtu: header and data
  Mtu,         \* per channel, the longest message the receiver takes
  RemoteMtu,   \* per channel, what the sender believes that to be
  Sizes,       \* sizes of the messages that the application makes
  Chunks,      \* sizes of the pieces in which applications write and read
  MaxMessages, \* bound on the messages of a behaviour
  MaxFlushes   \* bound on the messages that the controller flushes

ACL_HDR_LEN == 4
L2CAP_HDR_LEN == 4
CONTINUATION == 1
FIRST_FLUSH == 2
INVALID_PACKET == 65535
SIGNALLING == 1             \* BTE_L2CAP_CHANNEL_ID_SIGNALLING
Channels == DOMAIN Mtu      \* the others
U16(n) == n % 65536
UINT16_MAX == 65535

ASSUME PacketAssumption == PacketSize \in ACL_HDR_LEN + L2CAP_HDR_LEN .. UINT16_MAX
ASSUME ChannelsAssumption ==
  SIGNALLING \in Channels /\ Channels \subseteq 0 .. UINT16_MAX
(* A message of the longest kind has fewer than INVALID_PACKET bytes with   *)
(* its header: for the five larger MTUs, the size that on_data_received     *)
(* notes would be that of a packet to skip, or wrap.                        *)
ASSUME MtuAssumption ==
  /\ Mtu \in [Channels -> 0 .. UINT16_MAX - L2CAP_HDR_LEN - 1]
  /\ RemoteMtu \in [Channels -> 0 .. UINT16_MAX]
ASSUME SizesAssumption == Sizes \subseteq 0 .. UINT16_MAX
ASSUME ChunksAssumption == Chunks \subseteq Nat \ {0}
ASSUME BoundsAssumption == MaxMessages \in Nat /\ MaxFlushes \in Nat

VARIABLES
  writer,    \* the message that the sender is writing, if any
  linked,    \* the sender's channels that are open
  sent,      \* how many messages were made
  air,       \* packets between the two hosts
  flushes,   \* how often the controller flushed a message
  packet,    \* the packet that on_data_received has in hand, if any
  fragmented_message, fragmented_message_size,
  reassembled_message_size,
  open,      \* the receiver's channels
  reader,    \* the message that the receiver's callback is reading, if any
  got        \* messages given to the receiver's callbacks so far
sender == <<writer, linked, sent>>
receiver == <<packet, fragmented_message, fragmented_message_size,
              reassembled_message_size, reader, got>>
vars == <<writer, linked, sent, air, flushes, packet, fragmented_message,
          fragmented_message_size, reassembled_message_size, open, reader, got>>

None == [some |-> FALSE]

(* A byte tells which message it is of, and where.  Data of a packet is its *)
(* whole buffer: the four bytes of the ACL header stand first, their fields *)
(* are pb and length.                                                       *)
Byte(m, i) == 16 * m + i
Body(m, n) == [i \in 1 .. n |-> Byte(m, i)]
Zeros(n) == [i \in 1 .. n |-> 0]
IsStart(p) == p.pb # CONTINUATION
Size(p) == Len(p.data)

Init ==
  /\ writer = None /\ linked = Channels /\ sent = 0
  /\ air = << >> /\ flushes = 0
  /\ packet = None
  /\ fragmented_message = << >> /\ fragmented_message_size = 0
  /\ reassembled_message_size = 0
  /\ open = Channels
  /\ reader = None /\ got = << >>
----------------------------------------------------------------------------
(* Sending. *)

Room == PacketSize - ACL_HDR_LEN
CeilDiv(n, d) == (n + d - 1) \div d

(* _bte_compute_fragmented_size: whole packets, the last one too, in 16     *)
(* bits.                                                                    *)
FragmentedSize(size) == U16(CeilDiv(size, Room) * PacketSize)

(* bte_acl_create_message: the packets with their headers, still empty.     *)
(* bte_buffer_alloc makes as many as the fragmented size allows, the last   *)
(* one of what is left.                                                     *)
Layout(size) ==
  LET total == FragmentedSize(size) IN
  [i \in 1 .. CeilDiv(total, PacketSize) |->
     [pb     |-> IF i = 1 THEN FIRST_FLUSH ELSE CONTINUATION,
      length |-> Min({size - (i - 1) * Room, Room}),
      data   |-> Zeros(Min({total - (i - 1) * PacketSize, PacketSize}))]]

(* memcpy into a packet at pos. *)
Put(p, pos, bytes) ==
  [p EXCEPT !.data = SubSeq(p.data, 1, pos) \o bytes
                       \o SubSeq(p.data, pos + Len(bytes) + 1, Size(p))]

(* A cursor over a chain of packets.  MoveOn is what writer and reader do   *)
(* when they need room in, or data from, the next packet.                   *)
Here(c) == c.chain[c.packet]
MoveOn(c) == [c EXCEPT !.packet = @ + 1, !.pos = ACL_HDR_LEN]
HasNext(c) == c.packet < Len(c.chain)
Step(c, n) == IF c.pos + n <= Size(Here(c)) THEN n ELSE Size(Here(c)) - c.pos

L2capHeader(size, channel) ==
  <<size % 256, size \div 256, channel % 256, channel \div 256>>

(* Whether there are packets, and each takes its headers.  A size that      *)
(* wraps can leave the last one shorter than that; what becomes of headers  *)
(* that are written past the end is not modelled.                           *)
TakesHeaders(chain) ==
  /\ chain # << >>
  /\ \A i \in DOMAIN chain :
       Size(chain[i]) >= ACL_HDR_LEN + IF i = 1 THEN L2CAP_HDR_LEN ELSE 0

(* bte_l2cap_create_message and, for the signalling channel, which has no   *)
(* limit on this side, acl_l2cap_create_cmd.                                *)
CreateMessage(c, size) ==
  /\ writer = None /\ sent < MaxMessages
  /\ c \in linked
  /\ c # SIGNALLING => size <= RemoteMtu[c]
  /\ LET chain == Layout(U16(L2CAP_HDR_LEN + size)) IN
     /\ TakesHeaders(chain)
     /\ writer' = [some |-> TRUE, channel |-> c, size |-> size, done |-> 0,
                   todo |-> 0, packet |-> 1, pos |-> ACL_HDR_LEN + L2CAP_HDR_LEN,
                   chain |-> [chain EXCEPT ![1] =
                                Put(@, ACL_HDR_LEN, L2capHeader(size, c))]]
  /\ sent' = sent + 1
  /\ UNCHANGED <<linked, air, flushes, receiver, open>>

(* One turn of the loop of bte_buffer_writer_write with todo bytes to go.   *)
(* When there are no more packets it returns false, and the application     *)
(* gives the message up.                                                    *)
WriteTurn(w) ==
  LET n == Step(w, w.todo)
      bytes == SubSeq(Body(sent, w.size), w.done + 1, w.done + n)
      wrote == [w EXCEPT !.chain[w.packet] = Put(@, w.pos, bytes),
                         !.pos = @ + n, !.done = @ + n, !.todo = @ - n]
  IN CASE wrote.todo = 0 -> wrote
       [] wrote.todo > 0 /\ HasNext(w) -> MoveOn(wrote)
       [] OTHER -> None

WriterWrite(n) ==
  /\ writer.some /\ writer.todo = 0
  /\ n <= writer.size - writer.done
  /\ writer' = WriteTurn([writer EXCEPT !.todo = n])
  /\ UNCHANGED <<linked, sent, air, flushes, receiver, open>>

WriterWriteLoop ==
  /\ writer.some /\ writer.todo > 0
  /\ writer' = WriteTurn(writer)
  /\ UNCHANGED <<linked, sent, air, flushes, receiver, open>>

(* bte_buffer_writer_end: the packet that was written last ends there. *)
WriterEnd(w) ==
  [w.chain EXCEPT ![w.packet].data = SubSeq(@, 1, w.pos)]

(* bte_l2cap_send_message, once the application has written all of it.  A   *)
(* channel that is no longer open drops the message.                        *)
SendMessage ==
  /\ writer.some /\ writer.todo = 0 /\ writer.done = writer.size
  /\ air' = IF writer.channel \in linked THEN air \o WriterEnd(writer) ELSE air
  /\ writer' = None
  /\ UNCHANGED <<linked, sent, flushes, receiver, open>>

(* The sender's channel leaves the state OPEN. *)
Unlink(c) ==
  /\ c \in linked \ {SIGNALLING}
  /\ linked' = linked \ {c}
  /\ UNCHANGED <<writer, sent, air, flushes, receiver, open>>
----------------------------------------------------------------------------
(* The controllers: external. *)

(* The head packet is passed on in two pieces. *)
Resplit(n) ==
  LET p == Head(air)
      piece(pb, data) == [pb |-> pb, length |-> Len(data),
                          data |-> Zeros(ACL_HDR_LEN) \o data] IN
  /\ n \in 1 .. p.length - 1
  /\ IsStart(p) => n >= L2CAP_HDR_LEN
  /\ air' = <<piece(p.pb, SubSeq(p.data, ACL_HDR_LEN + 1, ACL_HDR_LEN + n)),
              piece(CONTINUATION,
                    SubSeq(p.data, ACL_HDR_LEN + n + 1, Size(p)))>>
            \o Tail(air)
  /\ UNCHANGED <<sender, flushes, receiver, open>>

(* What is left of the message that is on its way is dropped. *)
Flush ==
  /\ air # << >> /\ flushes < MaxFlushes
  /\ LET later == {i \in 2 .. Len(air) : IsStart(air[i])} IN
     air' = IF later = {} THEN << >> ELSE SubSeq(air, Min(later), Len(air))
  /\ flushes' = flushes + 1
  /\ UNCHANGED <<sender, receiver, open>>
----------------------------------------------------------------------------
(* Receiving. *)

(* What a chain of packets carries, headers of the packets left out. *)
Carried(chain) ==
  LET upTo[i \in 0 .. Len(chain)] ==
        IF i = 0 THEN << >>
        ELSE upTo[i - 1]
               \o SubSeq(chain[i].data, ACL_HDR_LEN + 1, Size(chain[i]))
  IN upTo[Len(chain)]
Word(bytes, i) == bytes[i] + 256 * bytes[i + 1]

(* The message in a chain: what its L2CAP header says, and what follows it. *)
MessageOf(chain) ==
  LET bytes == Carried(chain) IN
  [channel |-> Word(bytes, 3), length |-> Word(bytes, 1),
   body |-> SubSeq(bytes, L2CAP_HDR_LEN + 1, Len(bytes))]

(* acl_incoming_data_check_cb *)
Accepted(channel, length) == channel \in open /\ length <= Mtu[channel]
IncomingCheck(p) ==
  LET m == MessageOf(<<p>>) IN
  IF Accepted(m.channel, m.length) THEN m.length + L2CAP_HDR_LEN ELSE -1

(* acl_data_received_cb: the callback of the channel, if there still is     *)
(* one, gets a reader that stands behind the L2CAP header.                  *)
ReaderOf(chain) ==
  [some |-> TRUE, chain |-> chain, packet |-> 1,
   pos |-> ACL_HDR_LEN + L2CAP_HDR_LEN, todo |-> 0, out |-> << >>,
   short |-> FALSE]
Deliver(chain) ==
  LET m == MessageOf(chain) IN
  IF m.channel \in open
  THEN got' = Append(got, m) /\ reader' = ReaderOf(chain)
  ELSE UNCHANGED <<got, reader>>

(* bte_buffer_append *)
Appended(chain, p) == chain \o <<p>>

(* The size that on_data_received goes by once it has looked at the packet. *)
Expected(p) ==
  IF ~IsStart(p) THEN reassembled_message_size
  ELSE IF IncomingCheck(p) < 0 THEN INVALID_PACKET
  ELSE IncomingCheck(p)

Remaining(p) == U16(Expected(p) - fragmented_message_size)
Skipped(p) ==
  IF IsStart(p) THEN IncomingCheck(p) < 0
  ELSE reassembled_message_size = INVALID_PACKET
Completes(p) == p.length >= Remaining(p)

(* on_data_received, from the check of the packet to the end. *)
HandlePacket(p) ==
  /\ reassembled_message_size' = Expected(p)
  /\ \/ /\ Skipped(p)
        /\ UNCHANGED <<fragmented_message, fragmented_message_size, reader, got>>
     \/ /\ ~Skipped(p) /\ Completes(p)
        /\ Deliver(Appended(fragmented_message, p))
        /\ fragmented_message' = << >>
        /\ fragmented_message_size' = 0
     \/ /\ ~Skipped(p) /\ ~Completes(p)
        /\ fragmented_message' = Appended(fragmented_message, p)
        /\ fragmented_message_size' = U16(fragmented_message_size + p.length)
        /\ UNCHANGED <<reader, got>>

(* A start while a message is incomplete: that message is handed over as    *)
(* far as it got, and its callback runs, before the packet is looked at.    *)
NeverInterrupts(p) == FALSE  \* mutant: the case is not handled
Interrupts(p) == fragmented_message # << >> /\ IsStart(p)

OnDataReceived ==
  /\ ~reader.some /\ ~packet.some /\ air # << >>
  /\ ~Interrupts(Head(air))
  /\ HandlePacket(Head(air))
  /\ air' = Tail(air)
  /\ UNCHANGED <<sender, flushes, packet, open>>

OnStartWhilePending ==
  /\ ~reader.some /\ ~packet.some /\ air # << >>
  /\ Interrupts(Head(air))
  /\ Deliver(fragmented_message)
  /\ packet' = [some |-> TRUE, p |-> Head(air)]
  /\ air' = Tail(air)
  /\ fragmented_message' = << >>
  /\ fragmented_message_size' = 0
  /\ UNCHANGED <<sender, flushes, reassembled_message_size, open>>

OnStartResumed ==
  /\ ~reader.some /\ packet.some
  /\ HandlePacket(packet.p)
  /\ packet' = None
  /\ UNCHANGED <<sender, air, flushes, open>>

(* Take n bytes of the current packet. *)
Take(r, n) ==
  [r EXCEPT !.pos = @ + n,
            !.out = @ \o SubSeq(Here(r).data, r.pos + 1, r.pos + n)]

(* One turn of the loop of bte_buffer_reader_read with todo bytes to go; a  *)
(* read that finds no more packets returns less than it was asked for.      *)
ReadTurn(r) ==
  LET n == Step(r, r.todo)
      read == [Take(r, n) EXCEPT !.todo = @ - n] IN
  CASE read.todo = 0 -> read
    [] read.todo > 0 /\ HasNext(r) -> MoveOn(read)
    [] OTHER -> [read EXCEPT !.todo = 0, !.short = TRUE]

Reading == reader.some /\ ~reader.short

ReaderRead(n) ==
  /\ Reading /\ reader.todo = 0
  /\ reader' = ReadTurn([reader EXCEPT !.todo = n])
  /\ UNCHANGED <<sender, air, flushes, packet, fragmented_message,
                 fragmented_message_size, reassembled_message_size, open, got>>

ReaderReadLoop ==
  /\ Reading /\ reader.todo > 0
  /\ reader' = ReadTurn(reader)
  /\ UNCHANGED <<sender, air, flushes, packet, fragmented_message,
                 fragmented_message_size, reassembled_message_size, open, got>>

AtEnd(r) == r.pos >= Size(Here(r))
(* Mutant: a packet that was begun is left. *)
AtNextPacket(r) == IF HasNext(r) THEN MoveOn(r) ELSE r
AtPacket(r) == IF AtEnd(r) /\ HasNext(r) THEN MoveOn(r) ELSE r

(* bte_buffer_reader_read_n: NULL, and nothing read, when the bytes are not *)
(* in one packet.                                                           *)
ReaderReadN(n) ==
  /\ Reading /\ reader.todo = 0
  /\ LET r == AtPacket(reader) IN
     reader' = IF n <= Size(Here(r)) - r.pos THEN Take(r, n) ELSE r
  /\ UNCHANGED <<sender, air, flushes, packet, fragmented_message,
                 fragmented_message_size, reassembled_message_size, open, got>>

(* bte_buffer_reader_read_max: all that is left of a packet; NULL at the    *)
(* end of the last one.                                                     *)
ReaderReadMax ==
  /\ Reading /\ reader.todo = 0
  /\ reader' = IF AtEnd(reader) /\ ~HasNext(reader)
               THEN [reader EXCEPT !.short = TRUE]
               ELSE LET r == AtPacket(reader) IN Take(r, Size(Here(r)) - r.pos)
  /\ UNCHANGED <<sender, air, flushes, packet, fragmented_message,
                 fragmented_message_size, reassembled_message_size, open, got>>

(* The callback returns, having read as much as it cared for. *)
ReaderDone ==
  /\ reader.some /\ reader.todo = 0
  /\ reader' = None
  /\ UNCHANGED <<sender, air, flushes, packet, fragmented_message,
                 fragmented_message_size, reassembled_message_size, open, got>>

(* The receiver's channel is freed, or one with its identifier is made;     *)
(* callbacks may do so too.                                                 *)
ChangeOpen(c) ==
  /\ c # SIGNALLING
  /\ open' = IF c \in open THEN open \ {c} ELSE open \cup {c}
  /\ UNCHANGED <<sender, air, flushes, receiver>>
----------------------------------------------------------------------------
Next ==
  \/ \E c \in Channels, size \in Sizes : CreateMessage(c, size)
  \/ \E n \in Chunks : WriterWrite(n) \/ ReaderRead(n) \/ ReaderReadN(n)
  \/ WriterWriteLoop \/ SendMessage
  \/ \E c \in Channels : Unlink(c) \/ ChangeOpen(c)
  \/ air # << >> /\ \E n \in 1 .. PacketSize : Resplit(n)
  \/ Flush
  \/ OnDataReceived \/ OnStartWhilePending \/ OnStartResumed
  \/ ReaderReadLoop \/ ReaderReadMax \/ ReaderDone

Spec == Init /\ [][Next]_vars
----------------------------------------------------------------------------
(* Properties. *)

(* A callback reads the bytes of its message, from the first on and in      *)
(* order, with no header of a later packet among them, however it mixes the *)
(* three ways of reading and wherever the packets are cut; and when it is   *)
(* told that there is no more, it has read all of them.  The message is     *)
(* whole, unless the controller flushed part of it: no more messages arrive *)
(* cut short than were flushed.                                             *)
IsWhole(m) == Len(m.body) = m.length
ReadsItsMessage ==
  /\ reader.some =>
       LET body == Last(got).body IN
       /\ IsPrefix(reader.out, body)
       /\ reader.short => reader.out = body
  /\ Cardinality({i \in 1 .. Len(got) : ~IsWhole(got[i])}) <= flushes

(* The refinement mapping.  A start and the continuations up to the next    *)
(* start make up a message; the queue has those of which all is there,      *)
(* waiting, in hand or in the air.  So a message is in the queue from       *)
(* SendMessage on until its last packet is handled or its start is turned   *)
(* down, and one of which a part was flushed has left it.                   *)
IfWhole(m) == IF IsWhole(m) THEN <<m>> ELSE << >>
MessageAt(s, i) ==
  LET later == {j \in i + 1 .. Len(s) : IsStart(s[j])} IN
  MessageOf(SubSeq(s, i, Min(later \cup {Len(s) + 1}) - 1))
MessageFrom(s, i) == IF IsStart(s[i]) THEN IfWhole(MessageAt(s, i)) ELSE << >>
MessagesIn(s) ==
  LET upTo[i \in 0 .. Len(s)] ==
        IF i = 0 THEN << >> ELSE upTo[i - 1] \o MessageFrom(s, i)
  IN upTo[Len(s)]
InHost == fragmented_message \o (IF packet.some THEN <<packet.p>> ELSE << >>)
Pending == MessagesIn(InHost \o air)
Wholes(messages) ==
  LET upTo[i \in 0 .. Len(messages)] ==
        IF i = 0 THEN << >> ELSE upTo[i - 1] \o IfWhole(messages[i])
  IN upTo[Len(messages)]

AllMessages ==
  {[channel |-> c, length |-> n, body |-> Body(m, n)] :
     c \in Channels, n \in Sizes, m \in 1 .. MaxMessages}
Takes(m, channels) == m.channel \in channels /\ m.length <= Mtu[m.channel]

Abstract == INSTANCE MessageChannel WITH
  Messages <- AllMessages, Accepts <- Takes, queue <- Pending,
  got <- Wholes(got)

(* Fragmentation and reassembly implement a queue of messages that loses a  *)
(* message only to a flush, one for each at most, or because the receiver   *)
(* has no channel for it: nothing is reordered, mixed, repeated or dropped  *)
(* with its neighbour, whether a message is turned down, interrupted or     *)
(* meets a channel that closes halfway.                                     *)
ImplementsMessageChannel == Abstract!Spec
=============================================================================

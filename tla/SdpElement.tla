----------------------------- MODULE SdpElement -----------------------------
(***************************************************************************)
(* SDP data elements (services/sdp.c): bte_sdp_de_write, which encodes a   *)
(* tree of elements into a buffer, and the BteSdpDeReader, a cursor over   *)
(* an encoded element that enters sequences, steps through them and leaves *)
(* them again by scanning from the start.                                  *)
(*                                                                         *)
(* A behaviour picks an element and a buffer, writes the one into the      *)
(* other, and, when it was written, reads it back the way the services     *)
(* do: a loop over next that enters every sequence and leaves it when next *)
(* fails.  Bytes are real bytes.  Offsets count from 0, as in the code.    *)
(***************************************************************************)
EXTENDS Integers, Sequences, SequencesExt

CONSTANTS
  Trees,     \* the elements that are written
  Slacks,    \* by how much the buffer differs from the needed size
  MaxVisits  \* bound on the elements one walk reads

NIL == 0
UINT8 == 8
UINT16 == 9
INT16 == 17
UUID16 == 25
STRING_ == 32
BOOL == 40
SEQUENCE == 48
CHOICE == 56
URL == 64
ARRAY == 170  \* BTE_SDP_DE_ARRAY: elements of one type, given as a block
Unwritten == -1

(* What the caller of bte_sdp_de_write lists: an element with its data, a  *)
(* sequence or choice of elements, or an array, whose items are blocks of  *)
(* the caller's memory.  An item of type NIL is no data, but takes a byte  *)
(* of that memory.                                                         *)
Leaf(type, data) == [type |-> type, data |-> data]
Node(type, kids) == [type |-> type, kids |-> kids]
ArrayOf(type, items) == [type |-> ARRAY, of |-> type, items |-> items]

IsNode(e) == e.type \in {SEQUENCE, CHOICE}
IsText(type) == type \in {STRING_, URL}
ItemsOf(e) ==
  [i \in DOMAIN e.items |-> Leaf(e.of, IF e.of = NIL THEN << >> ELSE e.items[i])]

-----------------------------------------------------------------------------
(* Headers.                                                                *)
VAR_8 == 5
VAR_16 == 6
VAR_32 == 7

(* var_size: the size id of a length, and the bytes that hold it.          *)
VarSize(len) ==
  IF len < 256 THEN VAR_8 ELSE IF len < 65536 THEN VAR_16 ELSE VAR_32
LengthBytes(len) ==
  CASE VarSize(len) = VAR_8 -> <<len % 256>>
    [] VarSize(len) = VAR_16 -> <<len \div 256, len % 256>>
    [] VarSize(len) = VAR_32 ->
         <<0, len \div 65536, (len \div 256) % 256, len % 256>>
Header(type, len) == <<type + VarSize(len)>> \o LengthBytes(len)

(* bte_sdp_de_get_header_size, _data_size, _total_size and _type of the    *)
(* element at the given offset.                                            *)
Byte(de, offset) == de[offset + 1]
SizeId(de, o) == Byte(de, o) % 8
HeaderSize(de, o) ==
  CASE SizeId(de, o) = VAR_8 -> 2
    [] SizeId(de, o) = VAR_16 -> 3
    [] SizeId(de, o) = VAR_32 -> 5
    [] OTHER -> 1
DataSize(de, o) ==
  CASE SizeId(de, o) = VAR_8 -> Byte(de, o + 1)
    [] SizeId(de, o) = VAR_16 -> 256 * Byte(de, o + 1) + Byte(de, o + 2)
    [] SizeId(de, o) = VAR_32 -> 65536 * Byte(de, o + 2)
                                 + 256 * Byte(de, o + 3) + Byte(de, o + 4)
    [] OTHER -> IF Byte(de, o) = NIL THEN 0 ELSE 2 ^ SizeId(de, o)
TotalSize(de, o) == HeaderSize(de, o) + DataSize(de, o)
TypeAt(de, o) ==
  LET class == Byte(de, o) - SizeId(de, o)
  IN IF class >= STRING_ THEN class ELSE Byte(de, o)

-----------------------------------------------------------------------------
(* bte_sdp_de_write.                                                       *)
RECURSIVE SizeOf(_)
SizesOf(elements) == FoldSeq(LAMBDA e, n : n + SizeOf(e), 0, elements)

(* The size of an element, which is what de_write returns.  de_array_size  *)
(* adds up the elements of an array.                                       *)
SizeOf(e) ==
  CASE e.type = ARRAY -> SizesOf(ItemsOf(e))
    [] IsNode(e) -> Len(Header(e.type, SizesOf(e.kids))) + SizesOf(e.kids)
    [] IsText(e.type) -> Len(Header(e.type, Len(e.data))) + Len(e.data)
    [] OTHER -> 1 + Len(e.data)

(* The buffer with bytes stored from an offset on; one that is overrun     *)
(* gets longer.                                                            *)
Put(buf, offset, bytes) ==
  SubSeq(buf, 1, offset) \o bytes
    \o SubSeq(buf, offset + Len(bytes) + 1, Len(buf))

LeafBytes(type, data) ==
  IF IsText(type) THEN Header(type, Len(data)) \o data ELSE <<type>> \o data

(* de_array_write: strcpy ends each string with a zero, over which the     *)
(* next element is written; an item of a type of fixed size is the type    *)
(* and 1 << size_id bytes, one byte for NIL too, so that an array of NILs  *)
(* takes twice what de_array_size counts.                                  *)
ArrayBytes(e) ==
  FlattenSeq([i \in DOMAIN e.items |-> LeafBytes(e.of, e.items[i])])
    \o IF IsText(e.of) /\ e.items # << >> THEN <<0>> ELSE << >>

(* An element is written when there is room for more than it needs; a      *)
(* sequence writes its header and then its elements.                       *)
HasRoomExact(room, size) == room >= size  \* mutant: an exact fit is enough
HasRoom(room, size) == room > size
RECURSIVE WriteElement(_, _, _, _), WriteElements(_, _, _, _)
WriteElement(buf, offset, room, e) ==
  IF ~HasRoom(room, SizeOf(e)) THEN buf
  ELSE IF IsNode(e)
       THEN LET header == Header(e.type, SizesOf(e.kids))
            IN WriteElements(Put(buf, offset, header), offset + Len(header),
                             room - Len(header), e.kids)
       ELSE Put(buf, offset, IF e.type = ARRAY THEN ArrayBytes(e)
                             ELSE LeafBytes(e.type, e.data))
WriteElements(buf, offset, room, elements) ==
  IF elements = << >> THEN buf
  ELSE LET e == Head(elements)
       IN WriteElements(WriteElement(buf, offset, room, e),
                        offset + SizeOf(e), room - SizeOf(e), Tail(elements))

-----------------------------------------------------------------------------
(* The reader: [offset, seq_start_offset, depth, next_called].             *)
ReaderInit ==
  [offset |-> 0, seq_start_offset |-> 0, depth |-> 0, next_called |-> FALSE]

EndOfSeq(de, r) == r.seq_start_offset + TotalSize(de, r.seq_start_offset)

(* bte_sdp_de_reader_next: the reader afterwards, and what it returns.     *)
(* The first call after enter only makes the element current.              *)
ReaderNext(de, r) ==
  IF r.depth = 0 \/ r.offset >= EndOfSeq(de, r) THEN [to |-> r, ok |-> FALSE]
  ELSE IF ~r.next_called
       THEN [to |-> [r EXCEPT !.next_called = TRUE], ok |-> TRUE]
       ELSE LET next == r.offset + TotalSize(de, r.offset)
            IN [to |-> [r EXCEPT !.offset = next],
                ok |-> next < EndOfSeq(de, r)]

(* bte_sdp_de_reader_enter, on a sequence or a choice.                     *)
ReaderEnter(de, r) ==
  IF TypeAt(de, r.offset) \notin {SEQUENCE, CHOICE} THEN [to |-> r, ok |-> FALSE]
  ELSE [to |-> [offset |-> r.offset + HeaderSize(de, r.offset),
                seq_start_offset |-> r.offset,
                depth |-> r.depth + 1,
                next_called |-> FALSE],
        ok |-> TRUE]

(* de_get_current: an offset, or none.                                     *)
HasCurrent(de, r) ==
  r.depth > 0 => r.next_called /\ r.offset < EndOfSeq(de, r)

(* find_seq_start_offset: where the sequence at the given depth starts     *)
(* that contains an offset.  A reader that has just entered a sequence     *)
(* finds a size of 0.                                                      *)
RECURSIVE Scan(_, _, _, _)
Scan(de, r, depth, contained) ==
  LET el_size == IF HasCurrent(de, r) THEN TotalSize(de, r.offset) ELSE 0
  IN IF r.offset + el_size >= contained
     THEN IF r.depth = depth THEN r.offset
          ELSE Scan(de, ReaderEnter(de, r).to, depth, contained)
     ELSE Scan(de, ReaderNext(de, r).to, depth, contained)
StartOfFirst(de, depth, contained) ==  \* mutant: stops at the first element
  Scan(de, ReaderInit, depth, depth)
FindSeqStartOffset(de, depth, contained) == Scan(de, ReaderInit, depth, contained)

(* bte_sdp_de_reader_leave.  next_called stays as it is in the sequence    *)
(* that is left.                                                           *)
ReaderLeave(de, r) ==
  IF r.depth = 0 THEN [to |-> r, ok |-> FALSE]
  ELSE [to |-> [r EXCEPT !.offset = r.seq_start_offset,
                         !.depth = r.depth - 1,
                         !.seq_start_offset =
                           IF r.depth = 1 THEN 0
                           ELSE FindSeqStartOffset(de, r.depth - 2,
                                                   r.seq_start_offset)],
        ok |-> TRUE]

(* de_get_data: the bytes of the current element, none when it is empty.   *)
DataAt(de, r) ==
  IF ~HasCurrent(de, r) THEN << >>
  ELSE SubSeq(de, r.offset + HeaderSize(de, r.offset) + 1,
              r.offset + TotalSize(de, r.offset))

-----------------------------------------------------------------------------
(* Reading numbers.  An integer is its bytes, from the highest to the      *)
(* lowest.                                                                 *)
Fill(n, byte, data) == [i \in 1 .. n |-> byte] \o data
Zero(width) == Fill(width, 0, << >>)
SignByte(data) == IF data[1] >= 128 THEN 255 ELSE 0

(* bte_sdp_de_reader_read_uint8, _16, _32, _64 and _128: each takes data   *)
(* of its own width and leaves narrower data to the one before.            *)
ReadUint16(data) ==
  IF data = << >> \/ Len(data) > 2 THEN Zero(2) ELSE Fill(2 - Len(data), 0, data)
ReadUint32(data) ==
  IF data = << >> \/ Len(data) = 3 \/ Len(data) > 4 THEN Zero(4)
  ELSE Fill(4 - Len(data), 0, data)
ReadUint64(data) ==
  CASE data = << >> \/ Len(data) > 8 -> Zero(8)
    [] Len(data) = 8 -> data
    [] OTHER -> Fill(4, 0, ReadUint32(data))
ReadUint(width, data) ==
  CASE width = 1 -> IF Len(data) = 1 THEN data ELSE Zero(1)
    [] width = 2 -> ReadUint16(data)
    [] width = 4 -> ReadUint32(data)
    [] width = 8 -> ReadUint64(data)
    [] width = 16 -> IF Len(data) = 16 THEN data
                     ELSE Fill(8, 0, IF Len(data) > 16 THEN Zero(8)
                                     ELSE ReadUint64(data))

(* bte_sdp_de_reader_read_int16, _32, _64 and _128, whose narrower data    *)
(* is converted to the wider type.                                         *)
WidenZero(n, data) == Fill(n, 0, data)  \* mutant: as for unsigned numbers
Widen(n, data) == Fill(n, SignByte(data), data)
ReadInt16(data) ==
  IF data = << >> \/ Len(data) > 2 THEN Zero(2) ELSE Widen(2 - Len(data), data)
ReadInt32(data) ==
  CASE data = << >> \/ Len(data) > 4 -> Zero(4)
    [] Len(data) = 4 -> data
    [] OTHER -> Widen(2, ReadInt16(data))
ReadInt64(data) ==
  CASE data = << >> \/ Len(data) > 8 -> Zero(8)
    [] Len(data) = 8 -> data
    [] OTHER -> Widen(4, ReadInt32(data))

(* int128_from_64, for a compiler that has a 128-bit integer and for one   *)
(* that has not: there only a positive number gets an upper half of zeros. *)
Int128From64(has128, data) ==
  IF has128 THEN Widen(8, data)
  ELSE Fill(8, IF SignByte(data) = 0 /\ data # Zero(8) THEN 0 ELSE 255, data)
ReadInt(has128, width, data) ==
  CASE width = 1 -> ReadUint(1, data)
    [] width = 2 -> ReadInt16(data)
    [] width = 4 -> ReadInt32(data)
    [] width = 8 -> ReadInt64(data)
    [] width = 16 -> IF Len(data) = 16 THEN data
                     ELSE Int128From64(has128, IF Len(data) > 16 THEN Zero(8)
                                               ELSE ReadInt64(data))

(* bte_sdp_de_reader_read_uuid128: a short UUID stands for its sum with    *)
(* the base UUID.                                                          *)
BaseUuid == <<0, 0, 0, 0, 0, 0, 16, 0, 128, 0, 0, 128, 95, 155, 52, 251>>
ReadUuid128(data) ==
  CASE Len(data) = 16 -> data
    [] Len(data) \in 1 .. 4 /\ ReadUint32(data) # Zero(4) ->
         ReadUint32(data) \o SubSeq(BaseUuid, 5, 16)
    [] OTHER -> Zero(16)

-----------------------------------------------------------------------------
(* The walk.                                                               *)
VARIABLES
  tree,     \* the element that is written
  room,     \* buffer_size
  buffer,   \* the bytes at de
  size,     \* what bte_sdp_de_write returned
  reader,   \* the BteSdpDeReader
  entered,  \* where each sequence starts that the walk is in
  visits,   \* the elements that were read, in order
  step      \* the call the walk makes next
vars == <<tree, room, buffer, size, reader, entered, visits, step>>

Init ==
  /\ tree \in Trees
  /\ room \in {SizeOf(tree) + slack : slack \in Slacks}
  /\ buffer = Fill(room, Unwritten, << >>)
  /\ size = 0
  /\ reader = ReaderInit
  /\ entered = << >>
  /\ visits = << >>
  /\ step = "write"

(* bte_sdp_de_write returns the size whether or not there was room; a      *)
(* caller that gave enough room goes on to read.                           *)
Write ==
  /\ step = "write"
  /\ size' = SizeOf(tree)
  /\ buffer' = WriteElement(buffer, 0, room, tree)
  /\ step' = IF HasRoom(room, SizeOf(tree)) /\ tree.type # ARRAY
             THEN "visit" ELSE "done"
  /\ UNCHANGED <<tree, room, reader, entered, visits>>

(* The current element is read, and entered if it can be.                  *)
Visit ==
  /\ step = "visit"
  /\ Len(visits) < MaxVisits
  /\ visits' = Append(visits,
                 [depth |-> Len(entered), type |-> TypeAt(buffer, reader.offset),
                  data |-> IF TypeAt(buffer, reader.offset) \in {SEQUENCE, CHOICE}
                           THEN << >> ELSE DataAt(buffer, reader)])
  /\ LET e == ReaderEnter(buffer, reader)
     IN /\ reader' = e.to
        /\ entered' = IF e.ok THEN Append(entered, reader.offset) ELSE entered
        /\ step' = IF e.ok \/ entered # << >> THEN "next" ELSE "done"
  /\ UNCHANGED <<tree, room, buffer, size>>

NextElement ==
  /\ step = "next"
  /\ LET n == ReaderNext(buffer, reader)
     IN /\ reader' = n.to
        /\ step' = IF n.ok THEN "visit" ELSE "leave"
  /\ UNCHANGED <<tree, room, buffer, size, entered, visits>>

Leave ==
  /\ step = "leave"
  /\ reader' = ReaderLeave(buffer, reader).to
  /\ entered' = Front(entered)
  /\ step' = IF reader'.depth = 0 THEN "done" ELSE "next"
  /\ UNCHANGED <<tree, room, buffer, size, visits>>

Next == Write \/ Visit \/ NextElement \/ Leave
Spec == Init /\ [][Next]_vars

-----------------------------------------------------------------------------
(* Properties.                                                             *)

(* The elements of an array are elements like others.                      *)
Elements(elements) ==
  FlattenSeq([i \in DOMAIN elements |->
    IF elements[i].type = ARRAY THEN ItemsOf(elements[i]) ELSE <<elements[i]>>])
RECURSIVE HasEmpty(_), HasNils(_), Preorder(_, _)
HasEmpty(e) ==
  /\ IsNode(e)
  /\ \/ Elements(e.kids) = << >>
     \/ \E i \in DOMAIN e.kids : HasEmpty(e.kids[i])

(* An array of several NILs, the one element that is written larger than   *)
(* it is counted by more than the byte that HasRoom leaves.                *)
HasNils(e) ==
  \/ e.type = ARRAY /\ e.of = NIL /\ Len(e.items) > 1
  \/ IsNode(e) /\ \E i \in DOMAIN e.kids : HasNils(e.kids[i])

(* The elements of a tree in the order in which they are encoded.          *)
Preorder(depth, e) ==
  <<[depth |-> depth, type |-> e.type, data |-> IF IsNode(e) THEN << >> ELSE e.data]>>
    \o IF ~IsNode(e) THEN << >>
       ELSE LET kids == Elements(e.kids)
            IN FlattenSeq([i \in DOMAIN kids |-> Preorder(depth + 1, kids[i])])

(* bte_sdp_de_write stores no byte outside the buffer it was given, not    *)
(* even the zero with which strcpy ends the last string of an array; the   *)
(* one exception is an array of several NILs, whose last bytes go beyond   *)
(* the end.  It stores the whole element when the buffer is larger than    *)
(* the size it returns, and nothing when it is not: a buffer of exactly    *)
(* the size that sdp.h:64 tells the caller to ask for stays unwritten, and *)
(* the caller gets the same size as for one that was written.              *)
WriteInside ==
  step # "write" =>
    /\ Len(buffer) > room => HasNils(tree)
    /\ IF room > size THEN \A i \in 1 .. size : buffer[i] # Unwritten
       ELSE \A i \in DOMAIN buffer : buffer[i] = Unwritten

(* The reader gives back the elements that were written, each of them      *)
(* once, in order and at its depth, when every sequence has an element: at *)
(* no time has it read anything else, and at the end it has read them all. *)
(* After every enter, next and leave the reader knows the sequence that it *)
(* is in, although leave finds it only by scanning from the start.         *)
WalkVisitsAll ==
  /\ visits # << >> /\ ~HasEmpty(tree) =>
       /\ IsPrefix(visits, Preorder(0, tree))
       /\ step = "done" => visits = Preorder(0, tree)
  /\ reader.depth > 0 => reader.seq_start_offset = entered[reader.depth]

(* A number that is read with a wider type keeps its value, with its sign  *)
(* for the signed types, and a number that does not fit reads as zero; the *)
(* one exception is 0 read as a signed 128-bit number where the compiler   *)
(* has none, which gets an upper half of ones (sdp.c:57).  A UUID reads as *)
(* the same one whatever width it is written in.                           *)
Widths == {1, 2, 4, 8, 16}
SignedValue(has128, width, data) ==
  IF width = 16 /\ Len(data) < 16 /\ ~has128 /\ data = Zero(Len(data))
  THEN Fill(8, 255, Zero(8))
  ELSE Fill(width - Len(data), SignByte(data), data)
NumbersKeepValue ==
  step = "visit" /\ Len(DataAt(buffer, reader)) \in Widths =>
    LET data == DataAt(buffer, reader)
        n == Len(data)
    IN \A width \in Widths, has128 \in BOOLEAN :
         IF n > width
         THEN /\ ReadUint(width, data) = Zero(width)
              /\ ReadInt(has128, width, data) = Zero(width)
         ELSE /\ ReadUint(width, data) = Fill(width - n, 0, data)
              /\ ReadInt(has128, width, data) = SignedValue(has128, width, data)
              /\ width <= 4 =>
                   ReadUuid128(data) = ReadUuid128(Fill(width - n, 0, data))
=============================================================================

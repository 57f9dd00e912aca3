-------------------------------- MODULE MCSdp -------------------------------
(* Elements of up to four levels, with texts around the length at which    *)
(* the header grows, arrays, and numbers of both signs; and lists of up    *)
(* to two records.                                                         *)
EXTENDS ObexRecord, FiniteSets

Text(n) == [i \in 1 .. n |-> 65]
Numbers == {Leaf(UINT8, <<200>>), Leaf(UINT16, <<1, 2>>), Leaf(INT16, <<255, 254>>),
            Leaf(UUID16, <<17, 5>>), Leaf(BOOL, <<0>>), Leaf(NIL, << >>),
            Leaf(18, <<0, 0, 0, 0>>), Leaf(19, <<128, 0, 0, 0, 0, 0, 0, 1>>),
            Leaf(12, [i \in 1 .. 16 |-> i])}
Texts == {Leaf(STRING_, Text(0)), Leaf(URL, Text(1)), Leaf(STRING_, Text(255)),
          Leaf(STRING_, Text(256))}
Arrays == {ArrayOf(UUID16, <<<<0, 3>>, <<0, 1>>>>), ArrayOf(STRING_, <<Text(2), Text(0)>>),
           ArrayOf(NIL, <<<<0>>, <<0>>>>)}
SeqsUpTo(n, S) == UNION {[1 .. k -> S] : k \in 0 .. n}

Flat == {Node(SEQUENCE, s) : s \in SeqsUpTo(2, Numbers \cup Texts \cup Arrays)}
Small == {Leaf(UINT8, <<200>>), ArrayOf(UUID16, <<<<0, 3>>>>), Leaf(STRING_, Text(252))}
Two == {Node(CHOICE, s) : s \in SeqsUpTo(2, Small)}
Three == {Node(SEQUENCE, s) : s \in SeqsUpTo(2, {Leaf(UINT8, <<200>>)} \cup Two)}
Nested == {e \in Three : /\ Len(e.kids) = 2 /\ ~HasEmpty(e)
                        /\ Len(SelectSeq(e.kids, LAMBDA k : IsNode(k) /\ Len(k.kids) = 2)) > 0}
Four == {Node(SEQUENCE, <<Node(CHOICE, <<Leaf(UINT8, <<9>>)>>), e>>) : e \in Nested}
          \cup {Node(SEQUENCE, <<e, Leaf(UINT8, <<9>>)>>) : e \in Nested}

Id(id) == Leaf(UINT16, id)
L2capProto == Node(SEQUENCE, <<Leaf(UUID16, <<1, 0>>)>>)
RfcommProto(channel) == Node(SEQUENCE, <<Leaf(UUID16, RFCOMM), Leaf(UINT8, <<channel>>)>>)
ShortRfcomm == Node(SEQUENCE, <<Leaf(UUID16, RFCOMM)>>)
ObexProto == Node(SEQUENCE, <<Leaf(UUID16, <<0, 8>>), Leaf(UINT8, <<1>>)>>)
Protocols ==
  {Node(SEQUENCE, s) : s \in {<<L2capProto>>, <<L2capProto, RfcommProto(9), ObexProto>>,
                              <<RfcommProto(7), ShortRfcomm>>,
                              <<RfcommProto(3), RfcommProto(4)>>,
                              << >>, <<RfcommProto(5), Node(SEQUENCE, << >>)>>}}
Attrs == {<<Id(PROTO_DESC_LIST), p>> : p \in Protocols}
           \cup {<<Id(GOEP_L2CAP_PSM), Leaf(UINT16, <<16, 3>>)>>,
                 <<Id(<<0, 1>>), Leaf(UINT16, <<0, 4>>)>>,
                 <<Id(<<0, 1>>), Node(SEQUENCE, <<Leaf(UINT16, <<2, 0>>), L2capProto>>)>>}
Record == {Node(SEQUENCE, FlattenSeq(s)) : s \in SeqsUpTo(2, Attrs)}
MCRecords == {Node(SEQUENCE, << >>)} \cup {Node(SEQUENCE, <<r>>) : r \in Record}
              \cup {Node(SEQUENCE, <<r, s>>) : r \in Record,
                     s \in {t \in Record : Len(t.kids) <= 2}}
MCTrees == Numbers \cup Texts \cup Arrays \cup Flat \cup Three \cup Four \cup MCRecords
MCSlacks == {-1, 0, 1}
=============================================================================

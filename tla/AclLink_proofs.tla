--------------------------- MODULE AclLink_proofs ---------------------------
(***************************************************************************)
(* Proofs about AclLink, for any devices, any number of ACLs and channels  *)
(* and any number of places for channels on an ACL: references balance,    *)
(* nothing points to a freed object, a link that is up has a user, and     *)
(* every request for a channel is answered at most once, provided that     *)
(* authentication is asked for and fails only where the code can take it   *)
(* (Careful).                                                              *)
(***************************************************************************)
EXTENDS AclLink, FiniteSetTheorems, WellFoundedInduction, TLAPS

-----------------------------------------------------------------------------
(* The inductive invariant.                                                *)
Lives == {"none", "live", "freed"}
Answers == {<< >>, <<"made">>, <<"failed">>, <<"made", "lost">>}
ChanStates == {"CLOSED", "WAIT_CONNECT_RSP", "WAIT_CONFIG"}
ClientLists == [Places -> Chans \cup {None}]
AclRecs == [life : Lives, device : Devices \cup {None}, refs : Int,
            handle : Devices \cup {INVALID}, incoming : BOOLEAN,
            required : BOOLEAN, requested : BOOLEAN, completed : BOOLEAN,
            blind : BOOLEAN, clients : ClientLists]
ChanRecs == [life : Lives, acl : Acls \cup {None}, refs : Int,
             remote : BOOLEAN, state : ChanStates, held : BOOLEAN,
             told : Answers, late : BOOLEAN]
LinkStates == {"down", "up", "closing", "abandoned"}
Frames == [kind : {"none", "response"} \cup Guarded, acl : Acls \cup {None},
           i : 0 .. MaxClients + 1, ok : BOOLEAN, chan : Chans \cup {None},
           drop : BOOLEAN]

LinkTypes ==
  /\ acl \in [Acls -> AclRecs]
  /\ chan \in [Chans -> ChanRecs]
  /\ table \in [Acls -> Acls \cup {None}]
  /\ link \in [Devices -> LinkStates]
  /\ connecting \subseteq Acls /\ auth \subseteq Acls
  /\ frame \in Frames

(* An ACL is in the table once, and a channel has one place on its ACL.    *)
OnePlaceEach ==
  /\ \A i, j \in Acls : table[i] = table[j] /\ table[i] # None => i = j
  /\ \A a \in Acls, i, j \in Places :
       acl[a].clients[i] = acl[a].clients[j] /\ acl[a].clients[i] # None
         => i = j

(* An ACL with a handle is the one in the table for that link.             *)
HandleKnown ==
  \A a \in Acls : acl[a].handle # INVALID =>
    /\ InTable(a) /\ link[acl[a].handle] # "down"
    /\ \A b \in Acls : acl[b].handle = acl[a].handle => a = b

(* A loop is over an ACL, a callback for a channel that it still owns; no  *)
(* channel is open on the ACL whose connection or authentication failed,   *)
(* and the one whose link is lost stays in the table meanwhile.            *)
FrameShape ==
  /\ frame.kind = "none" => frame = NoFrame
  /\ frame.kind = "response" => InCallback /\ frame.drop
  /\ frame.kind \in Guarded =>
       /\ frame.acl \in Acls /\ frame.i >= 1
       /\ InCallback => frame.i <= MaxClients
  /\ frame.drop => InCallback /\ chan[frame.chan].life = "live"
  /\ frame.kind = "connected" /\ ~frame.ok =>
       \A x \in LiveChans(frame.acl) : ~Open(x)
FrameRuns ==
  /\ FrameShape
  /\ frame.kind = "disconnected" =>
       InTable(frame.acl) /\ acl[frame.acl].handle = INVALID

(* What the controller works on is kept by a channel that waits for it.    *)
Loops == {"connected", "disconnected"}
Waits(x) == chan[x].state = "CLOSED" /\ chan[x].told = << >>
WaitedFor ==
  /\ \A a \in connecting \cup auth :
       /\ InTable(a)
       /\ \E x \in LiveChans(a) : Waits(x)
  /\ \A a \in connecting :
       /\ acl[a].handle = INVALID /\ acl[a].device # None
       /\ ~acl[a].requested
       /\ \A x \in LiveChans(a) : ~Open(x)
       /\ ~(frame.kind \in Guarded /\ frame.acl = a)
  /\ \A a \in auth :
       /\ acl[a].handle # INVALID
       /\ acl[a].requested /\ ~acl[a].completed
       /\ ~(frame.kind \in Loops /\ frame.acl = a)
  /\ \A a \in Acls :
       /\ acl[a].completed => acl[a].requested
       /\ acl[a].requested => acl[a].required

(* The references to a channel: the application's, and the library's until *)
(* the callback that tells the answer has returned.                        *)
One(b) == IF b THEN 1 ELSE 0
ChanOK(c, called, drop) ==
  /\ c.life = "live" =>
       /\ c.acl # None
       /\ c.refs = One(c.held) + One(c.told = << >> \/ (called /\ drop))
       /\ c.refs > 0
  /\ c.life = "none" => c = NewChan /\ ~called
  /\ c.held => c.life = "live" /\ c.state = "WAIT_CONFIG"
  /\ c.life = "live" /\ c.state = "WAIT_CONFIG" =>
       c.remote /\ c.told \in {<<"made">>, <<"made", "lost">>}
  /\ c.life = "live" /\ c.state # "WAIT_CONFIG" =>
       \/ c.told = << >> /\ ~called
       \/ c.told = <<"failed">> /\ called /\ drop
ChanCounts == \A x \in Chans : ChanOK(chan[x], frame.chan = x, frame.drop)

(* A channel that was told of the loss of its link is behind the loop that *)
(* told it, which no other will follow.                                    *)
Passing(x) ==
  \A i \in Places : acl[chan[x].acl].clients[i] = x =>
    i < frame.i \/ (i = frame.i /\ InCallback)
LostOver(x) ==
  /\ acl[chan[x].acl].handle = INVALID
  /\ \/ ~InTable(chan[x].acl)
     \/ frame.kind = "disconnected" /\ frame.acl = chan[x].acl /\ Passing(x)
LostOnce ==
  \A x \in Chans :
    chan[x].life = "live" /\ chan[x].told = <<"made", "lost">> => LostOver(x)

(* The applications that the theorems are about: they ask for              *)
(* authentication of an ACL that is connected and has a place for the      *)
(* channel, not in the callbacks of the loop that reports a connection,    *)
(* and none fails on an ACL that has open channels.                        *)
Careful == AuthSites \subseteq {"linked"} /\ FailsBeside = FALSE

LinkInv ==
  /\ LinkTypes /\ OnePlaceEach /\ HandleKnown /\ FrameRuns /\ WaitedFor
  /\ ChanCounts /\ LostOnce /\ RefsBalanced /\ NoDangling /\ LinkHasUser

-----------------------------------------------------------------------------
(* Numbers, sets and sequences.                                            *)
LEMMA Bounds ==
  /\ Acls \subseteq Nat /\ None \notin Acls
  /\ Chans \subseteq Nat /\ None \notin Chans
  /\ Places \subseteq Nat /\ Places # {}
  /\ INVALID \notin Devices /\ None \notin Devices
  /\ MaxClients \in Nat
  BY LinkAssumption DEF Acls, Chans, Places, None, INVALID

LEMMA AnswersDiffer ==
  /\ << >> # <<"made">> /\ << >> # <<"failed">> /\ << >> # <<"made", "lost">>
  /\ <<"made">> # <<"failed">> /\ <<"made">> # <<"made", "lost">>
  /\ <<"failed">> # <<"made", "lost">>
<1>1. "made" # "failed"
  OBVIOUS
<1>2. Len(<< >>) = 0 /\ Len(<<"made">>) = 1 /\ Len(<<"failed">>) = 1
      /\ Len(<<"made", "lost">>) = 2
  OBVIOUS
<1>3. <<"made">>[1] = "made" /\ <<"failed">>[1] = "failed"
  OBVIOUS
<1> QED
  BY <1>1, <1>2, <1>3

LEMMA Appending ==
  /\ Append(<< >>, "failed") = <<"failed">>
  /\ Append(<< >>, "made") = <<"made">>
  /\ Append(<<"made">>, "lost") = <<"made", "lost">>
<1> DEFINE S == {"made", "lost"}
<1>1. <<"made">> \in Seq(S) /\ Len(<<"made">>) = 1 /\ <<"made">>[1] = "made"
  OBVIOUS
<1>2. /\ Append(<<"made">>, "lost") \in Seq(S)
      /\ Len(Append(<<"made">>, "lost")) = 2
      /\ Append(<<"made">>, "lost")[1] = "made"
      /\ Append(<<"made">>, "lost")[2] = "lost"
  BY <1>1
<1>3. /\ <<"made", "lost">> \in Seq(S) /\ Len(<<"made", "lost">>) = 2
      /\ <<"made", "lost">>[1] = "made" /\ <<"made", "lost">>[2] = "lost"
  OBVIOUS
<1>4. \A q, r \in Seq(S) :
        /\ Len(q) = 2 /\ q[1] = "made" /\ q[2] = "lost"
        /\ Len(r) = 2 /\ r[1] = "made" /\ r[2] = "lost"
        => q = r
  OBVIOUS
<1>5. Append(<<"made">>, "lost") = <<"made", "lost">>
  BY <1>2, <1>3, <1>4
<1> QED
  BY <1>5

(* The loops that look for the first free place find it.                   *)
LEMMA LowestIn ==
  ASSUME NEW S, S \subseteq Nat, S # {}
  PROVE  Lowest(S) \in S
<1> DEFINE R == OpToRel(<, Nat)
<1>1. IsWellFoundedOn(R, Nat)
  BY NatLessThanWellFounded
<1> HIDE DEF R
<1>2. PICK n \in S : \A m \in S : ~ (<<m, n>> \in R)
  BY <1>1, WFMin
<1>3. \A m \in S : ~(m < n)
  BY <1>2 DEF R, OpToRel
<1>4. \A m \in S : n <= m
  BY <1>3
<1> QED
  BY <1>4 DEF Lowest

(* Channels of an ACL are counted.                                         *)
LEMMA LiveFinite ==
  \A a : IsFiniteSet(LiveChans(a)) /\ Cardinality(LiveChans(a)) \in Nat
<1>1. IsFiniteSet(Chans)
  BY LinkAssumption, FS_Interval DEF Chans
<1> TAKE a
<1>2. LiveChans(a) \in SUBSET Chans
  BY DEF LiveChans
<1>3. IsFiniteSet(LiveChans(a))
  BY <1>1, <1>2, FS_Subset
<1> QED
  BY <1>3, FS_CardinalityType

LEMMA LiveFiniteNext ==
  \A a : IsFiniteSet(LiveChans(a)') /\ Cardinality(LiveChans(a)') \in Nat
<1>1. IsFiniteSet(Chans)
  BY LinkAssumption, FS_Interval DEF Chans
<1> TAKE a
<1>2. LiveChans(a)' \in SUBSET Chans
  BY DEF LiveChans
<1>3. IsFiniteSet(LiveChans(a)')
  BY <1>1, <1>2, FS_Subset
<1> QED
  BY <1>3, FS_CardinalityType

LEMMA NoneLive ==
  \A a : Cardinality(LiveChans(a)) = 0 <=> LiveChans(a) = {}
  BY LiveFinite, FS_EmptySet

(* There is room in the table for an ACL that is not in it.                *)
LEMMA RoomInTable ==
  ASSUME LinkTypes, OnePlaceEach, NEW a \in Acls, ~InTable(a)
  PROVE  {i \in Acls : table[i] = None} # {}
<1> SUFFICES ASSUME \A i \in Acls : table[i] # None PROVE FALSE
  OBVIOUS
<1>1. table \in [Acls -> Acls \ {a}]
  BY DEF LinkTypes, InTable
<1>2. IsFiniteSet(Acls)
  BY LinkAssumption, FS_Interval DEF Acls
<1>3. IsFiniteSet(Acls \ {a}) /\ Cardinality(Acls \ {a}) = Cardinality(Acls) - 1
  BY <1>2, FS_RemoveElement
<1>4. Cardinality(Acls) \in Nat
  BY <1>2, FS_CardinalityType
<1>5. Cardinality(Acls \ {a}) < Cardinality(Acls)
  BY <1>3, <1>4
<1>6. PICK i, j \in Acls : i # j /\ table[i] = table[j]
  BY <1>1, <1>2, <1>3, <1>5, FS_PigeonHole
<1> QED
  BY <1>6 DEF OnePlaceEach

-----------------------------------------------------------------------------
(* The fields of the objects.                                              *)
LEMMA AclFields ==
  ASSUME LinkTypes, NEW a \in Acls
  PROVE  /\ acl[a].life \in Lives /\ acl[a].refs \in Int
         /\ acl[a].device \in Devices \cup {None}
         /\ acl[a].handle \in Devices \cup {INVALID}
         /\ acl[a].incoming \in BOOLEAN /\ acl[a].clients \in ClientLists
         /\ acl[a].required \in BOOLEAN /\ acl[a].requested \in BOOLEAN
         /\ acl[a].completed \in BOOLEAN /\ acl[a].blind \in BOOLEAN
  BY DEF LinkTypes, AclRecs

LEMMA ChanFields ==
  ASSUME LinkTypes, NEW x \in Chans
  PROVE  /\ chan[x].life \in Lives /\ chan[x].acl \in Acls \cup {None}
         /\ chan[x].refs \in Int /\ chan[x].remote \in BOOLEAN
         /\ chan[x].state \in ChanStates /\ chan[x].held \in BOOLEAN
         /\ chan[x].told \in Answers /\ chan[x].late \in BOOLEAN
  BY DEF LinkTypes, ChanRecs

LEMMA FrameFields ==
  ASSUME LinkTypes
  PROVE  /\ frame.kind \in {"none", "response"} \cup Guarded
         /\ frame.acl \in Acls \cup {None} /\ frame.i \in 0 .. MaxClients + 1
         /\ frame.ok \in BOOLEAN /\ frame.chan \in Chans \cup {None}
         /\ frame.drop \in BOOLEAN
  BY DEF LinkTypes, Frames

LEMMA PassedFields ==
  ASSUME LinkTypes
  PROVE  /\ Passed(frame).kind = frame.kind /\ Passed(frame).acl = frame.acl
         /\ Passed(frame).ok = frame.ok /\ Passed(frame).i = frame.i + 1
         /\ Passed(frame).chan = None /\ Passed(frame).drop = FALSE
         /\ frame.i <= MaxClients => Passed(frame) \in Frames
<1>1. /\ Passed(frame).kind = frame.kind /\ Passed(frame).acl = frame.acl
      /\ Passed(frame).ok = frame.ok /\ Passed(frame).i = frame.i + 1
      /\ Passed(frame).chan = None /\ Passed(frame).drop = FALSE
  BY DEF LinkTypes, Frames, Passed
<1>2. ASSUME frame.i <= MaxClients PROVE Passed(frame) \in Frames
  <2>1. frame.i + 1 \in 0 .. MaxClients + 1
    BY <1>2, FrameFields, Bounds
  <2> QED
    BY <2>1 DEF LinkTypes, Frames, Passed
<1> QED
  BY <1>1, <1>2

(* A client of an ACL is a channel on it.                                  *)
LEMMA ClientIsLive ==
  ASSUME LinkInv, NEW a \in Acls, NEW i \in Places, acl[a].clients[i] # None
  PROVE  /\ acl[a].clients[i] \in Chans
         /\ chan[acl[a].clients[i]].life = "live"
         /\ chan[acl[a].clients[i]].acl = a
  BY DEF LinkInv, NoDangling, LiveChans

-----------------------------------------------------------------------------
(* Steps that leave the ACLs, and which channels they have, as they are.   *)
LEMMA SameObjects ==
  ASSUME LinkInv, UNCHANGED <<acl, table, link, connecting, auth>>,
         \A x \in Chans : /\ chan'[x].life = chan[x].life
                          /\ chan'[x].acl = chan[x].acl,
         \A b \in Acls : (frame'.kind \in Guarded /\ frame'.acl = b)
                           <=> (frame.kind \in Guarded /\ frame.acl = b),
         ChanCounts'
  PROVE  /\ \A a : LiveChans(a)' = LiveChans(a)
         /\ \A a : InTable(a)' = InTable(a)
         /\ OnePlaceEach' /\ HandleKnown' /\ RefsBalanced' /\ NoDangling'
         /\ LinkHasUser'
<1>1. \A a : LiveChans(a)' = LiveChans(a)
  BY DEF LiveChans
<1>2. \A a : InTable(a)' = InTable(a)
  BY DEF InTable
<1>3. OnePlaceEach' /\ HandleKnown'
  BY DEF LinkInv, OnePlaceEach, HandleKnown, InTable
<1>4. RefsBalanced'
  <2> SUFFICES ASSUME NEW a \in Acls
               PROVE  (LET looped == IF frame.kind \in Guarded /\ frame.acl = a
                                     THEN 1 ELSE 0
                           own == IF acl[a].incoming /\ InTable(a) THEN 1 ELSE 0
                           refs == Cardinality(LiveChans(a)) + looped + own
                       IN /\ acl[a].life # "none" => acl[a].refs = refs
                          /\ acl[a].life = "live" <=> refs > 0)'
    BY DEF RefsBalanced
  <2> QED
    BY <1>1, <1>2 DEF LinkInv, RefsBalanced
<1>5. NoDangling'
  <2>1. \A x \in Chans : chan'[x].held => chan'[x].life = "live"
    BY DEF ChanCounts, ChanOK
  <2> QED
    BY <1>1, <1>2, <2>1 DEF LinkInv, NoDangling, ReferenceKeeps
<1>6. LinkHasUser'
  BY <1>1, <1>2 DEF LinkInv, LinkHasUser
<1> QED
  BY <1>1, <1>2, <1>3, <1>4, <1>5, <1>6

(* What the controller works on does not mind them either, when the loop   *)
(* stays with its ACL and no channel that waits there is touched.          *)
LEMMA SameWaiting ==
  ASSUME LinkInv, UNCHANGED <<acl, table, connecting, auth>>,
         \A x \in Chans : /\ chan'[x].life = chan[x].life
                          /\ chan'[x].acl = chan[x].acl,
         \A x \in Chans : chan[x].acl \in connecting \cup auth =>
                            (Waits(x) => Waits(x)'),
         \A x \in Chans : chan[x].acl \in connecting => (Open(x)' => Open(x)),
         frame'.acl = frame.acl \/ frame'.acl \notin connecting,
         frame'.kind = frame.kind \/ frame'.kind \notin Guarded,
         frame'.acl = frame.acl \/ frame'.kind \notin Guarded
  PROVE  WaitedFor'
<1>1. \A a : LiveChans(a)' = LiveChans(a)
  BY DEF LiveChans
<1>2. \A a : InTable(a)' = InTable(a)
  BY DEF InTable
<1>3. \A a : \A x \in LiveChans(a) : x \in Chans /\ chan[x].acl = a
  BY DEF LiveChans
<1>4. ASSUME NEW a \in connecting \cup auth
      PROVE  InTable(a)' /\ \E x \in LiveChans(a)' : Waits(x)'
  BY <1>1, <1>2, <1>3, <1>4 DEF LinkInv, WaitedFor
<1>5. ASSUME NEW a \in connecting
      PROVE  /\ acl[a].handle = INVALID /\ acl[a].device # None
             /\ ~acl[a].requested
             /\ \A x \in LiveChans(a)' : ~Open(x)'
             /\ ~(frame.kind \in Guarded /\ frame.acl = a)
  BY <1>1, <1>3, <1>5 DEF LinkInv, WaitedFor
<1>6. ASSUME NEW a \in auth
      PROVE  /\ acl[a].handle # INVALID
             /\ acl[a].requested /\ ~acl[a].completed
             /\ ~(frame.kind \in Loops /\ frame.acl = a)
  BY <1>6 DEF LinkInv, WaitedFor
<1>7. \A a \in Acls : /\ acl[a].completed => acl[a].requested
                      /\ acl[a].requested => acl[a].required
  BY DEF LinkInv, WaitedFor
<1>8. \A k : k \in Loops => k \in Guarded
  BY DEF Loops, Guarded
<1> QED
  BY <1>4, <1>5, <1>6, <1>7, <1>8 DEF WaitedFor

(* Channels that were told of the loss stay behind the loop.               *)
LEMMA SameLost ==
  ASSUME LinkInv, UNCHANGED <<acl, table>>,
         NEW x \in Chans, chan'[x].life = "live", chan[x].life = "live",
         chan'[x].acl = chan[x].acl, chan[x].told = <<"made", "lost">>,
         frame.kind = "disconnected" =>
           /\ frame'.kind = "disconnected" /\ frame'.acl = frame.acl
           /\ \/ frame'.i = frame.i /\ (InCallback => InCallback')
              \/ frame'.i = frame.i + 1
  PROVE  LostOver(x)'
<1>1. LostOver(x)
  BY DEF LinkInv, LostOnce
<1>2. PICK a : a = chan[x].acl
  OBVIOUS
<1>4. InTable(a)' = InTable(a)
  BY DEF InTable
<1>3. ASSUME frame.kind = "disconnected", Passing(x) PROVE Passing(x)'
  <2>1. frame.i \in Nat /\ Places \subseteq Nat
    BY FrameFields, Bounds DEF LinkInv
  <2> QED
    BY <1>3, <2>1 DEF Passing
<1>5. /\ acl[a].handle = INVALID
      /\ ~InTable(a) \/ (frame.kind = "disconnected" /\ frame.acl = a /\ Passing(x))
  BY <1>1, <1>2 DEF LostOver
<1>6. /\ acl'[a].handle = INVALID
      /\ \/ ~InTable(a)'
         \/ frame'.kind = "disconnected" /\ frame'.acl = a /\ Passing(x)'
  BY <1>3, <1>4, <1>5
<1>7. a = chan'[x].acl
  BY <1>2
<1> QED
  BY <1>6, <1>7 DEF LostOver, InTable

(* A turn of a loop that does nothing, or the end of a callback after      *)
(* which the library has nothing to give up.                               *)
LEMMA PassInv ==
  ASSUME LinkInv, frame.kind \in Guarded, frame.i <= MaxClients, ~frame.drop,
         frame' = Passed(frame),
         UNCHANGED <<acl, table, chan, link, connecting, auth>>
  PROVE  LinkInv'
<1>2. /\ frame'.kind = frame.kind /\ frame'.acl = frame.acl
      /\ frame'.i = frame.i + 1 /\ frame'.chan = None /\ frame'.drop = FALSE
      /\ frame' \in Frames /\ frame'.ok = frame.ok
  BY PassedFields DEF LinkInv
<1>3. frame.i \in Nat /\ frame.i >= 1
  BY FrameFields, Bounds DEF LinkInv, FrameRuns, FrameShape
<1>4. LinkTypes'
  BY <1>2 DEF LinkInv, LinkTypes
<1>5. ChanCounts'
  <2> SUFFICES ASSUME NEW x \in Chans
               PROVE  ChanOK(chan'[x], frame'.chan = x, frame'.drop)
    BY DEF ChanCounts
  <2>1. ChanOK(chan[x], frame.chan = x, frame.drop)
    BY DEF LinkInv, ChanCounts
  <2>2. x # None
    BY Bounds
  <2> QED
    BY <1>2, <1>3, <2>1, <2>2 DEF ChanOK
<1>6. OnePlaceEach' /\ HandleKnown' /\ RefsBalanced' /\ NoDangling' /\ LinkHasUser'
  BY <1>2, <1>5, SameObjects
<1>7. WaitedFor'
  <2>1. \A x \in Chans : (Waits(x) => Waits(x)') /\ (Open(x)' => Open(x))
    BY DEF Waits, Open
  <2> QED
    BY <1>2, <2>1, SameWaiting
<1>8. FrameRuns'
  <2>1. /\ frame'.kind \in Guarded /\ frame'.kind # "none" /\ frame'.kind # "response"
        /\ frame'.chan = None /\ frame'.drop = FALSE
    BY <1>2 DEF Guarded
  <2>2. frame'.acl \in Acls /\ frame'.i >= 1
    BY <1>2, <1>3 DEF LinkInv, FrameRuns, FrameShape
  <2>3. ASSUME frame'.kind = "connected", ~frame'.ok
        PROVE  (\A x \in LiveChans(frame.acl) : ~Open(x))'
    <3>1. ASSUME NEW x \in Chans, chan'[x].life = "live", chan'[x].acl = frame'.acl
          PROVE  ~Open(x)'
      <4>1. x \in LiveChans(frame.acl)
        BY <1>2, <3>1 DEF LiveChans
      <4>2. ~Open(x)
        BY <1>2, <2>3, <4>1 DEF LinkInv, FrameRuns, FrameShape
      <4> QED
        BY <4>2 DEF Open
    <3> QED
      BY <3>1 DEF LiveChans
  <2>4. FrameShape'
    BY <2>1, <2>2, <2>3 DEF FrameShape, InCallback
  <2> QED
    BY <1>2, <2>4 DEF LinkInv, FrameRuns, InTable
<1>9. LostOnce'
  BY <1>2, SameLost DEF LostOnce
<1> QED
  BY <1>4, <1>5, <1>6, <1>7, <1>8, <1>9 DEF LinkInv

LEMMA SkipInv ==
  ASSUME LinkInv, LoopSkips
  PROVE  LinkInv'
<1>1. /\ frame.kind \in {"connected", "disconnected"} /\ ~InCallback
      /\ frame.i <= MaxClients
      /\ frame' = Passed(frame) /\ UNCHANGED <<acl, table, chan, link, connecting, auth>>
  BY DEF LoopSkips, Looping, controller
<1>2. ~frame.drop
  BY <1>1 DEF LinkInv, FrameRuns, FrameShape
<1> QED
  BY <1>1, <1>2, PassInv DEF Guarded

LEMMA RequestsInv ==
  ASSUME LinkInv, LoopRequests
  PROVE  LinkInv'
<1> DEFINE c == Client
<1>1. /\ frame.kind = "connected" /\ ~InCallback /\ frame.i <= MaxClients
      /\ c # None /\ frame.ok
      /\ chan' = IF chan[c].state = "CLOSED"
                 THEN [chan EXCEPT ![c].state = "WAIT_CONNECT_RSP"] ELSE chan
      /\ frame' = Passed(frame) /\ UNCHANGED <<acl, table, link, connecting, auth>>
  BY DEF LoopRequests, Looping, controller
<1>2. /\ frame'.kind = frame.kind /\ frame'.acl = frame.acl
      /\ frame'.i = frame.i + 1 /\ frame'.chan = None /\ frame'.drop = FALSE
      /\ frame'.ok
      /\ frame' \in Frames
  BY <1>1, PassedFields DEF LinkInv
<1>3. frame.chan = None /\ frame.i \in Places /\ frame.acl \in Acls
  BY <1>1, FrameFields, Bounds DEF LinkInv, InCallback, FrameRuns, FrameShape, Guarded, Places
<1>4. c \in Chans /\ chan[c].life = "live" /\ chan[c].acl = frame.acl
  BY <1>1, <1>3, ClientIsLive DEF Client
<1> HIDE DEF c
<1>5. /\ chan' \in [Chans -> ChanRecs]
      /\ \A x \in Chans : x # c => chan'[x] = chan[x]
      /\ \/ chan'[c] = chan[c]
         \/ /\ chan[c].state = "CLOSED"
            /\ chan'[c] = [chan[c] EXCEPT !.state = "WAIT_CONNECT_RSP"]
  BY <1>1, <1>4 DEF LinkInv, LinkTypes, ChanRecs, ChanStates
<1>6. /\ chan'[c].life = chan[c].life /\ chan'[c].acl = chan[c].acl
      /\ chan'[c].told = chan[c].told
      /\ chan[c].state # "WAIT_CONFIG" => chan'[c].state # "WAIT_CONFIG"
  BY <1>4, <1>5 DEF LinkInv, LinkTypes, ChanRecs
<1>7. LinkTypes'
  BY <1>1, <1>2, <1>5 DEF LinkInv, LinkTypes
<1>8. ChanCounts'
  <2> SUFFICES ASSUME NEW x \in Chans
               PROVE  ChanOK(chan'[x], frame'.chan = x, frame'.drop)
    BY DEF ChanCounts
  <2>1. ChanOK(chan[x], frame.chan = x, frame.drop)
    BY DEF LinkInv, ChanCounts
  <2>2. x # None
    BY Bounds
  <2>3. CASE chan'[x] = chan[x]
    BY <1>2, <1>3, <2>1, <2>2, <2>3 DEF ChanOK
  <2>4. CASE chan'[x] # chan[x]
    <3>1. x = c /\ chan[c].state = "CLOSED"
          /\ chan'[c] = [chan[c] EXCEPT !.state = "WAIT_CONNECT_RSP"]
      BY <1>5, <2>4
    <3>2. chan[c] \in ChanRecs
      BY <1>4 DEF LinkInv, LinkTypes
    <3> QED
      BY <1>2, <1>3, <1>4, <2>1, <2>2, <3>1, <3>2 DEF ChanOK, ChanRecs
  <2> QED BY <2>3, <2>4
<1>9. OnePlaceEach' /\ HandleKnown' /\ RefsBalanced' /\ NoDangling' /\ LinkHasUser'
      /\ (\A a : LiveChans(a)' = LiveChans(a)) /\ (\A a : InTable(a)' = InTable(a))
  BY <1>1, <1>2, <1>5, <1>6, <1>8, SameObjects
<1>10. WaitedFor'
  <2>1. frame.acl \notin connecting \cup auth
    BY <1>1, <1>3 DEF LinkInv, WaitedFor, Guarded, Loops
  <2>2. \A x \in Chans : chan[x].acl \in connecting \cup auth =>
          (Waits(x) => Waits(x)') /\ (Open(x)' => Open(x))
    BY <1>4, <1>5, <2>1 DEF Waits, Open
  <2> QED
    BY <1>1, <1>2, <1>5, <1>6, <2>2, SameWaiting
<1>11. FrameRuns'
  <2>1. frame'.i >= 1
    BY <1>2, <1>3 DEF Places
  <2> QED
    BY <1>1, <1>2, <1>3, <2>1 DEF FrameRuns, FrameShape, InCallback, Guarded
<1>12. LostOnce'
  <2>1. \A x \in Chans : chan'[x].told = chan[x].told /\ chan'[x].life = chan[x].life
                         /\ chan'[x].acl = chan[x].acl
    BY <1>5, <1>6
  <2> QED
    BY <1>1, <1>2, <2>1, SameLost DEF LostOnce
<1> QED
  BY <1>7, <1>8, <1>9, <1>10, <1>11, <1>12 DEF LinkInv

(* A channel that is being made is told that it failed, within a loop.     *)
LEMMA TellFailsInv ==
  ASSUME LinkInv, frame.kind \in {"connected", "disconnected"}, ~InCallback,
         frame.i <= MaxClients, Client # None,
         chan[Client].state # "WAIT_CONFIG",
         chan' = Tell(chan, Client, "failed"),
         frame' = [frame EXCEPT !.chan = Client, !.drop = TRUE],
         UNCHANGED <<acl, table, link, connecting, auth>>
  PROVE  LinkInv'
<1>1. frame.chan = None /\ frame.i \in Places /\ frame.acl \in Acls /\ ~frame.drop
  BY FrameFields, Bounds DEF LinkInv, InCallback, FrameRuns, FrameShape, Guarded, Places
<1>2. PICK c : c = Client
  OBVIOUS
<1>3. c \in Chans /\ chan[c].life = "live" /\ chan[c].acl = frame.acl /\ c # None
  BY <1>1, <1>2, ClientIsLive DEF Client
<1>4. /\ frame'.kind = frame.kind /\ frame'.acl = frame.acl
      /\ frame'.i = frame.i /\ frame'.chan = c /\ frame'.drop = TRUE
      /\ frame'.ok = frame.ok
      /\ frame' \in Frames
  BY <1>2, <1>3 DEF LinkInv, LinkTypes, Frames
<1>5. chan[c].told = << >> /\ ~chan[c].held /\ chan[c].refs = 1 /\ chan[c] \in ChanRecs
  <2>1. ChanOK(chan[c], frame.chan = c, frame.drop)
    BY <1>3 DEF LinkInv, ChanCounts
  <2>2. chan[c].held \in BOOLEAN
    BY <1>3, ChanFields DEF LinkInv
  <2> QED
    BY <1>1, <1>2, <1>3, <2>1, <2>2 DEF ChanOK, One, LinkInv, LinkTypes
<1>6. PICK r : r = [chan[c] EXCEPT !.told = <<"failed">>]
  OBVIOUS
<1>7. /\ r \in ChanRecs
      /\ r.life = "live" /\ r.acl = frame.acl /\ r.told = <<"failed">>
      /\ r.held = chan[c].held /\ r.refs = 1 /\ r.state = chan[c].state
  BY <1>3, <1>5, <1>6 DEF ChanRecs, Answers
<1>8. chan' = [chan EXCEPT ![c] = r]
  BY <1>2, <1>3, <1>5, <1>6, Appending DEF Tell, LinkInv, LinkTypes
<1>9. /\ chan' \in [Chans -> ChanRecs] /\ chan'[c] = r
      /\ \A x \in Chans : x # c => chan'[x] = chan[x]
  BY <1>3, <1>7, <1>8 DEF LinkInv, LinkTypes
<1>10. \A x \in Chans : chan'[x].life = chan[x].life /\ chan'[x].acl = chan[x].acl
                        /\ chan'[x].state = chan[x].state
  BY <1>3, <1>7, <1>9
<1>11. LinkTypes'
  BY <1>4, <1>9 DEF LinkInv, LinkTypes
<1>12. ChanCounts'
  <2> SUFFICES ASSUME NEW x \in Chans
               PROVE  ChanOK(chan'[x], frame'.chan = x, frame'.drop)
    BY DEF ChanCounts
  <2>1. CASE x = c
    BY <1>1, <1>2, <1>3, <1>4, <1>5, <1>7, <1>9, <2>1, AnswersDiffer, Bounds
    DEF ChanOK, One
  <2>2. CASE x # c
    <3>1. ChanOK(chan[x], frame.chan = x, frame.drop) /\ x # None
      BY Bounds DEF LinkInv, ChanCounts
    <3> QED
      BY <1>1, <1>4, <1>9, <2>2, <3>1 DEF ChanOK
  <2> QED BY <2>1, <2>2
<1>13. OnePlaceEach' /\ HandleKnown' /\ RefsBalanced' /\ NoDangling' /\ LinkHasUser'
  BY <1>4, <1>10, <1>12, SameObjects
<1>14. WaitedFor'
  <2>1. frame.acl \notin connecting \cup auth
    BY <1>1 DEF LinkInv, WaitedFor, Guarded, Loops
  <2>2. \A x \in Chans : chan[x].acl \in connecting \cup auth =>
          (Waits(x) => Waits(x)') /\ (Open(x)' => Open(x))
    BY <1>3, <1>9, <1>10, <2>1 DEF Waits, Open
  <2> QED
    BY <1>4, <1>10, <2>2, SameWaiting
<1>15. FrameRuns'
  <2>1. frame.i >= 1
    BY <1>1 DEF Places
  <2>2. frame'.kind = "connected" /\ ~frame'.ok =>
          \A x \in Chans : chan'[x].life = "live" /\ chan'[x].acl = frame'.acl
                            => chan'[x].state # "WAIT_CONFIG"
    BY <1>4, <1>10 DEF LinkInv, FrameRuns, FrameShape, LiveChans, Open
  <2>3. frame'.kind = "disconnected" =>
          InTable(frame.acl)' /\ acl'[frame'.acl].handle = INVALID
    BY <1>4 DEF LinkInv, FrameRuns, FrameShape, InTable
  <2> QED
    BY <1>3, <1>4, <1>1, <1>7, <1>9, <2>1, <2>2, <2>3
    DEF FrameRuns, FrameShape, InCallback, Guarded, LiveChans, Open
<1>16. LostOnce'
  <2>1. InCallback'
    BY <1>3, <1>4 DEF InCallback
  <2>2. \A x \in Chans : chan'[x].told = <<"made", "lost">> =>
                           chan[x].told = <<"made", "lost">>
    BY <1>7, <1>9, AnswersDiffer
  <2> QED
    BY <1>4, <1>10, <2>1, <2>2, SameLost DEF LostOnce
<1> QED
  BY <1>11, <1>12, <1>13, <1>14, <1>15, <1>16 DEF LinkInv

LEMMA FailsInv ==
  ASSUME LinkInv, LoopFails
  PROVE  LinkInv'
<1>1. /\ frame.kind = "connected" /\ ~InCallback /\ frame.i <= MaxClients
      /\ Client # None /\ (~frame.ok \/ chan[Client].state = "CLOSED")
      /\ chan' = Tell(chan, Client, "failed")
      /\ frame' = [frame EXCEPT !.chan = Client, !.drop = TRUE]
      /\ UNCHANGED <<acl, table, link, connecting, auth>>
  BY DEF LoopFails, Looping, controller
<1>2. frame.i \in Places /\ frame.acl \in Acls
  BY <1>1, FrameFields, Bounds DEF LinkInv, InCallback, FrameRuns, FrameShape, Guarded, Places
<1>3. /\ Client \in Chans /\ chan[Client].life = "live"
      /\ chan[Client].acl = frame.acl
  BY <1>1, <1>2, ClientIsLive DEF Client
<1>4. chan[Client].state # "WAIT_CONFIG"
  BY <1>1, <1>3 DEF LinkInv, FrameRuns, FrameShape, LiveChans, Open
<1> QED
  BY <1>1, <1>4, TellFailsInv

(* One channel changes, on the ACL it is on, and with it the callback that *)
(* runs.                                                                   *)
LEMMA OneChanged ==
  ASSUME LinkInv, UNCHANGED <<acl, table, link, connecting, auth>>,
         NEW c \in Chans, NEW r \in ChanRecs, chan' = [chan EXCEPT ![c] = r],
         chan[c].life = "live", r.life = "live", r.acl = chan[c].acl,
         frame' \in Frames,
         frame'.kind = frame.kind \/ {frame'.kind, frame.kind} \cap Guarded = {},
         frame'.acl = frame.acl \/ frame'.acl \notin connecting,
         frame'.kind \in Guarded => frame'.acl = frame.acl,
         ChanOK(r, frame'.chan = c, frame'.drop),
         frame' = frame \/ (frame'.chan \in {c, None} /\ frame.chan \in {c, None}),
         chan[c].acl \in connecting \cup auth =>
           (Waits(c) => r.state = "CLOSED" /\ r.told = << >>),
         chan[c].acl \in connecting => r.state # "WAIT_CONFIG",
         FrameRuns',
         r.told = <<"made", "lost">> =>
           chan[c].told = <<"made", "lost">> \/ LostOver(c)',
         frame.kind = "disconnected" =>
           /\ frame'.kind = "disconnected" /\ frame'.acl = frame.acl
           /\ \/ frame'.i = frame.i /\ (InCallback => InCallback')
              \/ frame'.i = frame.i + 1
  PROVE  LinkInv'
<1>1. /\ chan' \in [Chans -> ChanRecs] /\ chan'[c] = r
      /\ \A x \in Chans : x # c => chan'[x] = chan[x]
  BY DEF LinkInv, LinkTypes
<1>2. \A x \in Chans : chan'[x].life = chan[x].life /\ chan'[x].acl = chan[x].acl
  BY <1>1
<1>3. LinkTypes'
  BY <1>1 DEF LinkInv, LinkTypes
<1>4. ChanCounts'
  <2> SUFFICES ASSUME NEW x \in Chans
               PROVE  ChanOK(chan'[x], frame'.chan = x, frame'.drop)
    BY DEF ChanCounts
  <2>1. CASE x = c
    BY <1>1, <2>1
  <2>2. CASE x # c
    <3>1. ChanOK(chan[x], frame.chan = x, frame.drop) /\ x # None
      BY Bounds DEF LinkInv, ChanCounts
    <3>2. CASE frame' = frame
      BY <1>1, <2>2, <3>1, <3>2
    <3>3. CASE frame'.chan \in {c, None} /\ frame.chan \in {c, None}
      <4>1. frame'.chan # x /\ frame.chan # x
        BY <2>2, <3>1, <3>3
      <4> QED
        BY <1>1, <2>2, <3>1, <4>1 DEF ChanOK
    <3> QED BY <3>2, <3>3
  <2> QED BY <2>1, <2>2
<1>5. \A b \in Acls : (frame'.kind \in Guarded /\ frame'.acl = b)
                        <=> (frame.kind \in Guarded /\ frame.acl = b)
  OBVIOUS
<1>6. OnePlaceEach' /\ HandleKnown' /\ RefsBalanced' /\ NoDangling' /\ LinkHasUser'
  BY <1>2, <1>4, <1>5, SameObjects
<1>7. WaitedFor'
  <2>1. \A x \in Chans : chan[x].acl \in connecting \cup auth =>
          (Waits(x) => Waits(x)')
    BY <1>1, <1>2 DEF Waits
  <2>2. \A x \in Chans : chan[x].acl \in connecting => (Open(x)' => Open(x))
    BY <1>1, <1>2 DEF Open
  <2> QED
    BY <1>2, <2>1, <2>2, SameWaiting
<1>8. LostOnce'
  <2> SUFFICES ASSUME NEW x \in Chans, chan'[x].life = "live",
                      chan'[x].told = <<"made", "lost">>
               PROVE  LostOver(x)'
    BY DEF LostOnce
  <2>1. CASE x = c /\ LostOver(c)'
    BY <2>1
  <2>2. CASE chan[x].told = <<"made", "lost">>
    BY <1>2, <2>2, SameLost
  <2> QED
    BY <1>1, <2>1, <2>2
<1> QED
  BY <1>3, <1>4, <1>6, <1>7, <1>8 DEF LinkInv

(* bte_l2cap_ref in the callback that brings the channel.                  *)
LEMMA TakeRefInv ==
  ASSUME LinkInv, TakeRef
  PROVE  LinkInv'
<1>1. /\ InCallback /\ frame.drop /\ Open(frame.chan) /\ ~chan[frame.chan].held
      /\ chan' = [chan EXCEPT ![frame.chan].held = TRUE,
                              ![frame.chan].refs = @ + 1]
      /\ UNCHANGED <<acl, table, link, connecting, auth, frame>>
  BY DEF TakeRef, controller
<1>2. PICK c : c = frame.chan
  OBVIOUS
<1>3. c \in Chans
  BY <1>1, <1>2, FrameFields DEF LinkInv, InCallback
<1>4. chan[c] \in ChanRecs /\ chan[c].held = FALSE
  BY <1>1, <1>2, <1>3, ChanFields DEF LinkInv, LinkTypes
<1>5. PICK n \in Int : n = chan[c].refs + 1
  BY <1>4 DEF ChanRecs
<1>12. PICK r : r = [chan[c] EXCEPT !.held = TRUE, !.refs = n]
  OBVIOUS
<1>6. /\ r \in ChanRecs /\ r.life = "live" /\ r.acl = chan[c].acl
      /\ r.held = TRUE /\ r.refs = chan[c].refs + 1 /\ r.told = chan[c].told
      /\ r.state = "WAIT_CONFIG" /\ r.remote = chan[c].remote
      /\ chan[c].life = "live" /\ chan[c].state = "WAIT_CONFIG"
      /\ chan[c].refs \in Int
  <2>1. chan[c].life = "live" /\ chan[c].state = "WAIT_CONFIG"
    BY <1>1, <1>2 DEF Open
  <2>2. chan[c].refs \in Int
    BY <1>4 DEF ChanRecs
  <2>3. r \in ChanRecs
    BY <1>4, <1>5, <1>12 DEF ChanRecs
  <2>4. /\ r.life = chan[c].life /\ r.acl = chan[c].acl /\ r.held = TRUE
        /\ r.refs = n /\ r.told = chan[c].told /\ r.state = chan[c].state
        /\ r.remote = chan[c].remote
    BY <1>4, <1>12 DEF ChanRecs
  <2> QED
    BY <1>5, <2>1, <2>2, <2>3, <2>4
<1>7. chan' = [chan EXCEPT ![c] = r]
  BY <1>1, <1>2, <1>3, <1>5, <1>12 DEF LinkInv, LinkTypes
<1>8. ChanOK(r, frame'.chan = c, frame'.drop)
  <2>1. ChanOK(chan[c], frame.chan = c, frame.drop)
    BY <1>3 DEF LinkInv, ChanCounts
  <2>2. chan[c].refs = 1
    BY <1>1, <1>2, <1>4, <1>6, <2>1 DEF ChanOK, One
  <2> QED
    BY <1>1, <1>2, <1>4, <1>6, <2>1, <2>2 DEF ChanOK, One
<1>9. chan[c].acl \notin connecting /\ ~Waits(c)
  BY <1>3, <1>6 DEF LinkInv, WaitedFor, LiveChans, Open, Waits
<1>10. FrameRuns'
  <2>1. \A x \in Chans : chan'[x].life = chan[x].life /\ chan'[x].acl = chan[x].acl
                         /\ chan'[x].state = chan[x].state
    BY <1>3, <1>6, <1>7 DEF LinkInv, LinkTypes
  <2>2. frame.drop => InCallback /\ chan'[frame.chan].life = "live"
    BY <1>1, <1>2, <1>3, <1>6, <2>1
  <2>3. frame.kind = "connected" /\ ~frame.ok =>
          \A x \in Chans : chan'[x].life = "live" /\ chan'[x].acl = frame.acl
                           => chan'[x].state # "WAIT_CONFIG"
    BY <2>1 DEF LinkInv, FrameRuns, FrameShape, LiveChans, Open
  <2> QED
    BY <1>1, <2>2, <2>3 DEF LinkInv, FrameRuns, FrameShape, InCallback, LiveChans, Open, InTable
<1>11. frame' \in Frames
  BY <1>1 DEF LinkInv, LinkTypes
<1>13. /\ frame'.kind = frame.kind /\ frame'.acl = frame.acl
       /\ frame'.i = frame.i /\ (InCallback => InCallback') /\ frame' = frame
       /\ UNCHANGED <<acl, table, link, connecting, auth>>
  BY <1>1 DEF InCallback
<1> QED
  BY <1>3, <1>6, <1>7, <1>8, <1>9, <1>10, <1>11, <1>13, OneChanged

(* The link is lost: forming channels fail, those that an application      *)
(* holds are told, the others stay.                                        *)
LEMMA DisconnectsInv ==
  ASSUME LinkInv, LoopDisconnects
  PROVE  LinkInv'
<1>1. /\ frame.kind = "disconnected" /\ ~InCallback /\ frame.i <= MaxClients
      /\ Client # None
      /\ UNCHANGED <<acl, table, link, connecting, auth>>
  BY DEF LoopDisconnects, Looping, controller
<1>2. frame.chan = None /\ frame.i \in Places /\ frame.acl \in Acls /\ ~frame.drop
      /\ frame.drop = FALSE
  BY <1>1, FrameFields, Bounds DEF LinkInv, InCallback, FrameRuns, FrameShape, Guarded, Places
<1>3. PICK c : c = Client
  OBVIOUS
<1>4. /\ c \in Chans /\ chan[c].life = "live" /\ chan[c].acl = frame.acl
      /\ c # None /\ c = acl[frame.acl].clients[frame.i]
  BY <1>1, <1>2, <1>3, ClientIsLive DEF Client
<1>5. ChanOK(chan[c], frame.chan = c, frame.drop)
  BY <1>4 DEF LinkInv, ChanCounts
<1>6. CASE /\ IsForming(Client)
           /\ chan' = Tell(chan, Client, "failed")
           /\ frame' = [frame EXCEPT !.chan = Client, !.drop = TRUE]
  <2>1. chan[c].state # "WAIT_CONFIG"
    BY <1>3, <1>4, <1>5, <1>6 DEF ChanOK, IsForming
  <2> QED
    BY <1>1, <1>3, <1>6, <2>1, TellFailsInv
<1>7. CASE /\ ~IsForming(Client) /\ ~chan[Client].held
           /\ frame' = Passed(frame)
           /\ UNCHANGED chan
  BY <1>1, <1>2, <1>7, PassInv DEF Guarded
<1>8. CASE /\ ~IsForming(Client) /\ chan[Client].held
           /\ chan' = Tell(chan, Client, "lost")
           /\ frame' = [frame EXCEPT !.chan = Client]
  <2>1. chan[c].held /\ chan[c] \in ChanRecs
    BY <1>3, <1>4, <1>8 DEF LinkInv, LinkTypes
  <2>2. /\ chan[c].state = "WAIT_CONFIG"
        /\ chan[c].told \in {<<"made">>, <<"made", "lost">>}
    BY <1>4, <1>5, <2>1 DEF ChanOK
  <2>3. chan[c].told = <<"made">>
    <3> SUFFICES ASSUME chan[c].told = <<"made", "lost">> PROVE FALSE
      BY <2>2
    <3>1. LostOver(c)
      BY <1>4 DEF LinkInv, LostOnce
    <3>2. InTable(chan[c].acl)
      BY <1>1, <1>4 DEF LinkInv, FrameRuns, FrameShape
    <3>3. Passing(c)
      BY <3>1, <3>2 DEF LostOver
    <3>4. frame.i < frame.i
      BY <1>1, <1>2, <1>4, <3>3 DEF Passing
    <3>5. frame.i \in Nat
      BY <1>2 DEF Places
    <3> QED
      BY <3>4, <3>5
  <2>4. PICK r : r = [chan[c] EXCEPT !.told = <<"made", "lost">>]
    OBVIOUS
  <2>5. /\ r \in ChanRecs /\ r.life = "live" /\ r.acl = chan[c].acl
        /\ r.told = <<"made", "lost">> /\ r.held = chan[c].held
        /\ r.refs = chan[c].refs /\ r.state = "WAIT_CONFIG"
        /\ r.remote = chan[c].remote
    BY <1>4, <2>1, <2>2, <2>4 DEF ChanRecs, Answers
  <2>6. chan' = [chan EXCEPT ![c] = r]
    BY <1>3, <1>4, <1>8, <2>3, <2>4, Appending DEF Tell, LinkInv, LinkTypes
  <2>7. /\ frame'.kind = frame.kind /\ frame'.acl = frame.acl
        /\ frame'.i = frame.i /\ frame'.chan = c /\ frame'.drop = FALSE
        /\ frame' \in Frames
    BY <1>2, <1>3, <1>4, <1>8 DEF LinkInv, LinkTypes, Frames
  <2>8. ChanOK(r, frame'.chan = c, frame'.drop)
    BY <1>2, <1>4, <1>5, <2>1, <2>2, <2>3, <2>5, <2>7, AnswersDiffer
    DEF ChanOK, One
  <2>9. chan[c].acl \notin connecting /\ ~Waits(c)
    BY <1>4, <2>2 DEF LinkInv, WaitedFor, LiveChans, Open, Waits
  <2>10. FrameRuns'
    <3>1. frame.i >= 1
      BY <1>2 DEF Places
    <3>2. InTable(frame.acl)' /\ acl'[frame'.acl].handle = INVALID
      BY <1>1, <2>7 DEF LinkInv, FrameRuns, FrameShape, InTable
    <3> QED
      BY <1>1, <1>2, <1>4, <2>7, <3>1, <3>2 DEF FrameRuns, FrameShape, InCallback, Guarded
  <2>11. LostOver(c)'
    <3>1. chan'[c].acl = frame.acl
      BY <1>4, <2>5, <2>6 DEF LinkInv, LinkTypes
    <3>2. \A i \in Places : acl[frame.acl].clients[i] = c => i = frame.i
      BY <1>2, <1>4 DEF LinkInv, OnePlaceEach
    <3>3. acl[frame.acl].handle = INVALID
      BY <1>1 DEF LinkInv, FrameRuns, FrameShape
    <3>4. acl'[chan'[c].acl].handle = INVALID
      BY <1>1, <3>1, <3>3
    <3>5. Passing(c)'
      BY <1>1, <1>4, <2>7, <3>1, <3>2 DEF Passing, InCallback
    <3>6. frame'.kind = "disconnected" /\ frame'.acl = chan'[c].acl
      BY <1>1, <2>7, <3>1
    <3> QED
      BY <3>4, <3>5, <3>6 DEF LostOver
  <2>12. InCallback' /\ frame.chan \in {c, None} /\ frame'.chan \in {c, None}
    BY <1>2, <1>4, <2>7 DEF InCallback
  <2> QED
    BY <1>1, <1>4, <2>5, <2>6, <2>7, <2>8, <2>9, <2>10, <2>11, <2>12, OneChanged
<1> QED
  BY <1>6, <1>7, <1>8 DEF LoopDisconnects

(* The peer's answer is told in a callback, with the library's reference.  *)
LEMMA AnswersInv ==
  ASSUME LinkInv, NEW c \in Chans, NEW result \in Results, PeerAnswers(c, result)
  PROVE  LinkInv'
<1>1. /\ frame = NoFrame /\ chan[c].life = "live"
      /\ chan[c].state = "WAIT_CONNECT_RSP"
      /\ acl[chan[c].acl].handle # INVALID
      /\ UNCHANGED <<acl, table, link, connecting, auth>>
  BY DEF PeerAnswers, Idle, Reachable, controller
<1>2. chan[c] \in ChanRecs /\ ChanOK(chan[c], frame.chan = c, frame.drop) /\ c # None
  BY Bounds DEF LinkInv, ChanCounts, LinkTypes
<1>3. frame.chan = None /\ frame.kind = "none" /\ frame.acl = None
      /\ frame.drop = FALSE /\ "none" \notin Guarded /\ "response" \notin Guarded
  BY <1>1 DEF NoFrame, Guarded
<1>4. /\ chan[c].told = << >> /\ chan[c].held = FALSE /\ chan[c].refs = 1
      /\ chan[c].acl \in Acls /\ chan[c].acl \notin connecting
  <2>1. chan[c].held \in BOOLEAN /\ chan[c].acl \in Acls \cup {None}
    BY <1>2 DEF ChanRecs
  <2>2. chan[c].told = << >> /\ chan[c].held = FALSE /\ chan[c].refs = 1
        /\ chan[c].acl # None
    BY <1>1, <1>2, <1>3, <2>1 DEF ChanOK, One
  <2> QED
    BY <1>1, <2>1, <2>2 DEF LinkInv, WaitedFor
<1>5. PICK f : f = CallBack(c)
  OBVIOUS
<1>6. /\ f \in Frames /\ f.kind = "response" /\ f.acl = chan[c].acl
      /\ f.chan = c /\ f.drop = TRUE
  <2>1. 0 \in 0 .. MaxClients + 1
    BY Bounds
  <2> QED
    BY <1>4, <1>5, <2>1 DEF CallBack, NoFrame, Frames
<1>7. ASSUME NEW r \in ChanRecs, chan' = [chan EXCEPT ![c] = r],
             r.life = "live", r.acl = chan[c].acl, frame' = f,
             ChanOK(r, TRUE, TRUE), r.told # <<"made", "lost">>
      PROVE  LinkInv'
  <2>1. chan'[c] = r
    BY <1>7 DEF LinkInv, LinkTypes
  <2>2. FrameRuns'
    BY <1>2, <1>3, <1>6, <1>7, <2>1 DEF FrameRuns, FrameShape, InCallback
  <2>3. ChanOK(r, frame'.chan = c, frame'.drop)
    BY <1>6, <1>7 DEF ChanOK
  <2>4. ~Waits(c)
    BY <1>1 DEF Waits
  <2>5. {frame'.kind, frame.kind} \cap Guarded = {} /\ frame'.kind \notin Guarded
        /\ frame'.acl \notin connecting /\ frame.kind # "disconnected"
        /\ frame'.chan \in {c, None} /\ frame.chan \in {c, None} /\ frame' \in Frames
    BY <1>3, <1>4, <1>6, <1>7
  <2> QED
    BY <1>1, <1>4, <1>7, <2>2, <2>3, <2>4, <2>5, OneChanged
<1>8. CASE /\ result = "ok"
           /\ chan' = Tell([chan EXCEPT ![c].state = "WAIT_CONFIG",
                                        ![c].remote = TRUE], c, "made")
           /\ frame' = CallBack(c)
  <2>1. PICK r : r = [chan[c] EXCEPT !.state = "WAIT_CONFIG", !.remote = TRUE,
                                     !.told = <<"made">>]
    OBVIOUS
  <2>2. /\ r \in ChanRecs /\ r.life = "live" /\ r.acl = chan[c].acl
        /\ r.told = <<"made">> /\ r.held = FALSE /\ r.refs = 1
        /\ r.state = "WAIT_CONFIG" /\ r.remote = TRUE
    BY <1>1, <1>2, <1>4, <2>1 DEF ChanRecs, Answers, ChanStates
  <2>3. chan' = [chan EXCEPT ![c] = r]
    BY <1>4, <1>8, <2>1, Appending DEF Tell, LinkInv, LinkTypes
  <2>4. ChanOK(r, TRUE, TRUE)
    BY <1>4, <2>2, Bounds, AnswersDiffer DEF ChanOK, One
  <2> QED
    BY <1>4, <1>5, <1>7, <1>8, <2>2, <2>3, <2>4, AnswersDiffer
<1>9. CASE /\ result = "refused"
           /\ chan' = Tell([chan EXCEPT ![c].state = "CLOSED"], c, "failed")
           /\ frame' = CallBack(c)
  <2>1. PICK r : r = [chan[c] EXCEPT !.state = "CLOSED", !.told = <<"failed">>]
    OBVIOUS
  <2>2. /\ r \in ChanRecs /\ r.life = "live" /\ r.acl = chan[c].acl
        /\ r.told = <<"failed">> /\ r.held = FALSE /\ r.refs = 1
        /\ r.state = "CLOSED"
    BY <1>1, <1>2, <1>4, <2>1 DEF ChanRecs, Answers, ChanStates
  <2>3. chan' = [chan EXCEPT ![c] = r]
    BY <1>4, <1>9, <2>1, Appending DEF Tell, LinkInv, LinkTypes
  <2>4. ChanOK(r, TRUE, TRUE)
    BY <1>4, <2>2, Bounds, AnswersDiffer DEF ChanOK, One
  <2> QED
    BY <1>5, <1>7, <1>9, <2>2, <2>3, <2>4, AnswersDiffer
<1>10. CASE /\ result = "pending" /\ ~chan[c].remote
            /\ chan' = [chan EXCEPT ![c].remote = TRUE]
            /\ UNCHANGED frame
  <2>1. PICK r : r = [chan[c] EXCEPT !.remote = TRUE]
    OBVIOUS
  <2>2. /\ r \in ChanRecs /\ r.life = "live" /\ r.acl = chan[c].acl
        /\ r.told = << >> /\ r.held = FALSE /\ r.refs = 1
        /\ r.state = "WAIT_CONNECT_RSP"
    BY <1>1, <1>2, <1>4, <2>1 DEF ChanRecs
  <2>3. chan' = [chan EXCEPT ![c] = r]
    BY <1>10, <2>1 DEF LinkInv, LinkTypes
  <2>4. ChanOK(r, frame'.chan = c, frame'.drop)
    BY <1>2, <1>3, <1>4, <1>10, <2>2, Bounds, AnswersDiffer DEF ChanOK, One
  <2>5. FrameRuns'
    BY <1>3, <1>10, <1>1 DEF FrameRuns, FrameShape, Guarded, InCallback
  <2>6. ~Waits(c) /\ frame' = frame /\ frame' \in Frames /\ frame.kind # "disconnected"
    BY <1>1, <1>3, <1>10 DEF Waits, LinkInv, LinkTypes
  <2>7. r.told # <<"made", "lost">> /\ r.state # "WAIT_CONFIG"
    BY <2>2, AnswersDiffer
  <2> QED
    BY <1>1, <1>3, <1>4, <2>2, <2>3, <2>4, <2>5, <2>6, <2>7, OneChanged
<1> QED
  BY <1>8, <1>9, <1>10 DEF PeerAnswers

(* The frame after a step that opens no channel and frees none.            *)
LEMMA FrameGoesOn ==
  ASSUME LinkInv, UNCHANGED <<acl, table>>,
         \A x \in Chans : /\ chan'[x].life = chan[x].life
                          /\ chan'[x].acl = chan[x].acl
                          /\ chan'[x].state = chan[x].state,
         \/ frame' = frame
         \/ frame' = NoFrame
         \/ frame' = Passed(frame) /\ frame.kind \in Guarded /\ frame.i <= MaxClients
  PROVE  FrameRuns'
<1>1. FrameRuns /\ frame.i \in Nat
  BY FrameFields, Bounds DEF LinkInv
<1>2. \A x : Open(x)' /\ x \in Chans => Open(x)
  BY DEF Open
<1>3. CASE frame' = NoFrame
  BY <1>3 DEF FrameRuns, FrameShape, NoFrame, Guarded, InCallback
<1>4. CASE frame' = frame
  <2>1. frame.drop => InCallback' /\ chan'[frame.chan].life = "live"
    BY <1>1, <1>4, FrameFields DEF LinkInv, FrameRuns, FrameShape, InCallback
  <2>2. frame.kind = "connected" /\ ~frame.ok =>
          \A x \in LiveChans(frame.acl)' : ~Open(x)'
    BY <1>1, <1>2, <1>4 DEF FrameRuns, FrameShape, LiveChans
  <2> QED
    BY <1>1, <1>4, <2>1, <2>2 DEF FrameRuns, FrameShape, InCallback, InTable
<1>5. CASE frame' = Passed(frame) /\ frame.kind \in Guarded /\ frame.i <= MaxClients
  <2>1. /\ frame'.kind = frame.kind /\ frame'.acl = frame.acl
        /\ frame'.i = frame.i + 1 /\ frame'.chan = None /\ frame'.drop = FALSE
        /\ frame'.ok = frame.ok
    BY <1>5, PassedFields DEF LinkInv
  <2>2. frame.kind = "connected" /\ ~frame.ok =>
          \A x \in LiveChans(frame.acl)' : ~Open(x)'
    BY <1>1, <1>2, <2>1 DEF FrameRuns, FrameShape, LiveChans
  <2> QED
    BY <1>1, <1>5, <2>1, <2>2 DEF FrameRuns, FrameShape, InCallback, InTable, Guarded
<1> QED
  BY <1>3, <1>4, <1>5

LEMMA ChanUpdate ==
  ASSUME NEW c \in ChanRecs, NEW h \in BOOLEAN, NEW n \in Int
  PROVE  [c EXCEPT !.held = h, !.refs = n] \in ChanRecs
  BY DEF ChanRecs

(* bte_l2cap_unref by the application while the library still has its      *)
(* reference.                                                              *)
LEMMA UnrefSomeInv ==
  ASSUME LinkInv, NEW c \in Chans, chan[c].held, chan[c].refs > 1,
         chan' = [chan EXCEPT ![c].held = FALSE, ![c].refs = chan[c].refs - 1],
         UNCHANGED <<acl, table, link, connecting, auth, frame>>
  PROVE  LinkInv'
<1>1. chan[c] \in ChanRecs /\ ChanOK(chan[c], frame.chan = c, frame.drop)
  BY DEF LinkInv, ChanCounts, LinkTypes
<1>2. /\ chan[c].life = "live" /\ chan[c].state = "WAIT_CONFIG"
      /\ chan[c].held = TRUE /\ chan[c].refs = 2
  BY <1>1 DEF ChanOK, ChanRecs, One
<1>3. PICK r : r = [chan[c] EXCEPT !.held = FALSE, !.refs = 1]
  OBVIOUS
<1>4. r \in ChanRecs
  <2>1. PICK h \in BOOLEAN : h = FALSE
    OBVIOUS
  <2>3. PICK n \in Int : n = 1
    OBVIOUS
  <2>2. [chan[c] EXCEPT !.held = h, !.refs = n] \in ChanRecs
    BY <1>1, ChanUpdate
  <2> QED
    BY <1>3, <2>1, <2>2, <2>3
<1>5. /\ r.life = "live" /\ r.acl = chan[c].acl /\ r.told = chan[c].told
      /\ r.held = FALSE /\ r.refs = 1 /\ r.state = "WAIT_CONFIG"
      /\ r.remote = chan[c].remote
  BY <1>1, <1>2, <1>3 DEF ChanRecs
<1>6. chan' = [chan EXCEPT ![c] = r]
  <2>1. chan[c].refs - 1 = 1
    BY <1>2
  <2> QED
    BY <1>3, <2>1 DEF LinkInv, LinkTypes
<1>7. ChanOK(r, frame'.chan = c, frame'.drop)
  <2>1. c = frame.chan /\ frame.drop
    BY <1>1, <1>2, AnswersDiffer DEF ChanOK, One
  <2> QED
    BY <1>1, <1>2, <1>5, <2>1, AnswersDiffer DEF ChanOK, One
<1>8. FrameRuns'
  <2>1. \A x \in Chans : chan'[x].life = chan[x].life /\ chan'[x].acl = chan[x].acl
                         /\ chan'[x].state = chan[x].state
    BY <1>2, <1>5, <1>6 DEF LinkInv, LinkTypes
  <2> QED
    BY <2>1, FrameGoesOn
<1>9. chan[c].acl \notin connecting /\ ~Waits(c)
  BY <1>2 DEF LinkInv, WaitedFor, LiveChans, Open, Waits
<1>10. /\ frame'.kind = frame.kind /\ frame'.acl = frame.acl
       /\ frame'.i = frame.i /\ (InCallback => InCallback') /\ frame' = frame
       /\ frame' \in Frames /\ UNCHANGED <<acl, table, link, connecting, auth>>
  BY DEF InCallback, LinkInv, LinkTypes
<1> QED
  BY <1>2, <1>4, <1>5, <1>6, <1>7, <1>8, <1>9, <1>10, OneChanged

(* The frame when a callback returns.                                      *)
LEMMA Returning ==
  ASSUME LinkInv, InCallback,
         frame' = IF frame.kind = "response" THEN NoFrame ELSE Passed(frame)
  PROVE  /\ frame' \in Frames /\ frame'.chan = None /\ frame'.drop = FALSE
         /\ frame.chan \in Chans /\ frame.kind # "none"
         /\ \/ frame' = NoFrame /\ frame.kind = "response"
            \/ /\ frame' = Passed(frame) /\ frame.kind \in Guarded
               /\ frame.i <= MaxClients
               /\ frame'.kind = frame.kind /\ frame'.acl = frame.acl
               /\ frame'.i = frame.i + 1 /\ frame'.ok = frame.ok
<1>1. frame.kind # "none" /\ frame.chan \in Chans
  BY FrameFields DEF LinkInv, FrameRuns, FrameShape, InCallback, NoFrame
<1>2. CASE frame.kind = "response"
  <2>1. 0 \in 0 .. MaxClients + 1
    BY Bounds
  <2> QED
    BY <1>1, <1>2, <2>1 DEF Frames, NoFrame
<1>3. CASE frame.kind # "response"
  <2>1. frame.kind \in Guarded
    BY <1>1, <1>3, FrameFields DEF LinkInv
  <2>2. frame.i <= MaxClients
    BY <2>1 DEF LinkInv, FrameRuns, FrameShape
  <2> QED
    BY <1>1, <1>3, <2>1, <2>2, PassedFields DEF LinkInv
<1> QED
  BY <1>2, <1>3

(* A callback returns whose application has kept a reference.              *)
LEMMA ReturnSomeInv ==
  ASSUME LinkInv, InCallback, frame.drop,
         NEW c \in Chans, c = frame.chan, chan[c].refs > 1,
         chan' = [chan EXCEPT ![c].refs = @ - 1],
         frame' = IF frame.kind = "response" THEN NoFrame ELSE Passed(frame),
         UNCHANGED <<acl, table, link, connecting, auth>>
  PROVE  LinkInv'
<1>1. chan[c] \in ChanRecs /\ ChanOK(chan[c], frame.chan = c, frame.drop)
      /\ chan[c].life = "live"
  BY DEF LinkInv, ChanCounts, LinkTypes, FrameRuns, FrameShape
<1>2. /\ chan[c].state = "WAIT_CONFIG" /\ chan[c].held = TRUE /\ chan[c].refs = 2
  BY <1>1 DEF ChanOK, ChanRecs, One
<1>3. PICK r : r = [chan[c] EXCEPT !.refs = 1]
  OBVIOUS
<1>4. r \in ChanRecs
  BY <1>1, <1>3 DEF ChanRecs
<1>5. /\ r.life = "live" /\ r.acl = chan[c].acl /\ r.told = chan[c].told
      /\ r.held = TRUE /\ r.refs = 1 /\ r.state = "WAIT_CONFIG"
      /\ r.remote = chan[c].remote
  BY <1>1, <1>2, <1>3 DEF ChanRecs
<1>6. chan' = [chan EXCEPT ![c] = r]
  BY <1>2, <1>3 DEF LinkInv, LinkTypes
<1>7. c # None
  BY Bounds
<1>8. ChanOK(r, frame'.chan = c, frame'.drop)
  <2>1. frame'.chan # c
    BY <1>7, Returning
  <2>2. chan[c].told # << >>
    BY <1>1, <1>2, AnswersDiffer DEF ChanOK
  <2> QED
    BY <1>1, <1>2, <1>5, <2>1, <2>2, AnswersDiffer DEF ChanOK, One
<1>9. FrameRuns'
  <2>1. \A x \in Chans : chan'[x].life = chan[x].life /\ chan'[x].acl = chan[x].acl
                         /\ chan'[x].state = chan[x].state
    BY <1>1, <1>2, <1>5, <1>6 DEF LinkInv, LinkTypes
  <2> QED
    BY <2>1, FrameGoesOn, Returning
<1>10. chan[c].acl \notin connecting /\ ~Waits(c)
  BY <1>1, <1>2 DEF LinkInv, WaitedFor, LiveChans, Open, Waits
<1>11. /\ frame'.kind = frame.kind \/ {frame'.kind, frame.kind} \cap Guarded = {}
       /\ frame'.acl = frame.acl \/ frame'.acl \notin connecting
       /\ frame'.kind \in Guarded => frame'.acl = frame.acl
       /\ frame.kind = "disconnected" =>
            /\ frame'.kind = "disconnected" /\ frame'.acl = frame.acl
            /\ frame'.i = frame.i + 1
       /\ frame' \in Frames
       /\ frame'.chan \in {c, None} /\ frame.chan \in {c, None}
  <2>1. None \notin connecting
    BY Bounds DEF LinkInv, LinkTypes
  <2>2. CASE frame' = NoFrame /\ frame.kind = "response"
    BY <2>1, <2>2, Returning DEF NoFrame, Guarded
  <2>3. CASE frame' # NoFrame \/ frame.kind # "response"
    BY <2>1, <2>3, Returning
  <2> QED BY <2>2, <2>3
<1>12. r.told = <<"made", "lost">> => chan[c].told = <<"made", "lost">>
  BY <1>5
<1>13. r.life = "live" /\ r.acl = chan[c].acl /\ chan[c].life = "live"
  BY <1>1, <1>5
<1> QED
  BY <1>4, <1>6, <1>8, <1>9, <1>10, <1>11, <1>12, <1>13, OneChanged

-----------------------------------------------------------------------------
(* The last reference to a channel is given up.                            *)
LEMMA Removed ==
  ASSUME NEW r \in AclRecs, NEW x
  PROVE  /\ RemoveClient(r, x).life = r.life /\ RemoveClient(r, x).refs = r.refs
         /\ RemoveClient(r, x).handle = r.handle
         /\ RemoveClient(r, x).device = r.device
         /\ RemoveClient(r, x).incoming = r.incoming
         /\ RemoveClient(r, x).required = r.required
         /\ RemoveClient(r, x).requested = r.requested
         /\ RemoveClient(r, x).completed = r.completed
         /\ \A i \in Places : RemoveClient(r, x).clients[i] =
              IF r.clients[i] = x THEN None ELSE r.clients[i]
         /\ RemoveClient(r, x) \in AclRecs
<1>1. r.clients \in ClientLists
  BY DEF AclRecs
<1>2. PICK l : l = [i \in Places |-> IF r.clients[i] = x THEN None ELSE r.clients[i]]
  OBVIOUS
<1>3. l \in ClientLists /\ \A i \in Places : l[i] = IF r.clients[i] = x THEN None
                                                    ELSE r.clients[i]
  BY <1>1, <1>2 DEF ClientLists
<1>4. RemoveClient(r, x) = [r EXCEPT !.clients = l]
  BY <1>2 DEF RemoveClient
<1> QED
  BY <1>3, <1>4 DEF AclRecs

LEMMA Unreffed ==
  ASSUME NEW r \in AclRecs, NEW n \in Int
  PROVE  /\ Unref(r, n) \in AclRecs
         /\ Unref(r, n).refs = r.refs - n
         /\ Unref(r, n).device = r.device
         /\ Unref(r, n).incoming = r.incoming
         /\ Unref(r, n).required = r.required
         /\ Unref(r, n).requested = r.requested
         /\ Unref(r, n).completed = r.completed
         /\ Unref(r, n).clients = r.clients
         /\ Unref(r, n).handle = IF r.refs = n THEN INVALID ELSE r.handle
         /\ Unref(r, n).life = IF r.refs = n THEN "freed" ELSE r.life
<1>1. r.refs \in Int
  BY DEF AclRecs
<1>2. CASE r.refs = n
  <2>1. Unref(r, n) = [r EXCEPT !.refs = 0, !.life = "freed", !.handle = INVALID]
    BY <1>2 DEF Unref
  <2>2. PICK z \in Int : z = 0
    OBVIOUS
  <2>3. Unref(r, n) = [r EXCEPT !.refs = z, !.life = "freed", !.handle = INVALID]
    BY <2>1, <2>2
  <2>4. Unref(r, n) \in AclRecs
    BY <2>3 DEF AclRecs, Lives
  <2>5. r.refs - n = z
    BY <1>1, <1>2, <2>2
  <2> QED
    BY <1>2, <2>3, <2>4, <2>5 DEF AclRecs
<1>3. CASE r.refs # n
  <2>1. PICK m \in Int : m = r.refs - n
    BY <1>1
  <2>2. Unref(r, n) = [r EXCEPT !.refs = m]
    BY <1>3, <2>1 DEF Unref
  <2> QED
    BY <1>3, <2>1, <2>2 DEF AclRecs
<1> QED
  BY <1>2, <1>3

(* The references to an ACL, as a sum.                                     *)
Looped(a) == One(frame.kind \in Guarded /\ frame.acl = a)
Own(a) == One(acl[a].incoming /\ InTable(a))
LEMMA Balance ==
  ASSUME LinkInv, NEW a \in Acls
  PROVE  /\ acl[a].life # "none" =>
              acl[a].refs = Cardinality(LiveChans(a)) + Looped(a) + Own(a)
         /\ acl[a].life = "live" <=>
              Cardinality(LiveChans(a)) + Looped(a) + Own(a) > 0
         /\ Looped(a) \in {0, 1} /\ Own(a) \in {0, 1}
         /\ Cardinality(LiveChans(a)) \in Nat
  BY LiveFinite DEF LinkInv, RefsBalanced, Looped, Own, One

(* The converse, for the state after a step.                               *)
LEMMA BalanceNext ==
  ASSUME \A a \in Acls :
           /\ acl'[a].life # "none" =>
                acl'[a].refs = Cardinality(LiveChans(a)') + Looped(a)' + Own(a)'
           /\ acl'[a].life = "live" <=>
                Cardinality(LiveChans(a)') + Looped(a)' + Own(a)' > 0
  PROVE  RefsBalanced'
  BY DEF RefsBalanced, Looped, Own, One

LEMMA LastRefInv ==
  ASSUME LinkInv, NEW x \in Chans, chan[x].life = "live", chan[x].told # << >>,
         NEW a, a = chan[x].acl,
         NEW r \in ChanRecs, r.life = "freed", chan' = [chan EXCEPT ![x] = r],
         NEW left, left = RemoveClient(acl[a], x),
         NEW after, after = Unref(left, 1),
         acl' = [acl EXCEPT ![a] = after],
         table' = TableAfter(table, a, after),
         link' \in (IF IsUnused(left) THEN Close(left) ELSE {link}),
         UNCHANGED <<connecting, auth>>,
         \A b \in Acls : (frame'.kind \in Guarded /\ frame'.acl = b)
                           <=> (frame.kind \in Guarded /\ frame.acl = b),
         frame' \in Frames, frame'.acl \in {frame.acl, None},
         frame.kind = "disconnected" =>
           /\ frame'.kind = "disconnected" /\ frame'.acl = frame.acl
           /\ \/ frame'.i = frame.i /\ (InCallback => InCallback')
              \/ frame'.i = frame.i + 1,
         frame'.kind \in {frame.kind, "none"},
         ChanCounts', FrameShape'
  PROVE  LinkInv'
<1>1. a \in Acls /\ acl[a] \in AclRecs /\ acl[a].life = "live" /\ x # None
      /\ x \in LiveChans(a)
  <2>1. ChanOK(chan[x], frame.chan = x, frame.drop)
    BY DEF LinkInv, ChanCounts
  <2>2. a \in Acls
    BY <2>1, ChanFields DEF LinkInv, ChanOK
  <2> QED
    BY <2>2, Bounds DEF LinkInv, NoDangling, LinkTypes, LiveChans
<1>2. /\ left \in AclRecs /\ left.refs = acl[a].refs
      /\ left.handle = acl[a].handle /\ left.life = "live"
      /\ \A i \in Places : left.clients[i] = IF acl[a].clients[i] = x THEN None
                                             ELSE acl[a].clients[i]
  BY <1>1, Removed
<1>3. /\ after \in AclRecs /\ after.refs = acl[a].refs - 1
      /\ after.clients = left.clients
      /\ after.device = acl[a].device /\ after.incoming = acl[a].incoming
      /\ after.required = acl[a].required /\ after.requested = acl[a].requested
      /\ after.completed = acl[a].completed
      /\ after.handle = IF acl[a].refs = 1 THEN INVALID ELSE acl[a].handle
      /\ after.life = IF acl[a].refs = 1 THEN "freed" ELSE "live"
  <2>1. /\ left.device = acl[a].device /\ left.incoming = acl[a].incoming
        /\ left.required = acl[a].required /\ left.requested = acl[a].requested
        /\ left.completed = acl[a].completed
    BY <1>1, Removed
  <2>2. PICK n \in Int : n = 1
    OBVIOUS
  <2>3. /\ after \in AclRecs /\ after.refs = left.refs - n
        /\ after.clients = left.clients
        /\ after.device = left.device /\ after.incoming = left.incoming
        /\ after.required = left.required /\ after.requested = left.requested
        /\ after.completed = left.completed
        /\ after.handle = IF left.refs = n THEN INVALID ELSE left.handle
        /\ after.life = IF left.refs = n THEN "freed" ELSE left.life
    BY <1>2, <2>2, Unreffed
  <2> QED
    BY <1>2, <2>1, <2>2, <2>3
<1>4. /\ chan' \in [Chans -> ChanRecs] /\ chan'[x] = r
      /\ \A y \in Chans : y # x => chan'[y] = chan[y]
      /\ acl' \in [Acls -> AclRecs] /\ acl'[a] = after
      /\ \A b \in Acls : b # a => acl'[b] = acl[b]
  BY <1>1, <1>3 DEF LinkInv, LinkTypes
<1>5. /\ LiveChans(a)' = LiveChans(a) \ {x}
      /\ \A b : b # a => LiveChans(b)' = LiveChans(b)
  BY <1>1, <1>4 DEF LiveChans
<1>6. Cardinality(LiveChans(a)') = Cardinality(LiveChans(a)) - 1
  <2>1. Cardinality(LiveChans(a) \ {x}) = Cardinality(LiveChans(a)) - 1
    BY <1>1, LiveFinite, FS_RemoveElement
  <2> QED
    BY <1>5, <2>1
<1>7. /\ acl[a].refs = Cardinality(LiveChans(a)) + Looped(a) + Own(a)
      /\ Looped(a) \in {0, 1} /\ Own(a) \in {0, 1}
      /\ Cardinality(LiveChans(a)) \in Nat /\ Cardinality(LiveChans(a)) # 0
  BY <1>1, Balance, NoneLive
<1>8. ASSUME acl[a].refs = 1
      PROVE  LiveChans(a)' = {} /\ Looped(a) = 0 /\ Own(a) = 0
  <2>1. Cardinality(LiveChans(a)) = 1 /\ Looped(a) = 0 /\ Own(a) = 0
    BY <1>7, <1>8
  <2>2. PICK y : LiveChans(a) = {y}
    BY <2>1, LiveFinite, FS_Singleton
  <2> QED
    BY <1>1, <1>5, <2>1, <2>2
<1>9. /\ table' \in [Acls -> Acls \cup {None}]
      /\ \A i \in Acls : table'[i] = IF table[i] = a /\ acl[a].refs = 1 THEN None
                                     ELSE table[i]
  BY <1>3 DEF LinkInv, LinkTypes, TableAfter, Without
<1>10. \A b \in Acls : InTable(b)' <=> InTable(b) /\ ~(b = a /\ acl[a].refs = 1)
  BY <1>9, Bounds DEF InTable
<1>11. /\ link' \in [Devices -> LinkStates]
       /\ \A d \in Devices :
            /\ link'[d] = "up" =>
                 link[d] = "up" /\ (acl[a].handle = d => ~IsUnused(left))
            /\ link'[d] = "down" <=> link[d] = "down"
  <2>1. link \in [Devices -> LinkStates]
    BY DEF LinkInv, LinkTypes
  <2>2. CASE IsUnused(left) /\ left.handle # INVALID
             /\ link[left.handle] \in Standing
    <3>1. PICK s \in {"closing", "abandoned"} :
            link' = [link EXCEPT ![left.handle] = s]
      BY <2>2 DEF Close
    <3>2. left.handle \in Devices
      BY <1>2, <2>2 DEF AclRecs
    <3>3. \A d \in Devices : link'[d] = IF d = acl[a].handle THEN s ELSE link[d]
      BY <1>2, <2>1, <3>1, <3>2
    <3>4. link' \in [Devices -> LinkStates]
      BY <2>1, <3>1 DEF LinkStates
    <3>5. link[acl[a].handle] # "down"
      BY <1>2, <2>2 DEF Standing
    <3> QED
      BY <3>3, <3>4, <3>5
  <2>3. CASE ~(IsUnused(left) /\ left.handle # INVALID
               /\ link[left.handle] \in Standing)
    <3>1. link' = link
      BY <2>3 DEF Close
    <3> QED
      BY <1>2, <2>1, <2>3, <3>1, Bounds DEF Standing
  <2> QED BY <2>2, <2>3
<1>12. LinkTypes'
  BY <1>4, <1>9, <1>11 DEF LinkInv, LinkTypes
<1>13. OnePlaceEach'
  <2>1. \A i, j \in Acls : table'[i] = table'[j] /\ table'[i] # None => i = j
    BY <1>9 DEF LinkInv, OnePlaceEach
  <2>2. \A i, j \in Places : after.clients[i] = after.clients[j]
                             /\ after.clients[i] # None => i = j
    BY <1>1, <1>2, <1>3 DEF LinkInv, OnePlaceEach
  <2>3. \A b \in Acls, i, j \in Places :
          acl'[b].clients[i] = acl'[b].clients[j] /\ acl'[b].clients[i] # None
            => i = j
    BY <1>4, <2>2 DEF LinkInv, OnePlaceEach
  <2> QED
    BY <2>1, <2>3 DEF OnePlaceEach
<1>14. \A b \in Acls : /\ acl'[b].handle # INVALID =>
                            acl'[b].handle = acl[b].handle /\ ~(b = a /\ acl[a].refs = 1)
                       /\ acl'[b].handle \in Devices \cup {INVALID}
  BY <1>3, <1>4 DEF AclRecs
<1>15. HandleKnown'
  <2> SUFFICES ASSUME NEW b \in Acls, acl'[b].handle # INVALID
               PROVE  /\ InTable(b)' /\ link'[acl'[b].handle] # "down"
                      /\ \A c \in Acls : acl'[c].handle = acl'[b].handle => b = c
    BY DEF HandleKnown
  <2>1. /\ InTable(b) /\ link[acl[b].handle] # "down"
        /\ \A c \in Acls : acl[c].handle = acl[b].handle => b = c
        /\ acl'[b].handle = acl[b].handle /\ acl'[b].handle \in Devices
    BY <1>14 DEF LinkInv, HandleKnown
  <2>2. InTable(b)'
    BY <1>10, <1>14, <2>1
  <2>3. link'[acl'[b].handle] # "down"
    BY <1>11, <2>1
  <2> QED
    BY <1>14, <2>1, <2>2, <2>3
<1>16. RefsBalanced'
  <2>1. \A b \in Acls : Looped(b)' = Looped(b)
    BY DEF Looped, One
  <2>2. ASSUME NEW b \in Acls
        PROVE  /\ acl'[b].life # "none" => acl'[b].refs =
                    Cardinality(LiveChans(b)') + Looped(b)' + Own(b)'
               /\ acl'[b].life = "live" <=>
                    Cardinality(LiveChans(b)') + Looped(b)' + Own(b)' > 0
    <3>1. CASE b # a
      <4>1. Own(b)' = Own(b)
        BY <1>4, <1>10, <3>1 DEF Own, One
      <4> QED
        BY <1>4, <1>5, <2>1, <3>1, <4>1, Balance
    <3>2. CASE b = a /\ acl[a].refs = 1
      <4>1. Own(a)' = 0
        BY <1>1, <1>10, <3>2 DEF Own, One
      <4>2. Looped(a)' = 0 /\ Cardinality(LiveChans(a)') = 0
        BY <1>1, <1>6, <1>7, <1>8, <2>1, <3>2
      <4> QED
        BY <1>3, <1>4, <3>2, <4>1, <4>2
    <3>3. CASE b = a /\ acl[a].refs # 1
      <4>1. Own(a)' = Own(a)
        BY <1>1, <1>3, <1>4, <1>10, <3>3 DEF Own, One
      <4>2. Looped(a)' = Looped(a)
        BY <1>1, <2>1
      <4> QED
        BY <1>3, <1>4, <1>6, <1>7, <3>3, <4>1, <4>2
    <3> QED BY <3>1, <3>2, <3>3
  <2> QED
    BY <2>2, BalanceNext
<1>17. NoDangling'
  <2>1. ASSUME NEW b \in connecting \cup auth PROVE b \in Acls /\ acl'[b].life = "live"
    <3>1. b \in Acls /\ InTable(b) /\ acl[b].life = "live"
          /\ \E y \in LiveChans(b) : Waits(y)
      BY DEF LinkInv, WaitedFor, LinkTypes, NoDangling
    <3>2. LiveChans(b)' # {}
      BY <1>5, <3>1 DEF Waits
    <3> QED
      BY <1>3, <1>4, <1>8, <3>1, <3>2
  <2>2. ASSUME NEW b \in Acls, InTable(b)' PROVE acl'[b].life = "live"
    BY <1>3, <1>4, <1>10, <2>2 DEF LinkInv, NoDangling
  <2>3. ASSUME NEW y \in Chans, chan'[y].life = "live"
        PROVE  /\ acl'[chan'[y].acl].life = "live"
               /\ \E i \in Places : acl'[chan'[y].acl].clients[i] = y
    <3>1. y # x /\ chan'[y] = chan[y]
      BY <1>4, <2>3
    <3>2. PICK b : b = chan[y].acl
      OBVIOUS
    <3>3. /\ b \in Acls /\ acl[b].life = "live" /\ y \in LiveChans(b)
          /\ \E i \in Places : acl[b].clients[i] = y
      <4>1. b \in Acls
        BY <2>3, <3>1, <3>2, ChanFields DEF LinkInv, ChanCounts, ChanOK
      <4> QED
        BY <2>3, <3>1, <3>2, <4>1 DEF LinkInv, NoDangling, LiveChans
    <3>4. b = a => acl[a].refs # 1
      BY <1>5, <1>8, <3>1, <3>3
    <3>5. acl'[b].life = "live" /\ \E i \in Places : acl'[b].clients[i] = y
      BY <1>2, <1>3, <1>4, <3>1, <3>3, <3>4
    <3> QED
      BY <3>1, <3>2, <3>5
  <2>4. ASSUME NEW b \in Acls, NEW i \in Places, acl'[b].clients[i] # None
        PROVE  acl'[b].clients[i] \in LiveChans(b)'
    <3>1. acl'[b].clients[i] = acl[b].clients[i] /\ (b = a => acl[b].clients[i] # x)
      BY <1>2, <1>3, <1>4, <2>4
    <3>2. acl[b].clients[i] \in LiveChans(b)
      BY <2>4, <3>1 DEF LinkInv, NoDangling
    <3> QED
      BY <1>5, <3>1, <3>2
  <2>5. \A y \in Chans : chan'[y].held => chan'[y].life = "live"
    BY DEF ChanCounts, ChanOK
  <2> QED
    BY <2>1, <2>2, <2>3, <2>4, <2>5 DEF NoDangling, ReferenceKeeps
<1>18. LinkHasUser'
  <2> SUFFICES ASSUME NEW d \in Devices, link'[d] = "up"
               PROVE  \E b \in Acls : /\ InTable(b)' /\ acl'[b].handle = d
                                      /\ acl'[b].incoming \/ LiveChans(b)' # {}
    BY DEF LinkHasUser
  <2>1. PICK b \in Acls : /\ InTable(b) /\ acl[b].handle = d
                          /\ acl[b].incoming \/ LiveChans(b) # {}
    BY <1>11 DEF LinkInv, LinkHasUser
  <2>2. CASE b # a
    BY <1>4, <1>5, <1>10, <2>1, <2>2
  <2>3. CASE b = a
    <3>1. PICK i \in Places : left.clients[i] # None
      BY <1>11, <2>1, <2>3 DEF IsUnused, FreePlaces
    <3>2. acl[a].clients[i] # x /\ acl[a].clients[i] # None
      BY <1>2, <3>1
    <3>3. acl[a].clients[i] \in LiveChans(a)
      BY <1>1, <3>2 DEF LinkInv, NoDangling
    <3>4. LiveChans(a)' # {}
      BY <1>5, <3>2, <3>3
    <3> QED
      BY <1>3, <1>4, <1>8, <1>10, <2>1, <2>3, <3>4
  <2> QED BY <2>2, <2>3
<1>19. WaitedFor'
  <2>1. ASSUME NEW b \in connecting \cup auth
        PROVE  /\ b \in Acls /\ InTable(b)' /\ ~(b = a /\ acl[a].refs = 1)
               /\ \E y \in LiveChans(b)' : Waits(y)'
    <3>1. b \in Acls /\ InTable(b)
      BY DEF LinkInv, WaitedFor, LinkTypes
    <3>2. PICK y \in LiveChans(b) : Waits(y)
      BY DEF LinkInv, WaitedFor
    <3>3. y # x /\ y \in Chans
      BY <3>2 DEF Waits, LiveChans
    <3>4. y \in LiveChans(b)' /\ Waits(y)'
      BY <1>4, <1>5, <3>2, <3>3 DEF Waits
    <3>5. ~(b = a /\ acl[a].refs = 1)
      BY <1>8, <3>4
    <3> QED
      BY <1>10, <3>1, <3>4, <3>5
  <2>2. \A b \in Acls : /\ acl'[b].device = acl[b].device
                        /\ acl'[b].requested = acl[b].requested
                        /\ acl'[b].required = acl[b].required
                        /\ acl'[b].completed = acl[b].completed
                        /\ acl'[b].handle = IF b = a /\ acl[a].refs = 1 THEN INVALID
                                            ELSE acl[b].handle
    BY <1>3, <1>4
  <2>3. ASSUME NEW b \in connecting
        PROVE  /\ acl'[b].handle = INVALID /\ acl'[b].device # None
               /\ ~acl'[b].requested
               /\ \A y \in LiveChans(b)' : ~Open(y)'
               /\ ~(frame'.kind \in Guarded /\ frame'.acl = b)
    <3>1. /\ b \in Acls /\ acl[b].handle = INVALID /\ acl[b].device # None
          /\ ~acl[b].requested
          /\ \A y \in LiveChans(b) : ~Open(y)
          /\ ~(frame.kind \in Guarded /\ frame.acl = b)
      BY <2>3 DEF LinkInv, WaitedFor, LinkTypes
    <3>2. \A y \in LiveChans(b)' : ~Open(y)'
      BY <1>4, <1>5, <3>1 DEF Open, LiveChans
    <3> QED
      BY <2>2, <3>1, <3>2
  <2>4. ASSUME NEW b \in auth
        PROVE  /\ acl'[b].handle # INVALID
               /\ acl'[b].requested /\ ~acl'[b].completed
               /\ ~(frame'.kind \in Loops /\ frame'.acl = b)
    <3>1. /\ acl[b].handle # INVALID
          /\ acl[b].requested /\ ~acl[b].completed
          /\ ~(frame.kind \in Loops /\ frame.acl = b)
      BY <2>4 DEF LinkInv, WaitedFor
    <3>2. b # None
      BY <2>1, <2>4, Bounds
    <3>3. ~(frame'.kind \in Loops /\ frame'.acl = b)
      BY <3>1, <3>2 DEF Loops
    <3> QED
      BY <2>1, <2>2, <2>4, <3>1, <3>3
  <2>5. \A b \in Acls : /\ acl'[b].completed => acl'[b].requested
                        /\ acl'[b].requested => acl'[b].required
    BY <2>2 DEF LinkInv, WaitedFor
  <2> QED
    BY <2>1, <2>3, <2>4, <2>5 DEF WaitedFor
<1>20. FrameRuns'
  <2> SUFFICES ASSUME frame'.kind = "disconnected"
               PROVE  InTable(frame.acl)' /\ acl'[frame'.acl].handle = INVALID
    BY DEF FrameRuns
  <2>1. /\ frame.kind = "disconnected" /\ frame'.acl = frame.acl
        /\ frame.acl \in Acls /\ InTable(frame.acl) /\ acl[frame.acl].handle = INVALID
    BY DEF LinkInv, FrameRuns, FrameShape, Guarded
  <2>2. PICK b \in Acls : b = frame.acl
    BY <2>1
  <2>3. b = a => acl[a].refs # 1
    BY <1>8, <2>1, <2>2 DEF Looped, One, Guarded
  <2>4. InTable(b)' /\ acl'[b].handle = INVALID
    BY <1>10, <1>14, <2>1, <2>2, <2>3
  <2> QED
    BY <2>1, <2>2, <2>4 DEF InTable
<1>21. LostOnce'
  <2> SUFFICES ASSUME NEW y \in Chans, chan'[y].life = "live",
                      chan'[y].told = <<"made", "lost">>
               PROVE  LostOver(y)'
    BY DEF LostOnce
  <2>1. y # x /\ chan'[y] = chan[y] /\ y # None
    BY <1>4, Bounds
  <2>2. LostOver(y)
    BY <2>1 DEF LinkInv, LostOnce
  <2>3. PICK b \in Acls : b = chan[y].acl
    BY <2>1, ChanFields DEF LinkInv, ChanCounts, ChanOK
  <2>4. acl'[b].handle = INVALID
    BY <1>14, <2>2, <2>3 DEF LostOver
  <2>5. InTable(b)' => InTable(b)
    BY <1>10
  <2>6. \A i \in Places : acl'[b].clients[i] = y => acl[b].clients[i] = y
    BY <1>2, <1>3, <1>4, <2>1
  <2>7. CASE ~InTable(b)
    BY <2>1, <2>3, <2>4, <2>5, <2>7 DEF LostOver, InTable
  <2>8. CASE frame.kind = "disconnected" /\ frame.acl = b /\ Passing(y)
    <3>1. frame.i \in Nat /\ Places \subseteq Nat
      BY FrameFields, Bounds DEF LinkInv
    <3>2. Passing(y)'
      BY <2>1, <2>3, <2>6, <2>8, <3>1 DEF Passing
    <3>3. frame'.kind = "disconnected" /\ frame'.acl = chan'[y].acl
          /\ acl'[chan'[y].acl].handle = INVALID
      BY <2>1, <2>3, <2>4, <2>8
    <3> QED
      BY <3>2, <3>3 DEF LostOver
  <2> QED
    BY <2>2, <2>3, <2>7, <2>8 DEF LostOver
<1> QED
  BY <1>12, <1>13, <1>15, <1>16, <1>17, <1>18, <1>19, <1>20, <1>21 DEF LinkInv

(* Freed channels ask for nothing.                                         *)
LEMMA FreedChan ==
  ASSUME NEW c \in ChanRecs
  PROVE  LET r == [c EXCEPT !.held = FALSE, !.refs = 0, !.life = "freed"]
         IN /\ r \in ChanRecs /\ r.life = "freed" /\ r.held = FALSE
            /\ r.told = c.told /\ r.acl = c.acl
<1>1. PICK h \in BOOLEAN : h = FALSE
  OBVIOUS
<1>2. PICK n \in Int : n = 0
  OBVIOUS
<1>3. PICK r : r = [c EXCEPT !.held = h, !.refs = n, !.life = "freed"]
  OBVIOUS
<1>4. r \in ChanRecs
  BY <1>3 DEF ChanRecs, Lives
<1>5. r.life = "freed" /\ r.held = h /\ r.told = c.told /\ r.acl = c.acl
  BY <1>3 DEF ChanRecs
<1> QED
  BY <1>1, <1>2, <1>3, <1>4, <1>5

(* bte_l2cap_unref by the application.                                     *)
LEMMA AppUnrefInv ==
  ASSUME LinkInv, NEW x \in Chans, AppUnref(x)
  PROVE  LinkInv'
<1>1. /\ chan[x].held /\ UNCHANGED <<connecting, auth, frame>>
      /\ DropChan(x, acl, [chan EXCEPT ![x].held = FALSE])
  BY DEF AppUnref
<1>2. chan[x] \in ChanRecs /\ ChanOK(chan[x], frame.chan = x, frame.drop)
  BY DEF LinkInv, ChanCounts, LinkTypes
<1>3. /\ chan[x].life = "live" /\ chan[x].state = "WAIT_CONFIG"
      /\ chan[x].held = TRUE /\ chan[x].refs \in {1, 2}
      /\ chan[x].told # << >>
      /\ chan[x].refs = 1 => ~(frame.chan = x /\ frame.drop)
  <2>1. chan[x].life = "live" /\ chan[x].state = "WAIT_CONFIG"
    BY <1>1, <1>2 DEF ChanOK
  <2>2. chan[x].told # << >> /\ chan[x].held = TRUE
    BY <1>1, <1>2, <2>1, AnswersDiffer DEF ChanOK, ChanRecs
  <2>3. chan[x].refs = One(chan[x].held)
                       + One(chan[x].told = << >> \/ (frame.chan = x /\ frame.drop))
    BY <1>2, <2>1 DEF ChanOK
  <2> QED
    BY <2>1, <2>2, <2>3 DEF One
<1>4. PICK cs : cs = [chan EXCEPT ![x].held = FALSE]
  OBVIOUS
<1>5. /\ cs[x] = [chan[x] EXCEPT !.held = FALSE]
      /\ cs[x].refs = chan[x].refs /\ cs[x].acl = chan[x].acl
  BY <1>2, <1>4 DEF LinkInv, LinkTypes, ChanRecs
<1>6. DropChan(x, acl, cs)
  BY <1>1, <1>4
<1>7. CASE chan[x].refs > 1
  <2>1. /\ chan' = [cs EXCEPT ![x].refs = @ - 1]
        /\ UNCHANGED <<acl, table, link>>
    BY <1>5, <1>6, <1>7 DEF DropChan
  <2>2. chan' = [chan EXCEPT ![x].held = FALSE, ![x].refs = chan[x].refs - 1]
    BY <1>4, <1>5, <2>1 DEF LinkInv, LinkTypes
  <2> QED
    BY <1>1, <1>7, <2>1, <2>2, UnrefSomeInv
<1>8. CASE ~(chan[x].refs > 1)
  <2>1. PICK a : a = chan[x].acl
    OBVIOUS
  <2>2. PICK left : left = RemoveClient(acl[a], x)
    OBVIOUS
  <2>3. PICK after : after = Unref(left, 1)
    OBVIOUS
  <2>4. /\ chan' = [cs EXCEPT ![x].refs = 0, ![x].life = "freed"]
        /\ acl' = [acl EXCEPT ![a] = after]
        /\ table' = TableAfter(table, a, after)
        /\ link' \in IF IsUnused(left) THEN Close(left) ELSE {link}
    BY <1>5, <1>6, <1>8, <2>1, <2>2, <2>3 DEF DropChan
  <2>5. PICK r : r = [chan[x] EXCEPT !.held = FALSE, !.refs = 0, !.life = "freed"]
    OBVIOUS
  <2>6. r \in ChanRecs /\ r.life = "freed" /\ r.held = FALSE
    BY <1>2, <2>5, FreedChan
  <2>7. chan' = [chan EXCEPT ![x] = r]
    BY <1>4, <1>5, <2>4, <2>5 DEF LinkInv, LinkTypes
  <2>8. /\ chan'[x] = r
        /\ \A y \in Chans : y # x => chan'[y] = chan[y]
    BY <2>7 DEF LinkInv, LinkTypes
  <2>9. ChanCounts'
    <3> SUFFICES ASSUME NEW y \in Chans
                 PROVE  ChanOK(chan'[y], frame'.chan = y, frame'.drop)
      BY DEF ChanCounts
    <3>1. CASE y = x
      BY <2>6, <2>8, <3>1 DEF ChanOK
    <3>2. CASE y # x
      BY <1>1, <2>8, <3>2 DEF LinkInv, ChanCounts
    <3> QED BY <3>1, <3>2
  <2>10. chan[x].refs = 1
    BY <1>3, <1>8
  <2>11. FrameShape'
    <3>1. frame.drop => InCallback' /\ chan'[frame'.chan].life = "live"
      BY <1>1, <1>3, <2>8, <2>10, FrameFields
      DEF LinkInv, FrameRuns, FrameShape, InCallback
    <3>2. \A y \in Chans : chan'[y].life = "live" => chan'[y] = chan[y]
      BY <2>6, <2>8
    <3>3. frame.kind = "connected" /\ ~frame.ok =>
            \A y \in LiveChans(frame.acl)' : ~Open(y)'
      BY <1>1, <3>2 DEF LinkInv, FrameRuns, FrameShape, LiveChans, Open
    <3> QED
      BY <1>1, <3>1, <3>3 DEF LinkInv, FrameRuns, FrameShape, InCallback
  <2>12. /\ frame' \in Frames /\ frame'.acl \in {frame.acl, None}
         /\ frame'.kind = frame.kind /\ frame'.acl = frame.acl
         /\ frame'.i = frame.i /\ (InCallback => InCallback')
         /\ UNCHANGED <<connecting, auth>>
    BY <1>1 DEF LinkInv, LinkTypes, InCallback
  <2> QED
    BY <1>3, <2>1, <2>2, <2>3, <2>4, <2>6, <2>7, <2>9, <2>11, <2>12, LastRefInv
<1> QED
  BY <1>7, <1>8

(* A callback returns, and the library gives up its reference.             *)
LEMMA ReturnsInv ==
  ASSUME LinkInv, CallbackReturns
  PROVE  LinkInv'
<1>1. /\ InCallback /\ UNCHANGED <<connecting, auth>>
      /\ frame' = IF frame.kind = "response" THEN NoFrame ELSE Passed(frame)
      /\ IF frame.drop THEN DropChan(frame.chan, acl, chan)
         ELSE UNCHANGED <<acl, table, chan, link>>
  BY DEF CallbackReturns
<1>2. PICK x \in Chans : x = frame.chan
  BY <1>1, Returning
<1>3. CASE ~frame.drop
  <2>1. frame.kind \in Guarded /\ frame.i <= MaxClients /\ frame' = Passed(frame)
    BY <1>1, <1>3, Returning DEF LinkInv, FrameRuns, FrameShape
  <2> QED
    BY <1>1, <1>3, <2>1, PassInv
<1>4. CASE frame.drop
  <2>0. frame.drop = TRUE
    BY <1>4, FrameFields DEF LinkInv
  <2>1. chan[x] \in ChanRecs /\ ChanOK(chan[x], frame.chan = x, frame.drop)
        /\ chan[x].life = "live" /\ x # None
    BY <1>2, <1>4, Bounds DEF LinkInv, ChanCounts, LinkTypes, FrameRuns, FrameShape
  <2>2. DropChan(x, acl, chan)
    BY <1>1, <1>2, <1>4
  <2>3. CASE chan[x].refs > 1
    <3>1. chan' = [chan EXCEPT ![x].refs = @ - 1] /\ UNCHANGED <<acl, table, link>>
      BY <2>2, <2>3 DEF DropChan
    <3> QED
      BY <1>1, <1>2, <1>4, <2>3, <3>1, ReturnSomeInv
  <2>4. CASE ~(chan[x].refs > 1)
    <3>1. PICK a : a = chan[x].acl
      OBVIOUS
    <3>2. PICK left : left = RemoveClient(acl[a], x)
      OBVIOUS
    <3>3. PICK after : after = Unref(left, 1)
      OBVIOUS
    <3>4. /\ chan' = [chan EXCEPT ![x].refs = 0, ![x].life = "freed"]
          /\ acl' = [acl EXCEPT ![a] = after]
          /\ table' = TableAfter(table, a, after)
          /\ link' \in IF IsUnused(left) THEN Close(left) ELSE {link}
      BY <2>2, <2>4, <3>1, <3>2, <3>3 DEF DropChan
    <3>5. chan[x].held = FALSE /\ chan[x].told # << >>
      <4>1. chan[x].held \in BOOLEAN /\ chan[x].refs \in Int
        BY <2>1 DEF ChanRecs
      <4>2. /\ chan[x].refs = One(chan[x].held)
                              + One(chan[x].told = << >> \/ (frame.chan = x /\ frame.drop))
            /\ chan[x].told # << >>
        BY <1>2, <2>0, <2>1, AnswersDiffer DEF ChanOK
      <4>3. One(chan[x].told = << >> \/ (frame.chan = x /\ frame.drop)) = 1
        BY <1>2, <2>0 DEF One
      <4>4. chan[x].held => One(chan[x].held) = 1
        BY DEF One
      <4>5. ~chan[x].held
        BY <2>4, <4>1, <4>2, <4>3, <4>4
      <4> QED
        BY <4>1, <4>2, <4>5
    <3>6. PICK r : r = [chan[x] EXCEPT !.held = FALSE, !.refs = 0, !.life = "freed"]
      OBVIOUS
    <3>7. r \in ChanRecs /\ r.life = "freed" /\ r.held = FALSE
      BY <2>1, <3>6, FreedChan
    <3>8. r = [chan[x] EXCEPT !.refs = 0, !.life = "freed"]
      BY <2>1, <3>5, <3>6 DEF ChanRecs
    <3>9. chan' = [chan EXCEPT ![x] = r]
      BY <3>4, <3>8 DEF LinkInv, LinkTypes
    <3>10. /\ chan'[x] = r
           /\ \A y \in Chans : y # x => chan'[y] = chan[y]
      BY <3>9 DEF LinkInv, LinkTypes
    <3>11. /\ frame' \in Frames /\ frame'.chan = None /\ frame'.drop = FALSE
           /\ \/ frame' = NoFrame /\ frame.kind = "response"
              \/ /\ frame.kind \in Guarded /\ frame.i <= MaxClients
                 /\ frame'.kind = frame.kind /\ frame'.acl = frame.acl
                 /\ frame'.i = frame.i + 1 /\ frame'.ok = frame.ok
      BY <1>1, Returning
    <3>12. ChanCounts'
      <4> SUFFICES ASSUME NEW y \in Chans
                   PROVE  ChanOK(chan'[y], frame'.chan = y, frame'.drop)
        BY DEF ChanCounts
      <4>1. CASE y = x
        BY <3>7, <3>10, <4>1 DEF ChanOK
      <4>2. CASE y # x
        <5>1. ChanOK(chan[y], frame.chan = y, frame.drop) /\ frame.chan # y
              /\ frame'.chan # y
          BY <1>2, <3>11, <4>2, Bounds DEF LinkInv, ChanCounts
        <5> QED
          BY <3>10, <4>2, <5>1 DEF ChanOK
      <4> QED BY <4>1, <4>2
    <3>13. FrameShape'
      <4>1. \A y \in Chans : chan'[y].life = "live" => chan'[y] = chan[y]
        BY <3>7, <3>10
      <4>2. frame'.kind = "connected" /\ ~frame'.ok =>
              \A y \in LiveChans(frame.acl)' : ~Open(y)'
        BY <3>11, <4>1
        DEF LinkInv, FrameRuns, FrameShape, LiveChans, Open, NoFrame, Guarded
      <4>3. frame.i \in Nat
        BY FrameFields, Bounds DEF LinkInv
      <4> QED
        BY <3>11, <4>2, <4>3
        DEF LinkInv, FrameRuns, FrameShape, InCallback, Guarded, NoFrame
    <3>14. /\ \A b \in Acls : (frame'.kind \in Guarded /\ frame'.acl = b)
                                <=> (frame.kind \in Guarded /\ frame.acl = b)
           /\ frame'.acl \in {frame.acl, None}
           /\ frame.kind = "disconnected" =>
                /\ frame'.kind = "disconnected" /\ frame'.acl = frame.acl
                /\ frame'.i = frame.i + 1
           /\ frame'.kind \in {frame.kind, "none"}
      BY <3>11 DEF NoFrame, Guarded
    <3> QED
      BY <1>1, <2>1, <3>1, <3>2, <3>3, <3>4, <3>5, <3>7, <3>9, <3>11, <3>12,
         <3>13, <3>14, LastRefInv
  <2> QED BY <2>3, <2>4
<1> QED
  BY <1>3, <1>4

-----------------------------------------------------------------------------
(* A loop ends: its reference is given back, and after the loss of a link  *)
(* the ACL leaves the table, with the reference an incoming one has to     *)
(* itself.                                                                 *)
LEMMA EndsInv ==
  ASSUME LinkInv, LoopEnds
  PROVE  LinkInv'
<1>1. PICK a : a = frame.acl
  OBVIOUS
<1>2. PICK n : n = IF frame.kind = "disconnected" THEN 1 + OwnRef(acl[a]) ELSE 1
  OBVIOUS
<1>3. PICK r : r = Unref(acl[a], n)
  OBVIOUS
<1>4. /\ frame.kind \in Guarded /\ ~InCallback
      /\ acl' = [acl EXCEPT ![a] = r]
      /\ table' = IF frame.kind = "disconnected" THEN Without(table, a)
                  ELSE TableAfter(table, a, r)
      /\ frame' = NoFrame
      /\ UNCHANGED <<chan, link, connecting, auth>>
  BY <1>1, <1>2, <1>3 DEF LoopEnds, controller
<1>5. /\ a \in Acls /\ acl[a] \in AclRecs /\ acl[a].incoming \in BOOLEAN
      /\ frame.chan = None /\ frame.drop = FALSE
      /\ acl[a].handle \in Devices \cup {INVALID}
  BY <1>1, <1>4, FrameFields DEF LinkInv, FrameRuns, FrameShape, LinkTypes, InCallback, AclRecs
<1>6. Looped(a) = 1
  BY <1>1, <1>4 DEF Looped, One
<1>7. /\ Cardinality(LiveChans(a)) + 1 + Own(a) > 0
      /\ Own(a) \in {0, 1} /\ Cardinality(LiveChans(a)) \in Nat
      /\ acl[a].life = "live"
      /\ acl[a].refs = Cardinality(LiveChans(a)) + 1 + Own(a)
  BY <1>5, <1>6, Balance
<1>8. frame.kind = "disconnected" =>
        InTable(a) /\ acl[a].handle = INVALID /\ OwnRef(acl[a]) = Own(a)
  BY <1>1 DEF LinkInv, FrameRuns, OwnRef, Own, One
<1>9. n \in Int /\ n = IF frame.kind = "disconnected" THEN 1 + Own(a) ELSE 1
  BY <1>2, <1>7, <1>8
<1>10. /\ r \in AclRecs /\ r.refs = acl[a].refs - n
       /\ r.device = acl[a].device /\ r.incoming = acl[a].incoming
       /\ r.required = acl[a].required /\ r.requested = acl[a].requested
       /\ r.completed = acl[a].completed /\ r.clients = acl[a].clients
       /\ r.handle = IF acl[a].refs = n THEN INVALID ELSE acl[a].handle
       /\ r.life = IF acl[a].refs = n THEN "freed" ELSE "live"
  BY <1>3, <1>5, <1>7, <1>9, Unreffed
<1>11. /\ acl' \in [Acls -> AclRecs] /\ acl'[a] = r
       /\ \A b \in Acls : b # a => acl'[b] = acl[b]
  BY <1>4, <1>5, <1>10 DEF LinkInv, LinkTypes
<1>12. PICK gone \in BOOLEAN : gone <=> frame.kind = "disconnected" \/ acl[a].refs = n
  OBVIOUS
<1>13. acl[a].refs = n => LiveChans(a) = {} /\ (frame.kind # "disconnected" => Own(a) = 0)
  <2> SUFFICES ASSUME acl[a].refs = n
               PROVE  Cardinality(LiveChans(a)) = 0
                      /\ (frame.kind # "disconnected" => Own(a) = 0)
    BY NoneLive
  <2>1. PICK c \in Nat : c = Cardinality(LiveChans(a))
    BY <1>7
  <2>2. PICK o \in {0, 1} : o = Own(a)
    BY <1>7
  <2>3. c + 1 + o = IF frame.kind = "disconnected" THEN 1 + o ELSE 1
    BY <1>7, <1>9, <2>1, <2>2
  <2>4. c = 0 /\ (frame.kind # "disconnected" => o = 0)
    BY <2>3
  <2> QED
    BY <2>1, <2>2, <2>4
<1>14. /\ table' \in [Acls -> Acls \cup {None}]
       /\ \A i \in Acls : table'[i] = IF table[i] = a /\ gone THEN None ELSE table[i]
  BY <1>4, <1>10, <1>12 DEF LinkInv, LinkTypes, TableAfter, Without
<1>15. \A b \in Acls : InTable(b)' <=> InTable(b) /\ ~(b = a /\ gone)
  BY <1>14, Bounds DEF InTable
<1>16. \A b : LiveChans(b)' = LiveChans(b)
  BY <1>4 DEF LiveChans
<1>17. frame' \in Frames /\ frame'.chan = None /\ frame'.drop = FALSE
       /\ frame'.acl = None /\ frame'.kind = "none"
  <2>1. 0 \in 0 .. MaxClients + 1
    BY Bounds
  <2> QED
    BY <1>4, <2>1 DEF Frames, NoFrame
<1>18. LinkTypes'
  BY <1>4, <1>11, <1>14, <1>17 DEF LinkInv, LinkTypes
<1>19. OnePlaceEach'
  <2>1. \A i, j \in Acls : table'[i] = table'[j] /\ table'[i] # None => i = j
    BY <1>14 DEF LinkInv, OnePlaceEach
  <2>2. \A b \in Acls : acl'[b].clients = acl[b].clients
    BY <1>10, <1>11
  <2> QED
    BY <2>1, <2>2 DEF LinkInv, OnePlaceEach
<1>20. \A b \in Acls : acl'[b].handle # INVALID =>
                         acl'[b].handle = acl[b].handle /\ ~(b = a /\ gone)
  BY <1>8, <1>10, <1>11, <1>12
<1>21. HandleKnown'
  BY <1>4, <1>15, <1>20 DEF LinkInv, HandleKnown
<1>22. FrameRuns'
  BY <1>4 DEF FrameRuns, FrameShape, NoFrame, Guarded, InCallback
<1>23. ASSUME NEW b \in connecting \cup auth
       PROVE  b \in Acls /\ InTable(b) /\ ~(b = a /\ gone)
  <2>1. b \in Acls /\ InTable(b) /\ LiveChans(b) # {}
    BY DEF LinkInv, WaitedFor, LinkTypes
  <2>2. b = a => frame.kind # "disconnected"
    BY <1>1, <1>4 DEF LinkInv, WaitedFor, Guarded, Loops
  <2> QED
    BY <1>12, <1>13, <2>1, <2>2
<1>24. WaitedFor'
  <2>1. \A b \in Acls : /\ acl'[b].device = acl[b].device
                        /\ acl'[b].requested = acl[b].requested
                        /\ acl'[b].required = acl[b].required
                        /\ acl'[b].completed = acl[b].completed
                        /\ acl[b].handle = INVALID => acl'[b].handle = INVALID
    BY <1>10, <1>11
  <2>2. \A b \in Acls : ~(b = a /\ gone) => acl'[b].handle = acl[b].handle
    BY <1>10, <1>11, <1>12
  <2>3. ASSUME NEW b \in connecting \cup auth
        PROVE  InTable(b)' /\ \E x \in LiveChans(b)' : Waits(x)'
    BY <1>4, <1>15, <1>16, <1>23 DEF LinkInv, WaitedFor, Waits
  <2>4. ASSUME NEW b \in connecting
        PROVE  /\ acl'[b].handle = INVALID /\ acl'[b].device # None
               /\ ~acl'[b].requested
               /\ \A x \in LiveChans(b)' : ~Open(x)'
               /\ ~(frame'.kind \in Guarded /\ frame'.acl = b)
    <3>1. /\ b \in Acls /\ acl[b].handle = INVALID /\ acl[b].device # None
          /\ ~acl[b].requested /\ \A x \in LiveChans(b) : ~Open(x)
      BY <1>23, <2>4 DEF LinkInv, WaitedFor
    <3>2. b # None
      BY <3>1, Bounds
    <3>3. \A x \in LiveChans(b)' : ~Open(x)'
      BY <1>4, <1>16, <3>1 DEF Open
    <3> QED
      BY <1>17, <2>1, <3>1, <3>2, <3>3
  <2>5. \A b \in auth :
          /\ acl'[b].handle # INVALID
          /\ acl'[b].requested /\ ~acl'[b].completed
          /\ ~(frame'.kind \in Loops /\ frame'.acl = b)
    BY <1>17, <1>23, <2>1, <2>2 DEF LinkInv, WaitedFor, Loops
  <2>6. \A b \in Acls : /\ acl'[b].completed => acl'[b].requested
                        /\ acl'[b].requested => acl'[b].required
    BY <2>1 DEF LinkInv, WaitedFor
  <2> QED
    BY <1>4, <2>3, <2>4, <2>5, <2>6 DEF WaitedFor
<1>25. ChanCounts'
  <2> SUFFICES ASSUME NEW x \in Chans
               PROVE  ChanOK(chan'[x], frame'.chan = x, frame'.drop)
    BY DEF ChanCounts
  <2>1. ChanOK(chan[x], frame.chan = x, frame.drop)
    BY DEF LinkInv, ChanCounts
  <2> QED
    BY <1>4, <1>5, <1>17, <2>1
<1>26. LostOnce'
  <2> SUFFICES ASSUME NEW y \in Chans, chan'[y].life = "live",
                      chan'[y].told = <<"made", "lost">>
               PROVE  LostOver(y)'
    BY DEF LostOnce
  <2>1. LostOver(y)
    BY <1>4 DEF LinkInv, LostOnce
  <2>2. PICK b \in Acls : b = chan[y].acl
    BY <1>4, ChanFields DEF LinkInv, ChanCounts, ChanOK
  <2>3. acl'[b].handle = INVALID
    BY <1>20, <2>1, <2>2 DEF LostOver
  <2>4. ~InTable(b)'
    BY <1>1, <1>12, <1>15, <2>1, <2>2 DEF LostOver
  <2>5. chan'[y].acl = b
    BY <1>4, <2>2
  <2> QED
    BY <2>3, <2>4, <2>5 DEF LostOver, InTable
<1>27. RefsBalanced'
  <2>1. \A b \in Acls : Looped(b)' = 0
    BY <1>17 DEF Looped, One, Guarded
  <2>2. ASSUME NEW b \in Acls
        PROVE  /\ acl'[b].life # "none" => acl'[b].refs =
                    Cardinality(LiveChans(b)') + Looped(b)' + Own(b)'
               /\ acl'[b].life = "live" <=>
                    Cardinality(LiveChans(b)') + Looped(b)' + Own(b)' > 0
    <3>1. CASE b # a
      <4>1. Own(b)' = Own(b)
        BY <1>11, <1>15, <3>1 DEF Own, One
      <4>2. Looped(b) = 0
        BY <1>1, <3>1 DEF Looped, One
      <4> QED
        BY <1>11, <1>16, <2>1, <3>1, <4>1, <4>2, Balance
    <3>2. CASE b = a
      <4>1. gone => Own(a)' = 0
        BY <1>5, <1>15 DEF Own, One
      <4>2. ~gone => Own(a)' = Own(a)
        BY <1>5, <1>10, <1>11, <1>15 DEF Own, One
      <4>3. /\ r.refs = Cardinality(LiveChans(a)) + Own(a)'
            /\ r.life = "live" <=> Cardinality(LiveChans(a)) + Own(a)' > 0
        BY <1>7, <1>9, <1>10, <1>12, <1>13, <4>1, <4>2
      <4>4. /\ r.life # "none" => r.refs =
                    Cardinality(LiveChans(a)') + Looped(a)' + Own(a)'
            /\ r.life = "live" <=>
                    Cardinality(LiveChans(a)') + Looped(a)' + Own(a)' > 0
        <5>1. Own(a)' \in {0, 1} /\ Looped(a)' = 0
          BY <1>5, <1>7, <2>1, <4>1, <4>2
        <5> QED
          BY <1>7, <1>16, <4>3, <5>1
      <4> QED
        BY <1>11, <3>2, <4>4
    <3> QED BY <3>1, <3>2
  <2> QED
    BY <2>2, BalanceNext
<1>28. NoDangling'
  <2>1. ASSUME NEW b \in connecting \cup auth PROVE acl'[b].life = "live"
    <3>1. b \in Acls /\ acl[b].life = "live" /\ ~(b = a /\ gone)
      BY <1>23 DEF LinkInv, NoDangling
    <3> QED
      BY <1>10, <1>11, <1>12, <3>1
  <2>2. ASSUME NEW b \in Acls, InTable(b)' PROVE acl'[b].life = "live"
    BY <1>10, <1>11, <1>12, <1>15, <2>2 DEF LinkInv, NoDangling
  <2>3. ASSUME NEW y \in Chans, chan[y].life = "live"
        PROVE  /\ acl'[chan[y].acl].life = "live"
               /\ \E i \in Places : acl'[chan[y].acl].clients[i] = y
    <3>1. PICK b \in Acls : b = chan[y].acl
      BY <2>3, ChanFields DEF LinkInv, ChanCounts, ChanOK
    <3>2. acl[b].life = "live" /\ \E i \in Places : acl[b].clients[i] = y
      BY <2>3, <3>1 DEF LinkInv, NoDangling
    <3>3. LiveChans(b) # {}
      BY <2>3, <3>1 DEF LiveChans
    <3> QED
      BY <1>10, <1>11, <1>13, <3>1, <3>2, <3>3
  <2>4. \A b \in Acls : acl'[b].clients = acl[b].clients
    BY <1>10, <1>11
  <2>5. \A b \in Acls, i \in Places :
          acl'[b].clients[i] # None => acl'[b].clients[i] \in LiveChans(b)'
    BY <1>16, <2>4 DEF LinkInv, NoDangling
  <2>6. \A y \in Chans : chan'[y].held => chan'[y].life = "live"
    BY <1>4 DEF LinkInv, NoDangling, ReferenceKeeps
  <2> QED
    BY <1>4, <2>1, <2>2, <2>3, <2>5, <2>6 DEF NoDangling, ReferenceKeeps
<1>29. LinkHasUser'
  <2> SUFFICES ASSUME NEW d \in Devices, link[d] = "up"
               PROVE  \E b \in Acls : /\ InTable(b)' /\ acl'[b].handle = d
                                      /\ acl'[b].incoming \/ LiveChans(b)' # {}
    BY <1>4 DEF LinkHasUser
  <2>1. PICK b \in Acls : /\ InTable(b) /\ acl[b].handle = d
                          /\ acl[b].incoming \/ LiveChans(b) # {}
    BY DEF LinkInv, LinkHasUser
  <2>2. ~(b = a /\ gone)
    <3> SUFFICES ASSUME b = a, gone PROVE FALSE
      OBVIOUS
    <3>1. frame.kind # "disconnected"
      BY <1>8, <2>1, Bounds
    <3>2. LiveChans(a) = {} /\ Own(a) = 0
      BY <1>12, <1>13, <3>1
    <3> QED
      BY <2>1, <3>2 DEF Own, One
  <2>3. acl'[b].handle = acl[b].handle /\ acl'[b].incoming = acl[b].incoming
    BY <1>10, <1>11, <1>12, <2>2
  <2> QED
    BY <1>15, <1>16, <2>1, <2>2, <2>3
<1> QED
  BY <1>18, <1>19, <1>21, <1>22, <1>24, <1>25, <1>26, <1>27, <1>28, <1>29 DEF LinkInv

-----------------------------------------------------------------------------
(* Events about an ACL that is in the table: it changes, and a loop over   *)
(* its channels may begin.                                                 *)
LEMMA EventInv ==
  ASSUME LinkInv, frame = NoFrame, NEW a \in Acls, InTable(a),
         NEW r \in AclRecs, acl' = [acl EXCEPT ![a] = r],
         r.life = acl[a].life, r.clients = acl[a].clients,
         r.incoming = acl[a].incoming,
         r.completed => r.requested, r.requested => r.required,
         UNCHANGED <<table, chan>>,
         connecting' = connecting \ {a},
         auth' \subseteq auth \cup {a},
         a \in auth' =>
           /\ r.handle # INVALID /\ r.requested /\ ~r.completed
           /\ frame' = NoFrame
           /\ \E x \in LiveChans(a) : Waits(x),
         \/ frame' = NoFrame /\ r.refs = acl[a].refs
         \/ frame'.kind \in Guarded /\ frame'.acl = a /\ r.refs = acl[a].refs + 1,
         frame' \in Frames, frame'.chan = None, frame'.drop = FALSE, FrameRuns',
         link' \in [Devices -> LinkStates],
         HandleKnown', LinkHasUser'
  PROVE  LinkInv'
<1>1. /\ acl' \in [Acls -> AclRecs] /\ acl'[a] = r
      /\ \A b \in Acls : b # a => acl'[b] = acl[b]
  BY DEF LinkInv, LinkTypes
<1>2. \A b \in Acls : /\ acl'[b].life = acl[b].life
                      /\ acl'[b].clients = acl[b].clients
                      /\ acl'[b].incoming = acl[b].incoming
  BY <1>1
<1>3. /\ \A b : LiveChans(b)' = LiveChans(b)
      /\ \A b : InTable(b)' = InTable(b)
      /\ \A x : Open(x)' = Open(x) /\ Waits(x)' = Waits(x)
  BY DEF LiveChans, InTable, Open, Waits
<1>4. connecting \subseteq Acls /\ auth \subseteq Acls
  BY DEF LinkInv, LinkTypes
<1>5. LinkTypes'
  BY <1>1, <1>4 DEF LinkInv, LinkTypes
<1>6. OnePlaceEach'
  BY <1>2 DEF LinkInv, OnePlaceEach
<1>7. WaitedFor'
  <2>1. ASSUME NEW b \in connecting' \cup auth'
        PROVE  InTable(b)' /\ \E x \in LiveChans(b)' : Waits(x)'
    <3>1. InTable(b) /\ \E x \in LiveChans(b) : Waits(x)
      BY DEF LinkInv, WaitedFor
    <3> QED
      BY <1>3, <3>1
  <2>2. ASSUME NEW b \in connecting'
        PROVE  /\ acl'[b].handle = INVALID /\ acl'[b].device # None
               /\ ~acl'[b].requested
               /\ \A x \in LiveChans(b)' : ~Open(x)'
               /\ ~(frame'.kind \in Guarded /\ frame'.acl = b)
    <3>1. b \in Acls /\ b # a /\ b # None
      BY <1>4, <2>2, Bounds
    <3>2. /\ acl[b].handle = INVALID /\ acl[b].device # None
          /\ ~acl[b].requested /\ \A x \in LiveChans(b) : ~Open(x)
      BY <2>2 DEF LinkInv, WaitedFor
    <3>3. \A x \in LiveChans(b)' : ~Open(x)'
      BY <1>3, <3>2
    <3> QED
      BY <1>1, <3>1, <3>2, <3>3 DEF NoFrame
  <2>3. ASSUME NEW b \in auth'
        PROVE  /\ acl'[b].handle # INVALID
               /\ acl'[b].requested /\ ~acl'[b].completed
               /\ ~(frame'.kind \in Loops /\ frame'.acl = b)
    <3>1. CASE b = a
      BY <1>1, <2>3, <3>1 DEF NoFrame, Loops
    <3>2. CASE b # a
      <4>1. b \in auth /\ b \in Acls
        BY <1>4, <2>3, <3>2
      <4>2. acl[b].handle # INVALID /\ acl[b].requested /\ ~acl[b].completed
        BY <4>1 DEF LinkInv, WaitedFor
      <4> QED
        BY <1>1, <3>2, <4>1, <4>2 DEF NoFrame, Loops
    <3> QED BY <3>1, <3>2
  <2>4. \A b \in Acls : /\ acl'[b].completed => acl'[b].requested
                        /\ acl'[b].requested => acl'[b].required
    BY <1>1 DEF LinkInv, WaitedFor
  <2> QED
    BY <2>1, <2>2, <2>3, <2>4 DEF WaitedFor
<1>8. ChanCounts'
  <2> SUFFICES ASSUME NEW x \in Chans
               PROVE  ChanOK(chan'[x], frame'.chan = x, frame'.drop)
    BY DEF ChanCounts
  <2>1. ChanOK(chan[x], frame.chan = x, frame.drop)
    BY DEF LinkInv, ChanCounts
  <2>2. frame.chan = None /\ frame.drop = FALSE
    BY DEF NoFrame
  <2> QED
    BY <2>1, <2>2
<1>9. LostOnce'
  <2> SUFFICES ASSUME NEW y \in Chans, chan'[y].life = "live",
                      chan'[y].told = <<"made", "lost">>
               PROVE  LostOver(y)'
    BY DEF LostOnce
  <2>1. LostOver(y)
    BY DEF LinkInv, LostOnce
  <2>2. PICK b \in Acls : b = chan[y].acl
    BY ChanFields DEF LinkInv, ChanCounts, ChanOK
  <2>3. ~InTable(b) /\ acl[b].handle = INVALID
    BY <2>1, <2>2 DEF LostOver, NoFrame
  <2>4. acl'[b].handle = INVALID /\ ~InTable(b)' /\ chan'[y].acl = b
    BY <1>1, <1>3, <2>2, <2>3
  <2> QED
    BY <2>4 DEF LostOver, InTable
<1>10. RefsBalanced'
  <2>1. ASSUME NEW b \in Acls
        PROVE  /\ acl'[b].life # "none" => acl'[b].refs =
                    Cardinality(LiveChans(b)') + Looped(b)' + Own(b)'
               /\ acl'[b].life = "live" <=>
                    Cardinality(LiveChans(b)') + Looped(b)' + Own(b)' > 0
    <3>1. Own(b)' = Own(b) /\ Looped(b) = 0
      BY <1>2, <1>3 DEF Own, One, Looped, NoFrame, Guarded
    <3>2. CASE b # a
      <4>1. Looped(b)' = 0
        BY <3>2 DEF Looped, One, NoFrame, Guarded
      <4> QED
        BY <1>1, <1>3, <3>1, <3>2, <4>1, Balance
    <3>3. CASE b = a
      <4>1. acl[a].life = "live" /\ acl[a].refs \in Int
        BY AclFields DEF LinkInv, NoDangling
      <4>2. /\ Looped(a)' \in {0, 1} /\ r.refs = acl[a].refs + Looped(a)'
        BY <4>1 DEF Looped, One, NoFrame, Guarded
      <4> QED
        BY <1>1, <1>3, <3>1, <3>3, <4>1, <4>2, Balance
    <3> QED BY <3>2, <3>3
  <2> QED
    BY <2>1, BalanceNext
<1>11. NoDangling'
  <2>1. \A b \in Acls : InTable(b)' \/ b \in connecting' \cup auth' => acl'[b].life = "live"
    BY <1>2, <1>3 DEF LinkInv, NoDangling
  <2>2. ASSUME NEW y \in Chans, chan[y].life = "live"
        PROVE  /\ acl'[chan[y].acl].life = "live"
               /\ \E i \in Places : acl'[chan[y].acl].clients[i] = y
    <3>1. PICK b \in Acls : b = chan[y].acl
      BY <2>2, ChanFields DEF LinkInv, ChanCounts, ChanOK
    <3>2. acl[b].life = "live" /\ \E i \in Places : acl[b].clients[i] = y
      BY <2>2, <3>1 DEF LinkInv, NoDangling
    <3> QED
      BY <1>2, <3>1, <3>2
  <2>3. \A b \in Acls, i \in Places :
          acl'[b].clients[i] # None => acl'[b].clients[i] \in LiveChans(b)'
    BY <1>2, <1>3 DEF LinkInv, NoDangling
  <2>4. \A y \in Chans : chan'[y].held => chan'[y].life = "live"
    BY DEF LinkInv, NoDangling, ReferenceKeeps
  <2> QED
    BY <2>1, <2>2, <2>3, <2>4 DEF NoDangling, ReferenceKeeps
<1> QED
  BY <1>5, <1>6, <1>7, <1>8, <1>9, <1>10, <1>11 DEF LinkInv

(* The frame of a loop that begins.                                        *)
LEMMA Entered ==
  ASSUME LinkInv, NEW a \in Acls, NEW k \in {"connected", "disconnected"},
         NEW ok \in BOOLEAN,
         frame' = [NoFrame EXCEPT !.kind = k, !.acl = a, !.ok = ok, !.i = 1],
         UNCHANGED chan,
         k = "connected" /\ ~ok => \A x \in LiveChans(a) : ~Open(x),
         k = "disconnected" => InTable(a)' /\ acl'[a].handle = INVALID
  PROVE  /\ frame' \in Frames /\ frame'.chan = None /\ frame'.drop = FALSE
         /\ frame'.kind \in Guarded /\ frame'.acl = a /\ FrameRuns'
<1>1. 1 \in 0 .. MaxClients + 1
  BY Bounds
<1>2. /\ frame' \in Frames /\ frame'.chan = None /\ frame'.drop = FALSE
      /\ frame'.kind = k /\ frame'.kind \in Guarded /\ frame'.acl = a
      /\ frame'.i = 1 /\ frame'.ok = ok
  BY <1>1 DEF NoFrame, Frames, Guarded
<1>3. k = "connected" /\ ~ok => \A x \in LiveChans(frame.acl)' : ~Open(x)'
  BY <1>2 DEF LiveChans, Open
<1>4. k = "disconnected" => InTable(frame.acl)' /\ acl'[frame'.acl].handle = INVALID
  BY <1>2 DEF InTable
<1> QED
  BY <1>2, <1>3, <1>4 DEF FrameRuns, FrameShape, InCallback, Guarded

(* What the controller works on, while nothing else goes on.               *)
LEMMA WorkedOn ==
  ASSUME LinkInv, NEW a \in connecting \cup auth
  PROVE  /\ a \in Acls /\ InTable(a) /\ acl[a] \in AclRecs
         /\ \E x \in LiveChans(a) : Waits(x)
         /\ acl[a].completed => acl[a].requested
         /\ acl[a].requested => acl[a].required
         /\ a \in connecting => /\ acl[a].handle = INVALID /\ a \notin auth
                                /\ acl[a].device \in Devices
                                /\ \A x \in LiveChans(a) : ~Open(x)
         /\ a \in auth => acl[a].handle # INVALID /\ a \notin connecting
<1>1. a \in Acls
  BY DEF LinkInv, LinkTypes
<1> QED
  BY <1>1, AclFields DEF LinkInv, WaitedFor, LinkTypes

(* The handles and the users of the links stay.                            *)
LEMMA HandlesKept ==
  ASSUME LinkInv, UNCHANGED link,
         \A b \in Acls : /\ acl'[b].handle = acl[b].handle
                         /\ acl'[b].incoming = acl[b].incoming
                         /\ InTable(b)' = InTable(b)
                         /\ LiveChans(b)' = LiveChans(b)
  PROVE  HandleKnown' /\ LinkHasUser'
  BY DEF LinkInv, HandleKnown, LinkHasUser

LEMMA ConnectFailsInv ==
  ASSUME LinkInv, NEW a \in Acls, ConnectFails(a)
  PROVE  LinkInv'
<1>1. /\ frame = NoFrame /\ a \in connecting /\ connecting' = connecting \ {a}
      /\ acl' = [acl EXCEPT ![a].refs = @ + 1]
      /\ frame' = [NoFrame EXCEPT !.kind = "connected", !.acl = a, !.ok = FALSE, !.i = 1]
      /\ UNCHANGED <<table, chan, link, auth>>
  BY DEF ConnectFails, Idle, Enter
<1>2. /\ InTable(a) /\ acl[a] \in AclRecs /\ a \notin auth
      /\ \A x \in LiveChans(a) : ~Open(x)
      /\ acl[a].completed => acl[a].requested
      /\ acl[a].requested => acl[a].required
  BY <1>1, WorkedOn
<1>3. PICK n \in Int : n = acl[a].refs + 1
  BY <1>2 DEF AclRecs
<1>4. PICK r : r = [acl[a] EXCEPT !.refs = n]
  OBVIOUS
<1>5. /\ r \in AclRecs /\ r.life = acl[a].life /\ r.clients = acl[a].clients
      /\ r.incoming = acl[a].incoming /\ r.handle = acl[a].handle
      /\ r.requested = acl[a].requested /\ r.completed = acl[a].completed
      /\ r.required = acl[a].required
      /\ r.refs = n
  BY <1>2, <1>4 DEF AclRecs
<1>6. acl' = [acl EXCEPT ![a] = r]
  BY <1>1, <1>3, <1>4 DEF LinkInv, LinkTypes
<1>7. /\ frame' \in Frames /\ frame'.chan = None /\ frame'.drop = FALSE
      /\ frame'.kind \in Guarded /\ frame'.acl = a /\ FrameRuns'
  BY <1>1, <1>2, Entered
<1>8. /\ \A b \in Acls : acl'[b].handle = acl[b].handle
                         /\ acl'[b].incoming = acl[b].incoming
      /\ \A b : InTable(b)' = InTable(b) /\ LiveChans(b)' = LiveChans(b)
  BY <1>1, <1>5, <1>6 DEF LinkInv, LinkTypes, InTable, LiveChans
<1>9. HandleKnown' /\ LinkHasUser'
  <2>1. UNCHANGED link
    BY <1>1
  <2> QED
    BY <1>8, <2>1, HandlesKept
<1>10. /\ UNCHANGED <<table, chan>> /\ auth' \subseteq auth \cup {a} /\ a \notin auth'
       /\ link' \in [Devices -> LinkStates]
  BY <1>1, <1>2 DEF LinkInv, LinkTypes
<1> QED
  BY <1>1, <1>2, <1>3, <1>5, <1>6, <1>7, <1>9, <1>10, EventInv

LEMMA AuthCompleteInv ==
  ASSUME Careful, LinkInv, NEW a \in Acls, NEW ok \in BOOLEAN, AuthComplete(a, ok)
  PROVE  LinkInv'
<1>1. /\ frame = NoFrame /\ a \in auth /\ auth' = auth \ {a}
      /\ acl' = [[acl EXCEPT ![a].completed = @ \/ ok] EXCEPT ![a].refs = @ + 1]
      /\ frame' = [NoFrame EXCEPT !.kind = "connected", !.acl = a, !.ok = ok, !.i = 1]
      /\ UNCHANGED <<table, chan, link, connecting>>
      /\ ~ok => \A x \in LiveChans(a) : ~Open(x)
  BY DEF AuthComplete, Idle, Enter, Careful
<1>2. /\ InTable(a) /\ acl[a] \in AclRecs /\ a \notin connecting
      /\ acl[a].requested /\ acl[a].required
  BY <1>1, WorkedOn DEF LinkInv, WaitedFor
<1>3. PICK n \in Int : n = acl[a].refs + 1
  BY <1>2 DEF AclRecs
<1>4. PICK e \in BOOLEAN : e = (acl[a].completed \/ ok)
  OBVIOUS
<1>5. PICK r : r = [acl[a] EXCEPT !.completed = e, !.refs = n]
  OBVIOUS
<1>6. /\ r \in AclRecs /\ r.life = acl[a].life /\ r.clients = acl[a].clients
      /\ r.incoming = acl[a].incoming /\ r.handle = acl[a].handle
      /\ r.requested = acl[a].requested /\ r.completed = e
      /\ r.required = acl[a].required
      /\ r.refs = n
  BY <1>2, <1>5 DEF AclRecs
<1>7. acl' = [acl EXCEPT ![a] = r]
  <2>1. PICK s : s = [acl[a] EXCEPT !.completed = e]
    OBVIOUS
  <2>2. [acl EXCEPT ![a].completed = @ \/ ok] = [acl EXCEPT ![a] = s]
    BY <1>4, <2>1 DEF LinkInv, LinkTypes
  <2>3. s.refs = acl[a].refs /\ r = [s EXCEPT !.refs = n]
    BY <1>2, <1>5, <2>1 DEF AclRecs
  <2>4. acl' = [[acl EXCEPT ![a] = s] EXCEPT ![a].refs = @ + 1]
    BY <1>1, <2>2
  <2> QED
    BY <1>3, <2>3, <2>4 DEF LinkInv, LinkTypes
<1>8. /\ frame' \in Frames /\ frame'.chan = None /\ frame'.drop = FALSE
      /\ frame'.kind \in Guarded /\ frame'.acl = a /\ FrameRuns'
  BY <1>1, <1>2, Entered
<1>9. /\ \A b \in Acls : acl'[b].handle = acl[b].handle
                         /\ acl'[b].incoming = acl[b].incoming
      /\ \A b : InTable(b)' = InTable(b) /\ LiveChans(b)' = LiveChans(b)
  BY <1>1, <1>6, <1>7 DEF LinkInv, LinkTypes, InTable, LiveChans
<1>10. HandleKnown' /\ LinkHasUser'
  <2>1. UNCHANGED link
    BY <1>1
  <2> QED
    BY <1>9, <2>1, HandlesKept
<1>11. /\ UNCHANGED <<table, chan>> /\ auth' \subseteq auth \cup {a} /\ a \notin auth'
       /\ connecting' = connecting \ {a} /\ r.requested /\ r.required
       /\ r.refs = acl[a].refs + 1
       /\ link' \in [Devices -> LinkStates]
  BY <1>1, <1>2, <1>3, <1>6 DEF LinkInv, LinkTypes
<1> QED
  BY <1>1, <1>2, <1>6, <1>7, <1>8, <1>10, <1>11, EventInv

(* A link comes up, and an ACL gets its handle.                            *)
LEMMA LinkUp ==
  ASSUME LinkInv, NEW a \in Acls, NEW d \in Devices, link[d] = "down",
         acl[a].handle = INVALID, acl'[a].handle = d, InTable(a)',
         acl'[a].incoming \/ LiveChans(a)' # {},
         link' = [link EXCEPT ![d] = "up"],
         \A b \in Acls : b # a => /\ acl'[b].handle = acl[b].handle
                                  /\ acl'[b].incoming = acl[b].incoming
                                  /\ InTable(b)' = InTable(b)
                                  /\ LiveChans(b)' = LiveChans(b)
  PROVE  /\ link' \in [Devices -> LinkStates]
         /\ HandleKnown' /\ LinkHasUser'
<1>1. /\ link' \in [Devices -> LinkStates] /\ link'[d] = "up"
      /\ \A e \in Devices : e # d => link'[e] = link[e]
  BY DEF LinkInv, LinkTypes, LinkStates
<1>2. \A b \in Acls : b # a => acl'[b].handle # d
  BY Bounds DEF LinkInv, HandleKnown
<1>3. HandleKnown'
  <2> SUFFICES ASSUME NEW b \in Acls, acl'[b].handle # INVALID
               PROVE  /\ InTable(b)' /\ link'[acl'[b].handle] # "down"
                      /\ \A c \in Acls : acl'[c].handle = acl'[b].handle => b = c
    BY DEF HandleKnown
  <2>1. CASE b = a
    BY <1>1, <1>2, <2>1
  <2>2. CASE b # a
    <3>1. acl[b].handle \in Devices /\ acl'[b].handle = acl[b].handle
      BY <2>2, AclFields DEF LinkInv
    <3>2. /\ InTable(b) /\ link[acl[b].handle] # "down"
          /\ \A c \in Acls : acl[c].handle = acl[b].handle => b = c
      BY <2>2, <3>1 DEF LinkInv, HandleKnown
    <3>3. acl'[b].handle # d
      BY <1>2, <2>2
    <3> QED
      BY <1>1, <2>2, <3>1, <3>2, <3>3
  <2> QED BY <2>1, <2>2
<1>4. LinkHasUser'
  <2> SUFFICES ASSUME NEW e \in Devices, link'[e] = "up"
               PROVE  \E b \in Acls : /\ InTable(b)' /\ acl'[b].handle = e
                                      /\ acl'[b].incoming \/ LiveChans(b)' # {}
    BY DEF LinkHasUser
  <2>1. CASE e = d
    BY <2>1
  <2>2. CASE e # d
    <3>1. PICK b \in Acls : /\ InTable(b) /\ acl[b].handle = e
                            /\ acl[b].incoming \/ LiveChans(b) # {}
      BY <1>1, <2>2 DEF LinkInv, LinkHasUser
    <3>2. b # a
      BY <3>1, Bounds
    <3> QED
      BY <3>1, <3>2
  <2> QED BY <2>1, <2>2
<1> QED
  BY <1>1, <1>3, <1>4

LEMMA ConnectedInv ==
  ASSUME LinkInv, NEW a \in Acls, Connected(a)
  PROVE  LinkInv'
<1>1. PICK d : d = acl[a].device
  OBVIOUS
<1>2. PICK c : c = [acl[a] EXCEPT !.handle = d]
  OBVIOUS
<1>3. /\ frame = NoFrame /\ a \in connecting /\ link[d] = "down"
      /\ connecting' = connecting \ {a}
      /\ link' = [link EXCEPT ![d] = "up"]
      /\ UNCHANGED <<table, chan>>
      /\ IF NeedsAuth(c)
         THEN /\ acl' = [acl EXCEPT ![a] = [c EXCEPT !.requested = TRUE]]
              /\ auth' = IF c.requested THEN auth ELSE auth \cup {a}
              /\ UNCHANGED frame
         ELSE /\ Enter("connected", a, TRUE, [acl EXCEPT ![a] = c])
              /\ UNCHANGED auth
  BY <1>1, <1>2 DEF Connected, Idle
<1>4. /\ InTable(a) /\ acl[a] \in AclRecs /\ a \notin auth
      /\ \E x \in LiveChans(a) : Waits(x)
      /\ \A x \in LiveChans(a) : ~Open(x)
      /\ acl[a].completed => acl[a].requested
      /\ acl[a].requested => acl[a].required
      /\ acl[a].handle = INVALID /\ d \in Devices
  BY <1>1, <1>3, WorkedOn
<1>5. /\ c \in AclRecs /\ c.life = acl[a].life /\ c.clients = acl[a].clients
      /\ c.incoming = acl[a].incoming /\ c.handle = d /\ c.refs = acl[a].refs
      /\ c.requested = acl[a].requested /\ c.completed = acl[a].completed
      /\ c.required = acl[a].required /\ c.refs \in Int
  BY <1>2, <1>4 DEF AclRecs
<1>6. \A b : InTable(b)' = InTable(b) /\ LiveChans(b)' = LiveChans(b)
  BY <1>3 DEF InTable, LiveChans
<1>7. ASSUME NEW r \in AclRecs, acl' = [acl EXCEPT ![a] = r], r.handle = d,
             r.incoming = c.incoming
      PROVE  /\ link' \in [Devices -> LinkStates]
             /\ HandleKnown' /\ LinkHasUser'
  <2>1. acl'[a] = r /\ \A b \in Acls : b # a => acl'[b] = acl[b]
    BY <1>7 DEF LinkInv, LinkTypes
  <2>2. InTable(a)' /\ LiveChans(a)' # {}
    BY <1>4, <1>6
  <2>3. link[d] = "down" /\ link' = [link EXCEPT ![d] = "up"]
    BY <1>3
  <2> QED
    BY <1>4, <1>6, <1>7, <2>1, <2>2, <2>3, LinkUp
<1>8. CASE NeedsAuth(c)
  <2>1. PICK r : r = [c EXCEPT !.requested = TRUE]
    OBVIOUS
  <2>2. /\ r \in AclRecs /\ r.life = c.life /\ r.clients = c.clients
        /\ r.incoming = c.incoming /\ r.handle = d /\ r.refs = c.refs
        /\ r.requested = TRUE /\ r.completed = c.completed
        /\ r.required = c.required
    <3>1. PICK t \in BOOLEAN : t = TRUE
      OBVIOUS
    <3>2. r = [c EXCEPT !.requested = t]
      BY <2>1, <3>1
    <3> QED
      BY <1>5, <3>1, <3>2 DEF AclRecs
  <2>3. acl' = [acl EXCEPT ![a] = r] /\ auth' \subseteq auth \cup {a} /\ frame' = NoFrame
    BY <1>3, <1>8, <2>1
  <2>4. /\ link' \in [Devices -> LinkStates]
        /\ HandleKnown' /\ LinkHasUser'
    BY <1>7, <2>2, <2>3
  <2>5. r.required /\ ~r.completed
    BY <1>8, <2>2 DEF NeedsAuth
  <2>6. r.handle # INVALID
    BY <1>4, <2>2, Bounds
  <2>7. frame' \in Frames /\ frame'.chan = None /\ frame'.drop = FALSE
    <3>1. 0 \in 0 .. MaxClients + 1
      BY Bounds
    <3> QED
      BY <2>3, <3>1 DEF NoFrame, Frames
  <2>8. FrameRuns'
    BY <2>3 DEF FrameRuns, FrameShape, NoFrame, Guarded, InCallback
  <2>9. /\ r.life = acl[a].life /\ r.clients = acl[a].clients
        /\ r.incoming = acl[a].incoming /\ r.refs = acl[a].refs
        /\ r.completed => r.requested
        /\ r.requested => r.required
    BY <1>5, <2>2, <2>5
  <2>10. frame = NoFrame /\ connecting' = connecting \ {a} /\ UNCHANGED <<table, chan>>
    BY <1>3
  <2> QED
    BY <1>4, <2>2, <2>3, <2>4, <2>5, <2>6, <2>7, <2>8, <2>9, <2>10, EventInv
<1>9. CASE ~NeedsAuth(c)
  <2>1. PICK n \in Int : n = acl[a].refs + 1
    BY <1>5
  <2>2. PICK r : r = [c EXCEPT !.refs = n]
    OBVIOUS
  <2>3. /\ r \in AclRecs /\ r.life = acl[a].life /\ r.clients = acl[a].clients
        /\ r.incoming = acl[a].incoming /\ r.handle = d
        /\ r.requested = acl[a].requested /\ r.completed = acl[a].completed
        /\ r.required = acl[a].required /\ r.refs = n
    BY <1>5, <2>2 DEF AclRecs
  <2>4. /\ acl' = [[acl EXCEPT ![a] = c] EXCEPT ![a].refs = @ + 1]
        /\ frame' = [NoFrame EXCEPT !.kind = "connected", !.acl = a,
                                    !.ok = TRUE, !.i = 1]
        /\ UNCHANGED auth
    BY <1>3, <1>9 DEF Enter
  <2>5. acl' = [acl EXCEPT ![a] = r]
    BY <1>5, <2>1, <2>2, <2>4 DEF LinkInv, LinkTypes
  <2>6. /\ link' \in [Devices -> LinkStates]
        /\ HandleKnown' /\ LinkHasUser'
    BY <1>5, <1>7, <2>3, <2>5
  <2>7. UNCHANGED chan
    BY <1>3
  <2>8. /\ frame' \in Frames /\ frame'.chan = None /\ frame'.drop = FALSE
        /\ frame'.kind \in Guarded /\ frame'.acl = a /\ FrameRuns'
    BY <1>4, <2>4, <2>7, Entered
  <2>9. /\ frame = NoFrame /\ connecting' = connecting \ {a} /\ UNCHANGED <<table, chan>>
        /\ auth' \subseteq auth \cup {a} /\ a \notin auth'
        /\ r.completed => r.requested
        /\ r.requested => r.required
        /\ r.refs = acl[a].refs + 1
    BY <1>3, <1>4, <2>1, <2>3, <2>4
  <2> QED
    BY <1>4, <2>3, <2>5, <2>6, <2>8, <2>9, EventInv
<1> QED
  BY <1>8, <1>9

(* A link goes down: the ACL that has its handle loses it.                 *)
LEMMA DisconnectionInv ==
  ASSUME LinkInv, NEW d \in Devices, Disconnection(d)
  PROVE  LinkInv'
<1>1. PICK found : found = {a \in Acls : InTable(a) /\ acl[a].handle = d}
  OBVIOUS
<1>2. /\ frame = NoFrame /\ \A a \in auth : acl[a].handle # d
      /\ link' = [link EXCEPT ![d] = "down"]
      /\ UNCHANGED <<table, chan, connecting, auth>>
      /\ IF found = {} THEN UNCHANGED <<acl, frame>>
         ELSE LET a == CHOOSE a \in found : TRUE IN
              Enter("disconnected", a, FALSE, [acl EXCEPT ![a].handle = INVALID])
  BY <1>1 DEF Disconnection, Idle
<1>3. /\ link' \in [Devices -> LinkStates] /\ link'[d] = "down"
      /\ \A e \in Devices : e # d => link'[e] = link[e]
  BY <1>2 DEF LinkInv, LinkTypes, LinkStates
<1>4. \A b : InTable(b)' = InTable(b) /\ LiveChans(b)' = LiveChans(b)
  BY <1>2 DEF InTable, LiveChans
<1>5. ASSUME \A b \in Acls : /\ acl'[b].handle = IF acl[b].handle = d THEN INVALID
                                                 ELSE acl[b].handle
                             /\ acl'[b].incoming = acl[b].incoming
      PROVE  HandleKnown' /\ LinkHasUser'
  <2>1. HandleKnown'
    <3> SUFFICES ASSUME NEW b \in Acls, acl'[b].handle # INVALID
                 PROVE  /\ InTable(b)' /\ link'[acl'[b].handle] # "down"
                        /\ \A c \in Acls : acl'[c].handle = acl'[b].handle => b = c
      BY DEF HandleKnown
    <3>1. acl'[b].handle = acl[b].handle /\ acl[b].handle # d
      BY <1>5
    <3>2. acl[b].handle \in Devices
      BY <3>1, AclFields DEF LinkInv
    <3>3. /\ InTable(b) /\ link[acl[b].handle] # "down"
          /\ \A c \in Acls : acl[c].handle = acl[b].handle => b = c
      BY <3>1 DEF LinkInv, HandleKnown
    <3> QED
      BY <1>3, <1>4, <1>5, <3>1, <3>2, <3>3
  <2>2. LinkHasUser'
    BY <1>3, <1>4, <1>5 DEF LinkInv, LinkHasUser
  <2> QED BY <2>1, <2>2
<1>6. CASE found = {}
  <2>1. UNCHANGED <<acl, table, chan, connecting, auth, frame>>
    BY <1>2, <1>6
  <2>2. \A b \in Acls : acl[b].handle # d
    BY <1>1, <1>6, Bounds DEF LinkInv, HandleKnown
  <2>3. HandleKnown' /\ LinkHasUser'
    BY <1>5, <2>1, <2>2
  <2>4. LinkTypes'
    BY <1>3, <2>1 DEF LinkInv, LinkTypes
  <2>5. OnePlaceEach' /\ FrameRuns' /\ WaitedFor' /\ ChanCounts' /\ LostOnce'
        /\ RefsBalanced' /\ NoDangling'
    BY <2>1 DEF LinkInv, OnePlaceEach, FrameRuns, FrameShape, InCallback, LiveChans,
       Open, InTable, WaitedFor, Waits, ChanCounts, LostOnce, LostOver, Passing,
       RefsBalanced, NoDangling, ReferenceKeeps
  <2> QED
    BY <2>3, <2>4, <2>5 DEF LinkInv
<1>7. CASE found # {}
  <2>1. PICK a : a = CHOOSE b \in found : TRUE
    OBVIOUS
  <2>2. a \in Acls /\ InTable(a) /\ acl[a].handle = d /\ acl[a] \in AclRecs
    <3>1. a \in found
      BY <1>7, <2>1
    <3> QED
      BY <1>1, <3>1 DEF LinkInv, LinkTypes
  <2>3. /\ acl' = [[acl EXCEPT ![a].handle = INVALID] EXCEPT ![a].refs = @ + 1]
        /\ frame' = [NoFrame EXCEPT !.kind = "disconnected", !.acl = a,
                                    !.ok = FALSE, !.i = 1]
    BY <1>2, <1>7, <2>1 DEF Enter
  <2>4. PICK n \in Int : n = acl[a].refs + 1
    BY <2>2 DEF AclRecs
  <2>5. PICK r : r = [acl[a] EXCEPT !.handle = INVALID, !.refs = n]
    OBVIOUS
  <2>6. /\ r \in AclRecs /\ r.life = acl[a].life /\ r.clients = acl[a].clients
        /\ r.incoming = acl[a].incoming /\ r.handle = INVALID
        /\ r.requested = acl[a].requested /\ r.completed = acl[a].completed
        /\ r.required = acl[a].required /\ r.refs = n
    BY <2>2, <2>5 DEF AclRecs
  <2>7. acl' = [acl EXCEPT ![a] = r]
    <3>1. PICK s : s = [acl[a] EXCEPT !.handle = INVALID]
      OBVIOUS
    <3>2. [acl EXCEPT ![a].handle = INVALID] = [acl EXCEPT ![a] = s]
      BY <3>1 DEF LinkInv, LinkTypes
    <3>3. s.refs = acl[a].refs /\ r = [s EXCEPT !.refs = n]
      BY <2>2, <2>5, <3>1 DEF AclRecs
    <3>4. acl' = [[acl EXCEPT ![a] = s] EXCEPT ![a].refs = @ + 1]
      BY <2>3, <3>2
    <3> QED
      BY <2>2, <2>4, <3>3, <3>4 DEF LinkInv, LinkTypes
  <2>8. acl'[a] = r /\ \A b \in Acls : b # a => acl'[b] = acl[b]
    BY <2>2, <2>7 DEF LinkInv, LinkTypes
  <2>9. \A b \in Acls : b # a => acl[b].handle # d
    BY <2>2, Bounds DEF LinkInv, HandleKnown
  <2>10. HandleKnown' /\ LinkHasUser'
    <3>1. \A b \in Acls : /\ acl'[b].handle = IF acl[b].handle = d THEN INVALID
                                              ELSE acl[b].handle
                          /\ acl'[b].incoming = acl[b].incoming
      BY <2>2, <2>6, <2>8, <2>9
    <3> QED
      BY <1>5, <3>1
  <2>11. InTable(a)' /\ acl'[a].handle = INVALID /\ UNCHANGED chan
    BY <1>2, <1>4, <2>2, <2>6, <2>8
  <2>12. /\ frame' \in Frames /\ frame'.chan = None /\ frame'.drop = FALSE
         /\ frame'.kind \in Guarded /\ frame'.acl = a /\ FrameRuns'
    BY <2>2, <2>3, <2>11, Entered
  <2>13. a \notin auth /\ a \notin connecting
    BY <1>2, <2>2, Bounds DEF LinkInv, WaitedFor
  <2>14. /\ frame = NoFrame /\ connecting' = connecting \ {a} /\ UNCHANGED <<table, chan>>
         /\ auth' \subseteq auth \cup {a} /\ a \notin auth'
         /\ r.completed => r.requested
         /\ r.requested => r.required
         /\ r.refs = acl[a].refs + 1
    BY <1>2, <2>2, <2>4, <2>6, <2>13 DEF LinkInv, WaitedFor
  <2> QED
    BY <1>3, <2>2, <2>6, <2>7, <2>10, <2>12, <2>14, EventInv
<1> QED
  BY <1>6, <1>7

-----------------------------------------------------------------------------
(* A channel is made, and takes a place on an ACL.                         *)
LEMMA OneMore ==
  ASSUME NEW S, IsFiniteSet(S), NEW x, x \notin S
  PROVE  Cardinality(S \cup {x}) = Cardinality(S) + 1
  BY FS_AddElement

LEMMA Placed ==
  ASSUME NEW r \in AclRecs, NEW x \in Chans, FreePlaces(r) # {}
  PROVE  \E p \in Places :
           /\ r.clients[p] = None
           /\ AddClient(r, x) \in AclRecs
           /\ \A i \in Places :
                AddClient(r, x).clients[i] = IF i = p THEN x ELSE r.clients[i]
           /\ AddClient(r, x).life = r.life /\ AddClient(r, x).refs = r.refs
           /\ AddClient(r, x).handle = r.handle
           /\ AddClient(r, x).device = r.device
           /\ AddClient(r, x).incoming = r.incoming
           /\ AddClient(r, x).required = r.required
           /\ AddClient(r, x).requested = r.requested
           /\ AddClient(r, x).completed = r.completed
<1>1. PICK p : p = Lowest(FreePlaces(r))
  OBVIOUS
<1>2. p \in FreePlaces(r)
  <2>1. FreePlaces(r) \subseteq Nat
    BY Bounds DEF FreePlaces
  <2> QED
    BY <1>1, <2>1, LowestIn
<1>3. p \in Places /\ r.clients[p] = None /\ r.clients \in ClientLists
  BY <1>2 DEF FreePlaces, AclRecs
<1>4. PICK l : l = [r.clients EXCEPT ![p] = x]
  OBVIOUS
<1>5. l \in ClientLists /\ \A i \in Places : l[i] = IF i = p THEN x ELSE r.clients[i]
  BY <1>3, <1>4 DEF ClientLists
<1>6. AddClient(r, x) = [r EXCEPT !.clients = l]
  BY <1>1, <1>4 DEF AddClient
<1>7. /\ AddClient(r, x) \in AclRecs /\ AddClient(r, x).clients = l
      /\ AddClient(r, x).life = r.life /\ AddClient(r, x).refs = r.refs
      /\ AddClient(r, x).handle = r.handle
      /\ AddClient(r, x).device = r.device
      /\ AddClient(r, x).incoming = r.incoming
      /\ AddClient(r, x).required = r.required
      /\ AddClient(r, x).requested = r.requested
      /\ AddClient(r, x).completed = r.completed
  BY <1>5, <1>6 DEF AclRecs
<1> QED
  BY <1>3, <1>5, <1>7

(* An object that was not used yet is known nowhere.                       *)
LEMMA UnusedChan ==
  ASSUME LinkInv, NEW x \in Chans, chan[x].life = "none"
  PROVE  /\ frame.chan # x
         /\ \A b : x \notin LiveChans(b)
         /\ \A b \in Acls, i \in Places : acl[b].clients[i] # x
<1>1. frame.chan # x
  <2>1. ChanOK(chan[x], frame.chan = x, frame.drop)
    BY DEF LinkInv, ChanCounts
  <2> QED
    BY <2>1 DEF ChanOK
<1>2. \A b : x \notin LiveChans(b)
  BY DEF LiveChans
<1>3. x # None
  BY Bounds
<1> QED
  BY <1>1, <1>2, <1>3 DEF LinkInv, NoDangling

LEMMA UnusedAcl ==
  ASSUME LinkInv, NEW a \in Acls, acl[a].life # "live"
  PROVE  /\ ~InTable(a) /\ a \notin connecting /\ a \notin auth
         /\ LiveChans(a) = {} /\ ~(frame.kind \in Guarded /\ frame.acl = a)
         /\ \A i \in Places : acl[a].clients[i] = None
         /\ acl[a].handle = INVALID
<1>1. ~InTable(a) /\ a \notin connecting /\ a \notin auth
  BY DEF LinkInv, NoDangling
<1>2. Cardinality(LiveChans(a)) = 0 /\ Looped(a) = 0
  BY Balance
<1>3. LiveChans(a) = {} /\ ~(frame.kind \in Guarded /\ frame.acl = a)
  BY <1>2, NoneLive DEF Looped, One
<1>4. \A i \in Places : acl[a].clients[i] = None
  BY <1>3 DEF LinkInv, NoDangling
<1>5. acl[a].handle = INVALID
  BY <1>1 DEF LinkInv, HandleKnown
<1> QED
  BY <1>1, <1>3, <1>4, <1>5

(* The frame when an application asks for a channel in a callback.         *)
LEMMA FrameStays ==
  ASSUME LinkInv, UNCHANGED frame, NEW x \in Chans, chan[x].life = "none",
         \A y \in Chans : y # x => chan'[y] = chan[y],
         chan'[x].life # "live" \/ chan'[x].state # "WAIT_CONFIG",
         \A b \in Acls : InTable(b) => InTable(b)',
         \A b \in Acls : acl[b].handle = INVALID => acl'[b].handle = INVALID
  PROVE  FrameRuns'
<1>1. frame.chan # x
  BY UnusedChan
<1>2. frame.drop => InCallback' /\ chan'[frame'.chan].life = "live"
  <2>1. frame.drop => InCallback /\ chan[frame.chan].life = "live"
    BY DEF LinkInv, FrameRuns, FrameShape
  <2> QED
    BY <1>1, <2>1, FrameFields DEF LinkInv, InCallback
<1>3. frame.kind = "connected" /\ ~frame.ok =>
        \A y \in LiveChans(frame.acl)' : ~Open(y)'
  <2>1. frame.kind = "connected" /\ ~frame.ok =>
          \A y \in LiveChans(frame.acl) : ~Open(y)
    BY DEF LinkInv, FrameRuns, FrameShape
  <2>2. \A y \in Chans : Open(y)' => Open(y) /\ y # x
    BY DEF Open
  <2> QED
    BY <2>1, <2>2 DEF LiveChans
<1>4. FrameShape'
  BY <1>2, <1>3 DEF LinkInv, FrameRuns, FrameShape, InCallback
<1>5. frame.kind = "disconnected" =>
        InTable(frame.acl)' /\ acl'[frame'.acl].handle = INVALID
  <2> SUFFICES ASSUME frame.kind = "disconnected"
               PROVE  InTable(frame.acl)' /\ acl'[frame'.acl].handle = INVALID
    OBVIOUS
  <2>1. /\ frame.acl \in Acls /\ InTable(frame.acl)
        /\ acl[frame.acl].handle = INVALID
    BY DEF LinkInv, FrameRuns, FrameShape, Guarded
  <2>2. PICK b \in Acls : b = frame.acl
    BY <2>1
  <2>3. InTable(b)' /\ acl'[b].handle = INVALID
    BY <2>1, <2>2
  <2> QED
    BY <2>2, <2>3 DEF InTable
<1> QED
  BY <1>4, <1>5 DEF FrameRuns

Takes(x, a, p, r) ==
  /\ acl[a].clients[p] = None
  /\ \A i \in Places : r.clients[i] = IF i = p THEN x ELSE acl[a].clients[i]
  /\ r.life = "live" /\ r.handle = acl[a].handle
  /\ r.refs = Cardinality(LiveChans(a)) + 1 + Looped(a)' + Own(a)'
  /\ r.completed => r.requested
  /\ r.requested => r.required
Listed(a) ==
  /\ InTable(a) \/ acl[a].life # "live"
  /\ table' \in [Acls -> Acls \cup {None}] /\ InTable(a)'
  /\ \A i, j \in Acls : table'[i] = table'[j] /\ table'[i] # None => i = j
  /\ \A b \in Acls : b # a => InTable(b)' = InTable(b)
Serves(a, c, r) ==
  /\ connecting' \subseteq connecting \cup {a} /\ auth' \subseteq auth \cup {a}
  /\ a \in connecting' \cup auth' =>
       \/ \E y \in LiveChans(a) : Waits(y)
       \/ c.state = "CLOSED" /\ c.told = << >>
  /\ a \in connecting' =>
       /\ r.handle = INVALID /\ r.device # None /\ ~r.requested
       /\ c.state # "WAIT_CONFIG"
       /\ \A y \in LiveChans(a) : ~Open(y)
       /\ ~(frame'.kind \in Guarded /\ frame'.acl = a)
  /\ a \in auth' =>
       /\ r.handle # INVALID /\ r.requested /\ ~r.completed
       /\ ~(frame'.kind \in Loops /\ frame'.acl = a)
Calls(x, a) ==
  \/ frame' = frame
  \/ frame = NoFrame /\ frame' \in Frames /\ frame'.acl = a /\ frame'.chan = x
LEMMA AddedInv ==
  ASSUME LinkInv, NEW x \in Chans, chan[x].life = "none", NEW a \in Acls,
         NEW c \in ChanRecs, chan' = [chan EXCEPT ![x] = c],
         c.life = "live", c.acl = a, c.told # <<"made", "lost">>,
         ChanOK(c, frame'.chan = x, frame'.drop),
         NEW p \in Places, NEW r \in AclRecs, acl' = [acl EXCEPT ![a] = r],
         Takes(x, a, p, r), Listed(a), Serves(a, c, r), Calls(x, a),
         UNCHANGED link, FrameRuns'
  PROVE  LinkInv'
<1> USE DEF Takes, Listed, Serves, Calls
<1>1. /\ chan' \in [Chans -> ChanRecs] /\ chan'[x] = c
      /\ \A y \in Chans : y # x => chan'[y] = chan[y]
      /\ acl' \in [Acls -> AclRecs] /\ acl'[a] = r
      /\ \A b \in Acls : b # a => acl'[b] = acl[b]
  BY DEF LinkInv, LinkTypes
<1>2. /\ frame.chan # x /\ x # None
      /\ \A b : x \notin LiveChans(b)
      /\ \A b \in Acls, i \in Places : acl[b].clients[i] # x
  BY UnusedChan, Bounds
<1>3. /\ LiveChans(a)' = LiveChans(a) \cup {x}
      /\ \A b : b # a => LiveChans(b)' = LiveChans(b)
  BY <1>1, <1>2 DEF LiveChans
<1>4. Cardinality(LiveChans(a)') = Cardinality(LiveChans(a)) + 1
  <2>1. Cardinality(LiveChans(a) \cup {x}) = Cardinality(LiveChans(a)) + 1
    <3>1. IsFiniteSet(LiveChans(a)) /\ x \notin LiveChans(a)
      BY <1>2, LiveFinite
    <3> QED
      BY <3>1, OneMore
  <2> QED
    BY <1>3, <2>1
<1>5. frame' \in Frames /\ connecting \subseteq Acls /\ auth \subseteq Acls
  BY DEF LinkInv, LinkTypes
<1>6. \A b \in Acls : b # a =>
        ((frame'.kind \in Guarded /\ frame'.acl = b)
           <=> (frame.kind \in Guarded /\ frame.acl = b))
  BY DEF NoFrame, Guarded
<1>7. LinkTypes'
  BY <1>1, <1>5 DEF LinkInv, LinkTypes
<1>8. OnePlaceEach'
  <2>1. \A i, j \in Places : r.clients[i] = r.clients[j] /\ r.clients[i] # None => i = j
    <3>1. \A i, j \in Places : acl[a].clients[i] = acl[a].clients[j]
                                 /\ acl[a].clients[i] # None => i = j
      BY DEF LinkInv, OnePlaceEach
    <3>2. \A i \in Places : acl[a].clients[i] # x
      BY <1>2
    <3> QED
      BY <3>1, <3>2
  <2>2. \A b \in Acls, i, j \in Places :
          acl'[b].clients[i] = acl'[b].clients[j] /\ acl'[b].clients[i] # None
            => i = j
    BY <1>1, <2>1 DEF LinkInv, OnePlaceEach
  <2> QED
    BY <2>2 DEF OnePlaceEach
<1>9. \A b \in Acls : acl'[b].handle = acl[b].handle
  BY <1>1
<1>10. \A b \in Acls : InTable(b) => InTable(b)'
  OBVIOUS
<1>11. HandleKnown'
  BY <1>9, <1>10 DEF LinkInv, HandleKnown
<1>12. LinkHasUser'
  <2> SUFFICES ASSUME NEW d \in Devices, link[d] = "up"
               PROVE  \E b \in Acls : /\ InTable(b)' /\ acl'[b].handle = d
                                      /\ acl'[b].incoming \/ LiveChans(b)' # {}
    BY DEF LinkHasUser
  <2>1. PICK b \in Acls : /\ InTable(b) /\ acl[b].handle = d
                          /\ acl[b].incoming \/ LiveChans(b) # {}
    BY DEF LinkInv, LinkHasUser
  <2>2. acl'[b].incoming \/ LiveChans(b)' # {}
    BY <1>1, <1>3, <2>1
  <2> QED
    BY <1>9, <1>10, <2>1, <2>2
<1>13. WaitedFor'
  <2>1. \A y \in Chans : y # x => Open(y)' = Open(y) /\ Waits(y)' = Waits(y)
    BY <1>1 DEF Open, Waits
  <2>2. \A b : \A y \in LiveChans(b) : y # x /\ y \in Chans
    BY <1>2 DEF LiveChans
  <2>3. ASSUME NEW b \in connecting' \cup auth'
        PROVE  InTable(b)' /\ \E y \in LiveChans(b)' : Waits(y)'
    <3>1. CASE b = a
      <4>1. CASE \E y \in LiveChans(a) : Waits(y)
        <5>1. PICK y \in LiveChans(a) : Waits(y)
          BY <4>1
        <5>2. y # x /\ y \in Chans /\ y \in LiveChans(a)'
          BY <1>3, <2>2, <5>1
        <5> QED
          BY <2>1, <3>1, <5>1, <5>2
      <4>2. CASE c.state = "CLOSED" /\ c.told = << >>
        <5>1. x \in LiveChans(a)' /\ Waits(x)'
          BY <1>1, <1>3, <4>2 DEF Waits
        <5> QED
          BY <3>1, <5>1
      <4> QED
        BY <2>3, <3>1, <4>1, <4>2
    <3>2. CASE b # a
      <4>1. b \in connecting \cup auth /\ b \in Acls
        BY <1>5, <2>3, <3>2
      <4>2. InTable(b) /\ \E y \in LiveChans(b) : Waits(y)
        BY <4>1 DEF LinkInv, WaitedFor
      <4>3. LiveChans(b)' = LiveChans(b)
        BY <1>3, <3>2
      <4> QED
        BY <1>10, <2>1, <2>2, <4>1, <4>2, <4>3
    <3> QED BY <3>1, <3>2
  <2>4. ASSUME NEW b \in connecting'
        PROVE  /\ acl'[b].handle = INVALID /\ acl'[b].device # None
               /\ ~acl'[b].requested
               /\ \A y \in LiveChans(b)' : ~Open(y)'
               /\ ~(frame'.kind \in Guarded /\ frame'.acl = b)
    <3>1. CASE b = a
      <4>1. ~Open(x)'
        BY <1>1, <2>4, <3>1 DEF Open
      <4>2. \A y \in LiveChans(a) : ~Open(y)
        BY <2>4, <3>1
      <4>3. \A y \in LiveChans(a)' : ~Open(y)'
        BY <1>3, <2>1, <2>2, <4>1, <4>2
      <4> QED
        BY <1>1, <2>4, <3>1, <4>3
    <3>2. CASE b # a
      <4>1. b \in connecting /\ b \in Acls
        BY <1>5, <2>4, <3>2
      <4>2. /\ acl[b].handle = INVALID /\ acl[b].device # None
            /\ ~acl[b].requested
            /\ \A y \in LiveChans(b) : ~Open(y)
            /\ ~(frame.kind \in Guarded /\ frame.acl = b)
        BY <4>1 DEF LinkInv, WaitedFor
      <4>3. \A y \in LiveChans(b)' : ~Open(y)'
        BY <1>3, <2>1, <2>2, <3>2, <4>2
      <4> QED
        BY <1>1, <1>6, <3>2, <4>1, <4>2, <4>3
    <3> QED BY <3>1, <3>2
  <2>5. ASSUME NEW b \in auth'
        PROVE  /\ acl'[b].handle # INVALID
               /\ acl'[b].requested /\ ~acl'[b].completed
               /\ ~(frame'.kind \in Loops /\ frame'.acl = b)
    <3>1. CASE b = a
      BY <1>1, <2>5, <3>1
    <3>2. CASE b # a
      <4>1. b \in auth /\ b \in Acls
        BY <1>5, <2>5, <3>2
      <4>2. /\ acl[b].handle # INVALID
            /\ acl[b].requested /\ ~acl[b].completed
            /\ ~(frame.kind \in Loops /\ frame.acl = b)
        BY <4>1 DEF LinkInv, WaitedFor
      <4>3. ~(frame'.kind \in Loops /\ frame'.acl = b)
        BY <3>2, <4>2
      <4> QED
        BY <1>1, <3>2, <4>1, <4>2, <4>3
    <3> QED BY <3>1, <3>2
  <2>6. \A b \in Acls : /\ acl'[b].completed => acl'[b].requested
                        /\ acl'[b].requested => acl'[b].required
    BY <1>1 DEF LinkInv, WaitedFor
  <2> QED
    BY <2>3, <2>4, <2>5, <2>6 DEF WaitedFor
<1>14. ChanCounts'
  <2> SUFFICES ASSUME NEW y \in Chans
               PROVE  ChanOK(chan'[y], frame'.chan = y, frame'.drop)
    BY DEF ChanCounts
  <2>1. CASE y = x
    BY <1>1, <2>1
  <2>2. CASE y # x
    <3>1. ChanOK(chan[y], frame.chan = y, frame.drop) /\ y # None
      BY Bounds DEF LinkInv, ChanCounts
    <3>2. CASE frame' = frame
      BY <1>1, <2>2, <3>1, <3>2
    <3>3. CASE frame = NoFrame /\ frame'.chan = x
      <4>1. frame'.chan # y /\ frame.chan # y
        BY <2>2, <3>1, <3>3 DEF NoFrame
      <4> QED
        BY <1>1, <2>2, <3>1, <4>1 DEF ChanOK
    <3> QED BY <3>2, <3>3
  <2> QED BY <2>1, <2>2
<1>15. RefsBalanced'
  <2>1. ASSUME NEW b \in Acls
        PROVE  /\ acl'[b].life # "none" => acl'[b].refs =
                    Cardinality(LiveChans(b)') + Looped(b)' + Own(b)'
               /\ acl'[b].life = "live" <=>
                    Cardinality(LiveChans(b)') + Looped(b)' + Own(b)' > 0
    <3>1. CASE b # a
      <4>1. Own(b)' = Own(b)
        BY <1>1, <3>1 DEF Own, One
      <4>2. Looped(b)' = Looped(b)
        BY <1>6, <3>1 DEF Looped, One
      <4> QED
        BY <1>1, <1>3, <3>1, <4>1, <4>2, Balance
    <3>2. CASE b = a
      <4>1. Looped(a)' \in {0, 1} /\ Own(a)' \in {0, 1}
        BY DEF Looped, Own, One
      <4>2. Cardinality(LiveChans(a)) \in Nat
        BY LiveFinite
      <4> QED
        BY <1>1, <1>4, <3>2, <4>1, <4>2
    <3> QED BY <3>1, <3>2
  <2> QED
    BY <2>1, BalanceNext
<1>16. NoDangling'
  <2>1. \A b \in Acls : InTable(b)' \/ b \in connecting' \cup auth' => acl'[b].life = "live"
    BY <1>1 DEF LinkInv, NoDangling
  <2>2. ASSUME NEW y \in Chans, chan'[y].life = "live"
        PROVE  /\ acl'[chan'[y].acl].life = "live"
               /\ \E i \in Places : acl'[chan'[y].acl].clients[i] = y
    <3>1. CASE y = x
      BY <1>1, <3>1
    <3>2. CASE y # x
      <4>1. PICK b \in Acls : b = chan[y].acl
        BY <1>1, <2>2, <3>2, ChanFields DEF LinkInv, ChanCounts, ChanOK
      <4>2. chan[y].life = "live" /\ chan'[y].acl = b
        BY <1>1, <2>2, <3>2, <4>1
      <4>3. acl[b].life = "live"
        BY <4>1, <4>2 DEF LinkInv, NoDangling
      <4>4. PICK i \in Places : acl[b].clients[i] = y
        BY <4>1, <4>2 DEF LinkInv, NoDangling
      <4>5. acl'[b].life = "live"
        BY <1>1, <4>3
      <4>6. b = a => i # p
        BY <4>4, Bounds
      <4>7. acl'[b].clients[i] = y
        BY <1>1, <4>4, <4>6
      <4> QED
        BY <4>2, <4>5, <4>7
    <3> QED BY <3>1, <3>2
  <2>3. ASSUME NEW b \in Acls, NEW i \in Places, acl'[b].clients[i] # None
        PROVE  acl'[b].clients[i] \in LiveChans(b)'
    <3>1. CASE b = a /\ i = p
      BY <1>1, <1>3, <3>1
    <3>2. CASE ~(b = a /\ i = p)
      <4>1. acl'[b].clients[i] = acl[b].clients[i]
        BY <1>1, <3>2
      <4>2. acl[b].clients[i] \in LiveChans(b)
        BY <2>3, <4>1 DEF LinkInv, NoDangling
      <4>3. LiveChans(b) \subseteq LiveChans(b)'
        BY <1>3
      <4> QED
        BY <4>1, <4>2, <4>3
    <3> QED BY <3>1, <3>2
  <2>4. \A y \in Chans : chan'[y].held => chan'[y].life = "live"
    BY <1>14 DEF ChanCounts, ChanOK
  <2> QED
    BY <2>1, <2>2, <2>3, <2>4 DEF NoDangling, ReferenceKeeps
<1>17. LostOnce'
  <2> SUFFICES ASSUME NEW y \in Chans, chan'[y].life = "live",
                      chan'[y].told = <<"made", "lost">>
               PROVE  LostOver(y)'
    BY DEF LostOnce
  <2>1. y # x /\ chan'[y] = chan[y] /\ chan[y].life = "live"
    BY <1>1
  <2>2. LostOver(y)
    BY <2>1 DEF LinkInv, LostOnce
  <2>3. PICK b \in Acls : b = chan[y].acl
    BY <2>1, ChanFields DEF LinkInv, ChanCounts, ChanOK
  <2>4. acl'[b].handle = INVALID /\ chan'[y].acl = b
    BY <1>9, <2>1, <2>2, <2>3 DEF LostOver
  <2>5. CASE ~InTable(b)
    <3>1. acl[b].life = "live"
      BY <2>1, <2>3 DEF LinkInv, NoDangling
    <3>2. ~InTable(b)'
      BY <2>5, <3>1
    <3> QED
      BY <2>4, <3>2 DEF LostOver, InTable
  <2>6. CASE frame.kind = "disconnected" /\ frame.acl = b /\ Passing(y)
    <3>1. frame' = frame
      BY <2>6 DEF NoFrame
    <3>2. \A i \in Places : acl'[b].clients[i] = y => acl[b].clients[i] = y
      BY <1>1, <2>1
    <3>3. Passing(y)'
      BY <2>1, <2>3, <2>6, <3>1, <3>2 DEF Passing, InCallback
    <3> QED
      BY <2>4, <2>6, <3>1, <3>3 DEF LostOver
  <2> QED
    BY <2>2, <2>3, <2>5, <2>6 DEF LostOver
<1> QED
  BY <1>7, <1>8, <1>11, <1>12, <1>13, <1>14, <1>15, <1>16, <1>17 DEF LinkInv

(* A new ACL enters the table.                                             *)
LEMMA Published ==
  ASSUME LinkInv, NEW a \in Acls, ~InTable(a), table' = MadePublic(a)
  PROVE  /\ table' \in [Acls -> Acls \cup {None}] /\ InTable(a)'
         /\ \A i, j \in Acls : table'[i] = table'[j] /\ table'[i] # None => i = j
         /\ \A b \in Acls : b # a => InTable(b)' = InTable(b)
<1>1. PICK S : S = {i \in Acls : table[i] = None}
  OBVIOUS
<1>2. S # {}
  BY <1>1, RoomInTable DEF LinkInv
<1>3. S \subseteq Nat
  BY <1>1, Bounds
<1>4. PICK p : p = Lowest(S)
  OBVIOUS
<1>5. p \in S
  BY <1>2, <1>3, <1>4, LowestIn
<1>6. p \in Acls /\ table[p] = None
  BY <1>1, <1>5
<1>7. table' = [table EXCEPT ![p] = a]
  BY <1>1, <1>4 DEF MadePublic
<1>8. /\ table' \in [Acls -> Acls \cup {None}] /\ table'[p] = a
      /\ \A i \in Acls : i # p => table'[i] = table[i]
  BY <1>6, <1>7 DEF LinkInv, LinkTypes
<1>9. InTable(a)'
  BY <1>6, <1>8 DEF InTable
<1>10. \A i, j \in Acls : table'[i] = table'[j] /\ table'[i] # None => i = j
  BY <1>8 DEF LinkInv, OnePlaceEach, InTable
<1>11. \A b \in Acls : b # a => InTable(b)' = InTable(b)
  <2> SUFFICES ASSUME NEW b \in Acls, b # a PROVE InTable(b)' = InTable(b)
    OBVIOUS
  <2>1. b # None
    BY Bounds
  <2> QED
    BY <1>6, <1>8, <2>1 DEF InTable
<1> QED
  BY <1>8, <1>9, <1>10, <1>11

(* The records of new objects.                                             *)
LEMMA NewRecords ==
  /\ NewAcl \in AclRecs
  /\ \A i \in Places : NewAcl.clients[i] = None
  /\ NewChan \in ChanRecs
<1>1. PICK l : l = [i \in Places |-> None]
  OBVIOUS
<1>2. l \in ClientLists /\ \A i \in Places : l[i] = None
  BY <1>1 DEF ClientLists
<1>3. NewAcl = [life |-> "none", device |-> None, refs |-> 0, handle |-> INVALID,
                incoming |-> FALSE, required |-> FALSE, requested |-> FALSE,
                completed |-> FALSE, blind |-> FALSE, clients |-> l]
  BY <1>1 DEF NewAcl
<1>4. PICK z \in Int : z = 0
  OBVIOUS
<1>5. NewAcl \in AclRecs /\ NewAcl.clients = l
  BY <1>2, <1>3, <1>4 DEF AclRecs, Lives
<1>6. NewChan \in ChanRecs
  BY <1>4 DEF NewChan, ChanRecs, Lives, ChanStates, Answers
<1> QED
  BY <1>2, <1>5, <1>6

(* A channel on a device that there is no ACL for.                         *)
LEMMA NewLinkInv ==
  ASSUME LinkInv, NEW x \in Chans, FreshChan(x), NEW a \in Acls, NEW d \in Devices,
         NEW asks \in BOOLEAN, NewLink(x, a, d, asks)
  PROVE  LinkInv'
<1>1. PICK s : s = [NewAcl EXCEPT !.life = "live", !.device = d, !.refs = 1,
                                  !.required = asks]
  OBVIOUS
<1>2. PICK r : r = AddClient(s, x)
  OBVIOUS
<1>3. /\ acl[a].life = "none" /\ chan[x].life = "none"
      /\ acl' = [acl EXCEPT ![a] = r] /\ table' = MadePublic(a)
      /\ chan' = [chan EXCEPT ![x] = Joined(x, a)]
      /\ connecting' = connecting \cup {a}
      /\ UNCHANGED <<link, auth, frame>>
  BY <1>1, <1>2 DEF NewLink, FreshAcl, FreshChan
<1>4. /\ ~InTable(a) /\ a \notin auth /\ LiveChans(a) = {}
      /\ ~(frame.kind \in Guarded /\ frame.acl = a)
      /\ \A i \in Places : acl[a].clients[i] = None
      /\ acl[a].handle = INVALID
  BY <1>3, UnusedAcl
<1>5. PICK n \in Int : n = 1
  OBVIOUS
<1>6. /\ s \in AclRecs /\ s.life = "live" /\ s.device = d /\ s.refs = 1
      /\ s.handle = INVALID /\ s.incoming = FALSE /\ s.requested = FALSE
      /\ s.completed = FALSE /\ s.required = asks
      /\ \A i \in Places : s.clients[i] = None
  <2>1. s = [NewAcl EXCEPT !.life = "live", !.device = d, !.refs = n,
                           !.required = asks]
    BY <1>1, <1>5
  <2>2. s \in AclRecs
    BY <2>1, NewRecords DEF AclRecs, Lives
  <2>3. s.clients = NewAcl.clients /\ s.life = "live" /\ s.device = d
        /\ s.refs = n /\ s.required = asks
    BY <2>1, NewRecords DEF AclRecs
  <2>4. /\ s.handle = INVALID /\ s.incoming = FALSE /\ s.requested = FALSE
        /\ s.completed = FALSE
    BY <2>1 DEF NewAcl
  <2> QED
    BY <1>5, <2>2, <2>3, <2>4, NewRecords
<1>7. FreePlaces(s) # {}
  BY <1>6, Bounds DEF FreePlaces
<1>8. PICK p \in Places :
        /\ r \in AclRecs
        /\ \A i \in Places : r.clients[i] = IF i = p THEN x ELSE s.clients[i]
        /\ r.life = "live" /\ r.refs = 1 /\ r.handle = INVALID /\ r.device = d
        /\ r.incoming = FALSE /\ r.completed = FALSE
        /\ r.requested = FALSE
  BY <1>2, <1>6, <1>7, Placed
<1>9. PICK c : c = Joined(x, a)
  OBVIOUS
<1>10. /\ c \in ChanRecs /\ c.life = "live" /\ c.acl = a /\ c.refs = 1
       /\ c.state = "CLOSED" /\ c.held = FALSE /\ c.told = << >>
  <2>1. c = [NewChan EXCEPT !.life = "live", !.acl = a, !.refs = n]
    BY <1>5, <1>9 DEF Joined
  <2>2. c \in ChanRecs /\ c.life = "live" /\ c.acl = a /\ c.refs = n
    BY <2>1, NewRecords DEF ChanRecs, Lives
  <2>3. c.state = "CLOSED" /\ c.held = FALSE /\ c.told = << >>
    BY <2>1 DEF NewChan
  <2> QED
    BY <1>5, <2>2, <2>3
<1>11. frame.chan # x
  BY <1>3, UnusedChan
<1>12. ChanOK(c, frame'.chan = x, frame'.drop)
  BY <1>3, <1>10, <1>11, Bounds DEF ChanOK, One
<1>13. /\ table' \in [Acls -> Acls \cup {None}] /\ InTable(a)'
       /\ \A i, j \in Acls : table'[i] = table'[j] /\ table'[i] # None => i = j
       /\ \A b \in Acls : b # a => InTable(b)' = InTable(b)
  BY <1>3, <1>4, Published
<1>14. /\ acl'[a] = r /\ \A b \in Acls : b # a => acl'[b] = acl[b]
       /\ chan'[x] = c /\ \A y \in Chans : y # x => chan'[y] = chan[y]
  BY <1>3, <1>9 DEF LinkInv, LinkTypes
<1>15. FrameRuns'
  <2>1. /\ chan'[x].state # "WAIT_CONFIG" /\ UNCHANGED frame
        /\ \A b \in Acls : InTable(b) => InTable(b)'
        /\ \A b \in Acls : acl[b].handle = INVALID => acl'[b].handle = INVALID
    BY <1>3, <1>8, <1>10, <1>13, <1>14
  <2> QED
    BY <1>3, <1>14, <2>1, FrameStays
<1>16. r.refs = Cardinality(LiveChans(a)) + 1 + Looped(a)' + Own(a)'
  <2>1. Looped(a)' = 0
    BY <1>3, <1>4 DEF Looped, One
  <2>2. Own(a)' = 0
    BY <1>8, <1>14 DEF Own, One
  <2>3. Cardinality(LiveChans(a)) = 0
    BY <1>4, NoneLive
  <2> QED
    BY <1>8, <2>1, <2>2, <2>3
<1>17. /\ UNCHANGED link /\ chan[x].life = "none"
       /\ chan' = [chan EXCEPT ![x] = c] /\ acl' = [acl EXCEPT ![a] = r]
       /\ c.told # <<"made", "lost">>
  BY <1>3, <1>9, <1>10, AnswersDiffer
<1>18. Takes(x, a, p, r)
  BY <1>4, <1>6, <1>8, <1>16 DEF Takes
<1>19. Listed(a)
  BY <1>3, <1>13 DEF Listed
<1>20. Serves(a, c, r)
  BY <1>3, <1>4, <1>8, <1>10, Bounds DEF Serves
<1>21. Calls(x, a)
  BY <1>3 DEF Calls
<1> QED
  BY <1>8, <1>10, <1>12, <1>15, <1>17, <1>18, <1>19, <1>20, <1>21, AddedInv

(* A peer opens a channel to a server, which is given it in a callback.    *)
LEMMA PeerOpensInv ==
  ASSUME LinkInv, NEW x \in Chans, NEW a \in Acls, PeerOpens(x, a)
  PROVE  LinkInv'
<1>1. PICK s : s = [acl[a] EXCEPT !.refs = @ + 2]
  OBVIOUS
<1>2. PICK r : r = AddClient(s, x)
  OBVIOUS
<1>3. PICK c : c = [Joined(x, a) EXCEPT !.remote = TRUE, !.state = "WAIT_CONFIG",
                                        !.told = <<"made">>]
  OBVIOUS
<1>4. /\ frame = NoFrame /\ chan[x].life = "none" /\ acl[a].life = "live"
      /\ acl[a].handle # INVALID /\ InTable(a) /\ FreePlaces(acl[a]) # {}
      /\ acl' = [acl EXCEPT ![a] = r]
      /\ chan' = [chan EXCEPT ![x] = c]
      /\ frame' = [CallBack(x) EXCEPT !.kind = "opened", !.acl = a, !.i = MaxClients]
      /\ UNCHANGED <<table, link, connecting, auth>>
  <2>1. acl' = [acl EXCEPT ![a] = AddClient([acl[a] EXCEPT !.refs = @ + 2], x)]
    BY DEF PeerOpens
  <2>2. acl' = [acl EXCEPT ![a] = r]
    BY <1>1, <1>2, <2>1
  <2>3. chan' = [chan EXCEPT ![x] = c]
    BY <1>3 DEF PeerOpens
  <2> QED
    BY <2>2, <2>3 DEF PeerOpens, Idle, FreshChan, Reachable, controller
<1>5. acl[a] \in AclRecs /\ acl[a].refs \in Int
  BY DEF LinkInv, LinkTypes, AclRecs
<1>6. PICK n \in Int : n = acl[a].refs + 2
  BY <1>5
<1>7. /\ s \in AclRecs /\ s.life = "live" /\ s.refs = n
      /\ s.handle = acl[a].handle /\ s.incoming = acl[a].incoming
      /\ s.requested = acl[a].requested /\ s.required = acl[a].required
      /\ s.completed = acl[a].completed /\ s.clients = acl[a].clients
  BY <1>1, <1>4, <1>5, <1>6 DEF AclRecs
<1>8. FreePlaces(s) # {}
  BY <1>4, <1>7 DEF FreePlaces
<1>9. PICK p \in Places :
        /\ s.clients[p] = None /\ r \in AclRecs
        /\ \A i \in Places : r.clients[i] = IF i = p THEN x ELSE s.clients[i]
        /\ r.life = "live" /\ r.refs = n /\ r.handle = s.handle
        /\ r.incoming = s.incoming /\ r.requested = s.requested
        /\ r.completed = s.completed /\ r.required = s.required
  BY <1>2, <1>7, <1>8, Placed
<1>10. /\ c \in ChanRecs /\ c.life = "live" /\ c.acl = a /\ c.refs = 1
       /\ c.state = "WAIT_CONFIG" /\ c.held = FALSE /\ c.told = <<"made">>
       /\ c.remote = TRUE
  <2>1. PICK one \in Int : one = 1
    OBVIOUS
  <2>2. PICK t \in BOOLEAN : t = TRUE
    OBVIOUS
  <2>3. c = [[NewChan EXCEPT !.life = "live", !.acl = a, !.refs = one]
               EXCEPT !.remote = t, !.state = "WAIT_CONFIG", !.told = <<"made">>]
    BY <1>3, <2>1, <2>2 DEF Joined
  <2>4. PICK e : e = [NewChan EXCEPT !.life = "live", !.acl = a, !.refs = one]
    OBVIOUS
  <2>5. e \in ChanRecs /\ e.life = "live" /\ e.acl = a /\ e.refs = one
    BY <2>4, NewRecords DEF ChanRecs, Lives
  <2>6. e.held = FALSE
    BY <2>4 DEF NewChan
  <2>7. c = [e EXCEPT !.remote = t, !.state = "WAIT_CONFIG", !.told = <<"made">>]
    BY <2>3, <2>4
  <2>8. <<"made">> \in Answers /\ "WAIT_CONFIG" \in ChanStates
    BY DEF Answers, ChanStates
  <2>9. /\ c \in ChanRecs /\ c.life = e.life /\ c.acl = e.acl /\ c.refs = e.refs
        /\ c.state = "WAIT_CONFIG" /\ c.held = e.held /\ c.told = <<"made">>
        /\ c.remote = t
    BY <2>5, <2>7, <2>8 DEF ChanRecs
  <2> QED
    BY <2>1, <2>2, <2>5, <2>6, <2>9
<1>11. /\ frame' \in Frames /\ frame'.kind = "opened" /\ frame'.acl = a
       /\ frame'.i = MaxClients /\ frame'.chan = x /\ frame'.drop = TRUE
  <2>1. MaxClients \in 0 .. MaxClients + 1 /\ x \in Chans \cup {None}
    BY Bounds
  <2> QED
    BY <1>4, <2>1 DEF CallBack, NoFrame, Frames, Guarded
<1>12. ChanOK(c, frame'.chan = x, frame'.drop)
  BY <1>10, <1>11, AnswersDiffer, Bounds DEF ChanOK, One
<1>13. /\ acl'[a] = r /\ chan'[x] = c
  BY <1>4 DEF LinkInv, LinkTypes
<1>14. FrameRuns'
  <2>1. MaxClients >= 1 /\ MaxClients <= MaxClients /\ x # None
    BY LinkAssumption, Bounds
  <2>2. chan'[frame'.chan].life = "live"
    BY <1>10, <1>11, <1>13
  <2> QED
    BY <1>11, <2>1, <2>2 DEF FrameRuns, FrameShape, InCallback, Guarded
<1>15. r.refs = Cardinality(LiveChans(a)) + 1 + Looped(a)' + Own(a)'
  <2>1. Looped(a)' = 1 /\ Looped(a) = 0
    BY <1>4, <1>11 DEF Looped, One, Guarded, NoFrame
  <2>2. Own(a)' = Own(a)
    BY <1>4, <1>7, <1>9, <1>13 DEF Own, One, InTable
  <2>3. acl[a].refs = Cardinality(LiveChans(a)) + Looped(a) + Own(a)
        /\ Own(a) \in {0, 1} /\ Cardinality(LiveChans(a)) \in Nat
    BY <1>4, Balance
  <2> QED
    BY <1>6, <1>9, <2>1, <2>2, <2>3
<1>16. Takes(x, a, p, r)
  <2>1. /\ acl[a].completed => acl[a].requested
        /\ acl[a].requested => acl[a].required
    BY DEF LinkInv, WaitedFor
  <2> QED
    BY <1>7, <1>9, <1>15, <2>1 DEF Takes
<1>17. Listed(a)
  BY <1>4 DEF Listed, InTable, LinkInv, LinkTypes, OnePlaceEach
<1>18. Serves(a, c, r)
  <2>1. a \notin connecting
    BY <1>4 DEF LinkInv, WaitedFor
  <2>2. a \in auth => /\ acl[a].requested /\ ~acl[a].completed
                      /\ \E y \in LiveChans(a) : Waits(y)
    BY DEF LinkInv, WaitedFor
  <2>3. frame'.kind \notin Loops
    BY <1>11 DEF Loops
  <2> QED
    BY <1>4, <1>7, <1>9, <2>1, <2>2, <2>3 DEF Serves
<1>19. Calls(x, a)
  BY <1>4, <1>11 DEF Calls
<1>20. /\ UNCHANGED link /\ chan[x].life = "none"
       /\ chan' = [chan EXCEPT ![x] = c] /\ acl' = [acl EXCEPT ![a] = r]
       /\ c.told # <<"made", "lost">>
  BY <1>4, <1>10, AnswersDiffer
<1> QED
  BY <1>9, <1>10, <1>12, <1>14, <1>16, <1>17, <1>18, <1>19, <1>20, AddedInv

(* A device connects: an ACL that nobody has a channel on yet.             *)
LEMMA IncomingInv ==
  ASSUME LinkInv, NEW a \in Acls, NEW d \in Devices, Incoming(a, d)
  PROVE  LinkInv'
<1>1. PICK r : r = [NewAcl EXCEPT !.life = "live", !.device = d, !.refs = 1,
                                  !.handle = d, !.incoming = TRUE]
  OBVIOUS
<1>2. /\ frame = NoFrame /\ acl[a].life = "none" /\ link[d] = "down"
      /\ link' = [link EXCEPT ![d] = "up"]
      /\ acl' = [acl EXCEPT ![a] = r] /\ table' = MadePublic(a)
      /\ UNCHANGED <<chan, connecting, auth, frame>>
  BY <1>1 DEF Incoming, Idle, FreshAcl
<1>3. /\ ~InTable(a) /\ a \notin auth /\ a \notin connecting /\ LiveChans(a) = {}
      /\ acl[a].handle = INVALID
  BY <1>2, UnusedAcl
<1>4. /\ r \in AclRecs /\ r.life = "live" /\ r.refs = 1 /\ r.handle = d
      /\ r.incoming = TRUE /\ r.completed = FALSE
      /\ r.requested = FALSE
      /\ \A i \in Places : r.clients[i] = None
  <2>1. PICK n \in Int : n = 1
    OBVIOUS
  <2>2. PICK t \in BOOLEAN : t = TRUE
    OBVIOUS
  <2>3. r = [NewAcl EXCEPT !.life = "live", !.device = d, !.refs = n,
                           !.handle = d, !.incoming = t]
    BY <1>1, <2>1, <2>2
  <2>4. /\ r \in AclRecs /\ r.life = "live" /\ r.refs = n /\ r.handle = d
        /\ r.incoming = t /\ r.clients = NewAcl.clients
    BY <2>3, NewRecords DEF AclRecs, Lives
  <2>5. r.completed = FALSE /\ r.requested = FALSE
    BY <2>3 DEF NewAcl
  <2> QED
    BY <2>1, <2>2, <2>4, <2>5, NewRecords
<1>5. /\ acl' \in [Acls -> AclRecs] /\ acl'[a] = r
      /\ \A b \in Acls : b # a => acl'[b] = acl[b]
  BY <1>2, <1>4 DEF LinkInv, LinkTypes
<1>6. /\ table' \in [Acls -> Acls \cup {None}] /\ InTable(a)'
      /\ \A i, j \in Acls : table'[i] = table'[j] /\ table'[i] # None => i = j
      /\ \A b \in Acls : b # a => InTable(b)' = InTable(b)
  BY <1>2, <1>3, Published
<1>7. /\ \A b : LiveChans(b)' = LiveChans(b)
      /\ \A y : Open(y)' = Open(y) /\ Waits(y)' = Waits(y)
  BY <1>2 DEF LiveChans, Open, Waits
<1>8. /\ link' \in [Devices -> LinkStates]
      /\ HandleKnown' /\ LinkHasUser'
  <2>1. /\ link[d] = "down" /\ link' = [link EXCEPT ![d] = "up"]
        /\ acl'[a].handle = d /\ acl'[a].incoming
        /\ \A b \in Acls : b # a => /\ acl'[b].handle = acl[b].handle
                                    /\ acl'[b].incoming = acl[b].incoming
                                    /\ InTable(b)' = InTable(b)
                                    /\ LiveChans(b)' = LiveChans(b)
    BY <1>2, <1>4, <1>5, <1>6, <1>7
  <2> QED
    BY <1>3, <1>6, <2>1, LinkUp
<1>9. LinkTypes'
  BY <1>2, <1>5, <1>6, <1>8 DEF LinkInv, LinkTypes
<1>10. OnePlaceEach'
  <2>1. \A b \in Acls, i, j \in Places :
          acl'[b].clients[i] = acl'[b].clients[j] /\ acl'[b].clients[i] # None
            => i = j
    BY <1>4, <1>5 DEF LinkInv, OnePlaceEach
  <2> QED
    BY <1>6, <2>1 DEF OnePlaceEach
<1>11. FrameRuns'
  BY <1>2 DEF FrameRuns, FrameShape, NoFrame, Guarded, InCallback
<1>12. WaitedFor'
  <2>1. \A b \in connecting \cup auth : b \in Acls /\ b # a
    BY <1>3 DEF LinkInv, LinkTypes
  <2>2. ASSUME NEW b \in connecting \cup auth
        PROVE  InTable(b)' /\ \E x \in LiveChans(b)' : Waits(x)'
    BY <1>6, <1>7, <2>1 DEF LinkInv, WaitedFor
  <2>3. \A b \in connecting :
          /\ acl'[b].handle = INVALID /\ acl'[b].device # None
          /\ ~acl'[b].requested
          /\ \A x \in LiveChans(b)' : ~Open(x)'
          /\ ~(frame'.kind \in Guarded /\ frame'.acl = b)
    BY <1>2, <1>5, <1>7, <2>1 DEF LinkInv, WaitedFor
  <2>4. \A b \in auth :
          /\ acl'[b].handle # INVALID
          /\ acl'[b].requested /\ ~acl'[b].completed
          /\ ~(frame'.kind \in Loops /\ frame'.acl = b)
    BY <1>2, <1>5, <2>1 DEF LinkInv, WaitedFor
  <2>5. \A b \in Acls : /\ acl'[b].completed => acl'[b].requested
                        /\ acl'[b].requested => acl'[b].required
    BY <1>4, <1>5 DEF LinkInv, WaitedFor
  <2> QED
    BY <1>2, <2>2, <2>3, <2>4, <2>5 DEF WaitedFor
<1>13. ChanCounts'
  BY <1>2 DEF LinkInv, ChanCounts
<1>14. LostOnce'
  <2> SUFFICES ASSUME NEW y \in Chans, chan[y].life = "live",
                      chan[y].told = <<"made", "lost">>
               PROVE  LostOver(y)'
    BY <1>2 DEF LostOnce
  <2>1. LostOver(y)
    BY DEF LinkInv, LostOnce
  <2>2. PICK b \in Acls : b = chan[y].acl
    BY ChanFields DEF LinkInv, ChanCounts, ChanOK
  <2>3. ~InTable(b) /\ acl[b].handle = INVALID
    BY <1>2, <2>1, <2>2 DEF LostOver, NoFrame
  <2>4. b # a
    BY <1>3, <2>2 DEF LiveChans
  <2>5. acl'[b].handle = INVALID /\ ~InTable(b)' /\ chan'[y].acl = b
    BY <1>2, <1>5, <1>6, <2>2, <2>3, <2>4
  <2> QED
    BY <2>5 DEF LostOver, InTable
<1>15. RefsBalanced'
  <2>1. ASSUME NEW b \in Acls
        PROVE  /\ acl'[b].life # "none" => acl'[b].refs =
                    Cardinality(LiveChans(b)') + Looped(b)' + Own(b)'
               /\ acl'[b].life = "live" <=>
                    Cardinality(LiveChans(b)') + Looped(b)' + Own(b)' > 0
    <3>1. Looped(b)' = 0 /\ Looped(b) = 0
      BY <1>2 DEF Looped, One, NoFrame, Guarded
    <3>2. CASE b # a
      <4>1. Own(b)' = Own(b)
        BY <1>5, <1>6, <3>2 DEF Own, One
      <4> QED
        BY <1>5, <1>7, <3>1, <3>2, <4>1, Balance
    <3>3. CASE b = a
      <4>1. Own(a)' = 1 /\ Cardinality(LiveChans(a)') = 0
        BY <1>3, <1>4, <1>5, <1>6, <1>7, NoneLive DEF Own, One
      <4> QED
        BY <1>4, <1>5, <3>1, <3>3, <4>1
    <3> QED BY <3>2, <3>3
  <2> QED
    BY <2>1, BalanceNext
<1>16. NoDangling'
  <2>1. \A b \in Acls : InTable(b)' \/ b \in connecting' \cup auth' => acl'[b].life = "live"
    BY <1>2, <1>4, <1>5, <1>6 DEF LinkInv, NoDangling
  <2>2. ASSUME NEW y \in Chans, chan[y].life = "live"
        PROVE  /\ acl'[chan[y].acl].life = "live"
               /\ \E i \in Places : acl'[chan[y].acl].clients[i] = y
    <3>1. PICK b \in Acls : b = chan[y].acl
      BY <2>2, ChanFields DEF LinkInv, ChanCounts, ChanOK
    <3>2. acl[b].life = "live" /\ \E i \in Places : acl[b].clients[i] = y
      BY <2>2, <3>1 DEF LinkInv, NoDangling
    <3>3. b # a
      BY <1>2, <3>2
    <3> QED
      BY <1>5, <3>1, <3>2, <3>3
  <2>3. \A b \in Acls, i \in Places :
          acl'[b].clients[i] # None => acl'[b].clients[i] \in LiveChans(b)'
    BY <1>4, <1>5, <1>7 DEF LinkInv, NoDangling
  <2>4. \A y \in Chans : chan'[y].held => chan'[y].life = "live"
    BY <1>2 DEF LinkInv, NoDangling, ReferenceKeeps
  <2> QED
    BY <1>2, <2>1, <2>2, <2>3, <2>4 DEF NoDangling, ReferenceKeeps
<1> QED
  BY <1>8, <1>9, <1>10, <1>11, <1>12, <1>13, <1>14, <1>15, <1>16 DEF LinkInv

-----------------------------------------------------------------------------
(* A channel on a device that there is an ACL for.                         *)

(* It is refused, or its request cannot be sent: the ACL is as it was, and *)
(* the link may have been told to close.                                   *)
Keeps(a, r) ==
  /\ r.life = acl[a].life /\ r.refs = acl[a].refs /\ r.handle = acl[a].handle
  /\ r.device = acl[a].device /\ r.incoming = acl[a].incoming
  /\ r.completed = acl[a].completed
  /\ r.requested = acl[a].requested /\ r.required = acl[a].required
  /\ \A i \in Places : r.clients[i] = acl[a].clients[i]
LEMMA RefusedInv ==
  ASSUME LinkInv, NEW x \in Chans, chan[x].life = "none", NEW a \in Acls,
         NEW c \in ChanRecs, chan' = [chan EXCEPT ![x] = c],
         c.life = "freed", c.held = FALSE,
         NEW r \in AclRecs, acl' = [acl EXCEPT ![a] = r], Keeps(a, r),
         link' \in [Devices -> LinkStates],
         \A d \in Devices : /\ link'[d] = "up" => link[d] = "up"
                            /\ link'[d] = "down" => link[d] = "down",
         UNCHANGED <<table, connecting, auth, frame>>
  PROVE  LinkInv'
<1>1. /\ chan' \in [Chans -> ChanRecs] /\ chan'[x] = c
      /\ \A y \in Chans : y # x => chan'[y] = chan[y]
      /\ acl' \in [Acls -> AclRecs] /\ acl'[a] = r
      /\ \A b \in Acls : b # a => acl'[b] = acl[b]
  BY DEF LinkInv, LinkTypes
<1>2. \A b \in Acls :
        /\ acl'[b].life = acl[b].life /\ acl'[b].refs = acl[b].refs
        /\ acl'[b].handle = acl[b].handle /\ acl'[b].device = acl[b].device
        /\ acl'[b].incoming = acl[b].incoming
        /\ acl'[b].completed = acl[b].completed
        /\ acl'[b].requested = acl[b].requested
        /\ acl'[b].required = acl[b].required
        /\ \A i \in Places : acl'[b].clients[i] = acl[b].clients[i]
  BY <1>1 DEF Keeps
<1>3. /\ frame.chan # x /\ \A b : x \notin LiveChans(b)
  BY UnusedChan
<1>4. /\ \A b : LiveChans(b)' = LiveChans(b)
      /\ \A b : InTable(b)' = InTable(b)
  BY <1>1, <1>3 DEF LiveChans, InTable
<1>5. \A b, y : y \in LiveChans(b) =>
        Open(y)' = Open(y) /\ Waits(y)' = Waits(y)
  BY <1>1, <1>3 DEF LiveChans, Open, Waits
<1>6. LinkTypes'
  BY <1>1 DEF LinkInv, LinkTypes
<1>7. OnePlaceEach'
  BY <1>2 DEF LinkInv, OnePlaceEach
<1>8. HandleKnown'
  <2> SUFFICES ASSUME NEW b \in Acls, acl'[b].handle # INVALID
               PROVE  /\ InTable(b)' /\ link'[acl'[b].handle] # "down"
                      /\ \A e \in Acls : acl'[e].handle = acl'[b].handle => b = e
    BY DEF HandleKnown
  <2>1. acl'[b].handle = acl[b].handle /\ acl[b].handle \in Devices
    BY <1>2, AclFields DEF LinkInv
  <2>2. /\ InTable(b) /\ link[acl[b].handle] # "down"
        /\ \A e \in Acls : acl[e].handle = acl[b].handle => b = e
    BY <2>1 DEF LinkInv, HandleKnown
  <2> QED
    BY <1>2, <1>4, <2>1, <2>2
<1>9. LinkHasUser'
  BY <1>2, <1>4 DEF LinkInv, LinkHasUser
<1>10. FrameRuns'
  <2>1. chan'[x].life # "live"
    BY <1>1
  <2>2. /\ \A b \in Acls : InTable(b) => InTable(b)'
        /\ \A b \in Acls : acl[b].handle = INVALID => acl'[b].handle = INVALID
    BY <1>2, <1>4
  <2>3. UNCHANGED frame
    OBVIOUS
  <2> QED
    BY <1>1, <2>1, <2>2, <2>3, FrameStays
<1>11. WaitedFor'
  <2>1. ASSUME NEW b \in connecting \cup auth
        PROVE  InTable(b)' /\ \E y \in LiveChans(b)' : Waits(y)'
    <3>1. InTable(b) /\ \E y \in LiveChans(b) : Waits(y)
      BY DEF LinkInv, WaitedFor
    <3> QED
      BY <1>4, <1>5, <3>1
  <2>2. connecting \subseteq Acls /\ auth \subseteq Acls
    BY DEF LinkInv, LinkTypes
  <2>3. ASSUME NEW b \in connecting
        PROVE  /\ acl'[b].handle = INVALID /\ acl'[b].device # None
               /\ ~acl'[b].requested
               /\ \A y \in LiveChans(b)' : ~Open(y)'
               /\ ~(frame'.kind \in Guarded /\ frame'.acl = b)
    <3>1. /\ acl[b].handle = INVALID /\ acl[b].device # None
          /\ ~acl[b].requested
          /\ \A y \in LiveChans(b) : ~Open(y)
          /\ ~(frame.kind \in Guarded /\ frame.acl = b)
      BY <2>3 DEF LinkInv, WaitedFor
    <3>2. \A y \in LiveChans(b)' : ~Open(y)'
      BY <1>4, <1>5, <3>1
    <3> QED
      BY <1>2, <2>2, <2>3, <3>1, <3>2
  <2>4. \A b \in auth :
          /\ acl'[b].handle # INVALID
          /\ acl'[b].requested /\ ~acl'[b].completed
          /\ ~(frame'.kind \in Loops /\ frame'.acl = b)
    BY <1>2, <2>2 DEF LinkInv, WaitedFor
  <2>5. \A b \in Acls : /\ acl'[b].completed => acl'[b].requested
                        /\ acl'[b].requested => acl'[b].required
    BY <1>2 DEF LinkInv, WaitedFor
  <2> QED
    BY <2>1, <2>3, <2>4, <2>5 DEF WaitedFor
<1>12. ChanCounts'
  <2> SUFFICES ASSUME NEW y \in Chans
               PROVE  ChanOK(chan'[y], frame'.chan = y, frame'.drop)
    BY DEF ChanCounts
  <2>1. CASE y = x
    BY <1>1, <2>1 DEF ChanOK
  <2>2. CASE y # x
    BY <1>1, <2>2 DEF LinkInv, ChanCounts
  <2> QED BY <2>1, <2>2
<1>13. LostOnce'
  <2> SUFFICES ASSUME NEW y \in Chans, chan'[y].life = "live",
                      chan'[y].told = <<"made", "lost">>
               PROVE  LostOver(y)'
    BY DEF LostOnce
  <2>1. chan'[y] = chan[y]
    BY <1>1
  <2>2. LostOver(y)
    BY <2>1 DEF LinkInv, LostOnce
  <2>3. PICK b \in Acls : b = chan[y].acl
    BY <2>1, ChanFields DEF LinkInv, ChanCounts, ChanOK
  <2>4. acl'[b].handle = INVALID /\ chan'[y].acl = b
    BY <1>2, <2>1, <2>2, <2>3 DEF LostOver
  <2>5. CASE ~InTable(b)
    BY <1>4, <2>4, <2>5 DEF LostOver, InTable
  <2>6. CASE frame.kind = "disconnected" /\ frame.acl = b /\ Passing(y)
    <3>1. Passing(y)'
      BY <1>2, <2>1, <2>3, <2>6 DEF Passing, InCallback
    <3> QED
      BY <2>4, <2>6, <3>1 DEF LostOver
  <2> QED
    BY <2>2, <2>3, <2>5, <2>6 DEF LostOver
<1>14. RefsBalanced'
  <2>1. ASSUME NEW b \in Acls
        PROVE  /\ acl'[b].life # "none" => acl'[b].refs =
                    Cardinality(LiveChans(b)') + Looped(b)' + Own(b)'
               /\ acl'[b].life = "live" <=>
                    Cardinality(LiveChans(b)') + Looped(b)' + Own(b)' > 0
    <3>1. Looped(b)' = Looped(b) /\ Own(b)' = Own(b)
      BY <1>2, <1>4 DEF Looped, Own, One
    <3> QED
      BY <1>2, <1>4, <3>1, Balance
  <2> QED
    BY <2>1, BalanceNext
<1>15. NoDangling'
  <2>1. \A b \in Acls : InTable(b)' \/ b \in connecting' \cup auth' => acl'[b].life = "live"
    BY <1>2, <1>4 DEF LinkInv, NoDangling
  <2>2. ASSUME NEW y \in Chans, chan'[y].life = "live"
        PROVE  /\ acl'[chan'[y].acl].life = "live"
               /\ \E i \in Places : acl'[chan'[y].acl].clients[i] = y
    <3>1. chan'[y] = chan[y]
      BY <1>1, <2>2
    <3>2. PICK b \in Acls : b = chan[y].acl
      BY <2>2, <3>1, ChanFields DEF LinkInv, ChanCounts, ChanOK
    <3>3. acl[b].life = "live" /\ \E i \in Places : acl[b].clients[i] = y
      BY <2>2, <3>1, <3>2 DEF LinkInv, NoDangling
    <3> QED
      BY <1>2, <3>1, <3>2, <3>3
  <2>3. \A b \in Acls, i \in Places :
          acl'[b].clients[i] # None => acl'[b].clients[i] \in LiveChans(b)'
    BY <1>2, <1>4 DEF LinkInv, NoDangling
  <2>4. \A y \in Chans : chan'[y].held => chan'[y].life = "live"
    BY <1>12 DEF ChanCounts, ChanOK
  <2> QED
    BY <2>1, <2>2, <2>3, <2>4 DEF NoDangling, ReferenceKeeps
<1> QED
  BY <1>6, <1>7, <1>8, <1>9, <1>10, <1>11, <1>12, <1>13, <1>14, <1>15 DEF LinkInv

(* bte_acl_get_for_address returns one of the table.                       *)
LEMMA FoundInTable ==
  ASSUME LinkInv, NEW d, AclFor(d) # None
  PROVE  AclFor(d) \in Acls /\ InTable(AclFor(d))
<1>1. PICK S : S = {i \in Acls : table[i] # None /\ acl[table[i]].device = d}
  OBVIOUS
<1>2. S # {} /\ AclFor(d) = table[Lowest(S)]
  BY <1>1 DEF AclFor
<1>3. S \subseteq Nat
  BY <1>1, Bounds
<1>4. Lowest(S) \in S
  BY <1>2, <1>3, LowestIn
<1>5. Lowest(S) \in Acls
  BY <1>1, <1>4
<1> QED
  BY <1>2, <1>5 DEF InTable, LinkInv, LinkTypes

LEMMA Asked ==
  ASSUME NEW r \in AclRecs, NEW asks \in BOOLEAN
  PROVE  LET q == AskedFor(r, asks)
         IN /\ q \in AclRecs /\ q.life = r.life /\ q.refs = r.refs
            /\ q.handle = r.handle /\ q.device = r.device
            /\ q.incoming = r.incoming /\ q.completed = r.completed
            /\ q.clients = r.clients
            /\ q.requested = (r.requested \/ asks)
            /\ q.required = (r.required \/ asks)
<1>1. CASE asks
  <2>1. PICK t \in BOOLEAN : t = TRUE
    OBVIOUS
  <2>0. PICK b \in BOOLEAN : b = (r.blind \/ (~r.requested /\ r.handle = INVALID))
    OBVIOUS
  <2>2. AskedFor(r, asks) = [r EXCEPT !.required = t, !.requested = t,
                                      !.blind = b]
    BY <1>1, <2>0, <2>1 DEF AskedFor
  <2>3. PICK q : q = AskedFor(r, asks)
    OBVIOUS
  <2>4. /\ q \in AclRecs /\ q.life = r.life /\ q.refs = r.refs
        /\ q.handle = r.handle /\ q.device = r.device
        /\ q.incoming = r.incoming /\ q.completed = r.completed
        /\ q.clients = r.clients /\ q.requested = t /\ q.required = t
    BY <2>2, <2>3 DEF AclRecs
  <2> QED
    BY <1>1, <2>1, <2>3, <2>4
<1>2. CASE ~asks
  <2>1. AskedFor(r, asks) = r
    BY <1>2 DEF AskedFor
  <2>2. r.requested \in BOOLEAN /\ r.required \in BOOLEAN
    BY DEF AclRecs
  <2> QED
    BY <1>2, <2>1, <2>2
<1> QED
  BY <1>1, <1>2

(* The ACL with the reference of its new channel, and when it may be used. *)
Joins(a, asks, r) ==
  /\ r \in AclRecs /\ r.life = acl[a].life /\ r.refs = acl[a].refs + 1
  /\ r.handle = acl[a].handle /\ r.device = acl[a].device
  /\ r.incoming = acl[a].incoming /\ r.completed = acl[a].completed
  /\ r.clients = acl[a].clients
  /\ r.requested = (acl[a].requested \/ asks)
  /\ r.required = (acl[a].required \/ asks)
LEMMA JoinedAcl ==
  ASSUME LinkInv, NEW a \in Acls, NEW asks \in BOOLEAN, NEW r,
         r = [AskedFor(acl[a], asks) EXCEPT !.refs = @ + 1]
  PROVE  /\ Joins(a, asks, r)
         /\ MayRequest(r) => ~RequestsAuth(a, asks)
<1>1. acl[a] \in AclRecs /\ acl[a].refs \in Int
  BY DEF LinkInv, LinkTypes, AclRecs
<1>2. PICK q : q = AskedFor(acl[a], asks)
  OBVIOUS
<1>3. /\ q \in AclRecs /\ q.life = acl[a].life /\ q.refs = acl[a].refs
      /\ q.handle = acl[a].handle /\ q.device = acl[a].device
      /\ q.incoming = acl[a].incoming /\ q.completed = acl[a].completed
      /\ q.clients = acl[a].clients
      /\ q.requested = (acl[a].requested \/ asks)
      /\ q.required = (acl[a].required \/ asks)
  BY <1>1, <1>2, Asked
<1>4. PICK n \in Int : n = acl[a].refs + 1
  BY <1>1
<1>5. r = [q EXCEPT !.refs = n]
  BY <1>2, <1>3, <1>4
<1>6. /\ r \in AclRecs /\ r.life = q.life /\ r.refs = n
      /\ r.handle = q.handle /\ r.device = q.device
      /\ r.incoming = q.incoming /\ r.completed = q.completed
      /\ r.clients = q.clients /\ r.requested = q.requested
      /\ r.required = q.required
  BY <1>3, <1>5 DEF AclRecs
<1>7. Joins(a, asks, r)
  BY <1>3, <1>4, <1>6 DEF Joins
<1>8. ASSUME MayRequest(r), RequestsAuth(a, asks) PROVE FALSE
  <2>1. ~acl[a].requested /\ asks
    BY <1>8 DEF RequestsAuth
  <2>2. ~acl[a].completed
    BY <2>1 DEF LinkInv, WaitedFor
  <2>3. r.required /\ ~r.completed
    BY <1>3, <1>6, <2>1, <2>2
  <2> QED
    BY <1>8, <2>3 DEF MayRequest
<1> QED
  BY <1>7, <1>8

LEMMA JoinedInv ==
  ASSUME LinkInv, NEW x \in Chans, chan[x].life = "none", NEW a \in Acls,
         InTable(a), NEW asks \in BOOLEAN,
         Careful, RequestsAuth(a, asks) => Site(a) \in AuthSites,
         auth' = (IF RequestsAuth(a, asks) THEN auth \cup {a} ELSE auth),
         NEW s, Joins(a, asks, s), FreePlaces(s) # {},
         acl' = [acl EXCEPT ![a] = AddClient(s, x)],
         NEW c \in ChanRecs, chan' = [chan EXCEPT ![x] = c],
         c.life = "live", c.acl = a, c.refs = 1, c.held = FALSE, c.told = << >>,
         c.state = "CLOSED" \/ (c.state = "WAIT_CONNECT_RSP" /\ ~RequestsAuth(a, asks)),
         UNCHANGED <<table, link, connecting, frame>>
  PROVE  LinkInv'
<1>1. PICK r : r = AddClient(s, x)
  OBVIOUS
<1>2. /\ s \in AclRecs /\ s.refs = acl[a].refs + 1 /\ s.life = acl[a].life
      /\ s.handle = acl[a].handle /\ s.device = acl[a].device
      /\ s.incoming = acl[a].incoming /\ s.completed = acl[a].completed
      /\ s.clients = acl[a].clients
      /\ s.requested = (acl[a].requested \/ asks)
      /\ s.required = (acl[a].required \/ asks)
  BY DEF Joins
<1>3. PICK p \in Places :
        /\ s.clients[p] = None /\ r \in AclRecs
        /\ \A i \in Places : r.clients[i] = IF i = p THEN x ELSE s.clients[i]
        /\ r.life = s.life /\ r.refs = s.refs /\ r.handle = s.handle
        /\ r.device = s.device /\ r.incoming = s.incoming
        /\ r.required = s.required /\ r.requested = s.requested
        /\ r.completed = s.completed
  BY <1>1, <1>2, Placed
<1>4. acl[a].life = "live"
  BY DEF LinkInv, NoDangling
<1>5. /\ acl'[a] = r /\ \A b \in Acls : b # a => acl'[b] = acl[b]
      /\ chan'[x] = c /\ \A y \in Chans : y # x => chan'[y] = chan[y]
  BY <1>1 DEF LinkInv, LinkTypes
<1>6. frame.chan # x /\ UNCHANGED frame
  BY UnusedChan
<1>7. ChanOK(c, frame'.chan = x, frame'.drop)
  BY <1>6, Bounds DEF ChanOK, One
<1>8. \A b : InTable(b)' = InTable(b)
  BY DEF InTable
<1>9. c.state # "WAIT_CONFIG" /\ c.told # <<"made", "lost">>
  BY AnswersDiffer
<1>10. FrameRuns'
  <2>1. /\ chan'[x].state # "WAIT_CONFIG"
        /\ \A b \in Acls : InTable(b) => InTable(b)'
        /\ \A b \in Acls : acl[b].handle = INVALID => acl'[b].handle = INVALID
    BY <1>2, <1>3, <1>5, <1>8, <1>9
  <2> QED
    BY <1>5, <1>6, <2>1, FrameStays
<1>11. Takes(x, a, p, r)
  <2>1. Looped(a)' = Looped(a) /\ Own(a)' = Own(a)
    BY <1>2, <1>3, <1>5, <1>6, <1>8 DEF Looped, Own, One
  <2>2. /\ acl[a].refs = Cardinality(LiveChans(a)) + Looped(a) + Own(a)
        /\ Looped(a) \in {0, 1} /\ Own(a) \in {0, 1}
        /\ Cardinality(LiveChans(a)) \in Nat
    BY <1>4, Balance
  <2>3. r.refs = Cardinality(LiveChans(a)) + 1 + Looped(a)' + Own(a)'
    BY <1>2, <1>3, <2>1, <2>2
  <2>4. (r.completed => r.requested) /\ (r.requested => r.required)
    BY <1>2, <1>3 DEF LinkInv, WaitedFor
  <2> QED
    BY <1>2, <1>3, <1>4, <2>3, <2>4 DEF Takes
<1>12. Listed(a)
  BY <1>8 DEF Listed, LinkInv, LinkTypes, OnePlaceEach
<1>13. Serves(a, c, r)
  <2>1. CASE RequestsAuth(a, asks)
    <3>1. asks /\ ~acl[a].requested
      BY <2>1 DEF RequestsAuth
    <3>2. Site(a) = "linked"
      BY <2>1 DEF Careful
    <3>3. /\ acl[a].handle # INVALID
          /\ ~(frame.acl = a /\ frame.kind = "connected")
      BY <3>2 DEF Site
    <3>4. ~(frame.acl = a /\ frame.kind = "disconnected")
      BY <3>3 DEF LinkInv, FrameRuns
    <3>5. a \notin connecting /\ ~acl[a].completed
      BY <3>1, <3>3 DEF LinkInv, WaitedFor
    <3>6. c.state = "CLOSED"
      BY <2>1
    <3>7. ~(frame'.kind \in Loops /\ frame'.acl = a)
      BY <1>6, <3>3, <3>4 DEF Loops
    <3>8. r.handle # INVALID /\ r.requested /\ ~r.completed
      BY <1>2, <1>3, <3>1, <3>3, <3>5
    <3> QED
      BY <2>1, <3>5, <3>6, <3>7, <3>8 DEF Serves
  <2>2. CASE ~RequestsAuth(a, asks)
    <3>1. auth' = auth /\ connecting' = connecting
      BY <2>2
    <3>2. a \in connecting \cup auth => \E y \in LiveChans(a) : Waits(y)
      BY DEF LinkInv, WaitedFor
    <3>3. ASSUME a \in connecting
          PROVE  /\ r.handle = INVALID /\ r.device # None /\ ~r.requested
                 /\ \A y \in LiveChans(a) : ~Open(y)
                 /\ ~(frame'.kind \in Guarded /\ frame'.acl = a)
      <4>1. /\ acl[a].handle = INVALID /\ acl[a].device # None
            /\ ~acl[a].requested
            /\ \A y \in LiveChans(a) : ~Open(y)
            /\ ~(frame.kind \in Guarded /\ frame.acl = a)
        BY <3>3 DEF LinkInv, WaitedFor
      <4>2. ~asks
        BY <2>2, <4>1 DEF RequestsAuth
      <4> QED
        BY <1>2, <1>3, <1>6, <4>1, <4>2
    <3>4. ASSUME a \in auth
          PROVE  /\ r.handle # INVALID /\ r.requested /\ ~r.completed
                 /\ ~(frame'.kind \in Loops /\ frame'.acl = a)
      <4>1. /\ acl[a].handle # INVALID /\ acl[a].requested
            /\ ~acl[a].completed
            /\ ~(frame.kind \in Loops /\ frame.acl = a)
        BY <3>4 DEF LinkInv, WaitedFor
      <4> QED
        BY <1>2, <1>3, <1>6, <4>1
    <3> QED
      BY <1>9, <3>1, <3>2, <3>3, <3>4 DEF Serves
  <2> QED BY <2>1, <2>2
<1>14. Calls(x, a)
  BY <1>6 DEF Calls
<1>15. acl' = [acl EXCEPT ![a] = r] /\ UNCHANGED link
  BY <1>1
<1> QED
  BY <1>3, <1>7, <1>9, <1>10, <1>11, <1>12, <1>13, <1>14, <1>15, AddedInv

JoinedAs(e, x, a) == e = [Joined(x, a) EXCEPT !.late = Late(a)]
JoinedIs(e, a) ==
  /\ e \in ChanRecs /\ e.life = "live" /\ e.acl = a /\ e.refs = 1
  /\ e.told = << >> /\ e.held = FALSE /\ e.state = "CLOSED"
LEMMA JoinedChan ==
  ASSUME NEW x, NEW a \in Acls, NEW e, JoinedAs(e, x, a)
  PROVE  JoinedIs(e, a)
<1>1. PICK one \in Int : one = 1
  OBVIOUS
<1>2. PICK l \in BOOLEAN : l = Late(a)
  BY DEF Late
<1>3. e = [NewChan EXCEPT !.life = "live", !.acl = a, !.refs = one, !.late = l]
  <2>1. Joined(x, a) = [NewChan EXCEPT !.life = "live", !.acl = a, !.refs = one]
    BY <1>1 DEF Joined
  <2> QED
    BY <1>2, <2>1 DEF NewChan, JoinedAs
<1>4. e \in ChanRecs /\ e.life = "live" /\ e.acl = a /\ e.refs = one
  BY <1>3, NewRecords DEF ChanRecs, Lives
<1>5. e.held = FALSE /\ e.told = << >> /\ e.state = "CLOSED"
  BY <1>3 DEF NewChan
<1> QED
  BY <1>1, <1>4, <1>5 DEF JoinedIs

(* The request of a channel that was just made cannot be sent.             *)
LEMMA NotSentInv ==
  ASSUME LinkInv, NEW x \in Chans, chan[x].life = "none", NEW a \in Acls,
         InTable(a), NEW asks \in BOOLEAN,
         NEW s, Joins(a, asks, s), FreePlaces(s) # {},
         NEW acls, acls = [acl EXCEPT ![a] = AddClient(s, x)],
         ~RequestsAuth(a, asks),
         NEW e, JoinedAs(e, x, a),
         NEW chans, chans = Tell([chan EXCEPT ![x] = e], x, "failed"),
         DropChan(x, acls, chans),
         UNCHANGED <<connecting, auth, frame>>
  PROVE  LinkInv'
<1>1. /\ s \in AclRecs /\ s.refs = acl[a].refs + 1 /\ s.life = acl[a].life
      /\ s.handle = acl[a].handle /\ s.device = acl[a].device
      /\ s.incoming = acl[a].incoming /\ s.completed = acl[a].completed
      /\ s.clients = acl[a].clients
      /\ s.requested = (acl[a].requested \/ asks)
      /\ s.required = (acl[a].required \/ asks)
  BY DEF Joins
<1>2. PICK r : r = AddClient(s, x)
  OBVIOUS
<1>3. PICK p \in Places :
        /\ s.clients[p] = None /\ r \in AclRecs
        /\ \A i \in Places : r.clients[i] = IF i = p THEN x ELSE s.clients[i]
        /\ r.life = s.life /\ r.refs = s.refs /\ r.handle = s.handle
        /\ r.device = s.device /\ r.incoming = s.incoming
        /\ r.required = s.required /\ r.requested = s.requested
        /\ r.completed = s.completed
  BY <1>1, <1>2, Placed
<1>4. PICK one \in Int : one = 1
  OBVIOUS
<1>6. /\ e \in ChanRecs /\ e.acl = a /\ e.refs = 1 /\ e.told = << >> /\ e.held = FALSE
  <2>1. JoinedIs(e, a)
    BY JoinedChan
  <2> QED
    BY <2>1 DEF JoinedIs
<1>7. PICK f : f = [e EXCEPT !.told = <<"failed">>]
  OBVIOUS
<1>8. f \in ChanRecs /\ f.acl = a /\ f.refs = 1 /\ f.held = FALSE
  BY <1>6, <1>7 DEF ChanRecs, Answers
<1>9. chans = [chan EXCEPT ![x] = f]
  <2>1. [chan EXCEPT ![x] = e][x] = e
    BY DEF LinkInv, LinkTypes
  <2>2. chans = [[chan EXCEPT ![x] = e] EXCEPT ![x].told = Append(@, "failed")]
    BY DEF Tell
  <2>3. Append(e.told, "failed") = <<"failed">>
    BY <1>6, Appending
  <2> QED
    BY <1>7, <2>1, <2>2, <2>3 DEF LinkInv, LinkTypes
<1>10. /\ chans[x] = f /\ acls[a] = r /\ acls = [acl EXCEPT ![a] = r]
  BY <1>2, <1>9 DEF LinkInv, LinkTypes
<1>11. PICK left : left = RemoveClient(r, x)
  OBVIOUS
<1>12. PICK after : after = Unref(left, 1)
  OBVIOUS
<1>13. /\ chan' = [chans EXCEPT ![x].refs = 0, ![x].life = "freed"]
       /\ acl' = [acls EXCEPT ![a] = after]
       /\ table' = TableAfter(table, a, after)
       /\ link' \in IF IsUnused(left) THEN Close(left) ELSE {link}
  <2>1. chans[x].acl = a /\ ~(chans[x].refs > 1)
    BY <1>8, <1>10
  <2> QED
    BY <1>10, <1>11, <1>12, <2>1 DEF DropChan
<1>14. /\ left \in AclRecs /\ left.life = r.life /\ left.refs = r.refs
       /\ left.handle = r.handle /\ left.device = r.device
       /\ left.incoming = r.incoming /\ left.required = r.required
       /\ left.requested = r.requested /\ left.completed = r.completed
       /\ \A i \in Places : left.clients[i] =
            IF r.clients[i] = x THEN None ELSE r.clients[i]
  BY <1>3, <1>11, Removed
<1>15. acl[a].life = "live" /\ acl[a].refs \in Int /\ acl[a].refs > 0
  BY Balance, AclFields DEF LinkInv, NoDangling
<1>16. /\ after \in AclRecs /\ after.refs = left.refs - one
       /\ after.device = left.device /\ after.incoming = left.incoming
       /\ after.required = left.required /\ after.requested = left.requested
       /\ after.completed = left.completed /\ after.clients = left.clients
       /\ after.handle = IF left.refs = one THEN INVALID ELSE left.handle
       /\ after.life = IF left.refs = one THEN "freed" ELSE left.life
  BY <1>4, <1>12, <1>14, Unreffed
<1>17. left.refs # one /\ after.refs = acl[a].refs
  BY <1>1, <1>3, <1>4, <1>14, <1>15, <1>16
<1>18. Keeps(a, after)
  <2>1. \A i \in Places : acl[a].clients[i] # x
    BY UnusedChan
  <2>2. \A i \in Places : after.clients[i] = acl[a].clients[i]
    BY <1>1, <1>3, <1>14, <1>16, <2>1
  <2>3. /\ after.requested = acl[a].requested
        /\ after.required = acl[a].required
    <3>1. /\ acl[a].requested \in BOOLEAN /\ acl[a].required \in BOOLEAN
          /\ acl[a].requested => acl[a].required
      BY AclFields DEF LinkInv, WaitedFor
    <3>2. asks => acl[a].requested
      BY DEF RequestsAuth
    <3> QED
      BY <1>1, <1>3, <1>14, <1>16, <3>1, <3>2
  <2> QED
    BY <1>1, <1>3, <1>14, <1>16, <1>17, <2>2, <2>3 DEF Keeps
<1>19. table' = table /\ acl' = [acl EXCEPT ![a] = after]
  <2>1. after.life = "live"
    BY <1>15, <1>18 DEF Keeps
  <2> QED
    BY <1>10, <1>13, <2>1 DEF TableAfter, LinkInv, LinkTypes
<1>20. PICK c : c = [f EXCEPT !.held = FALSE, !.refs = 0, !.life = "freed"]
  OBVIOUS
<1>21. c \in ChanRecs /\ c.life = "freed" /\ c.held = FALSE
  BY <1>8, <1>20, FreedChan
<1>22. chan' = [chan EXCEPT ![x] = c]
  <2>1. c = [f EXCEPT !.refs = 0, !.life = "freed"]
    BY <1>8, <1>20 DEF ChanRecs
  <2> QED
    BY <1>9, <1>13, <2>1 DEF LinkInv, LinkTypes
<1>23. /\ link' \in [Devices -> LinkStates]
       /\ \A d \in Devices : /\ link'[d] = "up" => link[d] = "up"
                             /\ link'[d] = "down" => link[d] = "down"
  <2>1. link \in [Devices -> LinkStates]
    BY DEF LinkInv, LinkTypes
  <2>2. CASE IsUnused(left) /\ left.handle # INVALID
             /\ link[left.handle] \in Standing
    <3>1. PICK t \in {"closing", "abandoned"} :
            link' = [link EXCEPT ![left.handle] = t]
      BY <1>13, <2>2 DEF Close
    <3>2. left.handle \in Devices
      BY <1>14, <2>2 DEF AclRecs
    <3>3. \A d \in Devices : link'[d] = IF d = left.handle THEN t ELSE link[d]
      BY <2>1, <3>1, <3>2
    <3>4. link' \in [Devices -> LinkStates]
      BY <2>1, <3>1 DEF LinkStates
    <3> QED
      BY <3>3, <3>4
  <2>3. CASE ~(IsUnused(left) /\ left.handle # INVALID
               /\ link[left.handle] \in Standing)
    <3>1. link' = link
      BY <1>13, <2>3 DEF Close
    <3> QED
      BY <2>1, <3>1
  <2> QED BY <2>2, <2>3
<1>24. UNCHANGED <<table, connecting, auth, frame>>
  BY <1>19
<1> QED
  BY <1>16, <1>18, <1>19, <1>21, <1>22, <1>23, <1>24, RefusedInv

LEMMA JoinInv ==
  ASSUME Careful, LinkInv, NEW x \in Chans, FreshChan(x), NEW a \in Acls, InTable(a),
         NEW asks \in BOOLEAN, JoinAcl(x, a, asks)
  PROVE  LinkInv'
<1>1. PICK s : s = [AskedFor(acl[a], asks) EXCEPT !.refs = @ + 1]
  OBVIOUS
<1>2. PICK acls : acls = [acl EXCEPT ![a] = AddClient(s, x)]
  OBVIOUS
<1>3. PICK e : JoinedAs(e, x, a)
  BY Zenon DEF JoinedAs
<1>9. PICK made : made = [chan EXCEPT ![x] = e]
  OBVIOUS
<1>8. made = [chan EXCEPT ![x] = [Joined(x, a) EXCEPT !.late = Late(a)]]
  BY <1>3, <1>9, Zenon DEF JoinedAs
<1>4. /\ RequestsAuth(a, asks) => Site(a) \in AuthSites
      /\ auth' = IF RequestsAuth(a, asks) THEN auth \cup {a} ELSE auth
      /\ UNCHANGED <<connecting, frame>>
  BY DEF JoinAcl
<1>5. Joins(a, asks, s) /\ (MayRequest(s) => ~RequestsAuth(a, asks))
  BY <1>1, JoinedAcl
<1>6. chan[x].life = "none"
  BY DEF FreshChan
<1>7. FreePlaces(s) = FreePlaces(acl[a])
  BY <1>5 DEF Joins, FreePlaces
<1>10. /\ e \in ChanRecs /\ e.life = "live" /\ e.acl = a /\ e.refs = 1
       /\ e.told = << >> /\ e.held = FALSE /\ e.state = "CLOSED"
  <2>1. JoinedIs(e, a)
    BY <1>3, JoinedChan
  <2> QED
    BY <2>1 DEF JoinedIs
<1>11. CASE /\ FreePlaces(s) = {}
            /\ acl' = [acl EXCEPT ![a] = AskedFor(acl[a], asks)]
            /\ chan' = [chan EXCEPT ![x] = [NewChan EXCEPT !.life = "freed",
                                              !.acl = a, !.told = <<"failed">>]]
            /\ UNCHANGED <<table, link>>
  <2>1. Site(a) # "linked"
    BY <1>7, <1>11 DEF Site
  <2>2. ~RequestsAuth(a, asks)
    BY <1>4, <2>1 DEF Careful
  <2>3. PICK q : q = AskedFor(acl[a], asks)
    OBVIOUS
  <2>4. /\ q \in AclRecs /\ q.life = acl[a].life /\ q.refs = acl[a].refs
        /\ q.handle = acl[a].handle /\ q.device = acl[a].device
        /\ q.incoming = acl[a].incoming /\ q.completed = acl[a].completed
        /\ q.clients = acl[a].clients
        /\ q.requested = (acl[a].requested \/ asks)
        /\ q.required = (acl[a].required \/ asks)
    <3>1. acl[a] \in AclRecs
      BY DEF LinkInv, LinkTypes
    <3> QED
      BY <2>3, <3>1, Asked
  <2>5. q \in AclRecs /\ Keeps(a, q)
    <3>1. /\ acl[a].requested \in BOOLEAN /\ acl[a].required \in BOOLEAN
          /\ acl[a].requested => acl[a].required
      BY AclFields DEF LinkInv, WaitedFor
    <3>2. asks => acl[a].requested
      BY <2>2 DEF RequestsAuth
    <3> QED
      BY <2>4, <3>1, <3>2 DEF Keeps
  <2>6. PICK c : c = [NewChan EXCEPT !.life = "freed", !.acl = a,
                                     !.told = <<"failed">>]
    OBVIOUS
  <2>7. c \in ChanRecs /\ c.life = "freed" /\ c.held = FALSE
    <3>1. c \in ChanRecs /\ c.life = "freed"
      BY <2>6, NewRecords DEF ChanRecs, Lives, Answers
    <3>2. c.held = FALSE
      BY <2>6 DEF NewChan
    <3> QED
      BY <3>1, <3>2
  <2>8. chan' = [chan EXCEPT ![x] = c] /\ acl' = [acl EXCEPT ![a] = q]
    BY <1>11, <2>3, <2>6
  <2>9. /\ link' \in [Devices -> LinkStates]
        /\ \A d \in Devices : /\ link'[d] = "up" => link[d] = "up"
                              /\ link'[d] = "down" => link[d] = "down"
        /\ UNCHANGED <<table, connecting, auth, frame>>
    BY <1>4, <1>11, <2>2 DEF LinkInv, LinkTypes
  <2> QED
    BY <1>6, <2>5, <2>7, <2>8, <2>9, RefusedInv
<1>12. CASE /\ FreePlaces(s) # {} /\ ~MayRequest(s)
            /\ acl' = acls /\ chan' = made
            /\ UNCHANGED <<table, link>>
  <2>1. /\ acl' = [acl EXCEPT ![a] = AddClient(s, x)]
        /\ chan' = [chan EXCEPT ![x] = e]
        /\ UNCHANGED <<table, link, connecting, frame>>
    BY <1>2, <1>4, <1>9, <1>12
  <2> QED
    BY <1>4, <1>5, <1>6, <1>10, <1>12, <2>1, JoinedInv
<1>13. CASE /\ FreePlaces(s) # {} /\ MayRequest(s)
            /\ acl' = acls
            /\ chan' = [made EXCEPT ![x].state = "WAIT_CONNECT_RSP"]
            /\ UNCHANGED <<table, link>>
  <2>1. PICK c : c = [e EXCEPT !.state = "WAIT_CONNECT_RSP"]
    OBVIOUS
  <2>2. /\ c \in ChanRecs /\ c.life = "live" /\ c.acl = a /\ c.refs = 1
        /\ c.told = << >> /\ c.held = FALSE /\ c.state = "WAIT_CONNECT_RSP"
    BY <1>10, <2>1 DEF ChanRecs, ChanStates
  <2>3. chan' = [chan EXCEPT ![x] = c]
    BY <1>9, <1>13, <2>1 DEF LinkInv, LinkTypes
  <2>4. /\ acl' = [acl EXCEPT ![a] = AddClient(s, x)]
        /\ UNCHANGED <<table, link, connecting, frame>>
    BY <1>2, <1>4, <1>13
  <2>5. ~RequestsAuth(a, asks) /\ Joins(a, asks, s) /\ FreePlaces(s) # {}
    BY <1>5, <1>13
  <2> QED
    BY <1>4, <1>6, <2>2, <2>3, <2>4, <2>5, JoinedInv
<1>14. CASE /\ FreePlaces(s) # {} /\ MayRequest(s)
            /\ DropChan(x, acls, Tell(made, x, "failed"))
  <2>1. PICK chans : chans = Tell(made, x, "failed")
    OBVIOUS
  <2>2. chans = Tell([chan EXCEPT ![x] = e], x, "failed")
    BY <1>9, <2>1
  <2>3. DropChan(x, acls, chans)
    BY <1>14, <2>1
  <2>4. ~RequestsAuth(a, asks) /\ UNCHANGED <<connecting, auth, frame>>
    BY <1>4, <1>5, <1>14
  <2> QED
    BY <1>2, <1>3, <1>5, <1>6, <1>14, <2>2, <2>3, <2>4, NotSentInv
<1> QED
  BY <1>1, <1>2, <1>8, <1>11, <1>12, <1>13, <1>14 DEF JoinAcl

LEMMA OutgoingInv ==
  ASSUME Careful, LinkInv, NEW x \in Chans, NEW d \in Devices, NEW asks \in BOOLEAN,
         NewOutgoing(x, d, asks)
  PROVE  LinkInv'
<1>1. FreshChan(x)
  BY DEF NewOutgoing
<1>2. CASE AclFor(d) # None /\ JoinAcl(x, AclFor(d), asks)
  <2>1. AclFor(d) \in Acls /\ InTable(AclFor(d))
    BY <1>2, FoundInTable
  <2> QED
    BY <1>1, <1>2, <2>1, JoinInv
<1>3. CASE AclFor(d) = None /\ \E a \in Acls : NewLink(x, a, d, asks)
  BY <1>1, <1>3, NewLinkInv
<1> QED
  BY <1>2, <1>3 DEF NewOutgoing

-----------------------------------------------------------------------------
(* The invariant holds initially, and every step keeps it.                 *)
LEMMA InitInv ==
  ASSUME Init
  PROVE  LinkInv
<1>1. /\ \A a \in Acls : acl[a] = NewAcl
      /\ \A x \in Chans : chan[x] = NewChan
      /\ \A i \in Acls : table[i] = None
      /\ \A d \in Devices : link[d] = "down"
      /\ connecting = {} /\ auth = {} /\ frame = NoFrame
  BY DEF Init
<1>2. /\ NewAcl.life = "none" /\ NewAcl.handle = INVALID
      /\ NewAcl.completed = FALSE /\ NewAcl.requested = FALSE
      /\ NewChan.life = "none" /\ NewChan.held = FALSE
      /\ frame.kind = "none" /\ frame.chan = None /\ frame.drop = FALSE
  BY <1>1 DEF NewAcl, NewChan, NoFrame
<1>3. LinkTypes
  <2>1. 0 \in 0 .. MaxClients + 1
    BY Bounds
  <2>2. frame \in Frames
    BY <1>1, <2>1 DEF NoFrame, Frames
  <2>3. acl \in [Acls -> AclRecs] /\ chan \in [Chans -> ChanRecs]
    BY NewRecords DEF Init
  <2>4. /\ table \in [Acls -> Acls \cup {None}]
        /\ link \in [Devices -> LinkStates]
    BY DEF Init, LinkStates
  <2> QED
    BY <1>1, <2>2, <2>3, <2>4 DEF LinkTypes
<1>4. \A a \in Acls : ~InTable(a)
  BY <1>1, Bounds DEF InTable
<1>5. \A a : LiveChans(a) = {}
  BY <1>1, <1>2 DEF LiveChans
<1>6. OnePlaceEach
  BY <1>1, NewRecords DEF OnePlaceEach
<1>7. HandleKnown /\ LinkHasUser
  BY <1>1, <1>2 DEF HandleKnown, LinkHasUser
<1>8. FrameRuns
  BY <1>1, <1>2 DEF FrameRuns, FrameShape, InCallback, Guarded
<1>9. WaitedFor
  BY <1>1, <1>2 DEF WaitedFor
<1>10. ChanCounts
  <2> SUFFICES ASSUME NEW x \in Chans
               PROVE  ChanOK(chan[x], frame.chan = x, frame.drop)
    BY DEF ChanCounts
  <2>1. x # None
    BY Bounds
  <2> QED
    BY <1>1, <1>2, <2>1 DEF ChanOK
<1>11. LostOnce
  BY <1>1, <1>2 DEF LostOnce
<1>12. RefsBalanced
  <2> SUFFICES ASSUME NEW a \in Acls
               PROVE  LET looped == IF frame.kind \in Guarded /\ frame.acl = a
                                    THEN 1 ELSE 0
                          own == IF acl[a].incoming /\ InTable(a) THEN 1 ELSE 0
                          refs == Cardinality(LiveChans(a)) + looped + own
                      IN /\ acl[a].life # "none" => acl[a].refs = refs
                         /\ acl[a].life = "live" <=> refs > 0
    BY DEF RefsBalanced
  <2>1. Cardinality(LiveChans(a)) = 0
    BY <1>5, NoneLive
  <2>2. ~(frame.kind \in Guarded /\ frame.acl = a) /\ ~(acl[a].incoming /\ InTable(a))
    BY <1>2, <1>4 DEF Guarded
  <2>3. acl[a].life = "none"
    BY <1>1, <1>2
  <2> QED
    BY <2>1, <2>2, <2>3
<1>13. NoDangling
  BY <1>1, <1>2, <1>4, NewRecords DEF NoDangling, ReferenceKeeps
<1> QED
  BY <1>3, <1>6, <1>7, <1>8, <1>9, <1>10, <1>11, <1>12, <1>13 DEF LinkInv

LEMMA StutterInv ==
  ASSUME LinkInv, UNCHANGED vars
  PROVE  LinkInv'
<1>1. UNCHANGED <<acl, table, chan, link, connecting, auth, frame>>
  BY DEF vars
<1>2. /\ \A a : LiveChans(a)' = LiveChans(a)
      /\ \A a : InTable(a)' = InTable(a)
      /\ InCallback' = InCallback
      /\ \A x : Open(x)' = Open(x) /\ Waits(x)' = Waits(x)
  BY <1>1 DEF LiveChans, InTable, InCallback, Open, Waits
<1>3. \A x : LostOver(x)' = LostOver(x)
  BY <1>1 DEF LostOver, Passing, InTable, InCallback
<1>4. LinkTypes' /\ OnePlaceEach' /\ HandleKnown' /\ LinkHasUser'
  BY <1>1, <1>2 DEF LinkInv, LinkTypes, OnePlaceEach, HandleKnown, LinkHasUser
<1>5. FrameRuns' /\ WaitedFor' /\ ChanCounts' /\ LostOnce'
  BY <1>1, <1>2, <1>3
  DEF LinkInv, FrameRuns, FrameShape, InCallback, LiveChans, InTable, Open,
      WaitedFor, ChanCounts, LostOnce
<1>6. RefsBalanced' /\ NoDangling'
  BY <1>1, <1>2 DEF LinkInv, RefsBalanced, NoDangling, ReferenceKeeps
<1> QED
  BY <1>4, <1>5, <1>6 DEF LinkInv

LEMMA NextInv ==
  ASSUME Careful, LinkInv, [Next]_vars
  PROVE  LinkInv'
<1>1. ASSUME NEW x \in Chans, NEW d \in Devices, NEW asks \in BOOLEAN,
             NewOutgoing(x, d, asks)
      PROVE  LinkInv'
  BY <1>1, OutgoingInv
<1>2. ASSUME NEW x \in Chans, AppUnref(x) PROVE LinkInv'
  BY <1>2, AppUnrefInv
<1>3. ASSUME NEW x \in Chans, NEW result \in Results, PeerAnswers(x, result)
      PROVE  LinkInv'
  BY <1>3, AnswersInv
<1>4. ASSUME NEW x \in Chans, NEW a \in Acls, PeerOpens(x, a) PROVE LinkInv'
  BY <1>4, PeerOpensInv
<1>5. CASE TakeRef
  BY <1>5, TakeRefInv
<1>6. CASE LoopSkips
  BY <1>6, SkipInv
<1>7. CASE LoopRequests
  BY <1>7, RequestsInv
<1>8. CASE LoopFails
  BY <1>8, FailsInv
<1>9. CASE LoopDisconnects
  BY <1>9, DisconnectsInv
<1>10. CASE CallbackReturns
  BY <1>10, ReturnsInv
<1>11. CASE LoopEnds
  BY <1>11, EndsInv
<1>12. ASSUME NEW a \in Acls, ConnectFails(a) PROVE LinkInv'
  BY <1>12, ConnectFailsInv
<1>13. ASSUME NEW a \in Acls, Connected(a) PROVE LinkInv'
  BY <1>13, ConnectedInv
<1>14. ASSUME NEW a \in Acls, NEW ok \in BOOLEAN, AuthComplete(a, ok) PROVE LinkInv'
  BY <1>14, AuthCompleteInv
<1>15. ASSUME NEW d \in Devices, Disconnection(d) PROVE LinkInv'
  BY <1>15, DisconnectionInv
<1>16. ASSUME NEW a \in Acls, NEW d \in Devices, Incoming(a, d) PROVE LinkInv'
  BY <1>16, IncomingInv
<1>17. CASE UNCHANGED vars
  BY <1>17, StutterInv
<1> QED
  BY <1>1, <1>2, <1>3, <1>4, <1>5, <1>6, <1>7, <1>8, <1>9, <1>10, <1>11, <1>12,
     <1>13, <1>14, <1>15, <1>16, <1>17
  DEF Next, Library, Controller

LEMMA LinkInvariance ==
  ASSUME Careful
  PROVE  Spec => []LinkInv
<1>1. Init => LinkInv
  BY InitInv
<1>2. LinkInv /\ [Next]_vars => LinkInv'
  BY NextInv
<1> QED
  BY <1>1, <1>2, PTL DEF Spec

-----------------------------------------------------------------------------
(* The theorems.                                                           *)

(* bte_acl_ref and bte_acl_unref balance: in every state an ACL has as     *)
(* many references as there are channels on it, loops over it and reasons  *)
(* of its own to live, and it is freed with the last one.  The hypothesis  *)
(* is that applications are Careful about authentication.                  *)
THEOREM ReferencesBalance ==
  ASSUME Careful
  PROVE  Spec => []RefsBalanced
<1>1. LinkInv => RefsBalanced
  BY DEF LinkInv
<1> QED
  BY <1>1, LinkInvariance, PTL

(* dev->acls, the clients of an ACL, the ACL of a channel, the userdata of *)
(* a command and the application's references all point to live objects,   *)
(* also when applications ask for channels and drop them in the callbacks  *)
(* of bte_acl_disconnected and acl_connected_cb, as long as they are       *)
(* Careful about authentication.  Without that hypothesis it is false.     *)
THEOREM NothingDangles ==
  ASSUME Careful
  PROVE  Spec => []NoDangling
<1>1. LinkInv => NoDangling
  BY DEF LinkInv
<1> QED
  BY <1>1, LinkInvariance, PTL

(* A link that is up is closed or has an ACL in dev->acls with a user:     *)
(* bte_l2cap_unref and bte_acl_unref leave no link behind, but for one     *)
(* whose closing could not be sent, when applications are Careful.         *)
THEOREM LinksHaveUsers ==
  ASSUME Careful
  PROVE  Spec => []LinkHasUser
<1>1. LinkInv => LinkHasUser
  BY DEF LinkInv
<1> QED
  BY <1>1, LinkInvariance, PTL

(* A channel's callback is told once whether it was made, and at most once *)
(* after that of the loss of its link, by l2cap_disconnect_cb, when        *)
(* applications are Careful.                                               *)
THEOREM EachAnsweredOnce ==
  ASSUME Careful
  PROVE  Spec => []AnsweredOnce
<1>1. LinkInv => AnsweredOnce
  <2> SUFFICES ASSUME LinkInv, NEW x \in Chans
               PROVE  chan[x].told \in {<< >>, <<"made">>, <<"failed">>,
                                        <<"made", "lost">>}
    BY DEF AnsweredOnce
  <2> QED
    BY ChanFields DEF LinkInv, Answers
<1> QED
  BY <1>1, LinkInvariance, PTL
=============================================================================

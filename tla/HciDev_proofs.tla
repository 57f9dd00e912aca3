--------------------------- MODULE HciDev_proofs ---------------------------
(***************************************************************************)
(* Proofs about HciDev, for any number of clients, peers, entries and      *)
(* requests, as long as no callback removes the entry it was called for    *)
(* (CallbackMay = {}): the types; that the table of pending commands, its  *)
(* count and its owners stay consistent; that no callback comes after the  *)
(* end of a request; and, when requests do not overlap, that answers reach *)
(* their requester and that silence means a full table.                    *)
(***************************************************************************)
EXTENDS HciDev, FiniteSetTheorems, WellFoundedInduction, TLAPS

-----------------------------------------------------------------------------
(* Matchers.                                                               *)

(* No matcher is the empty one that marks a free entry.                    *)
LEMMA MatcherNotEmpty == \A m \in Matchers : m # NoMatcher
<1>1. \A op \in AsyncOps : EventOf(op) # "none"
  BY OpsAssumption DEF EventOf, AsyncNames, ConnOps, ReadOps, PlainOps
<1>2. \A ev \in Events : ev # "none"
  BY <1>1, OpsAssumption DEF Events, Garbage
<1> QED
  BY <1>2 DEF Matchers, NoMatcher, Matcher

(* The first answer of every command is an event that can be matched.      *)
LEMMA ReplyType == \A op \in Ops : ReplyTo(op) \in Matchers
  BY DEF ReplyTo, Ops, Matchers, Matcher, Events, Keys

(* And so is the event that ends an asynchronous command.                  *)
LEMMA FinalType ==
  \A op \in AsyncOps, p \in Peers : FinalEvent(op, p) \in Matchers
  BY DEF FinalEvent, Matchers, Matcher, Events, Keys

(* And the one a status callback builds from the union.                    *)
LEMMA EventMatcherType ==
  ASSUME TypeOK, NEW op \in AsyncOps, NEW c \in Clients
  PROVE  EventMatcher(op, c) \in Matchers
<1>1. tmpdata[c] \in Tmpdata
  BY DEF TypeOK
<1>2. CASE op = "inquiry"
  <2>1. EventOf(op) = "INQUIRY_COMPLETE"
    BY <1>2 DEF EventOf
  <2>2. "INQUIRY_COMPLETE" \in Events
    BY <2>1 DEF Events
  <2> QED
    BY <1>2, <2>2 DEF EventMatcher, Matchers, Matcher, Keys
<1>3. CASE op # "inquiry" /\ op \in ReadOps
  BY <1>1, <1>3 DEF EventMatcher, Tmpdata
<1>4. CASE op # "inquiry" /\ op \notin ReadOps
  <2>1. EventOf(op) \in Events
    BY DEF Events
  <2>2. tmpdata[c].addr \in Keys
    BY <1>1 DEF Tmpdata, Keys
  <2>3. EventMatcher(op, c) = Matcher(EventOf(op), tmpdata[c].addr)
    BY <1>4 DEF EventMatcher
  <2> QED
    BY <2>1, <2>2, <2>3 DEF Matchers, Matcher
<1> QED
  BY <1>2, <1>3, <1>4

-----------------------------------------------------------------------------
(* The table and its count.                                                *)
TableOK ==
  /\ pending_commands \in [Slots -> Entries]
  /\ num_pending_commands \in Nat /\ num_pending_commands < 65536
  /\ CountMatchesTable

(* A set of entries is finite, and its size fits the uint16_t count.       *)
LEMMA SlotSets ==
  ASSUME NEW S \in SUBSET Slots
  PROVE  /\ IsFiniteSet(S)
         /\ Cardinality(S) \in Nat /\ Cardinality(S) <= MaxPending
         /\ Count(Cardinality(S)) = Cardinality(S)
<1>1. IsFiniteSet(Slots) /\ Cardinality(Slots) = MaxPending
  BY FS_Interval, SizeAssumption DEF Slots
<1>2. IsFiniteSet(S) /\ Cardinality(S) <= MaxPending
  BY <1>1, FS_Subset
<1>3. Cardinality(S) \in Nat
  BY <1>2, FS_CardinalityType
<1> QED
  BY <1>2, <1>3, SizeAssumption DEF Count

(* alloc_command hands out free entries only.                              *)
LEMMA AllocFree ==
  ASSUME TableOK, NEW m, NEW i \in Alloc(m)
  PROVE  i \in Slots /\ i \notin Used
<1>1. Used \in SUBSET Slots
  BY DEF Used
<1>2. CASE num_pending_commands = 0
  <2>1. Used = {}
    <3>1. IsFiniteSet(Used)
      BY <1>1, SlotSets
    <3>2. Cardinality(Used) = 0
      BY <1>2 DEF TableOK, CountMatchesTable
    <3> QED
      BY <3>1, <3>2, FS_EmptySet
  <2> QED
    BY <1>2, <2>1, SizeAssumption DEF Alloc, Slots
<1>3. CASE num_pending_commands # 0
  BY <1>3 DEF Alloc, Used
<1> QED
  BY <1>2, <1>3

(* Taking an entry.                                                        *)
LEMMA Adding ==
  ASSUME TableOK, NEW i \in Slots, i \notin Used,
         NEW e \in Entries, ~IsEmpty(e), AddEntry(i, e)
  PROVE  TableOK' /\ Used' = Used \cup {i}
<1>1. pending_commands' \in [Slots -> Entries]
  BY DEF TableOK, AddEntry
<1>2. Used' = Used \cup {i}
  BY DEF TableOK, AddEntry, Used
<1>3. Used \in SUBSET Slots /\ Used' \in SUBSET Slots
  BY DEF Used
<1>4. Cardinality(Used') = Cardinality(Used) + 1
  BY <1>2, <1>3, SlotSets, FS_AddElement
<1>5. num_pending_commands' = Cardinality(Used')
  BY <1>3, <1>4, SlotSets DEF AddEntry, TableOK, CountMatchesTable
<1>6. Cardinality(Used') \in Nat /\ Cardinality(Used') < 65536
  BY <1>3, SlotSets, SizeAssumption
<1> QED
  BY <1>1, <1>2, <1>5, <1>6 DEF TableOK, CountMatchesTable

(* Releasing one.                                                          *)
LEMMA Freeing ==
  ASSUME TableOK, NEW i \in Used, FreeEntry(i)
  PROVE  TableOK' /\ Used' = Used \ {i}
<1>0. EmptyEntry \in Entries /\ IsEmpty(EmptyEntry)
  BY DEF EmptyEntry, Entry, Entries, IsEmpty
<1>1. pending_commands' \in [Slots -> Entries]
  <2>1. i \in Slots
    BY DEF Used
  <2> QED
    BY <1>0, <2>1 DEF TableOK, FreeEntry
<1>2. Used' = Used \ {i}
  BY <1>0 DEF TableOK, FreeEntry, Used
<1>3. Used \in SUBSET Slots /\ Used' \in SUBSET Slots
  BY DEF Used
<1>4. Cardinality(Used') = Cardinality(Used) - 1
  BY <1>2, <1>3, SlotSets, FS_RemoveElement
<1>5. num_pending_commands' = Cardinality(Used')
  BY <1>3, <1>4, SlotSets DEF FreeEntry, TableOK, CountMatchesTable
<1>6. Cardinality(Used') \in Nat /\ Cardinality(Used') < 65536
  BY <1>3, SlotSets, SizeAssumption
<1> QED
  BY <1>1, <1>2, <1>5, <1>6 DEF TableOK, CountMatchesTable

(* Taking one for the final event and releasing that of the command.       *)
LEMMA Replacing ==
  ASSUME TableOK, NEW i \in Used, NEW j \in Slots, j \notin Used,
         NEW e \in Entries, ~IsEmpty(e), ReplaceEntry(i, j, e)
  PROVE  TableOK' /\ Used' = (Used \cup {j}) \ {i}
<1>0. EmptyEntry \in Entries /\ IsEmpty(EmptyEntry)
  BY DEF EmptyEntry, Entry, Entries, IsEmpty
<1>1. pending_commands' \in [Slots -> Entries]
  <2>1. i \in Slots
    BY DEF Used
  <2> QED
    BY <1>0, <2>1 DEF TableOK, ReplaceEntry
<1>2. Used' = (Used \cup {j}) \ {i}
  BY <1>0 DEF TableOK, ReplaceEntry, Used
<1>3. /\ Used \in SUBSET Slots /\ Used' \in SUBSET Slots
      /\ Used \cup {j} \in SUBSET Slots
  BY DEF Used
<1>4. Cardinality(Used \cup {j}) = Cardinality(Used) + 1
  BY <1>3, SlotSets, FS_AddElement
<1>5. Cardinality(Used') = Cardinality(Used \cup {j}) - 1
  BY <1>2, <1>3, SlotSets, FS_RemoveElement
<1>6. Cardinality(Used') = Cardinality(Used)
  BY <1>3, <1>4, <1>5, SlotSets
<1>7. num_pending_commands' = Cardinality(Used')
  BY <1>3, <1>6, SlotSets DEF ReplaceEntry, TableOK, CountMatchesTable
<1>8. Cardinality(Used') \in Nat /\ Cardinality(Used') < 65536
  BY <1>3, SlotSets, SizeAssumption
<1> QED
  BY <1>1, <1>2, <1>7, <1>8 DEF TableOK, CountMatchesTable

(* Releasing all those of a client.                                        *)
LEMMA Disposing ==
  ASSUME TableOK, NEW c, DisposeEntries(c)
  PROVE  TableOK' /\ Used' = Used \ OwnedBy(c)
<1>0. EmptyEntry \in Entries /\ IsEmpty(EmptyEntry)
  BY DEF EmptyEntry, Entry, Entries, IsEmpty
<1>1. pending_commands' \in [Slots -> Entries]
  BY <1>0 DEF TableOK, DisposeEntries
<1>2. Used' = Used \ OwnedBy(c)
  BY <1>0 DEF TableOK, DisposeEntries, Used, OwnedBy
<1>3. /\ Used \in SUBSET Slots /\ Used' \in SUBSET Slots
      /\ OwnedBy(c) \in SUBSET Slots /\ OwnedBy(c) \subseteq Used
  BY DEF Used, OwnedBy
<1>4. Cardinality(Used') = Cardinality(Used) - Cardinality(OwnedBy(c))
  <2>1. Used = OwnedBy(c) \cup Used' /\ OwnedBy(c) \cap Used' = {}
    BY <1>2, <1>3
  <2>2. /\ IsFiniteSet(Used') /\ Cardinality(Used') \in Nat
        /\ IsFiniteSet(OwnedBy(c)) /\ Cardinality(OwnedBy(c)) \in Nat
    BY <1>3, SlotSets
  <2>3. Cardinality(OwnedBy(c) \cup Used') =
          Cardinality(OwnedBy(c)) + Cardinality(Used')
            - Cardinality(OwnedBy(c) \cap Used')
    BY <2>2, FS_Union
  <2>4. Cardinality(OwnedBy(c) \cap Used') = 0
    BY <2>1, FS_EmptySet
  <2>5. Cardinality(Used) = Cardinality(OwnedBy(c) \cup Used')
    BY <2>1
  <2> QED
    BY <2>2, <2>3, <2>4, <2>5
<1>5. num_pending_commands' = Cardinality(Used')
  BY <1>3, <1>4, SlotSets DEF DisposeEntries, TableOK, CountMatchesTable
<1>6. Cardinality(Used') \in Nat /\ Cardinality(Used') < 65536
  BY <1>3, SlotSets, SizeAssumption
<1> QED
  BY <1>1, <1>2, <1>5, <1>6 DEF TableOK, CountMatchesTable
-----------------------------------------------------------------------------
(* The inductive invariant.  The count needs the entry of a running        *)
(* callback to be still there when it is freed (HeldEntryStays); that      *)
(* needs the owners of the entries to be live; and a listener's callback   *)
(* has a client to be called for because the library's own entries wait    *)
(* for answers to commands only.                                           *)
LibraryEntries ==
  \A i \in Used :
    pending_commands[i].hci = NoClient
      => pending_commands[i].matcher.ev \in {"COMMAND_COMPLETE", "COMMAND_STATUS"}
Others ==
  /\ tmpdata \in [Clients -> Tmpdata]
  /\ clients \subseteq Clients
  /\ frame \in Frames \cup {NoFrame}
  /\ reqs \in [Requests -> [phase : Phases, hci : Clients \cup {NoClient}]]
  /\ next \in 1 .. MaxRequests + 1
  /\ ctl \subseteq Commands
  /\ running \subseteq [req : Requests, event : Matchers]
  /\ call \in Calls \cup {NoCall}
IInv == TypeOK /\ CountMatchesTable /\ OwnersAlive /\ HeldEntryStays
          /\ LibraryEntries

(* The table part and the rest of the types together are TypeOK.           *)
LEMMA Split == TypeOK /\ CountMatchesTable <=> TableOK /\ Others
  BY DEF TypeOK, TableOK, Others

(* The initial states.                                                     *)
LEMMA InitInv == Init => IInv
<1> SUFFICES ASSUME Init PROVE IInv
  OBVIOUS
<1>1. EmptyEntry \in Entries /\ IsEmpty(EmptyEntry)
  BY DEF EmptyEntry, Entry, Entries, IsEmpty
<1>2. Used = {}
  BY <1>1 DEF Init, Used
<1>3. ZeroTmpdata \in Tmpdata
  BY DEF ZeroTmpdata, Tmpdata, GarbageConn, Matchers, Matcher, Events, Keys
<1>4. TypeOK
  BY <1>1, <1>3, SizeAssumption
     DEF Init, TypeOK, Requests, Phases
<1>5. CountMatchesTable
  BY <1>2, FS_EmptySet DEF Init, CountMatchesTable
<1> QED
  BY <1>2, <1>4, <1>5
     DEF Init, IInv, OwnersAlive, HeldEntryStays, LibraryEntries

(* What the entry found for an event is.                                   *)
LEMMA Found ==
  ASSUME IInv, NEW m \in Matchers, NEW i \in Find(m)
  PROVE  /\ i \in Used /\ i \in Slots
         /\ pending_commands[i] \in Entries
         /\ pending_commands[i].matcher = m
         /\ pending_commands[i].hci \in clients \cup {NoClient}
         /\ pending_commands[i].hci # NoClient
              => pending_commands[i].hci \in Clients
<1>1. i \in Slots /\ pending_commands[i].matcher = m
  BY DEF Find
<1>2. i \in Used
  BY <1>1, MatcherNotEmpty DEF Used, IsEmpty
<1> QED
  BY <1>1, <1>2 DEF IInv, TypeOK, OwnersAlive

(* A callback is made for a live client.                                   *)
LEMMA CallType ==
  ASSUME NEW c \in Clients \cup {NoClient}, clients \subseteq Clients,
         c \in clients \cup {NoClient},
         NEW to \in Requests \cup {NoReq}, NEW cb \in Requests \cup {NoReq},
         NEW of \in Requests \cup {NoReq}, Calling(c, to, cb, of)
  PROVE  /\ call' \in Calls \cup {NoCall}
         /\ call' # NoCall => call'.hci \in clients
  BY DEF Calling, Calls, NoCall

(* What a request's progress may be.                                       *)
LEMMA PhaseType ==
  ASSUME reqs \in [Requests -> [phase : Phases, hci : Clients \cup {NoClient}]],
         NEW r, NEW ph \in Phases, Waits(r) \/ Ends(r, ph)
  PROVE  reqs' \in [Requests -> [phase : Phases, hci : Clients \cup {NoClient}]]
<1>1. CASE Waits(r)
  BY <1>1 DEF Waits, Phases
<1>2. CASE Ends(r, ph)
  BY <1>2 DEF Ends
<1> QED
  BY <1>1, <1>2

-----------------------------------------------------------------------------
(* One lemma per action.                                                   *)

(* Sending a command, by a client or by the library.                       *)
LEMMA AddCommandInv ==
  ASSUME IInv, NEW c \in clients \cup {NoClient}, NEW op \in Ops,
         NEW p \in Peers, NEW scb \in BOOLEAN, AddCommand(c, op, p, scb)
  PROVE  IInv'
<1>0. /\ TableOK /\ Others
      /\ c \in Clients \cup {NoClient}
      /\ next \in Requests
      /\ NoReq \in Requests \cup {NoReq}
  BY Split, SizeAssumption DEF IInv, Others, AddCommand, Requests
<1>1. CASE Refused(c, scb)
  <2>1. /\ call' \in Calls \cup {NoCall}
        /\ call' # NoCall => call'.hci \in clients
    BY <1>0, <1>1, CallType DEF Refused, Others
  <2>2. reqs' \in [Requests -> [phase : Phases, hci : Clients \cup {NoClient}]]
    BY <1>0, <1>1 DEF Refused, Others, Phases
  <2>3. /\ UNCHANGED <<pending_commands, num_pending_commands, tmpdata, ctl,
                        running, clients, frame>>
        /\ next' \in 1 .. MaxRequests + 1
    BY <1>0, <1>1, SizeAssumption DEF Refused, AddCommand, table, world, Requests
  <2>4. Used' = Used
    BY <2>3 DEF Used
  <2> QED
    BY <2>1, <2>2, <2>3, <2>4
       DEF IInv, TypeOK, CountMatchesTable, OwnersAlive, HeldEntryStays,
           LibraryEntries
<1>2. ASSUME NEW i \in Alloc(ReplyTo(op)), Accepted(c, op, p, scb, i)
      PROVE  IInv'
  <2> DEFINE e == Entry(ReplyTo(op), c, next, next, scb)
  <2>1. e \in Entries /\ ~IsEmpty(e) /\ e.hci = c /\ e.matcher = ReplyTo(op)
    BY <1>0, ReplyType, MatcherNotEmpty DEF Entry, Entries, IsEmpty
  <2>2. i \in Slots /\ i \notin Used
    BY <1>0, AllocFree
  <2>3. AddEntry(i, e)
    BY <1>2 DEF Accepted
  <2>4. TableOK' /\ Used' = Used \cup {i}
    BY <1>0, <2>1, <2>2, <2>3, Adding
  <2>5. /\ pending_commands'[i] = e
        /\ \A j \in Used : pending_commands'[j] = pending_commands[j]
    BY <1>0, <2>2, <2>3 DEF AddEntry, TableOK, Used
  <2>6. tmpdata' \in [Clients -> Tmpdata]
    <3>1. /\ [cb |-> next, addr |-> p, conn |-> GarbageConn] \in Tmpdata
          /\ op \in ReadOps \cap AsyncOps =>
               [cb |-> next, addr |-> Garbage, conn |-> FinalEvent(op, p)]
                 \in Tmpdata
      BY <1>0, FinalType DEF Tmpdata, GarbageConn, Matchers, Matcher, Events, Keys
    <3>2. \A x \in Clients : [tmpdata[x] EXCEPT !.cb = next] \in Tmpdata
      BY <1>0 DEF Others, Tmpdata
    <3>3. SaveTmpdata(c, op, p)
      BY <1>2 DEF Accepted
    <3>4. CASE op \in AsyncOps
      BY <1>0, <3>1, <3>2, <3>3, <3>4 DEF SaveTmpdata, Others
    <3>5. CASE op \in SyncOps
      BY <1>0, <3>3, <3>5, OpsAssumption DEF SaveTmpdata, AsyncNames, Others
    <3> QED
      BY <3>4, <3>5 DEF Ops
  <2>7. reqs' \in [Requests -> [phase : Phases, hci : Clients \cup {NoClient}]]
    BY <1>0, <1>2 DEF Accepted, Others, Phases
  <2>8. ctl' \subseteq Commands
    <3>1. [req |-> next, op |-> op, peer |-> p, hci |-> c] \in Commands
      BY <1>0 DEF Commands
    <3> QED
      BY <1>0, <1>2, <3>1 DEF Accepted, Others
  <2>9. /\ UNCHANGED <<running, clients, frame>> /\ call' = NoCall
        /\ next' \in 1 .. MaxRequests + 1
    BY <1>0, <1>2, SizeAssumption DEF Accepted, AddCommand, Requests
  <2>10. Others'
    BY <1>0, <2>6, <2>7, <2>8, <2>9 DEF Others
  <2>11. OwnersAlive' /\ LibraryEntries'
    BY <2>1, <2>4, <2>5, <2>9
       DEF IInv, OwnersAlive, LibraryEntries, ReplyTo, Matcher
  <2>12. HeldEntryStays'
    BY <2>4, <2>5, <2>9 DEF IInv, HeldEntryStays
  <2> QED
    BY <2>4, <2>10, <2>11, <2>12, Split DEF IInv, TypeOK, TableOK, Others
<1> QED
  BY <1>1, <1>2 DEF AddCommand

(* Freeing an entry when no callback is left that holds one.               *)
LEMMA AfterFree ==
  ASSUME IInv, NEW i \in Used, FreeEntry(i), frame' = NoFrame,
         clients' = clients, Others',
         call' # NoCall => call'.hci \in clients
  PROVE  IInv'
<1>1. TableOK /\ i \in Slots
  BY Split DEF IInv, Used
<1>2. TableOK' /\ Used' = Used \ {i}
  BY <1>1, Freeing
<1>3. \A j \in Used' : pending_commands'[j] = pending_commands[j]
  BY <1>1, <1>2 DEF FreeEntry, TableOK, Used
<1>4. OwnersAlive' /\ LibraryEntries' /\ HeldEntryStays'
  BY <1>2, <1>3 DEF IInv, OwnersAlive, LibraryEntries, HeldEntryStays
<1> QED
  BY <1>2, <1>4 DEF IInv, TypeOK, TableOK, Others

(* No entry changes.                                                       *)
LEMMA AfterNoChange ==
  ASSUME IInv, UNCHANGED table, UNCHANGED clients, Others', HeldEntryStays',
         call' # NoCall => call'.hci \in clients
  PROVE  IInv'
<1>1. TableOK
  BY Split DEF IInv
<1>2. UNCHANGED <<pending_commands, num_pending_commands>> /\ Used' = Used
  BY DEF table, Used
<1>3. TableOK'
  BY <1>1, <1>2 DEF TableOK, CountMatchesTable
<1>4. OwnersAlive' /\ LibraryEntries'
  BY <1>2 DEF IInv, OwnersAlive, LibraryEntries
<1> QED
  BY <1>3, <1>4 DEF IInv, TypeOK, TableOK, Others

(* The last callback of a request.                                         *)
LEMMA DeliverReplyInv ==
  ASSUME IInv, frame = NoFrame, NEW m \in Matchers, NEW i \in Find(m),
         NEW of \in Requests, DeliverReply(i, of),
         UNCHANGED <<tmpdata, clients, frame, next>>,
         ctl' \subseteq ctl, running' \subseteq running
  PROVE  IInv'
<1>0. Others
  BY Split DEF IInv, Others
<1> DEFINE pc == pending_commands[i]
<1>1. /\ i \in Used /\ pc \in Entries
      /\ pc.hci \in clients \cup {NoClient}
  BY Found
<1>2. /\ pc.hci \in Clients \cup {NoClient}
      /\ pc.user \in Requests \cup {NoReq} /\ pc.cb \in Requests \cup {NoReq}
  BY <1>1 DEF Entries
<1>3. /\ call' \in Calls \cup {NoCall}
      /\ call' # NoCall => call'.hci \in clients
  BY <1>0, <1>1, <1>2, CallType DEF DeliverReply, Others
<1>4. reqs' \in [Requests -> [phase : Phases, hci : Clients \cup {NoClient}]]
  <2>1. Ends(pc.user, "done") /\ "done" \in Phases
    BY DEF DeliverReply, Phases
  <2> QED
    BY <1>0, <2>1, PhaseType DEF Others
<1>5. Others'
  BY <1>0, <1>3, <1>4 DEF Others
<1>6. FreeEntry(i)
  BY DEF DeliverReply
<1> QED
  BY <1>1, <1>3, <1>5, <1>6, AfterFree

(* A Command Complete event.                                               *)
LEMMA CommandCompleteInv ==
  ASSUME IInv, NEW k \in ctl, CommandComplete(k)
  PROVE  IInv'
<1>0. Others /\ k \in Commands /\ ReplyTo(k.op) \in Matchers
      /\ k.req \in Requests
  BY Split, ReplyType DEF IInv, Others, Commands
<1>1. CASE Find(ReplyTo(k.op)) = {} /\ call' = NoCall /\ UNCHANGED <<table, reqs>>
  <2>1. Others'
    BY <1>0, <1>1 DEF CommandComplete, Others
  <2>2. HeldEntryStays'
    BY DEF CommandComplete, HeldEntryStays
  <2> QED
    BY <1>1, <2>1, <2>2, AfterNoChange DEF CommandComplete
<1>2. ASSUME NEW i \in Find(ReplyTo(k.op)), DeliverReply(i, k.req)
      PROVE  IInv'
  BY <1>0, <1>2, DeliverReplyInv DEF CommandComplete
<1> QED
  BY <1>1, <1>2 DEF CommandComplete

(* The event that ends a procedure.                                        *)
LEMMA CommandEventInv ==
  ASSUME IInv, NEW e \in running, CommandEvent(e)
  PROVE  IInv'
<1>0. Others /\ e.event \in Matchers /\ e.req \in Requests
  BY Split DEF IInv, Others
<1>1. CASE Find(e.event) = {} /\ call' = NoCall /\ UNCHANGED <<table, reqs>>
  <2>1. Others'
    BY <1>0, <1>1 DEF CommandEvent, Others
  <2>2. HeldEntryStays'
    BY DEF CommandEvent, HeldEntryStays
  <2> QED
    BY <1>1, <2>1, <2>2, AfterNoChange DEF CommandEvent
<1>2. ASSUME NEW i \in Find(e.event), DeliverReply(i, e.req)
      PROVE  IInv'
  BY <1>0, <1>2, DeliverReplyInv DEF CommandEvent
<1> QED
  BY <1>1, <1>2 DEF CommandEvent

(* A Command Status event, once the entry of the command is found.         *)
LEMMA DeliverStatusInv ==
  ASSUME IInv, frame = NoFrame, NEW op \in AsyncOps,
         NEW i \in Find(ReplyTo(op)), NEW of \in Requests, NEW ok \in BOOLEAN,
         DeliverStatus(i, op, of, ok), UNCHANGED <<tmpdata, clients, next>>,
         ctl' \subseteq ctl,
         running' \subseteq [req : Requests, event : Matchers]
  PROVE  IInv'
<1> DEFINE pc == pending_commands[i]
<1>0. TableOK /\ Others
  BY Split DEF IInv
<1>1. /\ i \in Used /\ i \in Slots /\ pc \in Entries
      /\ pc.hci \in clients \cup {NoClient}
  BY ReplyType, Found DEF Ops
<1>2. /\ pc.hci \in Clients \cup {NoClient}
      /\ pc.user \in Requests \cup {NoReq} /\ pc.cb \in Requests \cup {NoReq}
      /\ of \in Requests \cup {NoReq}
  BY <1>1 DEF Entries
<1>3. ASSUME StatusEnds(i, of), NEW ph \in Phases, Ends(pc.user, ph)
      PROVE  IInv'
  <2>1. /\ call' \in Calls \cup {NoCall}
        /\ call' # NoCall => call'.hci \in clients
    BY <1>0, <1>1, <1>2, <1>3, CallType DEF StatusEnds, Others
  <2>2. reqs' \in [Requests -> [phase : Phases, hci : Clients \cup {NoClient}]]
    BY <1>0, <1>3, PhaseType DEF Others
  <2>3. FreeEntry(i) /\ frame' = NoFrame
    BY <1>3 DEF StatusEnds
  <2>4. Others'
    BY <1>0, <2>1, <2>2, <2>3 DEF Others
  <2> QED
    BY <1>1, <2>1, <2>3, <2>4, AfterFree
<1>4. CASE op \in PlainOps \/ pc.hci = NoClient
  BY <1>3, <1>4 DEF DeliverStatus, Phases
<1>5. CASE op \notin PlainOps /\ pc.hci # NoClient /\ ok
  <2>0. pc.hci \in Clients /\ StatusOk(i, op, of)
    BY <1>2, <1>5 DEF DeliverStatus
  <2> DEFINE m == EventMatcher(op, pc.hci)
             ev == Entry(m, pc.hci, pc.user, tmpdata[pc.hci].cb, FALSE)
  <2>1. CASE Alloc(m) = {} /\ StatusEnds(i, of) /\ Ends(pc.user, "silent")
    BY <1>3, <2>1 DEF Phases
  <2>2. ASSUME NEW j \in Alloc(m), ReplaceEntry(i, j, ev), Waits(pc.user),
               IF pc.scb THEN Calling(pc.hci, pc.user, pc.user, of)
                         ELSE call' = NoCall,
               UNCHANGED frame
        PROVE  IInv'
    <3>1. m \in Matchers /\ m # NoMatcher
      BY <2>0, EventMatcherType, MatcherNotEmpty DEF IInv
    <3>2. ev \in Entries /\ ~IsEmpty(ev) /\ ev.hci = pc.hci
      BY <1>0, <1>2, <2>0, <3>1 DEF Entry, Entries, IsEmpty, Others, Tmpdata
    <3>3. j \in Slots /\ j \notin Used
      BY <1>0, AllocFree
    <3>4. TableOK' /\ Used' = (Used \cup {j}) \ {i}
      BY <1>0, <1>1, <2>2, <3>2, <3>3, Replacing
    <3>5. /\ pending_commands'[j] = ev
          /\ \A x \in Used' \ {j} : pending_commands'[x] = pending_commands[x]
      <4> HIDE DEF ev
      <4>1. i # j
        BY <1>1, <3>3
      <4>2. \A x \in Slots : pending_commands'[x] =
              IF x = i THEN EmptyEntry
              ELSE IF x = j THEN ev ELSE pending_commands[x]
        BY <1>0, <2>2 DEF ReplaceEntry, TableOK
      <4>3. Used' \subseteq Slots /\ i \notin Used'
        BY <1>1, <3>4, <4>1 DEF Used
      <4> QED
        BY <3>3, <4>1, <4>2, <4>3
    <3>6. /\ call' \in Calls \cup {NoCall}
          /\ call' # NoCall => call'.hci \in clients
      BY <1>0, <1>1, <1>2, <2>2, CallType DEF Others
    <3>7. reqs' \in [Requests -> [phase : Phases, hci : Clients \cup {NoClient}]]
      BY <1>0, <2>2, PhaseType DEF Others, Phases
    <3>8. Others'
      BY <1>0, <2>2, <3>6, <3>7 DEF Others
    <3>9. OwnersAlive' /\ LibraryEntries' /\ HeldEntryStays'
      BY <1>1, <1>5, <2>2, <3>2, <3>4, <3>5, <3>6
         DEF IInv, OwnersAlive, LibraryEntries, HeldEntryStays
    <3> QED
      BY <3>4, <3>8, <3>9 DEF IInv, TypeOK, TableOK, Others
  <2> QED
    BY <2>0, <2>1, <2>2 DEF StatusOk
<1>6. CASE op \notin PlainOps /\ pc.hci # NoClient /\ ~ok
  <2>0. pc.hci \in Clients /\ StatusError(i, op, of)
    BY <1>2, <1>6 DEF DeliverStatus
  <2>1. CASE ReportsError(op, pc)
    <3>1. /\ frame' = [slot |-> i, hci |-> pc.hci, kind |-> "status"]
          /\ Calling(pc.hci, pc.user, tmpdata[pc.hci].cb, of)
          /\ Ends(pc.user, "done")
          /\ UNCHANGED table
      BY <2>0, <2>1 DEF StatusError
    <3>2. frame' \in Frames
      BY <1>1, <2>0, <3>1 DEF Frames
    <3>3. tmpdata[pc.hci].cb \in Requests \cup {NoReq}
      BY <1>0, <2>0 DEF Others, Tmpdata
    <3>4. /\ call' \in Calls \cup {NoCall}
          /\ call' # NoCall => call'.hci \in clients
      BY <1>0, <1>1, <1>2, <3>1, <3>3, CallType DEF Others
    <3>5. reqs' \in [Requests -> [phase : Phases, hci : Clients \cup {NoClient}]]
      BY <1>0, <3>1, PhaseType DEF Others, Phases
    <3>6. Others'
      BY <1>0, <3>2, <3>4, <3>5 DEF Others
    <3>7. HeldEntryStays'
      BY <1>1, <1>6, <3>1 DEF HeldEntryStays, Used, table
    <3> QED
      BY <3>1, <3>4, <3>6, <3>7, AfterNoChange
  <2>2. CASE ~ReportsError(op, pc)
    <3>1. /\ StatusEnds(i, of)
          /\ Ends(pc.user, IF pc.scb THEN "done" ELSE "silent")
      BY <2>0, <2>2 DEF StatusError
    <3>2. (IF pc.scb THEN "done" ELSE "silent") \in Phases
      BY DEF Phases
    <3> QED
      BY <1>3, <3>1, <3>2
  <2> QED
    BY <2>1, <2>2
<1> QED
  BY <1>4, <1>5, <1>6

(* A Command Status event.                                                 *)
LEMMA CommandStatusInv ==
  ASSUME IInv, NEW k \in ctl, NEW ok \in BOOLEAN, CommandStatus(k, ok)
  PROVE  IInv'
<1>0. /\ Others /\ k \in Commands /\ k.req \in Requests /\ k.peer \in Peers
      /\ k.op \in AsyncOps
  BY Split DEF IInv, Others, Commands, CommandStatus
<1>1. running' \subseteq [req : Requests, event : Matchers]
  <2>1. [req |-> k.req, event |-> FinalEvent(k.op, k.peer)]
          \in [req : Requests, event : Matchers]
    BY <1>0, FinalType
  <2> QED
    BY <1>0, <2>1 DEF CommandStatus, Others
<1>2. CASE /\ Find(ReplyTo(k.op)) = {} /\ call' = NoCall
           /\ UNCHANGED <<table, reqs, frame>>
  <2>1. Others'
    BY <1>0, <1>1, <1>2 DEF CommandStatus, Others
  <2>2. HeldEntryStays'
    BY <1>2 DEF CommandStatus, HeldEntryStays
  <2> QED
    BY <1>2, <2>1, <2>2, AfterNoChange DEF CommandStatus
<1>3. ASSUME NEW i \in Find(ReplyTo(k.op)), DeliverStatus(i, k.op, k.req, ok)
      PROVE  IInv'
  BY <1>0, <1>1, <1>3, DeliverStatusInv DEF CommandStatus
<1> QED
  BY <1>2, <1>3 DEF CommandStatus

(* Installing a listener.                                                  *)
LEMMA ListenInv ==
  ASSUME IInv, NEW c \in Clients, NEW ev \in ListenEvents, NEW p \in Peers,
         Listen(c, ev, p)
  PROVE  IInv'
<1>0. TableOK /\ Others
  BY Split DEF IInv
<1> DEFINE e == Entry(Matcher(ev, p), c, NoReq, NoReq, FALSE)
<1>1. PICK i \in Alloc(Matcher(ev, p)) : AddEntry(i, e)
  BY DEF Listen
<1>2. Matcher(ev, p) \in Matchers
  BY DEF Matchers, Matcher, Events, Keys
<1>3. e \in Entries /\ ~IsEmpty(e) /\ e.hci = c
  BY <1>2, MatcherNotEmpty DEF Entry, Entries, IsEmpty
<1>4. i \in Slots /\ i \notin Used
  BY <1>0, <1>1, AllocFree
<1>5. TableOK' /\ Used' = Used \cup {i}
  BY <1>0, <1>1, <1>3, <1>4, Adding
<1>6. /\ pending_commands'[i] = e
      /\ \A j \in Used : pending_commands'[j] = pending_commands[j]
  <2> HIDE DEF e
  <2>1. \A x \in Slots : pending_commands'[x] =
          IF x = i THEN e ELSE pending_commands[x]
    BY <1>0, <1>1 DEF AddEntry, TableOK
  <2>2. Used \subseteq Slots
    BY DEF Used
  <2> QED
    BY <1>4, <2>1, <2>2
<1>7. Others'
  BY <1>0 DEF Listen, Others, world
<1>8. OwnersAlive' /\ LibraryEntries' /\ HeldEntryStays'
  BY <1>3, <1>5, <1>6, ClientAssumption
     DEF IInv, OwnersAlive, LibraryEntries, HeldEntryStays, Listen
<1> QED
  BY <1>5, <1>7, <1>8 DEF IInv, TypeOK, TableOK, Others

(* Removing one, which no callback does to its own entry.                  *)
LEMMA UnlistenInv ==
  ASSUME IInv, CallbackMay = {}, NEW c \in Clients, NEW ev \in ListenEvents,
         NEW p \in Peers, Unlisten(c, ev, p)
  PROVE  IInv'
<1>0. TableOK /\ Others
  BY Split DEF IInv
<1>1. PICK i \in Find(Matcher(ev, p)) : i # frame.slot /\ FreeEntry(i)
  BY DEF Unlisten
<1>2. Matcher(ev, p) \in Matchers
  BY DEF Matchers, Matcher, Events, Keys
<1>3. i \in Used /\ i \in Slots
  BY <1>2, Found
<1>4. TableOK' /\ Used' = Used \ {i}
  BY <1>0, <1>1, <1>3, Freeing
<1>5. \A j \in Used' : pending_commands'[j] = pending_commands[j]
  BY <1>0, <1>1, <1>4 DEF FreeEntry, TableOK, Used
<1>6. Others'
  BY <1>0 DEF Unlisten, Others, world
<1>7. OwnersAlive' /\ LibraryEntries' /\ HeldEntryStays'
  BY <1>1, <1>4, <1>5
     DEF IInv, OwnersAlive, LibraryEntries, HeldEntryStays, Unlisten
<1> QED
  BY <1>4, <1>6, <1>7 DEF IInv, TypeOK, TableOK, Others

(* An event for a listener.                                                *)
LEMMA ListenedEventInv ==
  ASSUME IInv, NEW ev \in ListenEvents, NEW p \in Peers, ListenedEvent(ev, p)
  PROVE  IInv'
<1>0. Others
  BY Split DEF IInv
<1>1. PICK i \in Find(Matcher(ev, p)) :
        /\ frame' = [slot |-> i, hci |-> pending_commands[i].hci,
                     kind |-> "listener"]
        /\ Calling(pending_commands[i].hci, NoReq, NoReq, NoReq)
  BY DEF ListenedEvent
<1>2. Matcher(ev, p) \in Matchers
  BY DEF Matchers, Matcher, Events, Keys
<1>3. /\ i \in Used /\ i \in Slots
      /\ pending_commands[i].matcher = Matcher(ev, p)
      /\ pending_commands[i].hci \in clients \cup {NoClient}
  BY <1>2, Found
<1>4. pending_commands[i].hci # NoClient
  <2>1. pending_commands[i].matcher.ev \notin {"COMMAND_COMPLETE", "COMMAND_STATUS"}
    BY <1>3, OpsAssumption DEF Matcher
  <2> QED
    BY <1>3, <2>1 DEF IInv, LibraryEntries
<1>5. pending_commands[i].hci \in clients /\ pending_commands[i].hci \in Clients
  BY <1>0, <1>3, <1>4 DEF Others
<1>6. /\ call' \in Calls \cup {NoCall}
      /\ call' # NoCall => call'.hci \in clients
  BY <1>0, <1>1, <1>5, CallType DEF Others
<1>7. Others'
  BY <1>0, <1>1, <1>3, <1>5, <1>6 DEF ListenedEvent, Others, world, Frames
<1>8. HeldEntryStays'
  BY <1>1, <1>3, <1>5 DEF ListenedEvent, HeldEntryStays, Used, table
<1> QED
  BY <1>6, <1>7, <1>8, AfterNoChange DEF ListenedEvent

(* The callback that held an entry returns.                                *)
LEMMA CallbackReturnsInv ==
  ASSUME IInv, NEW remove \in BOOLEAN, CallbackReturns(remove)
  PROVE  IInv'
<1>0. Others
  BY Split DEF IInv
<1>1. /\ frame' = NoFrame /\ call' = NoCall /\ clients' = clients
      /\ frame.slot \in Used
  BY DEF CallbackReturns, IInv, HeldEntryStays
<1>2. Others'
  BY <1>0 DEF CallbackReturns, Others, world
<1>3. CASE remove
  BY <1>1, <1>2, <1>3, AfterFree DEF CallbackReturns
<1>4. CASE ~remove
  <2>1. HeldEntryStays'
    BY <1>1 DEF HeldEntryStays
  <2> QED
    BY <1>1, <1>2, <1>4, <2>1, AfterNoChange DEF CallbackReturns
<1> QED
  BY <1>3, <1>4

(* A new client.                                                           *)
LEMMA ClientNewInv ==
  ASSUME IInv, NEW c \in Clients, ClientNew(c)
  PROVE  IInv'
<1>0. TableOK /\ Others
  BY Split DEF IInv
<1>1. UNCHANGED <<pending_commands, num_pending_commands>> /\ Used' = Used
  BY DEF ClientNew, table, Used
<1>2. TableOK'
  BY <1>0, <1>1 DEF TableOK, CountMatchesTable
<1>3. ZeroTmpdata \in Tmpdata
  BY DEF ZeroTmpdata, Tmpdata, GarbageConn, Matchers, Matcher, Events, Keys
<1>4. Others'
  BY <1>0, <1>3 DEF ClientNew, Others, world
<1>5. OwnersAlive' /\ LibraryEntries' /\ HeldEntryStays'
  BY <1>1 DEF IInv, OwnersAlive, LibraryEntries, HeldEntryStays, ClientNew
<1> QED
  BY <1>2, <1>4, <1>5 DEF IInv, TypeOK, TableOK, Others

(* A client is freed, which no callback does to its own.                   *)
LEMMA ClientFreeInv ==
  ASSUME IInv, CallbackMay = {}, NEW c \in Clients, ClientFree(c)
  PROVE  IInv'
<1>0. TableOK /\ Others /\ frame.hci # c
  BY Split DEF IInv, ClientFree
<1>1. TableOK' /\ Used' = Used \ OwnedBy(c)
  BY <1>0, Disposing DEF ClientFree
<1>2. \A j \in Used' : /\ pending_commands'[j] = pending_commands[j]
                       /\ pending_commands[j].hci # c
  <2>1. \A x \in Slots : pending_commands'[x] =
          IF x \in OwnedBy(c) THEN EmptyEntry ELSE pending_commands[x]
    BY DEF ClientFree, DisposeEntries
  <2>2. \A x \in Used' : x \in Slots /\ x \in Used /\ x \notin OwnedBy(c)
    BY <1>1 DEF Used
  <2>3. \A x \in Used : x \notin OwnedBy(c) => pending_commands[x].hci # c
    BY DEF Used, OwnedBy
  <2> QED
    BY <2>1, <2>2, <2>3
<1>3. Others'
  <2>1. reqs' \in [Requests -> [phase : Phases, hci : Clients \cup {NoClient}]]
    BY <1>0 DEF ClientFree, Others, Phases
  <2> QED
    BY <1>0, <2>1 DEF ClientFree, Others, world
<1>4. OwnersAlive' /\ LibraryEntries'
  BY <1>1, <1>2 DEF IInv, OwnersAlive, LibraryEntries, ClientFree
<1>5. HeldEntryStays'
  <2> SUFFICES ASSUME frame # NoFrame
               PROVE  /\ frame.slot \in Used'
                      /\ pending_commands'[frame.slot].hci = frame.hci
                      /\ frame.hci \in clients \ {c}
    BY DEF HeldEntryStays, ClientFree
  <2>1. /\ frame.slot \in Used /\ frame.hci \in clients
        /\ pending_commands[frame.slot].hci = frame.hci
    BY DEF IInv, HeldEntryStays
  <2>2. frame.slot \notin OwnedBy(c)
    BY <1>0, <2>1 DEF OwnedBy
  <2> QED
    BY <1>0, <1>1, <1>2, <2>1, <2>2
<1> QED
  BY <1>1, <1>3, <1>4, <1>5 DEF IInv, TypeOK, TableOK, Others

-----------------------------------------------------------------------------
(* Every step keeps the invariant, if no callback removes the entry it     *)
(* was called for.                                                         *)
LEMMA NextInv ==
  ASSUME IInv, CallbackMay = {}, [Next]_vars
  PROVE  IInv'
<1>1. ASSUME NEW c \in Clients, NEW op \in Ops, NEW p \in Peers,
             NEW scb \in StatusCbs \cup {TRUE}, Command(c, op, p, scb)
      PROVE  IInv'
  <2>1. c \in clients \cup {NoClient} /\ scb \in BOOLEAN
    BY <1>1, EnvironmentAssumption DEF Command
  <2> QED
    BY <1>1, <2>1, AddCommandInv DEF Command
<1>2. ASSUME NEW op \in NegativeReplies \cap Ops, NEW p \in Peers,
             UnhandledRequest(op, p)
      PROVE  IInv'
  BY <1>2, AddCommandInv DEF UnhandledRequest
<1>3. CASE UNCHANGED vars
  <2>1. Used' = Used
    BY <1>3 DEF vars, Used
  <2> QED
    BY <1>3, <2>1
       DEF vars, IInv, TypeOK, CountMatchesTable, OwnersAlive,
           HeldEntryStays, LibraryEntries
<1> QED
  BY <1>1, <1>2, <1>3, CommandCompleteInv, CommandStatusInv, CommandEventInv,
     ListenInv, UnlistenInv, ListenedEventInv, CallbackReturnsInv,
     ClientNewInv, ClientFreeInv
     DEF Next

(* The invariant holds in every reachable state.                           *)
LEMMA Invariance == CallbackMay = {} => (Spec => []IInv)
<1> SUFFICES ASSUME CallbackMay = {} PROVE Spec => []IInv
  OBVIOUS
<1>1. Init => IInv
  BY InitInv
<1>2. IInv /\ [Next]_vars => IInv'
  BY NextInv
<1> QED
  BY <1>1, <1>2, PTL DEF Spec

(* Every variable of the dispatcher keeps its type: entries, count, union, *)
(* callback in progress and callbacks made, for any sizes.                 *)
THEOREM TypeCorrect == CallbackMay = {} => (Spec => []TypeOK)
<1> SUFFICES ASSUME CallbackMay = {} PROVE Spec => []TypeOK
  OBVIOUS
<1>1. IInv => TypeOK
  BY DEF IInv
<1> QED
  BY <1>1, Invariance, PTL

(* num_pending_commands is the number of used entries in every reachable   *)
(* state: the fast track of alloc_command never overwrites an entry, and   *)
(* the count never wraps.                                                  *)
THEOREM CountCorrect == CallbackMay = {} => (Spec => []CountMatchesTable)
<1> SUFFICES ASSUME CallbackMay = {} PROVE Spec => []CountMatchesTable
  OBVIOUS
<1>1. IInv => CountMatchesTable
  BY DEF IInv
<1> QED
  BY <1>1, Invariance, PTL

(* No entry and no callback outlives its client.                           *)
THEOREM OwnersCorrect == CallbackMay = {} => (Spec => []OwnersAlive)
<1> SUFFICES ASSUME CallbackMay = {} PROVE Spec => []OwnersAlive
  OBVIOUS
<1>1. IInv => OwnersAlive
  BY DEF IInv
<1> QED
  BY <1>1, Invariance, PTL

(* What is freed when a callback returns is the entry it was called for.   *)
THEOREM HeldEntryCorrect == CallbackMay = {} => (Spec => []HeldEntryStays)
<1> SUFFICES ASSUME CallbackMay = {} PROVE Spec => []HeldEntryStays
  OBVIOUS
<1>1. IInv => HeldEntryStays
  BY DEF IInv
<1> QED
  BY <1>1, Invariance, PTL

-----------------------------------------------------------------------------
(* Requests and their entries.  A request has one entry at most, which is  *)
(* the one its answer will find; it is still awaited and of the client     *)
(* that the entry names, except when its last callback is the one that is  *)
(* running.                                                                *)
Ended(i) == frame # NoFrame /\ frame.kind = "status" /\ frame.slot = i
Awaited(i) ==
  LET pc == pending_commands[i] IN
  pc.user # NoReq =>
    /\ pc.user < next
    /\ \/ Ended(i)
       \/ /\ reqs[pc.user].phase \in {"sent", "waiting"}
          /\ reqs[pc.user].hci = pc.hci
FreshUnused == \A r \in Requests : r >= next => reqs[r].phase = "unused"
OneEntryEach ==
  \A i, j \in Used :
    i # j /\ pending_commands[i].user = pending_commands[j].user
      => pending_commands[i].user = NoReq
ReqsInv ==
  /\ FreshUnused
  /\ \A i \in Used : Awaited(i)
  /\ OneEntryEach

CallInTime ==
  \A r \in Requests :
    (call' # NoCall /\ call'.to = r)
      => reqs[r].phase \in {"unused", "sent", "waiting"}

LEMMA UserType ==
  ASSUME IInv, NEW i \in Used
  PROVE  /\ i \in Slots /\ pending_commands[i] \in Entries
         /\ pending_commands[i].user \in Requests \cup {NoReq}
         /\ pending_commands[i].hci \in Clients \cup {NoClient}
<1>1. i \in Slots /\ pending_commands[i] \in Entries
  BY DEF IInv, TypeOK, Used
<1> QED
  BY <1>1 DEF Entries

(* The entry of the request that ends is freed, or the one of the callback *)
(* that returns.                                                           *)
LEMMA FreeReqs ==
  ASSUME IInv, ReqsInv, NEW i \in Used, FreeEntry(i), next' = next,
         \A j \in Used : j # i => ~Ended(j),
         \A r \in Requests :
           r # pending_commands[i].user => reqs'[r] = reqs[r]
  PROVE  ReqsInv'
<1>1. TableOK /\ i \in Slots
  BY Split DEF IInv, Used
<1>2. Used' = Used \ {i}
  BY <1>1, Freeing
<1>3. \A j \in Used' : pending_commands'[j] = pending_commands[j]
  BY <1>1, <1>2 DEF FreeEntry, TableOK, Used
<1>4. FreshUnused'
  <2>1. pending_commands[i].user \in Requests => ~(pending_commands[i].user >= next)
    <3>1. pending_commands[i].user \in Requests => pending_commands[i].user < next
      BY DEF ReqsInv, Awaited, Requests, NoReq
    <3> QED
      BY <3>1 DEF Requests, IInv, TypeOK
  <2> QED
    BY <2>1 DEF ReqsInv, FreshUnused
<1>5. ASSUME NEW j \in Used' PROVE Awaited(j)'
  <2>1. j \in Used /\ j # i /\ ~Ended(j)
    BY <1>2
  <2> DEFINE u == pending_commands[j].user
  <2>2. u # NoReq => u # pending_commands[i].user /\ u \in Requests
    BY <2>1, UserType DEF ReqsInv, OneEntryEach
  <2>3. u # NoReq => reqs'[u] = reqs[u]
    BY <2>2
  <2>4. u # NoReq => /\ u < next
                     /\ reqs[u].phase \in {"sent", "waiting"}
                     /\ reqs[u].hci = pending_commands[j].hci
    BY <2>1 DEF ReqsInv, Awaited
  <2> QED
    BY <1>3, <2>3, <2>4 DEF Awaited
<1>6. OneEntryEach'
  BY <1>2, <1>3 DEF ReqsInv, OneEntryEach
<1> QED
  BY <1>4, <1>5, <1>6 DEF ReqsInv

(* No entry changes hands, and no request gets further.                    *)
LEMMA SameReqs ==
  ASSUME IInv, ReqsInv, UNCHANGED <<pending_commands, next, reqs>>,
         \A j \in Used : Ended(j) => Ended(j)'
  PROVE  ReqsInv'
<1>1. Used' = Used
  BY DEF Used
<1> QED
  BY <1>1 DEF ReqsInv, FreshUnused, Awaited, OneEntryEach

(* The last callback runs and its entry stays until it returns.            *)
LEMMA HoldReqs ==
  ASSUME IInv, ReqsInv, frame = NoFrame, NEW i \in Used,
         UNCHANGED <<pending_commands, next>>, Ended(i)',
         \A r \in Requests :
           r # pending_commands[i].user => reqs'[r] = reqs[r]
  PROVE  ReqsInv'
<1>1. Used' = Used
  BY DEF Used
<1>2. FreshUnused'
  <2>1. pending_commands[i].user \in Requests => ~(pending_commands[i].user >= next)
    <3>1. pending_commands[i].user \in Requests => pending_commands[i].user < next
      BY DEF ReqsInv, Awaited, Requests, NoReq
    <3> QED
      BY <3>1 DEF Requests, IInv, TypeOK
  <2> QED
    BY <2>1 DEF ReqsInv, FreshUnused
<1>3. ASSUME NEW j \in Used PROVE Awaited(j)'
  <2>1. CASE j = i
    BY <2>1 DEF ReqsInv, Awaited
  <2>2. CASE j # i
    <3> DEFINE u == pending_commands[j].user
    <3>1. u # NoReq => u # pending_commands[i].user /\ u \in Requests
      BY <2>2, UserType DEF ReqsInv, OneEntryEach
    <3>2. u # NoReq => reqs'[u] = reqs[u]
      BY <3>1
    <3>3. u # NoReq => /\ u < next
                       /\ reqs[u].phase \in {"sent", "waiting"}
                       /\ reqs[u].hci = pending_commands[j].hci
      BY DEF ReqsInv, Awaited, Ended
    <3> QED
      BY <3>2, <3>3 DEF Awaited
  <2> QED
    BY <2>1, <2>2
<1> QED
  BY <1>1, <1>2, <1>3 DEF ReqsInv, OneEntryEach

(* A request moves on to the entry for its final event.                    *)
LEMMA MoveReqs ==
  ASSUME IInv, ReqsInv, frame = NoFrame, NEW i \in Used, NEW j \in Slots,
         j \notin Used, NEW e \in Entries, ~IsEmpty(e), ReplaceEntry(i, j, e),
         e.user = pending_commands[i].user, e.hci = pending_commands[i].hci,
         Waits(e.user), UNCHANGED <<next, frame>>
  PROVE  ReqsInv'
<1>1. TableOK /\ i \in Slots
  BY Split DEF IInv, Used
<1>2. Used' = (Used \cup {j}) \ {i}
  BY <1>1, Replacing
<1>3. /\ \A x \in Used' : x # j => pending_commands'[x] = pending_commands[x]
      /\ pending_commands'[j] = e
  BY <1>1, <1>2 DEF ReplaceEntry, TableOK, Used
<1>4. reqs \in [Requests -> [phase : Phases, hci : Clients \cup {NoClient}]]
  BY DEF IInv, TypeOK
<1>5. /\ \A r \in Requests : reqs'[r].hci = reqs[r].hci
      /\ \A r \in Requests : r # e.user => reqs'[r] = reqs[r]
      /\ e.user \in Requests => reqs'[e.user].phase = "waiting"
  BY <1>4 DEF Waits
<1>6. e.user \in Requests => /\ e.user < next
                             /\ reqs[e.user].hci = e.hci
  BY DEF ReqsInv, Awaited, Ended, Requests, NoReq
<1>7. FreshUnused'
  <2>1. e.user \in Requests => ~(e.user >= next)
    BY <1>6 DEF Requests, IInv, TypeOK
  <2> QED
    BY <1>5, <2>1 DEF ReqsInv, FreshUnused
<1>8. ASSUME NEW x \in Used' PROVE Awaited(x)'
  <2>1. CASE x = j
    <3>1. e.user \in Requests \cup {NoReq}
      BY DEF Entries
    <3> QED
      BY <1>3, <1>5, <1>6, <2>1, <3>1 DEF Awaited
  <2>2. CASE x # j
    <3> DEFINE u == pending_commands[x].user
    <3>0. x \in Used /\ x # i
      BY <1>2, <2>2
    <3>1. u # NoReq => u # e.user /\ u \in Requests
      BY <3>0, UserType DEF ReqsInv, OneEntryEach
    <3>2. u # NoReq => reqs'[u] = reqs[u]
      BY <1>5, <3>1
    <3>3. u # NoReq => /\ u < next
                       /\ reqs[u].phase \in {"sent", "waiting"}
                       /\ reqs[u].hci = pending_commands[x].hci
      BY <3>0 DEF ReqsInv, Awaited, Ended
    <3> QED
      BY <1>3, <2>2, <3>2, <3>3 DEF Awaited
  <2> QED
    BY <2>1, <2>2
<1>9. OneEntryEach'
  BY <1>2, <1>3 DEF ReqsInv, OneEntryEach
<1> QED
  BY <1>7, <1>8, <1>9 DEF ReqsInv

(* A command takes an entry, for a request that is new.                    *)
LEMMA AddReqs ==
  ASSUME IInv, ReqsInv, NEW i \in Slots, i \notin Used,
         NEW e \in Entries, ~IsEmpty(e), AddEntry(i, e), frame' = frame,
         \/ e.user = NoReq /\ UNCHANGED <<next, reqs>>
         \/ /\ e.user = next /\ next \in Requests /\ next' = next + 1
            /\ reqs' = [reqs EXCEPT ![next] = [phase |-> "sent", hci |-> e.hci]]
  PROVE  ReqsInv'
<1>1. TableOK
  BY Split DEF IInv
<1>2. Used' = Used \cup {i}
  BY <1>1, Adding
<1>3. /\ \A x \in Used : pending_commands'[x] = pending_commands[x] /\ x # i
      /\ pending_commands'[i] = e
  BY <1>1 DEF AddEntry, TableOK, Used
<1>4. reqs \in [Requests -> [phase : Phases, hci : Clients \cup {NoClient}]]
  BY DEF IInv, TypeOK
<1>5. /\ \A r \in Requests : r # next \/ e.user = NoReq => reqs'[r] = reqs[r]
      /\ e.user # NoReq => /\ reqs'[next].phase = "sent"
                           /\ reqs'[next].hci = e.hci
  <2>1. 0 \notin Requests
    BY DEF Requests
  <2> QED
    BY <1>4, <2>1 DEF NoReq
<1>6. next \in Nat /\ next' \in Nat /\ next <= next'
  BY SizeAssumption DEF IInv, TypeOK
<1>7. FreshUnused'
  BY <1>5, <1>6 DEF ReqsInv, FreshUnused, Requests, NoReq
<1>8. ASSUME NEW x \in Used' PROVE Awaited(x)'
  <2>1. CASE x = i
    BY <1>3, <1>5, <1>6, <2>1 DEF Awaited
  <2>2. CASE x # i
    <3> DEFINE u == pending_commands[x].user
    <3>1. x \in Used /\ Ended(x)' = Ended(x)
      BY <1>2, <2>2 DEF Ended
    <3>2. u # NoReq => u < next /\ u \in Requests
      BY <3>1, UserType DEF ReqsInv, Awaited
    <3>3. u # NoReq => reqs'[u] = reqs[u] /\ u < next'
      BY <1>5, <1>6, <3>2 DEF Requests
    <3>4. u # NoReq => \/ Ended(x)
                       \/ /\ reqs[u].phase \in {"sent", "waiting"}
                          /\ reqs[u].hci = pending_commands[x].hci
      BY <3>1 DEF ReqsInv, Awaited
    <3> QED
      BY <1>3, <3>1, <3>3, <3>4 DEF Awaited
  <2> QED
    BY <2>1, <2>2
<1>9. OneEntryEach'
  <2>1. \A x \in Used : pending_commands[x].user # NoReq =>
                           pending_commands[x].user # next
    BY <1>6, UserType DEF ReqsInv, Awaited, Requests
  <2> QED
    BY <1>2, <1>3, <2>1 DEF ReqsInv, OneEntryEach
<1> QED
  BY <1>7, <1>8, <1>9 DEF ReqsInv

(* One lemma per action.                                                   *)
LEMMA AddCommandReqs ==
  ASSUME IInv, ReqsInv, NEW c \in clients \cup {NoClient}, NEW op \in Ops,
         NEW p \in Peers, NEW scb \in BOOLEAN, AddCommand(c, op, p, scb)
  PROVE  ReqsInv' /\ CallInTime
<1>0. TableOK /\ Others
  BY Split DEF IInv
<1>1. next \in Requests /\ next' = next + 1 /\ next \in Nat /\ frame' = frame
  BY <1>0, SizeAssumption DEF Others, AddCommand, Requests
<1>2. reqs[next].phase = "unused"
  BY <1>1 DEF ReqsInv, FreshUnused
<1>3. CASE Refused(c, scb)
  <2>1. /\ Used' = Used /\ UNCHANGED pending_commands
        /\ \A r \in Requests : r # next => reqs'[r] = reqs[r]
    BY <1>0, <1>3 DEF Refused, table, Used, Others
  <2>2. FreshUnused'
    BY <1>1, <2>1 DEF ReqsInv, FreshUnused, Requests
  <2>3. ASSUME NEW i \in Used PROVE Awaited(i)'
    <3> DEFINE u == pending_commands[i].user
    <3>1. u # NoReq => u < next /\ u \in Requests
      BY UserType DEF ReqsInv, Awaited
    <3>2. u # NoReq => reqs'[u] = reqs[u] /\ u < next'
      BY <1>1, <2>1, <3>1 DEF Requests
    <3> QED
      BY <1>1, <2>1, <3>2 DEF ReqsInv, Awaited, Ended
  <2>4. OneEntryEach'
    BY <2>1 DEF ReqsInv, OneEntryEach
  <2>5. CallInTime
    <3>1. call' # NoCall => call'.to = next
      BY <1>3 DEF Refused, Calling
    <3> QED
      BY <1>2, <3>1 DEF CallInTime
  <2> QED
    BY <2>1, <2>2, <2>3, <2>4, <2>5 DEF ReqsInv
<1>4. ASSUME NEW i \in Alloc(ReplyTo(op)), Accepted(c, op, p, scb, i)
      PROVE  ReqsInv' /\ CallInTime
  <2> DEFINE e == Entry(ReplyTo(op), c, next, next, scb)
  <2>1. i \in Slots /\ i \notin Used
    BY <1>0, AllocFree
  <2>2. ReplyTo(op) \in Matchers /\ ReplyTo(op) # NoMatcher
    BY ReplyType, MatcherNotEmpty
  <2>3. c \in Clients \cup {NoClient}
    BY <1>0 DEF Others
  <2>4. e \in Entries /\ ~IsEmpty(e) /\ e.user = next /\ e.hci = c
    BY <1>1, <2>2, <2>3 DEF Entry, Entries, IsEmpty
  <2>5. AddEntry(i, e) /\ call' = NoCall
        /\ reqs' = [reqs EXCEPT ![next] = [phase |-> "sent", hci |-> e.hci]]
    BY <1>4, <2>4 DEF Accepted
  <2> HIDE DEF e
  <2>6. ReqsInv'
    BY <1>1, <2>1, <2>4, <2>5, AddReqs
  <2> QED
    BY <2>5, <2>6 DEF CallInTime
<1> QED
  BY <1>3, <1>4 DEF AddCommand

(* The request of an entry that is found is awaited.                       *)
LEMMA FoundReqs ==
  ASSUME IInv, ReqsInv, frame = NoFrame, NEW m \in Matchers, NEW i \in Find(m)
  PROVE  /\ i \in Used
         /\ \A j \in Used : ~Ended(j)
         /\ pending_commands[i].user \in Requests =>
              reqs[pending_commands[i].user].phase \in {"sent", "waiting"}
<1>1. i \in Used
  BY Found
<1>2. \A j \in Used : ~Ended(j)
  BY DEF Ended
<1>3. 0 \notin Requests
  BY DEF Requests
<1> QED
  BY <1>1, <1>2, <1>3 DEF ReqsInv, Awaited, NoReq

LEMMA DeliverReplyReqs ==
  ASSUME IInv, ReqsInv, frame = NoFrame, NEW m \in Matchers, NEW i \in Find(m),
         NEW of, DeliverReply(i, of), UNCHANGED next
  PROVE  ReqsInv' /\ CallInTime
<1>1. /\ i \in Used
      /\ \A j \in Used : ~Ended(j)
      /\ pending_commands[i].user \in Requests =>
           reqs[pending_commands[i].user].phase \in {"sent", "waiting"}
  BY FoundReqs
<1>2. \A r \in Requests : r # pending_commands[i].user => reqs'[r] = reqs[r]
  BY DEF DeliverReply, Ends, IInv, TypeOK
<1>3. ReqsInv'
  BY <1>1, <1>2, FreeReqs DEF DeliverReply
<1>4. call' # NoCall => call'.to = pending_commands[i].user
  BY DEF DeliverReply, Calling
<1> QED
  BY <1>1, <1>3, <1>4 DEF CallInTime

LEMMA CommandCompleteReqs ==
  ASSUME IInv, ReqsInv, NEW k \in ctl, CommandComplete(k)
  PROVE  ReqsInv' /\ CallInTime
<1>1. ReplyTo(k.op) \in Matchers
  BY ReplyType DEF IInv, TypeOK, Commands
<1>2. frame = NoFrame /\ UNCHANGED <<frame, next>>
  BY DEF CommandComplete
<1>3. CASE call' = NoCall /\ UNCHANGED <<table, reqs>>
  BY <1>2, <1>3, SameReqs DEF table, Ended, CallInTime
<1>4. ASSUME NEW i \in Find(ReplyTo(k.op)), DeliverReply(i, k.req)
      PROVE  ReqsInv' /\ CallInTime
  BY <1>1, <1>2, <1>4, DeliverReplyReqs
<1> QED
  BY <1>3, <1>4 DEF CommandComplete

LEMMA CommandEventReqs ==
  ASSUME IInv, ReqsInv, NEW e \in running, CommandEvent(e)
  PROVE  ReqsInv' /\ CallInTime
<1>1. e.event \in Matchers
  BY DEF IInv, TypeOK
<1>2. frame = NoFrame /\ UNCHANGED <<frame, next>>
  BY DEF CommandEvent
<1>3. CASE call' = NoCall /\ UNCHANGED <<table, reqs>>
  BY <1>2, <1>3, SameReqs DEF table, Ended, CallInTime
<1>4. ASSUME NEW i \in Find(e.event), DeliverReply(i, e.req)
      PROVE  ReqsInv' /\ CallInTime
  BY <1>1, <1>2, <1>4, DeliverReplyReqs
<1> QED
  BY <1>3, <1>4 DEF CommandEvent

LEMMA DeliverStatusReqs ==
  ASSUME IInv, ReqsInv, frame = NoFrame, NEW op \in AsyncOps,
         NEW i \in Find(ReplyTo(op)), NEW of, NEW ok \in BOOLEAN,
         DeliverStatus(i, op, of, ok), UNCHANGED next
  PROVE  ReqsInv' /\ CallInTime
<1> DEFINE pc == pending_commands[i]
<1>0. TableOK /\ Others
  BY Split DEF IInv
<1>1. /\ i \in Used /\ pc \in Entries
      /\ \A j \in Used : ~Ended(j)
      /\ pc.user \in Requests => reqs[pc.user].phase \in {"sent", "waiting"}
  BY ReplyType, Found, FoundReqs DEF Ops
<1>2. (call' # NoCall => call'.to = pc.user) => CallInTime
  BY <1>1 DEF CallInTime
<1>3. ASSUME StatusEnds(i, of), NEW ph, Ends(pc.user, ph)
      PROVE  ReqsInv' /\ CallInTime
  <2>1. \A r \in Requests : r # pc.user => reqs'[r] = reqs[r]
    BY <1>0, <1>3 DEF Ends, Others
  <2>2. ReqsInv'
    BY <1>1, <1>3, <2>1, FreeReqs DEF StatusEnds
  <2> QED
    BY <1>2, <1>3, <2>2 DEF StatusEnds, Calling
<1>4. CASE op \in PlainOps \/ pc.hci = NoClient
  BY <1>3, <1>4 DEF DeliverStatus
<1>5. CASE op \notin PlainOps /\ pc.hci # NoClient /\ ok
  <2>0. pc.hci \in Clients /\ StatusOk(i, op, of)
    BY <1>1, <1>5 DEF DeliverStatus, Entries
  <2> DEFINE m == EventMatcher(op, pc.hci)
             ev == Entry(m, pc.hci, pc.user, tmpdata[pc.hci].cb, FALSE)
  <2>1. CASE Alloc(m) = {} /\ StatusEnds(i, of) /\ Ends(pc.user, "silent")
    BY <1>3, <2>1
  <2>2. ASSUME NEW j \in Alloc(m), ReplaceEntry(i, j, ev), Waits(pc.user),
               IF pc.scb THEN Calling(pc.hci, pc.user, pc.user, of)
                         ELSE call' = NoCall,
               UNCHANGED frame
        PROVE  ReqsInv' /\ CallInTime
    <3>1. m \in Matchers /\ m # NoMatcher
      BY <2>0, EventMatcherType, MatcherNotEmpty DEF IInv
    <3>2. ev \in Entries /\ ~IsEmpty(ev) /\ ev.hci = pc.hci /\ ev.user = pc.user
      BY <1>0, <1>1, <2>0, <3>1 DEF Entry, Entries, IsEmpty, Others, Tmpdata
    <3>3. j \in Slots /\ j \notin Used
      BY <1>0, AllocFree
    <3>4. ReqsInv'
      <4>1. ReplaceEntry(i, j, ev) /\ Waits(ev.user) /\ UNCHANGED <<next, frame>>
        BY <2>2, <3>2
      <4> HIDE DEF ev
      <4> QED
        BY <1>1, <3>2, <3>3, <4>1, MoveReqs
    <3>5. call' # NoCall => call'.to = pc.user
      BY <2>2 DEF Calling
    <3> QED
      BY <1>2, <3>4, <3>5
  <2> QED
    BY <2>0, <2>1, <2>2 DEF StatusOk
<1>6. CASE op \notin PlainOps /\ pc.hci # NoClient /\ ~ok
  <2>0. StatusError(i, op, of)
    BY <1>6 DEF DeliverStatus
  <2>1. CASE ReportsError(op, pc)
    <3>1. /\ frame' = [slot |-> i, hci |-> pc.hci, kind |-> "status"]
          /\ Calling(pc.hci, pc.user, tmpdata[pc.hci].cb, of)
          /\ Ends(pc.user, "done") /\ UNCHANGED table
      BY <2>0, <2>1 DEF StatusError
    <3>2. \A r \in Requests : r # pc.user => reqs'[r] = reqs[r]
      BY <1>0, <3>1 DEF Ends, Others
    <3>3. Ended(i)'
      BY <3>1 DEF Ended, NoFrame
    <3>4. ReqsInv'
      BY <1>1, <3>1, <3>2, <3>3, HoldReqs DEF table
    <3> QED
      BY <1>2, <3>1, <3>4 DEF Calling
  <2>2. CASE ~ReportsError(op, pc)
    BY <1>3, <2>0, <2>2 DEF StatusError
  <2> QED
    BY <2>1, <2>2
<1> QED
  BY <1>4, <1>5, <1>6

LEMMA CommandStatusReqs ==
  ASSUME IInv, ReqsInv, NEW k \in ctl, NEW ok \in BOOLEAN, CommandStatus(k, ok)
  PROVE  ReqsInv' /\ CallInTime
<1>1. frame = NoFrame /\ UNCHANGED next /\ k.op \in AsyncOps
  BY DEF CommandStatus
<1>2. CASE call' = NoCall /\ UNCHANGED <<table, reqs, frame>>
  BY <1>1, <1>2, SameReqs DEF table, Ended, CallInTime
<1>3. ASSUME NEW i \in Find(ReplyTo(k.op)), DeliverStatus(i, k.op, k.req, ok)
      PROVE  ReqsInv' /\ CallInTime
  BY <1>1, <1>3, DeliverStatusReqs
<1> QED
  BY <1>2, <1>3 DEF CommandStatus

LEMMA ListenReqs ==
  ASSUME IInv, ReqsInv, NEW c \in Clients, NEW ev \in ListenEvents,
         NEW p \in Peers, Listen(c, ev, p)
  PROVE  ReqsInv' /\ CallInTime
<1> DEFINE e == Entry(Matcher(ev, p), c, NoReq, NoReq, FALSE)
<1>0. TableOK
  BY Split DEF IInv
<1>1. PICK i \in Alloc(Matcher(ev, p)) : AddEntry(i, e)
  BY DEF Listen
<1>2. i \in Slots /\ i \notin Used
  BY <1>0, AllocFree
<1>3. Matcher(ev, p) \in Matchers
  BY DEF Matchers, Matcher, Events, Keys
<1>4. e \in Entries /\ ~IsEmpty(e) /\ e.user = NoReq
  BY <1>3, MatcherNotEmpty DEF Entry, Entries, IsEmpty
<1> HIDE DEF e
<1>5. ReqsInv'
  BY <1>1, <1>2, <1>4, AddReqs DEF Listen
<1> QED
  BY <1>5 DEF Listen, CallInTime

LEMMA UnlistenReqs ==
  ASSUME IInv, ReqsInv, CallbackMay = {}, NEW c \in Clients,
         NEW ev \in ListenEvents, NEW p \in Peers, Unlisten(c, ev, p)
  PROVE  ReqsInv' /\ CallInTime
<1>1. PICK i \in Find(Matcher(ev, p)) : i # frame.slot /\ FreeEntry(i)
  BY DEF Unlisten
<1>2. Matcher(ev, p) \in Matchers
  BY DEF Matchers, Matcher, Events, Keys
<1>3. i \in Used /\ i \in Slots
  BY <1>2, Found
<1>4. TableOK
  BY Split DEF IInv
<1>5. Used' = Used \ {i}
  BY <1>1, <1>3, <1>4, Freeing
<1>6. \A j \in Used' : pending_commands'[j] = pending_commands[j]
  BY <1>1, <1>4, <1>5 DEF FreeEntry, TableOK, Used
<1>7. UNCHANGED <<frame, reqs, next>> /\ call' = NoCall
  BY DEF Unlisten
<1>8. ReqsInv'
  BY <1>5, <1>6, <1>7 DEF ReqsInv, FreshUnused, Awaited, OneEntryEach, Ended
<1> QED
  BY <1>7, <1>8 DEF CallInTime

LEMMA ListenedEventReqs ==
  ASSUME IInv, ReqsInv, NEW ev \in ListenEvents, NEW p \in Peers,
         ListenedEvent(ev, p)
  PROVE  ReqsInv' /\ CallInTime
<1>1. ReqsInv'
  BY SameReqs DEF ListenedEvent, Ended, table
<1>2. call' # NoCall => call'.to = NoReq
  BY DEF ListenedEvent, Calling
<1>3. NoReq \notin Requests
  BY DEF NoReq, Requests
<1> QED
  BY <1>1, <1>2, <1>3 DEF CallInTime

LEMMA CallbackReturnsReqs ==
  ASSUME IInv, ReqsInv, NEW remove \in BOOLEAN, CallbackReturns(remove)
  PROVE  ReqsInv' /\ CallInTime
<1>1. /\ frame # NoFrame /\ frame.slot \in Used /\ call' = NoCall
      /\ UNCHANGED <<reqs, next>>
  BY DEF CallbackReturns, IInv, HeldEntryStays
<1>2. \A j \in Used : j # frame.slot => ~Ended(j)
  BY DEF Ended
<1>3. CASE remove
  <2>1. FreeEntry(frame.slot)
    BY <1>3 DEF CallbackReturns
  <2> QED
    BY <1>1, <1>2, <2>1, FreeReqs DEF CallInTime
<1>4. CASE ~remove
  <2>1. \A j \in Used : ~Ended(j)
    BY <1>4 DEF CallbackReturns, Ended
  <2> QED
    BY <1>1, <1>4, <2>1, SameReqs DEF CallbackReturns, table, CallInTime
<1> QED
  BY <1>3, <1>4

LEMMA ClientFreeReqs ==
  ASSUME IInv, ReqsInv, CallbackMay = {}, NEW c \in Clients, ClientFree(c)
  PROVE  ReqsInv' /\ CallInTime
<1>0. TableOK /\ UNCHANGED <<frame, next>> /\ call' = NoCall
  BY Split DEF IInv, ClientFree
<1>1. Used' = Used \ OwnedBy(c)
  BY <1>0, Disposing DEF ClientFree
<1>2. \A j \in Used' : /\ pending_commands'[j] = pending_commands[j]
                       /\ pending_commands[j].hci # c /\ j \in Used
  BY <1>1 DEF ClientFree, DisposeEntries, Used, OwnedBy
<1>3. \A r \in Requests :
        reqs'[r] = IF reqs[r].hci = c /\ reqs[r].phase \in {"sent", "waiting"}
                   THEN [phase |-> "gone", hci |-> NoClient] ELSE reqs[r]
  BY DEF ClientFree
<1>4. FreshUnused'
  BY <1>0, <1>3 DEF ReqsInv, FreshUnused
<1>5. ASSUME NEW j \in Used' PROVE Awaited(j)'
  <2> DEFINE u == pending_commands[j].user
  <2>1. j \in Used /\ Ended(j)' = Ended(j)
    BY <1>0, <1>2 DEF Ended
  <2>2. u # NoReq => u \in Requests /\ u < next
    BY <2>1, UserType DEF ReqsInv, Awaited
  <2>3. u # NoReq /\ ~Ended(j) => /\ reqs[u].phase \in {"sent", "waiting"}
                                  /\ reqs[u].hci = pending_commands[j].hci
    BY <2>1 DEF ReqsInv, Awaited
  <2>4. u # NoReq /\ ~Ended(j) => reqs'[u] = reqs[u]
    BY <1>2, <1>3, <2>2, <2>3
  <2> QED
    BY <1>0, <1>2, <2>1, <2>2, <2>3, <2>4 DEF Awaited
<1>6. OneEntryEach'
  BY <1>2 DEF ReqsInv, OneEntryEach
<1> QED
  BY <1>0, <1>4, <1>5, <1>6 DEF ReqsInv, CallInTime

LEMMA NextReqs ==
  ASSUME IInv, ReqsInv, CallbackMay = {}, Next
  PROVE  ReqsInv' /\ CallInTime
<1>1. ASSUME NEW c \in Clients, NEW op \in Ops, NEW p \in Peers,
             NEW scb \in StatusCbs \cup {TRUE}, Command(c, op, p, scb)
      PROVE  ReqsInv' /\ CallInTime
  <2>1. c \in clients \cup {NoClient} /\ scb \in BOOLEAN
    BY <1>1, EnvironmentAssumption DEF Command
  <2> QED
    BY <1>1, <2>1, AddCommandReqs DEF Command
<1>2. ASSUME NEW op \in NegativeReplies \cap Ops, NEW p \in Peers,
             UnhandledRequest(op, p)
      PROVE  ReqsInv' /\ CallInTime
  BY <1>2, AddCommandReqs DEF UnhandledRequest
<1>3. ASSUME NEW c \in Clients, ClientNew(c)
      PROVE  ReqsInv' /\ CallInTime
  BY <1>3, SameReqs DEF ClientNew, table, Ended, CallInTime
<1> QED
  BY <1>1, <1>2, <1>3, CommandCompleteReqs, CommandStatusReqs,
     CommandEventReqs, ListenReqs, UnlistenReqs, ListenedEventReqs,
     CallbackReturnsReqs, ClientFreeReqs
     DEF Next

LEMMA InitReqs == Init => ReqsInv
<1> SUFFICES ASSUME Init PROVE ReqsInv
  OBVIOUS
<1>1. Used = {}
  BY DEF Init, Used, IsEmpty, EmptyEntry, Entry
<1> QED
  BY <1>1 DEF Init, ReqsInv, FreshUnused, OneEntryEach

LEMMA ReqsInvariance == CallbackMay = {} => (Spec => [](IInv /\ ReqsInv))
<1> SUFFICES ASSUME CallbackMay = {} PROVE Spec => [](IInv /\ ReqsInv)
  OBVIOUS
<1>1. Init => IInv /\ ReqsInv
  BY InitInv, InitReqs
<1>2. IInv /\ ReqsInv /\ [Next]_vars => IInv' /\ ReqsInv'
  <2> SUFFICES ASSUME IInv, ReqsInv, [Next]_vars PROVE IInv' /\ ReqsInv'
    OBVIOUS
  <2>1. CASE Next
    BY <2>1, NextInv, NextReqs
  <2>2. CASE UNCHANGED vars
    BY <2>2, NextInv, SameReqs DEF vars, Ended
  <2> QED
    BY <2>1, <2>2
<1> QED
  BY <1>1, <1>2, PTL DEF Spec

(* A client hears nothing of a request once it had the last callback for   *)
(* it, or was refused, or was freed: deliver_reply_to_client and the       *)
(* status and event callbacks only find entries of requests that are still *)
(* awaited.                                                                *)
THEOREM NoLateCall == CallbackMay = {} => (Spec => NoCallAfterEnd)
<1> SUFFICES ASSUME CallbackMay = {} PROVE Spec => NoCallAfterEnd
  OBVIOUS
<1>1. IInv /\ ReqsInv /\ [Next]_vars => [CallInTime]_vars
  BY NextReqs
<1> QED
  BY <1>1, ReqsInvariance, PTL DEF Spec, NoCallAfterEnd, CallInTime

-----------------------------------------------------------------------------
(* Delivery to the requester.  Of the commands that are unanswered no two  *)
(* have the same opcode, the same client and an event to come, or the same *)
(* final event; an entry is that of one of them and its client's union is  *)
(* what that command left in it; or it is for the final event of one that  *)
(* is running, and no two of those end with the same event.                *)
IsReply(m) == m.ev \in {"COMMAND_COMPLETE", "COMMAND_STATUS"}
Final(k) == FinalEvent(k.op, k.peer)
CommandsApart ==
  \A k, l \in ctl :
    \/ k.op = l.op
    \/ /\ k.op \in AsyncOps /\ l.op \in AsyncOps
       /\ k.hci = l.hci \/ Final(k) = Final(l)
    => k = l
EventsApart ==
  \A e \in running :
    /\ ~IsReply(e.event) /\ e.event.ev \notin ListenEvents
    /\ \A f \in running : f.event = e.event => f = e
    /\ \A k \in ctl : k.op \in AsyncOps => Final(k) # e.event
Prepared(k) ==
  k.op \in AsyncOps \ PlainOps /\ k.hci # NoClient =>
    /\ tmpdata[k.hci].cb = k.req
    /\ EventMatcher(k.op, k.hci) = Final(k)
SentFor(pc, k) == pc.matcher = ReplyTo(k.op) /\ pc.user = k.req /\ pc.hci = k.hci
EntryRight(i) ==
  LET pc == pending_commands[i] IN
  /\ pc.cb = pc.user
  /\ pc.user = NoReq <=> pc.matcher.ev \in ListenEvents
  /\ IsReply(pc.matcher) =>
       Ended(i) \/ \E k \in ctl : SentFor(pc, k) /\ Prepared(k)
  /\ ~IsReply(pc.matcher) /\ pc.user # NoReq =>
       \E e \in running : e.event = pc.matcher /\ e.req = pc.user
RightInv ==
  /\ CommandsApart /\ EventsApart
  /\ \A i \in Used : EntryRight(i)
  /\ DeliveredToRequester

(* Every nonempty set of naturals has a least element.                     *)
LEMMA LeastNat ==
  ASSUME NEW T, T \subseteq Nat, T # {}
  PROVE  \E n \in T : \A m \in T : n <= m
<1> DEFINE R == OpToRel(<, Nat)
<1>1. IsWellFoundedOn(R, Nat)
  BY NatLessThanWellFounded
<1> HIDE DEF R
<1>2. PICK n \in T : \A m \in T : ~ (<<m, n>> \in R)
  BY <1>1, WFMin
<1>3. \A m \in T : ~(m < n)
  BY <1>2 DEF R, OpToRel
<1> QED
  BY <1>3

(* An entry for the event is found if there is one.                        *)
LEMMA FindFirst ==
  ASSUME NEW m, NEW j \in Slots, pending_commands[j].matcher = m
  PROVE  Find(m) # {}
<1> DEFINE T == {i \in Slots : pending_commands[i].matcher = m}
<1>1. T \subseteq Nat /\ T # {}
  BY DEF Slots
<1>2. PICK n \in T : \A i \in T : n <= i
  BY <1>1, LeastNat
<1>3. \A i \in 0 .. n - 1 : pending_commands[i].matcher # m
  <2> SUFFICES ASSUME NEW i \in 0 .. n - 1, pending_commands[i].matcher = m
               PROVE  FALSE
    OBVIOUS
  <2>1. i \in Slots
    BY SizeAssumption DEF Slots
  <2> QED
    BY <1>2, <2>1 DEF Slots
<1> QED
  BY <1>2, <1>3 DEF Find

(* The first answer tells the opcode, and no final event is one, nor an    *)
(* event that is listened to.                                              *)
LEMMA ReplyTells ==
  /\ \A a, b \in Ops : ReplyTo(a) = ReplyTo(b) => a = b
  /\ \A a \in Ops : IsReply(ReplyTo(a)) /\ ReplyTo(a).ev \notin ListenEvents
  BY OpsAssumption DEF ReplyTo, Matcher, IsReply

LEMMA FinalTells ==
  ASSUME NEW op \in AsyncOps, NEW p
  PROVE  /\ ~IsReply(FinalEvent(op, p))
         /\ FinalEvent(op, p).ev \notin ListenEvents
<1>1. op \in AsyncNames
  BY OpsAssumption
<1>2. FinalEvent(op, p).ev = EventOf(op)
  BY DEF FinalEvent, Matcher
<1>3. EventOf(op) \notin {"COMMAND_COMPLETE", "COMMAND_STATUS", "MODE_CHANGE",
                         "QOS_SETUP_COMPLETE"}
  BY <1>1 DEF EventOf, AsyncNames, ConnOps, ReadOps, PlainOps
<1> QED
  BY <1>2, <1>3, OpsAssumption DEF IsReply

LEMMA SyncNotAsync == SyncOps \cap AsyncOps = {}
  BY OpsAssumption

(* An entry that stays is still right if its command or event stays.       *)
LEMMA StaysRight ==
  ASSUME NEW j, EntryRight(j), pending_commands'[j] = pending_commands[j],
         Ended(j) => Ended(j)',
         \A k \in ctl : SentFor(pending_commands[j], k) /\ Prepared(k)
                           => k \in ctl' /\ Prepared(k)',
         \A e \in running : e.req = pending_commands[j].user
                              /\ e.event = pending_commands[j].matcher
                                => e \in running'
  PROVE  EntryRight(j)'
<1>1. \A k : SentFor(pending_commands'[j], k) <=> SentFor(pending_commands[j], k)
  BY DEF SentFor
<1> QED
  BY <1>1 DEF EntryRight

LEMMA PreparedStays ==
  ASSUME NEW k, Prepared(k), k.hci # NoClient => tmpdata'[k.hci] = tmpdata[k.hci]
  PROVE  Prepared(k)'
  BY DEF Prepared, EventMatcher

LEMMA CallRight ==
  ASSUME NEW c, NEW of, Calling(c, of, of, of) \/ call' = NoCall
  PROVE  DeliveredToRequester'
  BY DEF Calling, NoCall, DeliveredToRequester

(* The entry of the answered request is freed.                             *)
LEMMA FreedRight ==
  ASSUME IInv, ReqsInv, RightInv, frame = NoFrame, NEW i \in Used,
         NEW of \in Requests, pending_commands[i].user = of, FreeEntry(i),
         UNCHANGED <<frame, tmpdata>>,
         \A k \in ctl : k \in ctl' \/ k.req = of,
         \A e \in running : e \in running' \/ e.req = of,
         CommandsApart', EventsApart', DeliveredToRequester'
  PROVE  RightInv'
<1>1. TableOK /\ i \in Slots
  BY Split DEF IInv, Used
<1>2. Used' = Used \ {i}
  BY <1>1, Freeing
<1>3. \A j \in Used' : pending_commands'[j] = pending_commands[j]
  BY <1>1, <1>2 DEF FreeEntry, TableOK, Used
<1>4. ASSUME NEW j \in Used' PROVE EntryRight(j)'
  <2>1. j \in Used /\ j # i /\ EntryRight(j)
    BY <1>2 DEF RightInv
  <2>2. pending_commands[j].user # of
    BY <2>1 DEF ReqsInv, OneEntryEach, Requests, NoReq
  <2>3. \A k \in ctl : SentFor(pending_commands[j], k) /\ Prepared(k)
                          => k \in ctl' /\ Prepared(k)'
    BY <2>2, PreparedStays DEF SentFor
  <2>4. \A e \in running : e.req = pending_commands[j].user => e \in running'
    BY <2>2
  <2> QED
    BY <1>3, <2>1, <2>3, <2>4, StaysRight DEF Ended
<1> QED
  BY <1>4 DEF RightInv

(* Nothing is found: no entry is that of the command or event.             *)
LEMMA NotFoundRight ==
  ASSUME IInv, RightInv, frame = NoFrame,
         UNCHANGED <<pending_commands, frame, tmpdata>>, call' = NoCall,
         \A k \in ctl : k \in ctl' \/ Find(ReplyTo(k.op)) = {},
         \A e \in running : e \in running' \/ Find(e.event) = {},
         CommandsApart', EventsApart'
  PROVE  RightInv'
<1>1. Used' = Used
  BY DEF Used
<1>2. ASSUME NEW j \in Used PROVE EntryRight(j)'
  <2>0. j \in Slots
    BY DEF Used
  <2>1. \A k \in ctl : SentFor(pending_commands[j], k) /\ Prepared(k)
                          => k \in ctl' /\ Prepared(k)'
    BY <2>0, FindFirst, PreparedStays DEF SentFor
  <2>2. \A e \in running : e.event = pending_commands[j].matcher => e \in running'
    BY <2>0, FindFirst
  <2> QED
    BY <2>1, <2>2, StaysRight DEF Ended, RightInv
<1> QED
  BY <1>1, <1>2, CallRight DEF RightInv

(* The entry that a command's answer finds is that of the command.         *)
LEMMA ReplyFinds ==
  ASSUME IInv, ReqsInv, RightInv, frame = NoFrame, NEW k \in ctl,
         NEW i \in Find(ReplyTo(k.op))
  PROVE  /\ i \in Used
         /\ pending_commands[i].user = k.req /\ pending_commands[i].cb = k.req
         /\ pending_commands[i].hci = k.hci
         /\ k.req \in Requests
         /\ Prepared(k)
<1>1. k.op \in Ops /\ k.req \in Requests /\ ctl \subseteq Commands
  BY DEF IInv, TypeOK, Commands
<1>2. i \in Used /\ pending_commands[i].matcher = ReplyTo(k.op)
  BY <1>1, ReplyType, Found
<1>3. PICK l \in ctl : SentFor(pending_commands[i], l) /\ Prepared(l)
  <2>1. IsReply(pending_commands[i].matcher) /\ ~Ended(i) /\ EntryRight(i)
    BY <1>1, <1>2, ReplyTells DEF Ended, RightInv
  <2> QED
    BY <2>1 DEF EntryRight
<1>4. l.op = k.op
  BY <1>1, <1>2, <1>3, ReplyTells DEF SentFor, Commands
<1>5. l = k
  BY <1>4 DEF RightInv, CommandsApart
<1>6. pending_commands[i].cb = pending_commands[i].user
  BY <1>2 DEF RightInv, EntryRight
<1> QED
  BY <1>1, <1>2, <1>3, <1>5, <1>6 DEF SentFor

(* The entry that a final event finds is that of its procedure.            *)
LEMMA EventFinds ==
  ASSUME IInv, ReqsInv, RightInv, NEW e \in running, NEW i \in Find(e.event)
  PROVE  /\ i \in Used
         /\ pending_commands[i].user = e.req /\ pending_commands[i].cb = e.req
         /\ e.req \in Requests
<1>1. e.event \in Matchers /\ e.req \in Requests
  BY DEF IInv, TypeOK
<1>2. i \in Used /\ pending_commands[i].matcher = e.event
  BY <1>1, Found
<1>3. EntryRight(i) /\ ~IsReply(e.event) /\ e.event.ev \notin ListenEvents
  BY <1>2 DEF RightInv, EventsApart
<1>4. PICK f \in running : f.event = pending_commands[i].matcher
                           /\ f.req = pending_commands[i].user
  BY <1>2, <1>3 DEF EntryRight
<1>5. f = e
  BY <1>2, <1>4 DEF RightInv, EventsApart
<1> QED
  BY <1>1, <1>2, <1>3, <1>4, <1>5 DEF EntryRight

LEMMA ApartShrinks ==
  ASSUME CommandsApart, EventsApart, ctl' \subseteq ctl, running' \subseteq running
  PROVE  CommandsApart' /\ EventsApart'
  BY DEF CommandsApart, EventsApart, Final

LEMMA CommandCompleteRight ==
  ASSUME IInv, ReqsInv, RightInv, NEW k \in ctl, CommandComplete(k)
  PROVE  RightInv'
<1>1. /\ frame = NoFrame /\ ctl' = ctl \ {k}
      /\ UNCHANGED <<tmpdata, frame, running>>
  BY DEF CommandComplete
<1>2. CommandsApart' /\ EventsApart'
  BY <1>1, ApartShrinks DEF RightInv
<1>3. CASE Find(ReplyTo(k.op)) = {} /\ call' = NoCall /\ UNCHANGED table
  BY <1>1, <1>2, <1>3, NotFoundRight DEF table
<1>4. ASSUME NEW i \in Find(ReplyTo(k.op)), DeliverReply(i, k.req)
      PROVE  RightInv'
  <2>1. /\ i \in Used /\ k.req \in Requests
        /\ pending_commands[i].user = k.req /\ pending_commands[i].cb = k.req
    BY <1>1, ReplyFinds
  <2>2. DeliveredToRequester'
    BY <1>4, <2>1, CallRight DEF DeliverReply
  <2>3. \A l \in ctl : l \in ctl' \/ l.req = k.req
    BY <1>1
  <2> QED
    BY <1>1, <1>2, <1>4, <2>1, <2>2, <2>3, FreedRight DEF DeliverReply
<1> QED
  BY <1>3, <1>4 DEF CommandComplete

LEMMA CommandEventRight ==
  ASSUME IInv, ReqsInv, RightInv, NEW e \in running, CommandEvent(e)
  PROVE  RightInv'
<1>1. /\ frame = NoFrame /\ running' = running \ {e}
      /\ UNCHANGED <<tmpdata, frame, ctl>>
  BY DEF CommandEvent
<1>2. CommandsApart' /\ EventsApart'
  BY <1>1, ApartShrinks DEF RightInv
<1>3. CASE Find(e.event) = {} /\ call' = NoCall /\ UNCHANGED table
  BY <1>1, <1>2, <1>3, NotFoundRight DEF table
<1>4. ASSUME NEW i \in Find(e.event), DeliverReply(i, e.req)
      PROVE  RightInv'
  <2>1. /\ i \in Used /\ e.req \in Requests
        /\ pending_commands[i].user = e.req /\ pending_commands[i].cb = e.req
    BY <1>1, EventFinds
  <2>2. DeliveredToRequester'
    BY <1>4, <2>1, CallRight DEF DeliverReply
  <2>3. \A f \in running : f \in running' \/ f.req = e.req
    BY <1>1
  <2> QED
    BY <1>1, <1>2, <1>4, <2>1, <2>2, <2>3, FreedRight DEF DeliverReply
<1> QED
  BY <1>3, <1>4 DEF CommandEvent

(* A status moves its command from the unanswered to the running ones.     *)
LEMMA ApartMoves ==
  ASSUME IInv, CommandsApart, EventsApart, NEW k \in ctl, k.op \in AsyncOps,
         ctl' = ctl \ {k},
         \/ running' = running
         \/ running' = running \cup {[req |-> k.req, event |-> Final(k)]}
  PROVE  CommandsApart' /\ EventsApart'
<1>1. CommandsApart'
  BY DEF CommandsApart, Final
<1> DEFINE new == [req |-> k.req, event |-> Final(k)]
<1>2. ~IsReply(Final(k)) /\ Final(k).ev \notin ListenEvents
  BY FinalTells DEF Final
<1>3. new.event = Final(k) /\ \A e \in running : e.event # new.event
  BY DEF EventsApart
<1>4. \A l \in ctl' : l.op \in AsyncOps => Final(l) # new.event
  BY <1>3 DEF CommandsApart
<1> HIDE DEF new
<1>5. running' \subseteq running \cup {new}
  BY DEF new
<1>6. ASSUME NEW e \in running'
      PROVE  /\ ~IsReply(e.event) /\ e.event.ev \notin ListenEvents
             /\ \A f \in running' : f.event = e.event => f = e
             /\ \A l \in ctl' : l.op \in AsyncOps => Final(l) # e.event
  <2>1. CASE e = new
    BY <1>2, <1>3, <1>4, <1>5, <2>1
  <2>2. CASE e # new
    BY <1>3, <1>5, <2>2 DEF EventsApart
  <2> QED
    BY <2>1, <2>2
<1> QED
  BY <1>1, <1>6 DEF EventsApart, Final

(* The entry for the final event takes the place of the one for the        *)
(* status.                                                                 *)
LEMMA MovedRight ==
  ASSUME IInv, ReqsInv, RightInv, frame = NoFrame, NEW i \in Used,
         NEW j \in Slots, j \notin Used, NEW k \in ctl, k.op \in AsyncOps,
         pending_commands[i].user = k.req, k.req \in Requests,
         NEW e \in Entries, ~IsEmpty(e), ReplaceEntry(i, j, e),
         e.user = k.req, e.cb = k.req, e.matcher = Final(k),
         UNCHANGED <<frame, tmpdata>>, ctl' = ctl \ {k},
         running' = running \cup {[req |-> k.req, event |-> Final(k)]},
         CommandsApart', EventsApart', DeliveredToRequester'
  PROVE  RightInv'
<1>1. TableOK /\ i \in Slots
  BY Split DEF IInv, Used
<1>2. Used' = (Used \cup {j}) \ {i}
  BY <1>1, Replacing
<1>3. /\ \A x \in Used' : x # j => pending_commands'[x] = pending_commands[x]
      /\ pending_commands'[j] = e
  BY <1>1, <1>2 DEF ReplaceEntry, TableOK, Used
<1>4. EntryRight(j)'
  <2>1. ~IsReply(e.matcher) /\ e.matcher.ev \notin ListenEvents
    BY FinalTells DEF Final
  <2>2. e.user # NoReq
    BY DEF NoReq, Requests
  <2>3. PICK f \in running' : f = [req |-> k.req, event |-> Final(k)]
    OBVIOUS
  <2>4. f.event = e.matcher /\ f.req = e.user
    BY <2>3
  <2> QED
    BY <1>3, <2>1, <2>2, <2>4 DEF EntryRight
<1>5. ASSUME NEW x \in Used', x # j PROVE EntryRight(x)'
  <2>1. x \in Used /\ x # i /\ EntryRight(x)
    BY <1>2, <1>5 DEF RightInv
  <2>2. pending_commands[x].user # k.req
    BY <2>1 DEF ReqsInv, OneEntryEach, Requests, NoReq
  <2>3. \A l \in ctl : SentFor(pending_commands[x], l) /\ Prepared(l)
                          => l \in ctl' /\ Prepared(l)'
    BY <2>2, PreparedStays DEF SentFor
  <2>4. \A f \in running : f \in running'
    OBVIOUS
  <2> QED
    BY <1>3, <1>5, <2>1, <2>3, <2>4, StaysRight DEF Ended
<1> QED
  BY <1>4, <1>5 DEF RightInv

LEMMA CommandStatusRight ==
  ASSUME IInv, ReqsInv, RightInv, NEW k \in ctl, NEW ok \in BOOLEAN,
         CommandStatus(k, ok)
  PROVE  RightInv'
<1>0. TableOK /\ Others
  BY Split DEF IInv
<1>1. /\ frame = NoFrame /\ ctl' = ctl \ {k} /\ k.op \in AsyncOps
      /\ UNCHANGED tmpdata
      /\ running' = IF ok /\ k.op \notin PlainOps
                    THEN running \cup {[req |-> k.req, event |-> Final(k)]}
                    ELSE running
  BY DEF CommandStatus, Final
<1>2. CommandsApart' /\ EventsApart'
  BY <1>1, ApartMoves DEF RightInv
<1>3. running \subseteq running' /\ \A l \in ctl : l \in ctl' \/ l.req = k.req
  BY <1>1
<1>4. CASE /\ Find(ReplyTo(k.op)) = {} /\ call' = NoCall
           /\ UNCHANGED <<table, frame>>
  BY <1>1, <1>2, <1>3, <1>4, NotFoundRight DEF table
<1>5. ASSUME NEW i \in Find(ReplyTo(k.op)), DeliverStatus(i, k.op, k.req, ok)
      PROVE  RightInv'
  <2> DEFINE pc == pending_commands[i]
  <2>1. /\ i \in Used /\ k.req \in Requests /\ Prepared(k)
        /\ pc.user = k.req /\ pc.cb = k.req /\ pc.hci = k.hci
    BY <1>1, ReplyFinds
  <2>2. pc \in Entries /\ pc.hci \in Clients \cup {NoClient}
    BY <2>1, UserType
  <2>3. ASSUME StatusEnds(i, k.req) PROVE RightInv'
    <3>1. DeliveredToRequester'
      BY <2>1, <2>3, CallRight DEF StatusEnds
    <3> QED
      BY <1>1, <1>2, <1>3, <2>1, <2>3, <3>1, FreedRight DEF StatusEnds
  <2>4. CASE k.op \in PlainOps \/ pc.hci = NoClient
    BY <1>5, <2>3, <2>4 DEF DeliverStatus
  <2>5. CASE k.op \notin PlainOps /\ pc.hci # NoClient /\ ok
    <3>1. StatusOk(i, k.op, k.req) /\ pc.hci \in Clients
      BY <1>5, <2>2, <2>5 DEF DeliverStatus
    <3> DEFINE m == EventMatcher(k.op, pc.hci)
               ev == Entry(m, pc.hci, pc.user, tmpdata[pc.hci].cb, FALSE)
    <3>2. CASE Alloc(m) = {} /\ StatusEnds(i, k.req)
      BY <2>3, <3>2
    <3>3. ASSUME NEW j \in Alloc(m), ReplaceEntry(i, j, ev),
                 IF pc.scb THEN Calling(pc.hci, pc.user, pc.user, k.req)
                           ELSE call' = NoCall,
                 UNCHANGED frame
          PROVE  RightInv'
      <4>1. m \in Matchers /\ m # NoMatcher
        BY <1>1, <3>1, EventMatcherType, MatcherNotEmpty DEF IInv
      <4>2. ev \in Entries /\ ~IsEmpty(ev)
        BY <1>0, <2>1, <2>2, <3>1, <4>1
           DEF Entry, Entries, IsEmpty, Others, Tmpdata
      <4>3. m = Final(k) /\ tmpdata[pc.hci].cb = k.req
        BY <1>1, <2>1, <2>5 DEF Prepared
      <4>4. ev.user = k.req /\ ev.cb = k.req /\ ev.matcher = Final(k)
        BY <2>1, <4>3 DEF Entry
      <4>5. j \in Slots /\ j \notin Used
        BY <1>0, AllocFree
      <4>6. DeliveredToRequester'
        BY <2>1, <3>3, CallRight
      <4>7. ReplaceEntry(i, j, ev)
        BY <3>3
      <4>8. running' = running \cup {[req |-> k.req, event |-> Final(k)]}
        BY <1>1, <2>5
      <4> HIDE DEF ev
      <4> QED
        BY <1>1, <1>2, <2>1, <3>3, <4>2, <4>4, <4>5, <4>6, <4>7, <4>8, MovedRight
    <3> QED
      BY <3>1, <3>2, <3>3 DEF StatusOk
  <2>6. CASE k.op \notin PlainOps /\ pc.hci # NoClient /\ ~ok
    <3>1. StatusError(i, k.op, k.req)
      BY <1>5, <2>6 DEF DeliverStatus
    <3>2. CASE ReportsError(k.op, pc)
      <4>1. /\ frame' = [slot |-> i, hci |-> pc.hci, kind |-> "status"]
            /\ Calling(pc.hci, pc.user, tmpdata[pc.hci].cb, k.req)
            /\ UNCHANGED table
        BY <3>1, <3>2 DEF StatusError
      <4>2. tmpdata[pc.hci].cb = k.req
        BY <1>1, <2>1, <2>6 DEF Prepared
      <4>3. DeliveredToRequester'
        BY <2>1, <4>1, <4>2, CallRight
      <4>4. Used' = Used /\ UNCHANGED pending_commands
        BY <4>1 DEF table, Used
      <4>5. Ended(i)'
        BY <4>1 DEF Ended, NoFrame
      <4>6. ASSUME NEW x \in Used PROVE EntryRight(x)'
        <5>1. EntryRight(x)
          BY DEF RightInv
        <5>2. CASE x = i
          <6>1. IsReply(pc.matcher)
            BY <1>1, ReplyTells DEF Find, Ops
          <6> QED
            BY <4>4, <4>5, <5>1, <5>2, <6>1 DEF EntryRight
        <5>3. CASE x # i
          <6>1. pending_commands[x].user # k.req
            BY <2>1, <5>3 DEF ReqsInv, OneEntryEach, Requests, NoReq
          <6>2. \A l \in ctl : SentFor(pending_commands[x], l) /\ Prepared(l)
                                  => l \in ctl' /\ Prepared(l)'
            BY <1>1, <6>1, PreparedStays DEF SentFor
          <6>3. ~Ended(x)
            BY <1>1 DEF Ended
          <6> QED
            BY <1>3, <4>4, <5>1, <6>2, <6>3, StaysRight
        <5> QED
          BY <5>2, <5>3
      <4> QED
        BY <1>2, <4>3, <4>4, <4>6 DEF RightInv
    <3>3. CASE ~ReportsError(k.op, pc)
      BY <2>3, <3>1, <3>3 DEF StatusError
    <3> QED
      BY <3>2, <3>3
  <2> QED
    BY <2>4, <2>5, <2>6
<1> QED
  BY <1>4, <1>5 DEF CommandStatus

(* What a command leaves in the union is what its status callback needs.   *)
LEMMA SavePrepares ==
  ASSUME IInv, NEW c \in Clients \cup {NoClient}, NEW op \in Ops, NEW p \in Peers,
         SaveTmpdata(c, op, p)
  PROVE  /\ op \in AsyncOps \ PlainOps /\ c # NoClient =>
              /\ tmpdata'[c].cb = next
              /\ EventMatcher(op, c)' = FinalEvent(op, p)
         /\ \A x \in Clients : x # c => tmpdata'[x] = tmpdata[x]
         /\ op \in SyncOps => tmpdata' = tmpdata
<1>1. tmpdata \in [Clients -> Tmpdata]
  BY DEF IInv, TypeOK
<1>2. \A x \in Clients : x # c => tmpdata'[x] = tmpdata[x]
  BY <1>1 DEF SaveTmpdata
<1>3. op \in SyncOps => tmpdata' = tmpdata
  BY OpsAssumption DEF SaveTmpdata, AsyncNames
<1>4. ASSUME op \in AsyncOps \ PlainOps, c # NoClient
      PROVE  /\ tmpdata'[c].cb = next
             /\ EventMatcher(op, c)' = FinalEvent(op, p)
  <2>0. c \in Clients /\ op \in ConnOps \cup ReadOps \cup {"inquiry", "read_remote_name"}
    BY <1>4, OpsAssumption DEF AsyncNames
  <2>1. CASE op \in ConnOps \cup {"read_remote_name"}
    <3>1. op # "inquiry" /\ op \notin ReadOps
      BY <2>1 DEF ConnOps, ReadOps
    <3>2. tmpdata'[c] = [cb |-> next, addr |-> p, conn |-> GarbageConn]
      BY <1>1, <1>4, <2>0, <2>1 DEF SaveTmpdata
    <3> QED
      BY <3>1, <3>2 DEF EventMatcher, FinalEvent
  <2>2. CASE op \in ReadOps
    <3>1. op # "inquiry" /\ op \notin ConnOps \cup {"read_remote_name"}
      BY <2>2 DEF ConnOps, ReadOps
    <3>2. tmpdata'[c] = [cb |-> next, addr |-> Garbage, conn |-> FinalEvent(op, p)]
      BY <1>1, <1>4, <2>0, <2>2, <3>1 DEF SaveTmpdata
    <3> QED
      BY <2>2, <3>1, <3>2 DEF EventMatcher
  <2>3. CASE op = "inquiry"
    <3>1. op \notin ReadOps \cup ConnOps \cup {"read_remote_name"}
      BY <2>3 DEF ConnOps, ReadOps
    <3>2. tmpdata'[c] = [tmpdata[c] EXCEPT !.cb = next]
      BY <1>1, <1>4, <2>0, <2>3, <3>1 DEF SaveTmpdata
    <3>3. tmpdata[c] \in Tmpdata
      BY <1>1, <2>0
    <3> QED
      BY <2>3, <3>2, <3>3 DEF EventMatcher, FinalEvent, Tmpdata, EventOf
  <2> QED
    BY <2>0, <2>1, <2>2, <2>3
<1> QED
  BY <1>2, <1>3, <1>4

LEMMA AddCommandRight ==
  ASSUME IInv, ReqsInv, RightInv, Overlap = {}, SendFails = FALSE,
         NEW c \in clients \cup {NoClient}, NEW op \in Ops, NEW p \in Peers,
         NEW scb \in BOOLEAN, MayIssue(c, op, p), AddCommand(c, op, p, scb)
  PROVE  RightInv'
<1>0. TableOK /\ Others /\ c \in Clients \cup {NoClient}
  BY Split DEF IInv, Others
<1>1. next \in Requests /\ frame' = frame
  BY <1>0, SizeAssumption DEF Others, AddCommand, Requests
<1>2. CASE Refused(c, scb)
  <2>1. /\ Used' = Used
        /\ UNCHANGED <<pending_commands, tmpdata, ctl, running, frame>>
    BY <1>1, <1>2 DEF Refused, table, world, Used
  <2>2. DeliveredToRequester'
    BY <1>2, CallRight DEF Refused
  <2>3. CommandsApart' /\ EventsApart'
    BY <2>1, ApartShrinks DEF RightInv
  <2>4. \A i \in Used : EntryRight(i)'
    BY <2>1, PreparedStays, StaysRight DEF RightInv, Ended
  <2> QED
    BY <2>1, <2>2, <2>3, <2>4 DEF RightInv
<1>3. ASSUME NEW i \in Alloc(ReplyTo(op)), Accepted(c, op, p, scb, i)
      PROVE  RightInv'
  <2> DEFINE e == Entry(ReplyTo(op), c, next, next, scb)
  <2>0. PICK new : new = [req |-> next, op |-> op, peer |-> p, hci |-> c]
    OBVIOUS
  <2>1. i \in Slots /\ i \notin Used
    BY <1>0, AllocFree
  <2>2. ReplyTo(op) \in Matchers /\ ReplyTo(op) # NoMatcher
    BY ReplyType, MatcherNotEmpty
  <2>3. e \in Entries /\ ~IsEmpty(e)
    BY <1>0, <1>1, <2>2 DEF Entry, Entries, IsEmpty
  <2>4. /\ e.matcher = ReplyTo(op) /\ e.user = next /\ e.cb = next /\ e.hci = c
        /\ new.req = next /\ new.op = op /\ new.peer = p /\ new.hci = c
    BY <2>0 DEF Entry
  <2>5. /\ AddEntry(i, e) /\ call' = NoCall /\ SaveTmpdata(c, op, p)
        /\ ctl' = ctl \cup {new} /\ UNCHANGED running
    BY <1>3, <2>0 DEF Accepted
  <2> HIDE DEF e
  <2>6. TableOK' /\ Used' = Used \cup {i}
    BY <1>0, <2>1, <2>3, <2>5, Adding
  <2>7. /\ \A x \in Used : pending_commands'[x] = pending_commands[x]
        /\ pending_commands'[i] = e
    BY <1>0, <2>1, <2>5 DEF AddEntry, TableOK, Used
  <2>8. \A k \in ctl : k.op # op
    BY DEF MayIssue
  <2>9. op \in AsyncOps => \A k \in ctl : k.op \in AsyncOps => k.hci # c
    BY SyncNotAsync DEF MayIssue
  <2>10. op \in AsyncOps => /\ \A k \in ctl : Final(k) # FinalEvent(op, p)
                            /\ \A f \in running : f.event # FinalEvent(op, p)
    BY SyncNotAsync DEF MayIssue, Final
  <2>11. Final(new) = FinalEvent(op, p)
    BY <2>4 DEF Final
  <2>12. CommandsApart'
    <3> SUFFICES ASSUME NEW k \in ctl', NEW l \in ctl',
                        \/ k.op = l.op
                        \/ /\ k.op \in AsyncOps /\ l.op \in AsyncOps
                           /\ k.hci = l.hci \/ Final(k) = Final(l)
                 PROVE  k = l
      BY DEF CommandsApart, Final
    <3>1. CASE k \in ctl /\ l \in ctl
      BY <3>1 DEF RightInv, CommandsApart
    <3>2. CASE k = new /\ l \in ctl
      BY <2>4, <2>8, <2>9, <2>10, <2>11, <3>2
    <3>3. CASE k \in ctl /\ l = new
      BY <2>4, <2>8, <2>9, <2>10, <2>11, <3>3
    <3> QED
      BY <2>5, <3>1, <3>2, <3>3
  <2>13. EventsApart'
    <3>1. \A f \in running : \A k \in ctl' : k.op \in AsyncOps => Final(k) # f.event
      BY <2>4, <2>5, <2>10, <2>11 DEF RightInv, EventsApart
    <3> QED
      BY <2>5, <3>1 DEF RightInv, EventsApart, Final
  <2>14. Prepared(new)'
    <3>1. op \in AsyncOps \ PlainOps /\ c # NoClient =>
            /\ tmpdata'[c].cb = next
            /\ EventMatcher(op, c)' = FinalEvent(op, p)
      BY <1>0, <2>5, SavePrepares
    <3> QED
      BY <2>4, <3>1 DEF Prepared, Final, EventMatcher
  <2>15. EntryRight(i)'
    <3>1. SentFor(e, new) /\ new \in ctl'
      BY <2>4, <2>5 DEF SentFor
    <3>2. IsReply(e.matcher) /\ e.matcher.ev \notin ListenEvents
      BY <2>4, ReplyTells
    <3>3. e.user # NoReq
      BY <1>1, <2>4 DEF NoReq, Requests
    <3> QED
      BY <2>4, <2>7, <2>14, <3>1, <3>2, <3>3 DEF EntryRight
  <2>16. ASSUME NEW x \in Used PROVE EntryRight(x)'
    <3>1. EntryRight(x) /\ Ended(x)' = Ended(x)
      BY <1>1 DEF RightInv, Ended
    <3>2. ASSUME NEW k \in ctl, Prepared(k) PROVE k \in ctl' /\ Prepared(k)'
      <4>1. k.hci \in Clients \cup {NoClient}
        BY <1>0 DEF Others, Commands
      <4>2. k.op \notin AsyncOps \/ tmpdata'[k.hci] = tmpdata[k.hci]
                \/ k.hci = NoClient
        BY <1>0, <2>5, <2>9, <4>1, SavePrepares DEF Ops
      <4> QED
        BY <2>5, <3>2, <4>2, PreparedStays DEF Prepared
    <3> QED
      BY <2>5, <2>7, <3>1, <3>2, StaysRight
  <2> QED
    BY <2>5, <2>6, <2>12, <2>13, <2>15, <2>16, CallRight DEF RightInv
<1> QED
  BY <1>2, <1>3 DEF AddCommand

LEMMA ListenRight ==
  ASSUME IInv, RightInv, NEW c \in Clients, NEW ev \in ListenEvents,
         NEW p \in Peers, Listen(c, ev, p)
  PROVE  RightInv'
<1> DEFINE e == Entry(Matcher(ev, p), c, NoReq, NoReq, FALSE)
<1>0. TableOK /\ UNCHANGED <<frame, tmpdata, ctl, running>> /\ call' = NoCall
  BY Split DEF IInv, Listen, world
<1>1. PICK i \in Alloc(Matcher(ev, p)) : AddEntry(i, e)
  BY DEF Listen
<1>2. i \in Slots /\ i \notin Used
  BY <1>0, AllocFree
<1>3. Matcher(ev, p) \in Matchers
  BY DEF Matchers, Matcher, Events, Keys
<1>4. e \in Entries /\ ~IsEmpty(e)
  BY <1>3, MatcherNotEmpty DEF Entry, Entries, IsEmpty
<1>5. e.user = NoReq /\ e.cb = NoReq /\ e.matcher.ev = ev
  BY DEF Entry, Matcher
<1> HIDE DEF e
<1>6. Used' = Used \cup {i}
  BY <1>0, <1>1, <1>2, <1>4, Adding
<1>7. /\ \A x \in Used : pending_commands'[x] = pending_commands[x]
      /\ pending_commands'[i] = e
  BY <1>0, <1>1, <1>2 DEF AddEntry, TableOK, Used
<1>8. CommandsApart' /\ EventsApart'
  BY <1>0, ApartShrinks DEF RightInv
<1>9. \A x \in Used : EntryRight(x)'
  BY <1>0, <1>7, PreparedStays, StaysRight DEF RightInv, Ended
<1>10. EntryRight(i)'
  <2>1. ~IsReply(e.matcher)
    BY <1>5, OpsAssumption DEF IsReply
  <2> QED
    BY <1>5, <1>7, <2>1 DEF EntryRight
<1> QED
  BY <1>0, <1>6, <1>8, <1>9, <1>10, CallRight DEF RightInv

(* The steps that only take entries away, or change none, and make no      *)
(* callback for a request.                                                 *)
LEMMA FewerRight ==
  ASSUME IInv, RightInv, Used' \subseteq Used, UNCHANGED <<ctl, running>>,
         \A x \in Used' : pending_commands'[x] = pending_commands[x],
         \A x \in Used' : Ended(x) => Ended(x)',
         \A x \in Used' : LET h == pending_commands[x].hci IN
                             h # NoClient => tmpdata'[h] = tmpdata[h],
         DeliveredToRequester'
  PROVE  RightInv'
<1>1. CommandsApart' /\ EventsApart'
  BY ApartShrinks DEF RightInv
<1>2. ASSUME NEW x \in Used' PROVE EntryRight(x)'
  <2>1. EntryRight(x)
    BY DEF RightInv
  <2>2. \A k \in ctl : SentFor(pending_commands[x], k) /\ Prepared(k) => Prepared(k)'
    BY PreparedStays DEF SentFor
  <2> QED
    BY <2>1, <2>2, StaysRight
<1> QED
  BY <1>1, <1>2 DEF RightInv

LEMMA OthersRight ==
  ASSUME IInv, ReqsInv, RightInv, CallbackMay = {},
         \/ \E c \in Clients, ev \in ListenEvents, p \in Peers : Unlisten(c, ev, p)
         \/ \E ev \in ListenEvents, p \in Peers : ListenedEvent(ev, p)
         \/ \E remove \in BOOLEAN : CallbackReturns(remove)
         \/ \E c \in Clients : ClientNew(c)
         \/ \E c \in Clients : ClientFree(c)
         \/ UNCHANGED vars
  PROVE  RightInv'
<1>0. TableOK
  BY Split DEF IInv
<1>1. ASSUME NEW i \in Used, FreeEntry(i)
      PROVE  /\ Used' \subseteq Used
             /\ \A x \in Used' : pending_commands'[x] = pending_commands[x] /\ x # i
  <2>1. Used' = Used \ {i}
    BY <1>0, <1>1, Freeing
  <2> QED
    BY <1>0, <1>1, <2>1 DEF FreeEntry, TableOK, Used
<1>2. ASSUME NEW c \in Clients, NEW ev \in ListenEvents, NEW p \in Peers,
             Unlisten(c, ev, p)
      PROVE  RightInv'
  <2>1. PICK i \in Find(Matcher(ev, p)) : FreeEntry(i)
    BY <1>2 DEF Unlisten
  <2>2. Matcher(ev, p) \in Matchers
    BY DEF Matchers, Matcher, Events, Keys
  <2>3. i \in Used
    BY <2>2, Found
  <2>4. UNCHANGED <<tmpdata, frame, ctl, running>> /\ call' = NoCall
    BY <1>2 DEF Unlisten, world
  <2> QED
    BY <1>1, <2>1, <2>3, <2>4, FewerRight, CallRight DEF Ended
<1>3. ASSUME NEW ev \in ListenEvents, NEW p \in Peers, ListenedEvent(ev, p)
      PROVE  RightInv'
  <2>1. /\ frame = NoFrame /\ Used' = Used
        /\ UNCHANGED <<pending_commands, tmpdata, ctl, running>>
    BY <1>3 DEF ListenedEvent, table, world, Used
  <2>2. DeliveredToRequester'
    BY <1>3, CallRight DEF ListenedEvent
  <2> QED
    BY <2>1, <2>2, FewerRight DEF Ended
<1>4. ASSUME NEW remove \in BOOLEAN, CallbackReturns(remove)
      PROVE  RightInv'
  <2>1. /\ UNCHANGED <<tmpdata, ctl, running>> /\ call' = NoCall
        /\ frame # NoFrame
    BY <1>4 DEF CallbackReturns, world
  <2>2. CASE remove
    <3>1. frame.slot \in Used /\ FreeEntry(frame.slot)
      BY <1>4, <2>2 DEF CallbackReturns, IInv, HeldEntryStays
    <3> QED
      BY <1>1, <2>1, <3>1, FewerRight, CallRight DEF Ended
  <2>3. CASE ~remove
    <3>1. Used' = Used /\ UNCHANGED pending_commands /\ frame.kind # "status"
      BY <1>4, <2>3 DEF CallbackReturns, table, Used
    <3> QED
      BY <2>1, <3>1, FewerRight, CallRight DEF Ended
  <2> QED
    BY <2>2, <2>3
<1>5. ASSUME NEW c \in Clients, ClientNew(c) PROVE RightInv'
  <2>1. /\ Used' = Used /\ UNCHANGED <<pending_commands, ctl, running, frame>>
        /\ call' = NoCall
    BY <1>5 DEF ClientNew, table, world, Used
  <2>2. ASSUME NEW x \in Used, pending_commands[x].hci # NoClient
        PROVE  tmpdata'[pending_commands[x].hci] = tmpdata[pending_commands[x].hci]
    <3>1. pending_commands[x].hci \in clients /\ pending_commands[x].hci # c
      BY <1>5, <2>2 DEF ClientNew, IInv, OwnersAlive
    <3>2. pending_commands[x].hci \in Clients /\ tmpdata \in [Clients -> Tmpdata]
      BY <3>1 DEF IInv, TypeOK
    <3> QED
      BY <1>5, <3>1, <3>2 DEF ClientNew
  <2> QED
    BY <2>1, <2>2, FewerRight, CallRight DEF Ended
<1>6. ASSUME NEW c \in Clients, ClientFree(c) PROVE RightInv'
  <2>1. UNCHANGED <<frame, tmpdata, ctl, running>> /\ call' = NoCall
    BY <1>6 DEF ClientFree, world
  <2>2. Used' = Used \ OwnedBy(c)
    BY <1>0, <1>6, Disposing DEF ClientFree
  <2>3. \A x \in Used' : pending_commands'[x] = pending_commands[x]
    BY <1>6, <2>2 DEF ClientFree, DisposeEntries, Used, OwnedBy
  <2> QED
    BY <2>1, <2>2, <2>3, FewerRight, CallRight DEF Ended
<1>7. CASE UNCHANGED vars
  <2>1. Used' = Used /\ DeliveredToRequester'
    BY <1>7 DEF vars, Used, RightInv, DeliveredToRequester
  <2> QED
    BY <1>7, <2>1, FewerRight DEF vars, Ended
<1> QED
  BY <1>2, <1>3, <1>4, <1>5, <1>6, <1>7

LEMMA NextRight ==
  ASSUME IInv, ReqsInv, RightInv, CallbackMay = {}, Overlap = {},
         SendFails = FALSE, [Next]_vars
  PROVE  RightInv'
<1>1. ASSUME NEW c \in Clients, NEW op \in Ops, NEW p \in Peers,
             NEW scb \in StatusCbs \cup {TRUE}, Command(c, op, p, scb)
      PROVE  RightInv'
  <2>1. c \in clients \cup {NoClient} /\ scb \in BOOLEAN
    BY <1>1, EnvironmentAssumption DEF Command
  <2> QED
    BY <1>1, <2>1, AddCommandRight DEF Command
<1>2. ASSUME NEW op \in NegativeReplies \cap Ops, NEW p \in Peers,
             UnhandledRequest(op, p)
      PROVE  RightInv'
  BY <1>2, AddCommandRight DEF UnhandledRequest
<1> QED
  BY <1>1, <1>2, CommandCompleteRight, CommandStatusRight,
     CommandEventRight, ListenRight, OthersRight
     DEF Next

LEMMA InitRight == Init => RightInv
<1> SUFFICES ASSUME Init PROVE RightInv
  OBVIOUS
<1>1. Used = {}
  BY DEF Init, Used, IsEmpty, EmptyEntry, Entry
<1>2. ctl = {} /\ running = {} /\ call = NoCall
  BY DEF Init
<1> QED
  BY <1>1, <1>2
     DEF RightInv, CommandsApart, EventsApart, DeliveredToRequester, NoCall

(* README, "the result will be delivered to the correct client": every     *)
(* callback is made for the request whose answer came.  It holds for       *)
(* clients that keep apart the requests which the library cannot           *)
(* (Overlap = {}), and while every command that is accepted is sent.       *)
THEOREM RightClient ==
  CallbackMay = {} /\ Overlap = {} /\ SendFails = FALSE
    => (Spec => []DeliveredToRequester)
<1> SUFFICES ASSUME CallbackMay = {}, Overlap = {}, SendFails = FALSE
             PROVE  Spec => []DeliveredToRequester
  OBVIOUS
<1>1. Init => RightInv
  BY InitRight
<1>2. IInv /\ ReqsInv /\ RightInv /\ [Next]_vars => RightInv'
  BY NextRight
<1>3. RightInv => DeliveredToRequester
  BY DEF RightInv
<1> QED
  BY <1>1, <1>2, <1>3, ReqsInvariance, PTL DEF Spec

-----------------------------------------------------------------------------
(* Silence.  With a status callback given to every command, the entry that *)
(* waits for the first answer of a client's command has one.               *)
StatusTold ==
  \A i \in Used : LET pc == pending_commands[i] IN
    IsReply(pc.matcher) /\ pc.hci # NoClient => pc.scb
SilentInTime ==
  \A r \in Requests :
    (reqs[r].phase # "silent" /\ reqs'[r].phase = "silent")
      => num_pending_commands = MaxPending

(* alloc_command refuses an event that no entry waits for only when the    *)
(* table is full.                                                          *)
LEMMA RefusedWhenFull ==
  ASSUME IInv, NEW m, Alloc(m) = {},
         \A i \in Used : pending_commands[i].matcher # m
  PROVE  num_pending_commands = MaxPending
<1>1. /\ num_pending_commands = Cardinality(Used) /\ Used \in SUBSET Slots
      /\ num_pending_commands \in Nat /\ MaxPending \in Nat
  BY SizeAssumption DEF IInv, TypeOK, CountMatchesTable, Used
<1>2. num_pending_commands <= MaxPending
  BY <1>1, SlotSets
<1> SUFFICES ASSUME num_pending_commands < MaxPending PROVE FALSE
  BY <1>1, <1>2
<1>3. Used # Slots
  <2>1. Cardinality(Slots) = MaxPending
    BY FS_Interval, SizeAssumption DEF Slots
  <2> QED
    BY <1>1, <2>1
<1> DEFINE T == Slots \ Used
<1>4. T \subseteq Nat /\ T # {}
  <2>1. Slots \subseteq Nat
    BY DEF Slots
  <2> QED
    BY <1>1, <1>3, <2>1
<1>5. PICK n \in T : \A i \in T : n <= i
  BY <1>4, LeastNat
<1>6. ASSUME NEW j \in 0 .. n - 1
      PROVE  ~IsEmpty(pending_commands[j]) /\ pending_commands[j].matcher # m
  <2>1. j \in Slots /\ ~(n <= j)
    BY <1>5, SizeAssumption DEF Slots
  <2>2. j \in Used
    BY <1>5, <2>1
  <2> QED
    BY <2>2 DEF Used
<1>7. n \in Slots /\ IsEmpty(pending_commands[n])
  BY <1>5 DEF Used
<1> HIDE DEF T
<1>8. num_pending_commands = 0 => 0 \in Alloc(m)
  BY DEF Alloc
<1>9. num_pending_commands # 0 => n \in Alloc(m)
  BY <1>6, <1>7, Zenon DEF Alloc
<1> QED
  BY <1>8, <1>9

LEMMA EndsSilent ==
  ASSUME IInv, NEW u, NEW ph, Ends(u, ph), ph # "silent"
  PROVE  SilentInTime
  BY DEF Ends, IInv, TypeOK, SilentInTime

LEMMA FreeTold ==
  ASSUME IInv, StatusTold, NEW i \in Used, FreeEntry(i)
  PROVE  StatusTold'
<1>1. TableOK
  BY Split DEF IInv
<1>2. Used' = Used \ {i}
  BY <1>1, Freeing
<1>3. \A j \in Used' : pending_commands'[j] = pending_commands[j]
  BY <1>1, <1>2 DEF FreeEntry, TableOK, Used
<1> QED
  BY <1>2, <1>3 DEF StatusTold

LEMMA AddTold ==
  ASSUME IInv, StatusTold, NEW i \in Slots, i \notin Used,
         NEW e \in Entries, ~IsEmpty(e), AddEntry(i, e),
         IsReply(e.matcher) /\ e.hci # NoClient => e.scb
  PROVE  StatusTold'
<1>1. TableOK
  BY Split DEF IInv
<1>2. Used' = Used \cup {i}
  BY <1>1, Adding
<1>3. /\ \A x \in Used : pending_commands'[x] = pending_commands[x]
      /\ pending_commands'[i] = e
  BY <1>1 DEF AddEntry, TableOK, Used
<1> QED
  BY <1>2, <1>3 DEF StatusTold

LEMMA SameTold ==
  ASSUME StatusTold, UNCHANGED pending_commands
  PROVE  StatusTold'
  BY DEF StatusTold, Used

LEMMA AddCommandTold ==
  ASSUME IInv, ReqsInv, StatusTold, NEW c \in clients \cup {NoClient},
         NEW op \in Ops, NEW p \in Peers, NEW scb \in BOOLEAN,
         c # NoClient => scb, AddCommand(c, op, p, scb)
  PROVE  StatusTold' /\ SilentInTime
<1>0. TableOK /\ Others /\ c \in Clients \cup {NoClient}
  BY Split DEF IInv, Others
<1>1. next \in Requests
  BY <1>0, SizeAssumption DEF Others, AddCommand, Requests
<1>2. CASE Refused(c, scb)
  <2>1. StatusTold'
    BY <1>2, SameTold DEF Refused, table
  <2>2. reqs' = [reqs EXCEPT ![next] = [phase |-> "done", hci |-> NoClient]]
    BY <1>2 DEF Refused
  <2>3. SilentInTime
    BY <1>0, <2>2 DEF Others, SilentInTime
  <2> QED
    BY <2>1, <2>3
<1>3. ASSUME NEW i \in Alloc(ReplyTo(op)), Accepted(c, op, p, scb, i)
      PROVE  StatusTold' /\ SilentInTime
  <2> DEFINE e == Entry(ReplyTo(op), c, next, next, scb)
  <2>1. i \in Slots /\ i \notin Used
    BY <1>0, AllocFree
  <2>2. ReplyTo(op) \in Matchers /\ ReplyTo(op) # NoMatcher
    BY ReplyType, MatcherNotEmpty
  <2>3. /\ e \in Entries /\ ~IsEmpty(e)
        /\ e.hci # NoClient => e.scb
    BY <1>0, <1>1, <2>2 DEF Entry, Entries, IsEmpty
  <2>4. /\ AddEntry(i, e)
        /\ reqs' = [reqs EXCEPT ![next] = [phase |-> "sent", hci |-> c]]
    BY <1>3 DEF Accepted
  <2> HIDE DEF e
  <2>5. StatusTold'
    BY <2>1, <2>3, <2>4, AddTold
  <2>6. SilentInTime
    BY <1>0, <2>4 DEF Others, SilentInTime
  <2> QED
    BY <2>5, <2>6
<1> QED
  BY <1>2, <1>3 DEF AddCommand

LEMMA DeliverReplyTold ==
  ASSUME IInv, StatusTold, NEW m \in Matchers, NEW i \in Find(m), NEW of,
         DeliverReply(i, of)
  PROVE  StatusTold' /\ SilentInTime
<1>1. i \in Used
  BY Found
<1> QED
  BY <1>1, FreeTold, EndsSilent DEF DeliverReply

LEMMA CommandStatusTold ==
  ASSUME IInv, ReqsInv, RightInv, StatusTold, NEW k \in ctl,
         NEW ok \in BOOLEAN, CommandStatus(k, ok)
  PROVE  StatusTold' /\ SilentInTime
<1>0. TableOK /\ Others /\ frame = NoFrame /\ k.op \in AsyncOps
  BY Split DEF IInv, CommandStatus
<1>1. CASE UNCHANGED <<table, reqs>>
  BY <1>1, SameTold DEF table, SilentInTime
<1>2. ASSUME NEW i \in Find(ReplyTo(k.op)), DeliverStatus(i, k.op, k.req, ok)
      PROVE  StatusTold' /\ SilentInTime
  <2> DEFINE pc == pending_commands[i]
  <2>1. i \in Used /\ pc.hci = k.hci /\ pc.user = k.req /\ Prepared(k)
    BY <1>0, ReplyFinds
  <2>2. pc \in Entries /\ pc.hci \in Clients \cup {NoClient}
    BY <2>1, UserType
  <2>3. pc.hci # NoClient => pc.scb
    <3>1. IsReply(pc.matcher)
      BY <1>0, ReplyTells DEF Find, Ops
    <3> QED
      BY <2>1, <3>1 DEF StatusTold
  <2>4. StatusEnds(i, k.req) => StatusTold'
    BY <2>1, FreeTold DEF StatusEnds
  <2>5. CASE k.op \in PlainOps \/ pc.hci = NoClient
    BY <1>2, <2>4, <2>5, EndsSilent DEF DeliverStatus
  <2>6. CASE k.op \notin PlainOps /\ pc.hci # NoClient /\ ok
    <3>1. StatusOk(i, k.op, k.req) /\ pc.hci \in Clients
      BY <1>2, <2>2, <2>6 DEF DeliverStatus
    <3> DEFINE m == EventMatcher(k.op, pc.hci)
               ev == Entry(m, pc.hci, pc.user, tmpdata[pc.hci].cb, FALSE)
    <3>2. m = Final(k) /\ ~IsReply(m) /\ m.ev \notin ListenEvents
      BY <1>0, <2>1, <2>6, FinalTells DEF Prepared, Final
    <3>3. CASE Alloc(m) = {} /\ StatusEnds(i, k.req)
      <4>1. \A x \in Used : pending_commands[x].matcher # m
        BY <1>0, <3>2 DEF RightInv, EntryRight, EventsApart
      <4>2. num_pending_commands = MaxPending
        BY <3>3, <4>1, RefusedWhenFull
      <4> QED
        BY <2>4, <3>3, <4>2 DEF SilentInTime
    <3>4. ASSUME NEW j \in Alloc(m), ReplaceEntry(i, j, ev), Waits(pc.user)
          PROVE  StatusTold' /\ SilentInTime
      <4>1. m \in Matchers /\ m # NoMatcher
        BY <1>0, <3>1, EventMatcherType, MatcherNotEmpty DEF IInv
      <4>2. ev \in Entries /\ ~IsEmpty(ev) /\ ev.matcher = m
        BY <1>0, <2>2, <3>1, <4>1 DEF Entry, Entries, IsEmpty, Others, Tmpdata
      <4>3. j \in Slots /\ j \notin Used
        BY <1>0, AllocFree
      <4>4. ReplaceEntry(i, j, ev)
        BY <3>4
      <4> HIDE DEF ev, m
      <4>5. Used' = (Used \cup {j}) \ {i}
        BY <1>0, <2>1, <4>2, <4>3, <4>4, Replacing
      <4>6. /\ \A x \in Used' : x # j => pending_commands'[x] = pending_commands[x]
            /\ pending_commands'[j] = ev
        BY <1>0, <2>1, <4>3, <4>4, <4>5 DEF ReplaceEntry, TableOK, Used
      <4>7. StatusTold'
        BY <3>2, <4>2, <4>5, <4>6 DEF StatusTold
      <4>8. SilentInTime
        BY <1>0, <3>4 DEF Waits, Others, SilentInTime
      <4> QED
        BY <4>7, <4>8
    <3> QED
      BY <3>1, <3>3, <3>4 DEF StatusOk
  <2>7. CASE k.op \notin PlainOps /\ pc.hci # NoClient /\ ~ok
    <3>1. StatusError(i, k.op, k.req) /\ pc.scb
      BY <1>2, <2>3, <2>7 DEF DeliverStatus
    <3>2. StatusEnds(i, k.req) /\ Ends(pc.user, "done")
      BY <3>1 DEF StatusError, ReportsError
    <3> QED
      BY <2>4, <3>2, EndsSilent
  <2> QED
    BY <2>5, <2>6, <2>7
<1> QED
  BY <1>1, <1>2 DEF CommandStatus

LEMMA OthersTold ==
  ASSUME IInv, StatusTold,
         \/ \E c \in Clients, ev \in ListenEvents, p \in Peers : Listen(c, ev, p)
         \/ \E c \in Clients, ev \in ListenEvents, p \in Peers : Unlisten(c, ev, p)
         \/ \E ev \in ListenEvents, p \in Peers : ListenedEvent(ev, p)
         \/ \E remove \in BOOLEAN : CallbackReturns(remove)
         \/ \E c \in Clients : ClientNew(c)
         \/ \E c \in Clients : ClientFree(c)
  PROVE  StatusTold' /\ SilentInTime
<1>0. TableOK /\ Others
  BY Split DEF IInv
<1>1. UNCHANGED reqs => SilentInTime
  BY DEF SilentInTime
<1>2. ASSUME NEW c \in Clients, NEW ev \in ListenEvents, NEW p \in Peers,
             Listen(c, ev, p)
      PROVE  StatusTold' /\ SilentInTime
  <2> DEFINE e == Entry(Matcher(ev, p), c, NoReq, NoReq, FALSE)
  <2>1. PICK i \in Alloc(Matcher(ev, p)) : AddEntry(i, e)
    BY <1>2 DEF Listen
  <2>2. i \in Slots /\ i \notin Used
    BY <1>0, AllocFree
  <2>3. Matcher(ev, p) \in Matchers
    BY DEF Matchers, Matcher, Events, Keys
  <2>4. e \in Entries /\ ~IsEmpty(e)
    BY <2>3, MatcherNotEmpty DEF Entry, Entries, IsEmpty
  <2>5. ~IsReply(e.matcher)
    BY OpsAssumption DEF Entry, Matcher, IsReply
  <2> HIDE DEF e
  <2> QED
    BY <1>1, <1>2, <2>1, <2>2, <2>4, <2>5, AddTold DEF Listen
<1>3. ASSUME NEW c \in Clients, NEW ev \in ListenEvents, NEW p \in Peers,
             Unlisten(c, ev, p)
      PROVE  StatusTold' /\ SilentInTime
  <2>1. PICK i \in Find(Matcher(ev, p)) : FreeEntry(i)
    BY <1>3 DEF Unlisten
  <2>2. Matcher(ev, p) \in Matchers
    BY DEF Matchers, Matcher, Events, Keys
  <2> QED
    BY <1>1, <1>3, <2>1, <2>2, Found, FreeTold DEF Unlisten
<1>4. ASSUME NEW ev \in ListenEvents, NEW p \in Peers, ListenedEvent(ev, p)
      PROVE  StatusTold' /\ SilentInTime
  BY <1>1, <1>4, SameTold DEF ListenedEvent, table
<1>5. ASSUME NEW remove \in BOOLEAN, CallbackReturns(remove)
      PROVE  StatusTold' /\ SilentInTime
  <2>1. frame.slot \in Used /\ UNCHANGED reqs
    BY <1>5 DEF CallbackReturns, IInv, HeldEntryStays
  <2> QED
    BY <1>1, <1>5, <2>1, FreeTold, SameTold DEF CallbackReturns, table
<1>6. ASSUME NEW c \in Clients, ClientNew(c)
      PROVE  StatusTold' /\ SilentInTime
  BY <1>1, <1>6, SameTold DEF ClientNew, table
<1>7. ASSUME NEW c \in Clients, ClientFree(c)
      PROVE  StatusTold' /\ SilentInTime
  <2>1. Used' = Used \ OwnedBy(c)
    BY <1>0, <1>7, Disposing DEF ClientFree
  <2>2. \A x \in Used' : x \in Used /\ pending_commands'[x] = pending_commands[x]
    BY <1>7, <2>1 DEF ClientFree, DisposeEntries, Used, OwnedBy
  <2>3. SilentInTime
    BY <1>0, <1>7 DEF ClientFree, SilentInTime, Others
  <2> QED
    BY <2>2, <2>3 DEF StatusTold
<1> QED
  BY <1>2, <1>3, <1>4, <1>5, <1>6, <1>7

LEMMA NextTold ==
  ASSUME IInv, ReqsInv, RightInv, StatusTold, StatusCbs \subseteq {TRUE}, Next
  PROVE  StatusTold' /\ SilentInTime
<1>1. ASSUME NEW c \in Clients, NEW op \in Ops, NEW p \in Peers,
             NEW scb \in StatusCbs \cup {TRUE}, Command(c, op, p, scb)
      PROVE  StatusTold' /\ SilentInTime
  <2>1. c \in clients \cup {NoClient} /\ scb = TRUE
    BY <1>1 DEF Command
  <2> QED
    BY <1>1, <2>1, AddCommandTold DEF Command
<1>2. ASSUME NEW op \in NegativeReplies \cap Ops, NEW p \in Peers,
             UnhandledRequest(op, p)
      PROVE  StatusTold' /\ SilentInTime
  BY <1>2, AddCommandTold DEF UnhandledRequest
<1>3. ASSUME NEW k \in ctl, CommandComplete(k)
      PROVE  StatusTold' /\ SilentInTime
  <2>1. ReplyTo(k.op) \in Matchers
    BY ReplyType DEF IInv, TypeOK, Commands
  <2>2. CASE UNCHANGED <<table, reqs>>
    BY <2>2, SameTold DEF table, SilentInTime
  <2> QED
    BY <1>3, <2>1, <2>2, DeliverReplyTold DEF CommandComplete
<1>4. ASSUME NEW e \in running, CommandEvent(e)
      PROVE  StatusTold' /\ SilentInTime
  <2>1. e.event \in Matchers
    BY DEF IInv, TypeOK
  <2>2. CASE UNCHANGED <<table, reqs>>
    BY <2>2, SameTold DEF table, SilentInTime
  <2> QED
    BY <1>4, <2>1, <2>2, DeliverReplyTold DEF CommandEvent
<1> QED
  BY <1>1, <1>2, <1>3, <1>4, CommandStatusTold, OthersTold DEF Next

(* With a status callback for every command, a request ends without a word *)
(* to its client only when the table was full at the moment of its status: *)
(* _bte_hci_dev_alloc_command refuses its final event for no other reason. *)
THEOREM SilentMeansFull ==
  CallbackMay = {} /\ Overlap = {} /\ SendFails = FALSE
      /\ StatusCbs \subseteq {TRUE}
    => (Spec => SilentOnlyWhenFull)
<1> SUFFICES ASSUME CallbackMay = {}, Overlap = {}, SendFails = FALSE,
                    StatusCbs \subseteq {TRUE}
             PROVE  Spec => SilentOnlyWhenFull
  OBVIOUS
<1> DEFINE Inv == IInv /\ ReqsInv /\ RightInv /\ StatusTold
<1>1. Init => Inv
  <2>1. Init => StatusTold
    <3> SUFFICES ASSUME Init PROVE StatusTold
      OBVIOUS
    <3>1. Used = {}
      BY DEF Init, Used, IsEmpty, EmptyEntry, Entry
    <3> QED
      BY <3>1 DEF StatusTold
  <2> QED
    BY <2>1, InitInv, InitReqs, InitRight
<1>2. Inv /\ [Next]_vars => Inv' /\ [SilentInTime]_vars
  <2> SUFFICES ASSUME Inv, [Next]_vars PROVE Inv' /\ [SilentInTime]_vars
    OBVIOUS
  <2>1. CASE Next
    BY <2>1, NextInv, NextReqs, NextRight, NextTold
  <2>2. CASE UNCHANGED vars
    <3>1. ReqsInv'
      BY <2>2, SameReqs DEF vars, Ended
    <3>2. StatusTold'
      BY <2>2, SameTold DEF vars
    <3> QED
      BY <2>2, <3>1, <3>2, NextInv, NextRight
  <2> QED
    BY <2>1, <2>2
<1> QED
  BY <1>1, <1>2, PTL DEF Spec, SilentOnlyWhenFull, SilentInTime
=============================================================================

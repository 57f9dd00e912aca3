------------------------------ MODULE AclQueue ------------------------------
(***************************************************************************)
(* The outgoing ACL queue of bt-embedded: one list of packets, shared by   *)
(* every connection, from which packets go to the controller as long as it *)
(* has free buffers (hci_dev.c, acl.c).  acl_available_packets is the      *)
(* library's count of those buffers.                                       *)
(*                                                                         *)
(* A packet is numbered within its connection, and connections that use    *)
(* the same handle one after the other are told apart by a number of their *)
(* own.  The controller (external) is what it holds: the links that are up *)
(* and the packets it has not yet reported as completed.                   *)
(***************************************************************************)
EXTENDS Integers, FiniteSets, Sequences

CONSTANTS
  Handles,    \* connection handles, which the controller reuses
  MaxPackets, \* acl_max_packets, the buffers of the controller
  MaxFrags,   \* bound on the packets of one message
  MaxConns,   \* bound on the connections made in a behaviour
  MaxSent,    \* bound on the packets of one connection
  SendFails,  \* whether the backend may refuse a packet
  Departures  \* how connections may end, see Disconnected

ASSUME AclSizeAssumption ==
  /\ MaxPackets \in Nat \ {0} /\ MaxPackets < 65535
  /\ MaxFrags \in Nat \ {0}
  /\ MaxConns \in Nat
  /\ MaxSent \in Nat
ASSUME AclEnvironmentAssumption ==
  /\ SendFails \in BOOLEAN
  /\ Departures \subseteq {"link down", "failed", "freed"}
ASSUME AclFiniteAssumption == IsFiniteSet(Handles)

UNSET == 65535  \* BTE_ACL_AVAILABLE_PACKETS_UNSET
NoConn == 0
Conns == 1 .. MaxConns
Packets == [handle : Handles, conn : Conns, n : 1 .. MaxSent]
Packet(h, c, n) == [handle |-> h, conn |-> c, n |-> n]

VARIABLES
  outgoing_acl_packets,   \* the queue
  acl_available_packets,  \* the uint16_t credit count
  acls,      \* per handle, the connection of the BteAcl in dev->acls
  created,   \* per handle, how many packets were queued for it so far
  failed,    \* packets that the backend refused
  links,     \* the controller: per handle, the connection that is up
  inflight,  \* the controller: the packets it holds
  lost,      \* credits that no event will ever give back
  conns,     \* how many connections there have been
  ret        \* bte_acl_send_message: what it returned and what it did
library == <<outgoing_acl_packets, acl_available_packets, acls, created,
             failed>>
vars == <<outgoing_acl_packets, acl_available_packets, acls, created, failed,
          links, inflight, lost, conns, ret>>

NoRet == [rc |-> 0, size |-> 0, failed |-> 0, left |-> 0]

Init ==
  /\ outgoing_acl_packets = << >>
  /\ acl_available_packets = UNSET
  /\ acls = [h \in Handles |-> NoConn]
  /\ created = [h \in Handles |-> 0]
  /\ failed = {}
  /\ links = [h \in Handles |-> NoConn]
  /\ inflight = {}
  /\ lost = 0
  /\ conns = 0
  /\ ret = NoRet

Ready == acl_available_packets # UNSET

-----------------------------------------------------------------------------
(* Sending.                                                                *)
Smaller(a, b) == IF a < b THEN a ELSE b
PacketsOf(q) == {q[i] : i \in DOMAIN q}

(* _bte_hci_send_queued_data with the queue q and the given credits, while *)
(* the controller holds held: packets are taken from the head of the queue *)
(* and the backend refuses those in bad.  A packet that it refuses is      *)
(* dropped like the others, and costs a credit like the others.            *)
Taken(q, credits) == SubSeq(q, 1, Smaller(Len(q), credits))
SendQueued(held, q, credits, bad) ==
  LET taken == PacketsOf(Taken(q, credits))
      count == Smaller(Len(q), credits)
  IN /\ bad \subseteq taken
     /\ bad # {} => SendFails
     /\ outgoing_acl_packets' = SubSeq(q, count + 1, Len(q))
     /\ acl_available_packets' = credits - count
     /\ inflight' = held \cup (taken \ bad)
     /\ failed' = failed \cup bad
     /\ lost' = lost + Cardinality(bad)

(* The result of bte_acl_send_message for a message of size packets, when  *)
(* the queue was left with queued packets.  A packet that was sent has no  *)
(* next any more, so that our_packets is 1 unless no packet was sent.      *)
Return(size, sent, errors, queued) ==
  LET our_packets == IF sent > 0 THEN 1 ELSE size
  IN IF errors > 0 THEN -errors
     ELSE IF queued >= our_packets THEN 0 ELSE our_packets - queued

(* bte_buffer_append: the message goes behind what is queued.              *)
AppendInFront(q, m) == m \o q  \* mutant: the message jumps the queue
Enqueue(q, m) == q \o m

Message(h, size) ==
  [i \in 1 .. size |-> Packet(h, acls[h], created[h] + i)]

(* bte_acl_create_message and bte_acl_send_message of a message that takes *)
(* size packets.                                                           *)
SendMessage(h, size) ==
  /\ Ready
  /\ acls[h] # NoConn
  /\ created[h] + size <= MaxSent
  /\ LET q == Enqueue(outgoing_acl_packets, Message(h, size))
         own == PacketsOf(Message(h, size))
         taken == PacketsOf(Taken(q, acl_available_packets))
     IN \E bad \in SUBSET taken :
          /\ SendQueued(inflight, q, acl_available_packets, bad)
          /\ ret' = [rc |-> Return(size, Cardinality(taken), Cardinality(bad),
                                   Len(outgoing_acl_packets')),
                     size |-> size,
                     failed |-> Cardinality(bad \cap own),
                     left |-> Cardinality(own
                                          \cap PacketsOf(outgoing_acl_packets'))]
  /\ created' = [created EXCEPT ![h] = @ + size]
  /\ UNCHANGED <<acls, links, conns>>

(* Number Of Completed Packets.  The event has a record per handle; for    *)
(* each, the controller is done with the packets it was given first.       *)
FirstOf(done) ==
  \A p \in done : \A q \in inflight :
    q.handle = p.handle /\ q.n < p.n => q \in done

CompletedLast(done) ==  \* mutant: the last record's count, not the sum
  LET h == (CHOOSE p \in done : TRUE).handle
  IN Cardinality({p \in done : p.handle = h})
Completed(done) == Cardinality(done)

(* _bte_hci_dev_on_completed_packets: the credits come back, and whatever  *)
(* they allow is sent.                                                     *)
CompletedUnsent(done, bad) ==  \* mutant: the queue waits for the next call
  /\ bad = {}
  /\ acl_available_packets' = (acl_available_packets + Completed(done)) % 65536
  /\ inflight' = inflight \ done
  /\ UNCHANGED <<outgoing_acl_packets, failed, lost>>
OnCompletedPackets(done, bad) ==
  SendQueued(inflight \ done, outgoing_acl_packets,
             (acl_available_packets + Completed(done)) % 65536, bad)

NumberOfCompletedPackets(done) ==
  /\ done # {} /\ FirstOf(done)
  /\ \E bad \in SUBSET PacketsOf(outgoing_acl_packets) :
       OnCompletedPackets(done, bad)
  /\ ret' = NoRet
  /\ UNCHANGED <<acls, created, links, conns>>

-----------------------------------------------------------------------------
(* The controller and its connections.                                     *)

(* The answer to Read Buffer Size, during the initialization that clients  *)
(* wait for before they connect.                                           *)
SetBufferSize ==
  /\ ~Ready
  /\ acl_available_packets' = MaxPackets
  /\ UNCHANGED <<outgoing_acl_packets, acls, created, failed, links, inflight,
                 lost, conns, ret>>

(* connect_cb or bte_acl_new_connected: a BteAcl gets the handle of a new  *)
(* connection.                                                             *)
Connected(h) ==
  /\ Ready
  /\ links[h] = NoConn
  /\ conns < MaxConns
  /\ conns' = conns + 1
  /\ links' = [links EXCEPT ![h] = conns']
  /\ acls' = [acls EXCEPT ![h] = conns']
  /\ created' = [created EXCEPT ![h] = 0]
  /\ ret' = NoRet
  /\ UNCHANGED <<outgoing_acl_packets, acl_available_packets, failed,
                 inflight, lost>>

PurgeFirst(q, h) ==  \* mutant: only the first packet of the connection
  LET i == CHOOSE i \in 1 .. Len(q) + 1 :
             /\ i <= Len(q) => q[i].handle = h
             /\ \A j \in 1 .. i - 1 : q[j].handle # h
  IN SubSeq(q, 1, i - 1) \o SubSeq(q, i + 1, Len(q))
(* The loop of bte_acl_disconnected over the queue: kept[i] is what is left *)
(* of its first i packets.                                                 *)
Purge(q, h) ==
  LET kept[i \in 0 .. Len(q)] ==
        IF i = 0 THEN << >>
        ELSE IF q[i].handle = h THEN kept[i - 1]
        ELSE Append(kept[i - 1], q[i])
  IN kept[Len(q)]

(* The controller drops the packets it holds for a link that went down,    *)
(* and does not report them; the library does not count them as completed. *)
DropLink(h) ==
  LET dropped == {p \in inflight : p.handle = h}
  IN /\ links' = [links EXCEPT ![h] = NoConn]
     /\ inflight' = inflight \ dropped
     /\ lost' = lost + Cardinality(dropped)
KeepLink == UNCHANGED <<links, inflight, lost>>

(* bte_acl_disconnected: on a Disconnection Complete event, whatever its   *)
(* status says, and when the last reference to the BteAcl goes, which      *)
(* leaves the controller's link as it is.                                  *)
Disconnected(h, how) ==
  /\ acls[h] # NoConn
  /\ outgoing_acl_packets' = Purge(outgoing_acl_packets, h)
  /\ acls' = [acls EXCEPT ![h] = NoConn]
  /\ IF how = "link down" THEN DropLink(h) ELSE KeepLink
  /\ ret' = NoRet
  /\ UNCHANGED <<acl_available_packets, created, failed, conns>>

(* Disconnection Complete for a handle that no BteAcl has.                 *)
UnknownDisconnected(h) ==
  /\ acls[h] = NoConn
  /\ links[h] # NoConn
  /\ DropLink(h)
  /\ ret' = NoRet
  /\ UNCHANGED <<library, conns>>

Send == \E h \in Handles, size \in 1 .. MaxFrags : SendMessage(h, size)
Complete == \E done \in SUBSET inflight : NumberOfCompletedPackets(done)
Next ==
  \/ SetBufferSize
  \/ Send
  \/ Complete
  \/ \E h \in Handles : Connected(h)
  \/ \E h \in Handles, how \in Departures : Disconnected(h, how)
  \/ \E h \in Handles : UnknownDisconnected(h)

Spec == Init /\ [][Next]_vars

(* The controller keeps transmitting: some packet that it holds is         *)
(* reported, again and again, as long as it holds any.                     *)
FairSpec == Spec /\ WF_vars(Complete)

-----------------------------------------------------------------------------
(* Properties.                                                             *)

(* Flow control: every buffer of the controller is either available to the *)
(* library, or holds a packet, or its credit was lost with a refused       *)
(* packet or a dropped link.  So the controller is never overrun.          *)
CreditConservation ==
  Ready => acl_available_packets + Cardinality(inflight) + lost = MaxPackets

(* A packet waits only for want of credits: none is left in the queue by a *)
(* call or an event that returns with a credit unused.                     *)
NoIdleCredit == outgoing_acl_packets # << >> => acl_available_packets = 0

(* Of the packets created for a connection, those the controller still     *)
(* holds come before those queued, the queue has them in order, and        *)
(* nothing behind the oldest one held is missing but what the backend      *)
(* refused.                                                                *)
PacketOrder ==
  \A h \in {k \in Handles : acls[k] # NoConn} :
    LET queue == outgoing_acl_packets
        mine == {i \in DOMAIN queue : queue[i].handle = h}
        held == {p.n : p \in {q \in inflight : q.handle = h}}
        bad == {p.n : p \in {q \in failed : q.conn = acls[h]}}
        queued == {queue[i].n : i \in mine}
    IN /\ \A i, j \in mine : i < j => queue[i].n < queue[j].n
       /\ \A n \in held, m \in queued : n < m
       /\ \A n \in held \cup queued :
            n + 1 .. created[h] \subseteq held \cup queued \cup bad

(* The controller gives the handle of a closed connection to a new one: no *)
(* packet of an earlier connection is ever queued or held under it.        *)
NoStalePackets ==
  /\ \A p \in PacketsOf(outgoing_acl_packets) : p.conn = acls[p.handle]
  /\ \A p \in inflight : p.conn = links[p.handle]

(* What acl.h:73 says of bte_acl_send_message, "Return the number of       *)
(* packets sent; 0 if all have been queued".  The code does not do so: see *)
(* ReturnTellsFate.                                                        *)
ReturnCountsSent ==
  ret.size > 0 /\ ret.rc >= 0 => ret.rc = ret.size - ret.left

(* What it returns instead: an error counts packets of the message that it *)
(* was given, 0 says that part of that message is queued, and more than 0  *)
(* that all of it was sent.                                                *)
ReturnTellsFate ==
  /\ ret.rc < 0 => ret.failed = -ret.rc
  /\ ret.rc >= 0 => ret.failed = 0
  /\ ret.size > 0 /\ ret.rc >= 0 => (ret.rc > 0 <=> ret.left = 0)

(* Every queued packet leaves the queue, however much is sent after it,    *)
(* unless every credit was lost.                                           *)
Drains ==
  \A p \in Packets :
    p \in PacketsOf(outgoing_acl_packets)
      ~> (p \notin PacketsOf(outgoing_acl_packets) \/ lost = MaxPackets)
=============================================================================

-------------------------- MODULE AclQueue_proofs --------------------------
(***************************************************************************)
(* Proofs about AclQueue, for any handles, any number of controller        *)
(* buffers, any message sizes and any bounds, with or without refused      *)
(* packets and however connections end.                                    *)
(***************************************************************************)
EXTENDS AclQueue, FiniteSetTheorems, WellFoundedInduction, TLAPS

-----------------------------------------------------------------------------
(* Induction: a set of naturals has a least element, so that what fails for *)
(* some number fails for a first one.                                      *)
LEMMA LeastNat ==
  ASSUME NEW T, T \subseteq Nat, T # {}
  PROVE  \E n \in T : \A m \in T : n <= m
<1> DEFINE R == OpToRel(<, Nat)
<1>1. IsWellFoundedOn(R, Nat)
  BY NatLessThanWellFounded
<1> HIDE DEF R
<1>2. PICK n \in T : \A m \in T : ~ (<<m, n>> \in R)
  BY <1>1, WFMin
<1>3. \A m \in T : ~(m < n)
  BY <1>2 DEF R, OpToRel
<1> QED
  BY <1>3

-----------------------------------------------------------------------------
(* Purge, the loop over the queue of a connection that ends.               *)
Walk(f, q, h, k) ==
  f = [i \in 0 .. k |->
         IF i = 0 THEN << >>
         ELSE IF q[i].handle = h THEN f[i - 1] ELSE Append(f[i - 1], q[i])]

(* The loop is well defined, for as many packets as there are.             *)
LEMMA WalkExists ==
  ASSUME NEW q, NEW h, NEW k \in Nat
  PROVE  \E f : Walk(f, q, h, k)
<1> DEFINE T == {n \in Nat : ~ \E f : Walk(f, q, h, n)}
<1> SUFFICES ASSUME T # {} PROVE FALSE
  OBVIOUS
<1>1. PICK n \in T : \A m \in T : n <= m
  <2>1. T \subseteq Nat
    OBVIOUS
  <2> HIDE DEF T
  <2> QED BY <2>1, LeastNat
<1>2. CASE n = 0
  <2>1. Walk([i \in 0 .. 0 |-> << >>], q, h, 0)
    BY DEF Walk
  <2> QED
    BY <1>2, <2>1
<1>3. CASE n # 0
  <2>1. n - 1 \in Nat /\ n - 1 \notin T
    BY <1>1, <1>3
  <2>2. PICK g : Walk(g, q, h, n - 1)
    BY <2>1
  <2> DEFINE last == IF q[n].handle = h THEN g[n - 1]
                     ELSE Append(g[n - 1], q[n])
             f == [i \in 0 .. n |-> IF i = n THEN last ELSE g[i]]
  <2>3. \A i \in 0 .. n - 1 :
          g[i] = IF i = 0 THEN << >>
                 ELSE IF q[i].handle = h THEN g[i - 1]
                 ELSE Append(g[i - 1], q[i])
    BY <2>2 DEF Walk
  <2>4. \A i \in 0 .. n :
          f[i] = IF i = 0 THEN << >>
                 ELSE IF q[i].handle = h THEN f[i - 1]
                 ELSE Append(f[i - 1], q[i])
    <3> TAKE i \in 0 .. n
    <3>1. CASE i = n
      <4>1. f[i] = last /\ f[i - 1] = g[n - 1]
        BY <1>3, <3>1
      <4> QED
        BY <1>3, <3>1, <4>1
    <3>2. CASE i # n
      <4>1. f[i] = g[i] /\ i \in 0 .. n - 1
        BY <3>2
      <4>2. i # 0 => f[i - 1] = g[i - 1]
        BY <3>2
      <4> QED
        BY <2>3, <4>1, <4>2
    <3> QED BY <3>1, <3>2
  <2>5. Walk(f, q, h, n)
    <3> DEFINE body(i) == IF i = 0 THEN << >>
                          ELSE IF q[i].handle = h THEN f[i - 1]
                          ELSE Append(f[i - 1], q[i])
    <3>1. \A i \in 0 .. n : f[i] = body(i)
      BY <2>4
    <3>2. f = [i \in 0 .. n |-> f[i]]
      OBVIOUS
    <3> HIDE DEF f
    <3>3. f = [i \in 0 .. n |-> body(i)]
      BY <3>1, <3>2
    <3> QED BY <3>3 DEF Walk
  <2> QED
    BY <2>5
<1> QED
  BY <1>2, <1>3

(* And goes from each packet to the next.                                  *)
LEMMA WalkSteps ==
  ASSUME NEW q, NEW h, NEW k \in Nat, NEW f, Walk(f, q, h, k)
  PROVE  \A i \in 1 .. k :
           f[i] = IF q[i].handle = h THEN f[i - 1]
                  ELSE Append(f[i - 1], q[i])
<1>1. \A i \in 0 .. k :
        f[i] = IF i = 0 THEN << >>
               ELSE IF q[i].handle = h THEN f[i - 1]
               ELSE Append(f[i - 1], q[i])
  BY DEF Walk
<1> QED
  BY <1>1

(* What the loop leaves of the first packets: those of the other handles,  *)
(* in the order they had.                                                  *)
KeptOf(r, q, h, k) ==
  /\ r \in Seq(Packets)
  /\ \A a \in 1 .. Len(r) : \E c \in 1 .. k : r[a] = q[c] /\ q[c].handle # h
  /\ \A c \in 1 .. k : q[c].handle # h => \E a \in 1 .. Len(r) : r[a] = q[c]
  /\ \A a, b \in 1 .. Len(r) :
       a < b => \E c, d \in 1 .. k : c < d /\ r[a] = q[c] /\ r[b] = q[d]

LEMMA PurgeKeeps ==
  ASSUME NEW q \in Seq(Packets), NEW h
  PROVE  KeptOf(Purge(q, h), q, h, Len(q))
<1> DEFINE chosen == CHOOSE f : Walk(f, q, h, Len(q))
<1>0. Walk(chosen, q, h, Len(q))
  <2>1. Len(q) \in Nat
    OBVIOUS
  <2>2. \E f : Walk(f, q, h, Len(q))
    BY <2>1, WalkExists, Zenon
  <2> QED BY <2>2, Zenon
<1>01. Purge(q, h) = chosen[Len(q)]
  BY DEF Purge, Walk
<1> HIDE DEF chosen
<1>1. PICK f : Walk(f, q, h, Len(q)) /\ Purge(q, h) = f[Len(q)]
  BY <1>0, <1>01
<1>2. Purge(q, h) = f[Len(q)]
  BY <1>1
<1>3. f[0] = << >>
  BY <1>1 DEF Walk
<1>4. \A i \in 1 .. Len(q) :
        f[i] = IF q[i].handle = h THEN f[i - 1] ELSE Append(f[i - 1], q[i])
  <2>1. Len(q) \in Nat
    OBVIOUS
  <2>2. Walk(f, q, h, Len(q))
    BY <1>1
  <2> QED
    BY <2>1, <2>2, WalkSteps
<1> DEFINE T == {n \in 0 .. Len(q) : ~ KeptOf(f[n], q, h, n)}
<1> SUFFICES ASSUME T # {} PROVE FALSE
  BY <1>2
<1>5. PICK n \in T : \A m \in T : n <= m
  <2>1. T \subseteq Nat
    OBVIOUS
  <2> HIDE DEF T
  <2> QED BY <2>1, LeastNat
<1>6. CASE n = 0
  <2>1. KeptOf(<< >>, q, h, 0)
    BY DEF KeptOf
  <2> QED BY <1>3, <1>6, <2>1
<1>7. CASE n # 0
  <2>1. n - 1 \in 0 .. Len(q) /\ n - 1 \notin T /\ n \in 1 .. Len(q)
    BY <1>5, <1>7
  <2> DEFINE s == f[n - 1]  r == f[n]
  <2>2. KeptOf(s, q, h, n - 1)
    BY <2>1
  <2>3. q[n] \in Packets
    BY <2>1
  <2>4. r = IF q[n].handle = h THEN s ELSE Append(s, q[n])
    BY <1>4, <2>1
  <2>5. s \in Seq(Packets)
    BY <2>2 DEF KeptOf
  <2> HIDE DEF s, r
  <2>6. ASSUME q[n].handle = h PROVE KeptOf(r, q, h, n)
    BY <2>1, <2>2, <2>4, <2>6 DEF KeptOf
  <2>7. ASSUME q[n].handle # h PROVE KeptOf(r, q, h, n)
    <3>1. r = Append(s, q[n])
      BY <2>4, <2>7
    <3>2. /\ r \in Seq(Packets) /\ Len(r) = Len(s) + 1
          /\ \A a \in 1 .. Len(s) : r[a] = s[a]
          /\ r[Len(s) + 1] = q[n]
      BY <2>3, <2>5, <3>1
    <3>3. \A a \in 1 .. Len(r) :
            a \in 1 .. Len(s) \/ a = Len(s) + 1
      BY <2>5, <3>2
    <3>4. \A a \in 1 .. Len(r) :
            \E c \in 1 .. n : r[a] = q[c] /\ q[c].handle # h
      <4> SUFFICES ASSUME NEW a \in 1 .. Len(r)
                   PROVE  \E c \in 1 .. n : r[a] = q[c] /\ q[c].handle # h
        OBVIOUS
      <4>1. CASE a \in 1 .. Len(s)
        <5>1. PICK c \in 1 .. n - 1 : s[a] = q[c] /\ q[c].handle # h
          BY <2>2, <4>1 DEF KeptOf
        <5>2. c \in 1 .. n
          BY <2>1
        <5> QED
          BY <3>2, <4>1, <5>1, <5>2
      <4>2. CASE a = Len(s) + 1
        <5>1. n \in 1 .. n
          BY <2>1
        <5> QED
          BY <2>7, <3>2, <4>2, <5>1
      <4> QED BY <3>3, <4>1, <4>2
    <3>5. \A c \in 1 .. n :
            q[c].handle # h => \E a \in 1 .. Len(r) : r[a] = q[c]
      <4> SUFFICES ASSUME NEW c \in 1 .. n, q[c].handle # h
                   PROVE  \E a \in 1 .. Len(r) : r[a] = q[c]
        OBVIOUS
      <4>1. CASE c = n
        BY <2>5, <3>2, <4>1
      <4>2. CASE c # n
        <5>0. c \in 1 .. n - 1
          BY <2>1, <4>2
        <5>1. PICK a \in 1 .. Len(s) : s[a] = q[c]
          BY <2>2, <5>0 DEF KeptOf
        <5> QED
          BY <2>5, <3>2, <5>1
      <4> QED BY <4>1, <4>2
    <3>6. \A a, b \in 1 .. Len(r) :
            a < b => \E c, d \in 1 .. n : c < d /\ r[a] = q[c] /\ r[b] = q[d]
      <4> SUFFICES ASSUME NEW a \in 1 .. Len(r), NEW b \in 1 .. Len(r), a < b
                   PROVE  \E c, d \in 1 .. n :
                            c < d /\ r[a] = q[c] /\ r[b] = q[d]
        OBVIOUS
      <4>1. a \in 1 .. Len(s)
        BY <2>5, <3>2
      <4>2. CASE b \in 1 .. Len(s)
        <5>1. PICK c, d \in 1 .. n - 1 : c < d /\ s[a] = q[c] /\ s[b] = q[d]
          BY <2>2, <4>1, <4>2 DEF KeptOf
        <5> QED
          BY <2>1, <3>2, <4>1, <4>2, <5>1
      <4>3. CASE b = Len(s) + 1
        <5>1. PICK c \in 1 .. n - 1 : s[a] = q[c]
          BY <2>2, <4>1 DEF KeptOf
        <5> QED
          BY <2>1, <3>2, <4>1, <4>3, <5>1
      <4> QED BY <3>3, <4>2, <4>3
    <3> QED
      BY <3>2, <3>4, <3>5, <3>6 DEF KeptOf
  <2> QED
    BY <2>6, <2>7 DEF r
<1> QED
  BY <1>6, <1>7

-----------------------------------------------------------------------------
(* Sending from the queue.                                                 *)
Distinct(q) == \A i, j \in 1 .. Len(q) : i # j => q[i] # q[j]

(* The packets of a sequence are the values at its indices.                *)
LEMMA PacketsOfSeq ==
  ASSUME NEW S, NEW q \in Seq(S)
  PROVE  PacketsOf(q) = {q[i] : i \in 1 .. Len(q)} /\ PacketsOf(q) \subseteq S
  BY DEF PacketsOf

(* A sequence without repetitions has as many packets as places.           *)
LEMMA CountDistinct ==
  ASSUME NEW S, NEW q \in Seq(S), Distinct(q)
  PROVE  IsFiniteSet(PacketsOf(q)) /\ Cardinality(PacketsOf(q)) = Len(q)
<1> DEFINE P == PacketsOf(q)
<1>1. P = {q[i] : i \in 1 .. Len(q)} /\ Len(q) \in Nat
  BY PacketsOfSeq
<1>2. q \in [1 .. Len(q) -> P]
  BY <1>1
<1>3. q \in Bijection(1 .. Len(q), P)
  BY <1>1, <1>2 DEF Distinct, Bijection, Injection, Surjection, IsInjective
<1>4. ExistsBijection(1 .. Len(q), P)
  BY <1>3 DEF ExistsBijection
<1> HIDE DEF P
<1>5. IsFiniteSet(P) /\ Cardinality(P) = Len(q)
  BY <1>1, <1>4, FS_CountingElements, FS_NatBijection
<1> QED
  BY <1>5 DEF P

(* What is taken from the queue and what stays.                            *)
LEMMA TakenAndRest ==
  ASSUME NEW S, NEW q \in Seq(S), NEW credits \in Nat
  PROVE  LET count == Smaller(Len(q), credits)
             taken == Taken(q, credits)
             rest == SubSeq(q, count + 1, Len(q))
         IN /\ count \in Nat /\ count <= Len(q) /\ count <= credits
            /\ taken \in Seq(S) /\ Len(taken) = count
            /\ \A i \in 1 .. count : taken[i] = q[i]
            /\ rest \in Seq(S) /\ Len(rest) = Len(q) - count
            /\ \A i \in 1 .. Len(rest) : rest[i] = q[count + i]
<1> DEFINE count == Smaller(Len(q), credits)
<1>1. count \in Nat /\ count <= Len(q) /\ count <= credits
  BY DEF Smaller
<1> HIDE DEF count
<1>2. /\ SubSeq(q, 1, count) \in Seq(S) /\ Len(SubSeq(q, 1, count)) = count
      /\ \A i \in 1 .. count : SubSeq(q, 1, count)[i] = q[i]
  BY <1>1
<1>3. /\ SubSeq(q, count + 1, Len(q)) \in Seq(S)
      /\ Len(SubSeq(q, count + 1, Len(q))) = Len(q) - count
      /\ \A i \in 1 .. Len(q) - count :
           SubSeq(q, count + 1, Len(q))[i] = q[count + i]
  BY <1>1
<1> QED
  BY <1>1, <1>2, <1>3 DEF Taken, count

(* The packets taken and those that stay are those of the queue.           *)
LEMMA TakenSplit ==
  ASSUME NEW S, NEW q \in Seq(S), NEW credits \in Nat
  PROVE  LET rest == SubSeq(q, Smaller(Len(q), credits) + 1, Len(q))
         IN /\ PacketsOf(Taken(q, credits)) \cup PacketsOf(rest)
                 = PacketsOf(q)
            /\ Distinct(q) =>
                 /\ PacketsOf(Taken(q, credits)) \cap PacketsOf(rest) = {}
                 /\ IsFiniteSet(PacketsOf(Taken(q, credits)))
                 /\ Cardinality(PacketsOf(Taken(q, credits)))
                      = Smaller(Len(q), credits)
<1> DEFINE count == Smaller(Len(q), credits)
           taken == Taken(q, credits)
           rest == SubSeq(q, count + 1, Len(q))
<1>1. /\ count \in Nat /\ count <= Len(q) /\ count <= credits
      /\ taken \in Seq(S) /\ Len(taken) = count
      /\ \A i \in 1 .. count : taken[i] = q[i]
      /\ rest \in Seq(S) /\ Len(rest) = Len(q) - count
      /\ \A i \in 1 .. Len(rest) : rest[i] = q[count + i]
  BY TakenAndRest
<1> HIDE DEF count, taken, rest
<1>2. /\ PacketsOf(taken) = {q[i] : i \in 1 .. count}
      /\ PacketsOf(rest) = {rest[i] : i \in 1 .. Len(rest)}
      /\ PacketsOf(q) = {q[i] : i \in 1 .. Len(q)}
  <2>1. PacketsOf(taken) = {taken[i] : i \in 1 .. count}
    BY <1>1, PacketsOfSeq
  <2> QED
    BY <1>1, <2>1, PacketsOfSeq
<1>3. \A i \in 1 .. Len(q) :
        i \in 1 .. count \/ \E j \in 1 .. Len(rest) : i = count + j
  <2> SUFFICES ASSUME NEW i \in 1 .. Len(q), i \notin 1 .. count
               PROVE  \E j \in 1 .. Len(rest) : i = count + j
    OBVIOUS
  <2>1. i - count \in 1 .. Len(rest) /\ i = count + (i - count)
    BY <1>1
  <2> QED BY <2>1
<1>4. PacketsOf(taken) \cup PacketsOf(rest) = PacketsOf(q)
  <2>1. PacketsOf(taken) \subseteq PacketsOf(q)
    BY <1>1, <1>2
  <2>2. PacketsOf(rest) \subseteq PacketsOf(q)
    <3> SUFFICES ASSUME NEW i \in 1 .. Len(rest)
                 PROVE  rest[i] \in PacketsOf(q)
      BY <1>2
    <3>1. count + i \in 1 .. Len(q)
      BY <1>1
    <3> QED BY <1>1, <1>2, <3>1
  <2>3. PacketsOf(q) \subseteq PacketsOf(taken) \cup PacketsOf(rest)
    <3> SUFFICES ASSUME NEW i \in 1 .. Len(q)
                 PROVE  q[i] \in PacketsOf(taken) \cup PacketsOf(rest)
      BY <1>2
    <3>1. CASE i \in 1 .. count
      BY <1>2, <3>1
    <3>2. CASE i \notin 1 .. count
      <4>1. PICK j \in 1 .. Len(rest) : i = count + j
        BY <1>3, <3>2
      <4> QED BY <1>1, <1>2, <4>1
    <3> QED BY <3>1, <3>2
  <2> QED BY <2>1, <2>2, <2>3
<1>5. ASSUME Distinct(q)
      PROVE  PacketsOf(taken) \cap PacketsOf(rest) = {}
  <2> SUFFICES ASSUME NEW i \in 1 .. count, NEW j \in 1 .. Len(rest)
               PROVE  q[i] # rest[j]
    BY <1>2
  <2>1. i \in 1 .. Len(q) /\ count + j \in 1 .. Len(q) /\ i # count + j
    BY <1>1
  <2> QED
    BY <1>1, <1>5, <2>1 DEF Distinct
<1>6. ASSUME Distinct(q)
      PROVE  IsFiniteSet(PacketsOf(taken)) /\ Cardinality(PacketsOf(taken)) = count
  <2>1. Distinct(taken)
    <3> SUFFICES ASSUME NEW i \in 1 .. count, NEW j \in 1 .. count, i # j
                 PROVE  taken[i] # taken[j]
      BY <1>1 DEF Distinct
    <3>1. i \in 1 .. Len(q) /\ j \in 1 .. Len(q)
      BY <1>1
    <3> QED BY <1>1, <1>6, <3>1 DEF Distinct
  <2> QED
    BY <1>1, <2>1, CountDistinct
<1> QED
  BY <1>4, <1>5, <1>6 DEF count, taken, rest

-----------------------------------------------------------------------------
(* The inductive invariant.                                                *)
QueueTypes ==
  /\ outgoing_acl_packets \in Seq(Packets)
  /\ acl_available_packets \in 0 .. MaxPackets \cup {UNSET}
  /\ acls \in [Handles -> Conns \cup {NoConn}]
  /\ created \in [Handles -> 0 .. MaxSent]
  /\ links \in [Handles -> Conns \cup {NoConn}]
  /\ inflight \subseteq Packets /\ IsFiniteSet(inflight)
  /\ lost \in Nat
  /\ conns \in 0 .. MaxConns

(* Nothing happens before the number of buffers is known.                  *)
NothingBefore ==
  ~Ready => /\ outgoing_acl_packets = << >> /\ inflight = {} /\ lost = 0
            /\ \A h \in Handles : acls[h] = NoConn /\ links[h] = NoConn

(* A BteAcl stands for the link that is up.                                *)
Linked == \A h \in Handles : acls[h] # NoConn => links[h] = acls[h]

(* The packets of a queue are in order, and come after those held.         *)
Ordered(q) ==
  \A i, j \in 1 .. Len(q) :
    i < j /\ q[i].handle = q[j].handle => q[i].n < q[j].n
Behind(q, held) ==
  \A p \in held, r \in PacketsOf(q) : r.handle = p.handle => p.n < r.n

(* No packet has a number that was not given yet.                          *)
Numbered(q, held) ==
  /\ \A p \in PacketsOf(q) : p.n <= created[p.handle]
  /\ \A p \in held : acls[p.handle] # NoConn => p.n <= created[p.handle]

(* Of connection c with handle h, which got top packets, none is missing   *)
(* behind one that is in A, but those in F.                                *)
NoneMissing(A, F, h, c, top) ==
  \A p \in A : p.handle = h =>
    \A m \in p.n + 1 .. top :
      \/ \E r \in A : r.handle = h /\ r.n = m
      \/ \E r \in F : r.conn = c /\ r.n = m
Unsettled == inflight \cup PacketsOf(outgoing_acl_packets)
NothingMissing ==
  \A h \in Handles : acls[h] # NoConn =>
    NoneMissing(Unsettled, failed, h, acls[h], created[h])

QueueInv ==
  /\ QueueTypes /\ NothingBefore /\ Linked
  /\ Ordered(outgoing_acl_packets)
  /\ Behind(outgoing_acl_packets, inflight)
  /\ Numbered(outgoing_acl_packets, inflight)
  /\ NothingMissing
  /\ NoStalePackets /\ CreditConservation /\ NoIdleCredit

(* An ordered queue has no packet twice.                                   *)
LEMMA OrderedDistinct ==
  ASSUME NEW q \in Seq(Packets), Ordered(q)
  PROVE  Distinct(q)
<1> SUFFICES ASSUME NEW i \in 1 .. Len(q), NEW j \in 1 .. Len(q), i < j
             PROVE  q[i] # q[j]
  BY DEF Distinct
<1>1. q[i] \in Packets /\ q[j] \in Packets
  OBVIOUS
<1>2. q[i].handle = q[j].handle => q[i].n < q[j].n
  BY DEF Ordered
<1> QED
  BY <1>1, <1>2 DEF Packets

(* What _bte_hci_send_queued_data does to a queue in order and a controller *)
(* whose buffers are accounted for.                                        *)
LEMMA SendEffect ==
  ASSUME NEW q \in Seq(Packets), Ordered(q),
         NEW held, held \subseteq Packets, IsFiniteSet(held), Behind(q, held),
         NEW credits \in 0 .. MaxPackets, lost \in Nat,
         credits + Cardinality(held) + lost = MaxPackets,
         NEW bad, SendQueued(held, q, credits, bad)
  PROVE  /\ outgoing_acl_packets' \in Seq(Packets)
         /\ Ordered(outgoing_acl_packets')
         /\ Behind(outgoing_acl_packets', inflight')
         /\ inflight' \subseteq Packets /\ IsFiniteSet(inflight')
         /\ acl_available_packets' \in 0 .. MaxPackets
         /\ lost' \in Nat
         /\ acl_available_packets' + Cardinality(inflight') + lost' = MaxPackets
         /\ outgoing_acl_packets' # << >> => acl_available_packets' = 0
         /\ bad \subseteq PacketsOf(q)
         /\ inflight' \cup PacketsOf(outgoing_acl_packets') \cup bad
              = held \cup PacketsOf(q)
         /\ inflight' \subseteq held \cup PacketsOf(q)
         /\ PacketsOf(outgoing_acl_packets') \subseteq PacketsOf(q)
<1> DEFINE count == Smaller(Len(q), credits)
           taken == PacketsOf(Taken(q, credits))
           rest == SubSeq(q, count + 1, Len(q))
<1>0. credits \in Nat /\ MaxPackets \in Nat /\ Len(q) \in Nat
  BY AclSizeAssumption
<1>1. /\ count \in Nat /\ count <= Len(q) /\ count <= credits
      /\ rest \in Seq(Packets) /\ Len(rest) = Len(q) - count
      /\ \A i \in 1 .. Len(rest) : rest[i] = q[count + i]
  BY <1>0, TakenAndRest
<1>2. /\ taken \cup PacketsOf(rest) = PacketsOf(q)
      /\ taken \cap PacketsOf(rest) = {}
      /\ IsFiniteSet(taken) /\ Cardinality(taken) = count
  BY <1>0, OrderedDistinct, TakenSplit
<1>3. taken = {q[i] : i \in 1 .. count}
  <2>1. /\ Taken(q, credits) \in Seq(Packets) /\ Len(Taken(q, credits)) = count
        /\ \A i \in 1 .. count : Taken(q, credits)[i] = q[i]
    BY <1>0, TakenAndRest
  <2>2. taken = {Taken(q, credits)[i] : i \in 1 .. count}
    BY <2>1, PacketsOfSeq
  <2> QED
    BY <2>1, <2>2
<1>5. PacketsOf(q) \subseteq Packets
  BY PacketsOfSeq
<1>6. /\ bad \subseteq taken
      /\ outgoing_acl_packets' = rest
      /\ acl_available_packets' = credits - count
      /\ inflight' = held \cup (taken \ bad)
      /\ lost' = lost + Cardinality(bad)
  BY DEF SendQueued
<1>65. count < Len(q) => count = credits
  BY <1>0 DEF Smaller
<1> HIDE DEF count, taken, rest
<1>4. PacketsOf(rest) = {rest[i] : i \in 1 .. Len(rest)}
  BY <1>1, PacketsOfSeq
<1>7. Ordered(rest)
  <2> SUFFICES ASSUME NEW i \in 1 .. Len(rest), NEW j \in 1 .. Len(rest),
                      i < j, rest[i].handle = rest[j].handle
               PROVE  rest[i].n < rest[j].n
    BY DEF Ordered
  <2>1. /\ count + i \in 1 .. Len(q) /\ count + j \in 1 .. Len(q)
        /\ count + i < count + j
    BY <1>0, <1>1
  <2>2. rest[i] = q[count + i] /\ rest[j] = q[count + j]
    BY <1>1
  <2> QED
    BY <2>1, <2>2 DEF Ordered
<1>8. Behind(rest, inflight')
  <2> SUFFICES ASSUME NEW p \in inflight', NEW r \in PacketsOf(rest),
                      r.handle = p.handle
               PROVE  p.n < r.n
    BY DEF Behind
  <2>1. CASE p \in held
    BY <1>2, <2>1 DEF Behind
  <2>2. CASE p \in taken
    <3>1. PICK i \in 1 .. count : p = q[i]
      BY <1>3, <2>2
    <3>2. PICK j \in 1 .. Len(rest) : r = q[count + j]
      BY <1>1, <1>4
    <3>3. i \in 1 .. Len(q) /\ count + j \in 1 .. Len(q) /\ i < count + j
      BY <1>0, <1>1
    <3> QED
      BY <3>1, <3>2, <3>3 DEF Ordered
  <2> QED
    BY <1>6, <2>1, <2>2
<1>9. held \cap taken = {}
  <2> SUFFICES ASSUME NEW p \in held, p \in taken PROVE FALSE
    OBVIOUS
  <2>1. p.n < p.n /\ p.n \in Nat
    BY <1>2, <1>5 DEF Behind, Packets
  <2> QED BY <2>1
<1>10. /\ IsFiniteSet(bad) /\ Cardinality(bad) \in Nat
       /\ Cardinality(bad) <= count
  BY <1>2, <1>6, FS_Subset, FS_CardinalityType
<1>11. /\ IsFiniteSet(taken \ bad)
       /\ Cardinality(taken \ bad) = count - Cardinality(bad)
  <2>1. taken \cap bad = bad
    BY <1>6
  <2> QED
    BY <1>2, <2>1, FS_Difference
<1>12. /\ IsFiniteSet(inflight')
       /\ Cardinality(inflight') = Cardinality(held) + count - Cardinality(bad)
       /\ Cardinality(held) \in Nat
  <2>1. held \cap (taken \ bad) = {}
    BY <1>9
  <2>2. /\ IsFiniteSet(held \cup (taken \ bad))
        /\ Cardinality(held \cup (taken \ bad))
             = Cardinality(held) + Cardinality(taken \ bad)
                 - Cardinality(held \cap (taken \ bad))
    <3> DEFINE good == taken \ bad
    <3>1. IsFiniteSet(good)
      BY <1>11
    <3> HIDE DEF good
    <3>2. /\ IsFiniteSet(held \cup good)
          /\ Cardinality(held \cup good)
               = Cardinality(held) + Cardinality(good)
                   - Cardinality(held \cap good)
      BY <3>1, FS_Union
    <3> QED BY <3>2 DEF good
  <2>3. Cardinality({}) = 0 /\ Cardinality(held) \in Nat
    BY FS_EmptySet, FS_CardinalityType
  <2>4. Cardinality(held \cap (taken \ bad)) = 0
    BY <2>1, <2>3
  <2>5. inflight' = held \cup (taken \ bad)
    BY <1>6
  <2>6. Cardinality(inflight')
          = Cardinality(held) + (count - Cardinality(bad)) - 0
    BY <1>11, <2>2, <2>4, <2>5
  <2> QED
    BY <1>1, <1>10, <2>2, <2>3, <2>5, <2>6
<1>13. /\ acl_available_packets' \in 0 .. MaxPackets
       /\ lost' \in Nat
       /\ acl_available_packets' + Cardinality(inflight') + lost' = MaxPackets
  BY <1>0, <1>1, <1>6, <1>10, <1>12
<1>14. rest # << >> => acl_available_packets' = 0
  BY <1>0, <1>1, <1>6, <1>65
<1>15. /\ bad \subseteq PacketsOf(q)
       /\ inflight' \cup PacketsOf(rest) \cup bad = held \cup PacketsOf(q)
       /\ inflight' \subseteq held \cup PacketsOf(q)
       /\ PacketsOf(rest) \subseteq PacketsOf(q)
  BY <1>2, <1>6
<1> QED
  BY <1>1, <1>5, <1>6, <1>7, <1>8, <1>12, <1>13, <1>14, <1>15

-----------------------------------------------------------------------------
(* Each action preserves the invariant.                                    *)

(* The queue that bte_acl_send_message hands over: the message is behind    *)
(* what was queued, and numbered after it.                                 *)
LEMMA QueueWithMessage ==
  ASSUME QueueInv, NEW h \in Handles, NEW size \in 1 .. MaxFrags,
         acls[h] # NoConn, created[h] + size <= MaxSent
  PROVE  LET m == Message(h, size)
             q == Enqueue(outgoing_acl_packets, m)
         IN /\ m \in Seq(Packets) /\ Len(m) = size
            /\ PacketsOf(m) = {Packet(h, acls[h], created[h] + i)
                               : i \in 1 .. size}
            /\ q \in Seq(Packets) /\ Len(q) = Len(outgoing_acl_packets) + size
            /\ PacketsOf(q) = PacketsOf(outgoing_acl_packets) \cup PacketsOf(m)
            /\ Ordered(q) /\ Behind(q, inflight)
<1> DEFINE out == outgoing_acl_packets
           m == Message(h, size)
           q == Enqueue(out, m)
<1>0. /\ out \in Seq(Packets) /\ inflight \subseteq Packets
      /\ created[h] \in Nat /\ acls[h] \in Conns
      /\ size \in Nat /\ size > 0 /\ Len(out) \in Nat
      /\ MaxSent \in Nat
  BY AclSizeAssumption DEF QueueInv, QueueTypes
<1>1. m = [i \in 1 .. size |-> Packet(h, acls[h], created[h] + i)]
  BY DEF Message
<1>2. \A i \in 1 .. size : Packet(h, acls[h], created[h] + i) \in Packets
  BY <1>0 DEF Packet, Packets
<1>3. m \in Seq(Packets) /\ Len(m) = size
  BY <1>0, <1>1, <1>2
<1>4. \A i \in 1 .. size : m[i] = Packet(h, acls[h], created[h] + i)
  BY <1>1
<1>5. PacketsOf(m) = {Packet(h, acls[h], created[h] + i) : i \in 1 .. size}
  <2>1. PacketsOf(m) = {m[i] : i \in 1 .. size}
    BY <1>3, PacketsOfSeq
  <2> QED
    BY <1>4, <2>1
<1> HIDE DEF m
<1>6. /\ q \in Seq(Packets) /\ Len(q) = Len(out) + size
      /\ \A i \in 1 .. Len(out) : q[i] = out[i]
      /\ \A i \in 1 .. size : q[Len(out) + i] = m[i]
  BY <1>0, <1>3 DEF Enqueue
<1> HIDE DEF q
<1>7. \A i \in 1 .. Len(q) :
        \/ i \in 1 .. Len(out) /\ q[i] = out[i]
        \/ \E j \in 1 .. size : i = Len(out) + j /\ q[i] = m[j]
  <2> SUFFICES ASSUME NEW i \in 1 .. Len(q), i \notin 1 .. Len(out)
               PROVE  \E j \in 1 .. size : i = Len(out) + j /\ q[i] = m[j]
    BY <1>6
  <2>1. i - Len(out) \in 1 .. size /\ i = Len(out) + (i - Len(out))
    BY <1>0, <1>6
  <2> QED BY <1>6, <2>1
<1>8. PacketsOf(q) = PacketsOf(out) \cup PacketsOf(m)
  <2>1. /\ PacketsOf(q) = {q[i] : i \in 1 .. Len(q)}
        /\ PacketsOf(out) = {out[i] : i \in 1 .. Len(out)}
        /\ PacketsOf(m) = {m[i] : i \in 1 .. size}
    <3>1. PacketsOf(q) = {q[i] : i \in 1 .. Len(q)}
      BY <1>6, PacketsOfSeq
    <3>2. PacketsOf(out) = {out[i] : i \in 1 .. Len(out)}
      BY <1>0, PacketsOfSeq
    <3>3. PacketsOf(m) = {m[i] : i \in 1 .. Len(m)}
      BY <1>3, PacketsOfSeq
    <3> QED BY <1>3, <3>1, <3>2, <3>3
  <2>2. PacketsOf(q) \subseteq PacketsOf(out) \cup PacketsOf(m)
    BY <1>7, <2>1
  <2>3. ASSUME NEW i \in 1 .. Len(out) PROVE out[i] \in PacketsOf(q)
    <3>1. i \in 1 .. Len(q)
      BY <1>0, <1>6
    <3> QED BY <1>6, <2>1, <3>1
  <2>4. ASSUME NEW i \in 1 .. size PROVE m[i] \in PacketsOf(q)
    <3>1. Len(out) + i \in 1 .. Len(q)
      BY <1>0, <1>6
    <3> QED BY <1>6, <2>1, <3>1
  <2> QED
    BY <2>1, <2>2, <2>3, <2>4
<1>9. \A p \in PacketsOf(out) : p.handle = h => p.n <= created[h]
  BY DEF QueueInv, Numbered
<1>10. Ordered(q)
  <2> SUFFICES ASSUME NEW i \in 1 .. Len(q), NEW j \in 1 .. Len(q), i < j,
                      q[i].handle = q[j].handle
               PROVE  q[i].n < q[j].n
    BY DEF Ordered
  <2>1. CASE j \in 1 .. Len(out)
    <3>1. i \in 1 .. Len(out) /\ q[i] = out[i] /\ q[j] = out[j]
      BY <1>0, <1>6, <2>1
    <3>2. Ordered(out)
      BY DEF QueueInv
    <3> QED
      BY <2>1, <3>1, <3>2 DEF Ordered
  <2>2. CASE j \notin 1 .. Len(out)
    <3>1. PICK b \in 1 .. size : j = Len(out) + b /\ q[j] = m[b]
      BY <1>7, <2>2
    <3>2. q[j].handle = h /\ q[j].n = created[h] + b
      <4>1. q[j] = Packet(h, acls[h], created[h] + b)
        BY <1>4, <3>1
      <4> QED BY <4>1 DEF Packet
    <3>3. CASE i \in 1 .. Len(out)
      <4>1. q[i] \in PacketsOf(out) /\ q[i] \in Packets
        <5>1. q[i] = out[i]
          BY <1>0, <1>6, <3>3
        <5>2. /\ PacketsOf(out) = {out[k] : k \in 1 .. Len(out)}
              /\ PacketsOf(out) \subseteq Packets
          BY <1>0, PacketsOfSeq
        <5>3. out[i] \in PacketsOf(out)
          BY <3>3, <5>2
        <5> QED BY <5>1, <5>2, <5>3
      <4>2. q[i].n <= created[h] /\ q[i].n \in Nat
        BY <1>9, <3>2, <4>1 DEF Packets
      <4> QED
        BY <1>0, <3>2, <4>2
    <3>4. CASE i \notin 1 .. Len(out)
      <4>1. PICK a \in 1 .. size : i = Len(out) + a /\ q[i] = m[a]
        BY <1>7, <3>4
      <4>2. q[i].n = created[h] + a
        <5>1. q[i] = Packet(h, acls[h], created[h] + a)
          BY <1>4, <4>1
        <5> QED BY <5>1 DEF Packet
      <4> QED
        BY <1>0, <3>1, <3>2, <4>1, <4>2
    <3> QED BY <3>3, <3>4
  <2> QED BY <2>1, <2>2
<1>11. Behind(q, inflight)
  <2> SUFFICES ASSUME NEW p \in inflight, NEW r \in PacketsOf(q),
                      r.handle = p.handle
               PROVE  p.n < r.n
    BY DEF Behind
  <2>1. CASE r \in PacketsOf(out)
    BY <2>1 DEF QueueInv, Behind
  <2>2. CASE r \in PacketsOf(m)
    <3>1. PICK i \in 1 .. size : r = Packet(h, acls[h], created[h] + i)
      BY <1>5, <2>2
    <3>2. p.handle = h /\ r.n = created[h] + i
      BY <3>1 DEF Packet
    <3>3. p.n <= created[h] /\ p.n \in Nat
      BY <1>0, <3>2 DEF QueueInv, Numbered, Packets
    <3> QED
      BY <1>0, <3>2, <3>3
  <2> QED BY <1>8, <2>1, <2>2
<1> QED
  BY <1>3, <1>5, <1>6, <1>8, <1>10, <1>11 DEF m, q

(* A packet that leaves for good is accounted for by its refusal.          *)
LEMMA RefusedNotMissing ==
  ASSUME NEW A, NEW B, NEW F, NEW bad, NEW h, NEW c, NEW top,
         NoneMissing(A, F, h, c, top), A = B \cup bad,
         \A p \in bad : p.handle = h => p.conn = c
  PROVE  NoneMissing(B, F \cup bad, h, c, top)
<1> SUFFICES ASSUME NEW p \in B, p.handle = h, NEW m \in p.n + 1 .. top
             PROVE  \/ \E r \in B : r.handle = h /\ r.n = m
                    \/ \E r \in F \cup bad : r.conn = c /\ r.n = m
  BY DEF NoneMissing
<1>1. p \in A
  OBVIOUS
<1>2. \/ \E r \in A : r.handle = h /\ r.n = m
      \/ \E r \in F : r.conn = c /\ r.n = m
  BY <1>1 DEF NoneMissing
<1> QED
  BY <1>2

(* Sending from a queue q that fits what the controller holds gives a state *)
(* of the invariant.                                                       *)
LEMMA AfterSend ==
  ASSUME QueueInv, UNCHANGED <<acls, links, conns>>,
         created' \in [Handles -> 0 .. MaxSent],
         NEW q \in Seq(Packets), Ordered(q),
         NEW held, held \subseteq Packets, IsFiniteSet(held), Behind(q, held),
         NEW credits \in 0 .. MaxPackets,
         credits + Cardinality(held) + lost = MaxPackets,
         \A p \in PacketsOf(q) :
           p.n <= created'[p.handle] /\ p.conn = acls[p.handle],
         \A p \in held :
           /\ p.conn = links[p.handle]
           /\ acls[p.handle] # NoConn => p.n <= created'[p.handle],
         \A h \in Handles : acls[h] # NoConn =>
           NoneMissing(held \cup PacketsOf(q), failed, h, acls[h], created'[h]),
         NEW bad, SendQueued(held, q, credits, bad)
  PROVE  QueueInv'
<1>0. lost \in Nat
  BY DEF QueueInv, QueueTypes
<1>1. /\ outgoing_acl_packets' \in Seq(Packets)
      /\ Ordered(outgoing_acl_packets')
      /\ Behind(outgoing_acl_packets', inflight')
      /\ inflight' \subseteq Packets /\ IsFiniteSet(inflight')
      /\ acl_available_packets' \in 0 .. MaxPackets
      /\ lost' \in Nat
      /\ acl_available_packets' + Cardinality(inflight') + lost' = MaxPackets
      /\ outgoing_acl_packets' # << >> => acl_available_packets' = 0
      /\ bad \subseteq PacketsOf(q)
      /\ inflight' \cup PacketsOf(outgoing_acl_packets') \cup bad
           = held \cup PacketsOf(q)
      /\ inflight' \subseteq held \cup PacketsOf(q)
      /\ PacketsOf(outgoing_acl_packets') \subseteq PacketsOf(q)
  BY <1>0, SendEffect
<1>2. QueueTypes'
  BY <1>1 DEF QueueInv, QueueTypes
<1>3. NothingBefore'
  BY <1>1, AclSizeAssumption DEF NothingBefore, Ready, UNSET
<1>4. Linked'
  BY DEF QueueInv, Linked
<1>5. Numbered(outgoing_acl_packets, inflight)'
  <2>1. \A p \in PacketsOf(outgoing_acl_packets') : p.n <= created'[p.handle]
    BY <1>1
  <2>2. \A p \in inflight' :
          acls[p.handle] # NoConn => p.n <= created'[p.handle]
    BY <1>1
  <2> QED
    BY <2>1, <2>2 DEF Numbered, PacketsOf
<1>6. NothingMissing'
  <2> SUFFICES ASSUME NEW h \in Handles, acls[h] # NoConn
               PROVE  NoneMissing(inflight' \cup PacketsOf(outgoing_acl_packets'),
                                  failed', h, acls[h], created'[h])
    BY DEF NothingMissing, Unsettled, NoneMissing, PacketsOf
  <2>1. failed' = failed \cup bad
    BY DEF SendQueued
  <2>2. \A p \in bad : p.handle = h => p.conn = acls[h]
    BY <1>1
  <2> DEFINE A == held \cup PacketsOf(q)
             B == inflight' \cup PacketsOf(outgoing_acl_packets')
             top == created'[h]
  <2>3. NoneMissing(A, failed, h, acls[h], top) /\ A = B \cup bad
    BY <1>1
  <2> HIDE DEF A, B, top
  <2>4. NoneMissing(B, failed \cup bad, h, acls[h], top)
    BY <2>2, <2>3, RefusedNotMissing
  <2> QED
    BY <2>1, <2>4 DEF B, top
<1>7. NoStalePackets'
  <2>1. \A p \in PacketsOf(outgoing_acl_packets') : p.conn = acls[p.handle]
    BY <1>1
  <2>2. \A p \in inflight' : p.conn = links[p.handle]
    <3> SUFFICES ASSUME NEW p \in PacketsOf(q) PROVE p.conn = links[p.handle]
      BY <1>1
    <3>1. p \in Packets
      BY PacketsOfSeq
    <3>2. p.conn # NoConn /\ p.handle \in Handles
      BY <3>1 DEF Packets, Conns, NoConn
    <3> QED
      BY <3>2 DEF QueueInv, Linked
  <2> QED
    BY <2>1, <2>2 DEF NoStalePackets, PacketsOf
<1>8. CreditConservation' /\ NoIdleCredit'
  BY <1>1 DEF CreditConservation, NoIdleCredit
<1>9. Ordered(outgoing_acl_packets)' /\ Behind(outgoing_acl_packets, inflight)'
  BY <1>1 DEF Ordered, Behind, PacketsOf
<1> QED
  BY <1>2, <1>3, <1>4, <1>5, <1>6, <1>7, <1>8, <1>9 DEF QueueInv

(* bte_acl_send_message.                                                   *)
LEMMA SendMessageInv ==
  ASSUME QueueInv, NEW h \in Handles, NEW size \in 1 .. MaxFrags,
         SendMessage(h, size)
  PROVE  QueueInv'
<1> DEFINE m == Message(h, size)
           q == Enqueue(outgoing_acl_packets, m)
           out == outgoing_acl_packets
<1>1. /\ Ready /\ acls[h] # NoConn /\ created[h] + size <= MaxSent
      /\ created' = [created EXCEPT ![h] = @ + size]
      /\ UNCHANGED <<acls, links, conns>>
  BY DEF SendMessage
<1>2. PICK bad : SendQueued(inflight, q, acl_available_packets, bad)
  BY DEF SendMessage
<1>3. /\ PacketsOf(m) = {Packet(h, acls[h], created[h] + i) : i \in 1 .. size}
      /\ q \in Seq(Packets)
      /\ PacketsOf(q) = PacketsOf(out) \cup PacketsOf(m)
      /\ Ordered(q) /\ Behind(q, inflight)
  BY <1>1, QueueWithMessage
<1>4. /\ created \in [Handles -> Nat] /\ size \in Nat /\ MaxSent \in Nat
      /\ acls[h] \in Conns
      /\ inflight \subseteq Packets /\ IsFiniteSet(inflight)
      /\ PacketsOf(out) \subseteq Packets
      /\ acl_available_packets \in 0 .. MaxPackets
      /\ acl_available_packets + Cardinality(inflight) + lost = MaxPackets
  <2>1. PacketsOf(out) \subseteq Packets
    BY PacketsOfSeq DEF QueueInv, QueueTypes
  <2> QED
    BY <1>1, <2>1, AclSizeAssumption
       DEF QueueInv, QueueTypes, CreditConservation, Ready
<1>5. created' \in [Handles -> 0 .. MaxSent]
  BY <1>1, <1>4 DEF QueueInv, QueueTypes
<1>6. \A k \in Handles :
        /\ created'[k] = IF k = h THEN created[k] + size ELSE created[k]
        /\ created[k] <= created'[k]
  BY <1>1, <1>4
<1> HIDE DEF m, q
<1>7. \A p \in PacketsOf(m) :
        /\ p.handle = h /\ p.conn = acls[h]
        /\ p.n <= created'[h] /\ p.n \in Nat
  BY <1>3, <1>4, <1>6 DEF Packet
<1>8. \A p \in PacketsOf(q) :
        p.n <= created'[p.handle] /\ p.conn = acls[p.handle]
  <2> SUFFICES ASSUME NEW p \in PacketsOf(out)
               PROVE  p.n <= created'[p.handle] /\ p.conn = acls[p.handle]
    BY <1>3, <1>7
  <2>1. p.handle \in Handles /\ p.n \in Nat
    BY <1>4 DEF Packets
  <2>2. p.n <= created[p.handle] /\ p.conn = acls[p.handle]
    BY DEF QueueInv, Numbered, NoStalePackets
  <2>3. created[p.handle] <= created'[p.handle]
    BY <1>6, <2>1
  <2>4. created[p.handle] \in Nat /\ created'[p.handle] \in Nat
    BY <1>4, <1>5, <2>1
  <2> QED
    BY <2>1, <2>2, <2>3, <2>4
<1>9. \A p \in inflight :
        /\ p.conn = links[p.handle]
        /\ acls[p.handle] # NoConn => p.n <= created'[p.handle]
  <2> TAKE p \in inflight
  <2>1. p.handle \in Handles /\ p.n \in Nat
    BY <1>4 DEF Packets
  <2>2. /\ p.conn = links[p.handle]
        /\ acls[p.handle] # NoConn => p.n <= created[p.handle]
    BY DEF QueueInv, Numbered, NoStalePackets
  <2>3. created[p.handle] <= created'[p.handle]
    BY <1>6, <2>1
  <2>4. created[p.handle] \in Nat /\ created'[p.handle] \in Nat
    BY <1>4, <1>5, <2>1
  <2> QED
    BY <2>1, <2>2, <2>3, <2>4
<1>10. ASSUME NEW k \in Handles, acls[k] # NoConn
       PROVE  NoneMissing(inflight \cup PacketsOf(q), failed, k, acls[k],
                          created'[k])
  <2> SUFFICES ASSUME NEW p \in inflight \cup PacketsOf(q), p.handle = k,
                      NEW n \in p.n + 1 .. created'[k]
               PROVE  \/ \E r \in inflight \cup PacketsOf(q) :
                           r.handle = k /\ r.n = n
                      \/ \E r \in failed : r.conn = acls[k] /\ r.n = n
    BY DEF NoneMissing
  <2>0. p.n \in Nat /\ created[k] \in Nat /\ created'[k] \in Nat
    BY <1>3, <1>4, <1>5, <1>7 DEF Packets
  <2>1. CASE n <= created[k] /\ p \in Unsettled
    <3>1. NoneMissing(Unsettled, failed, k, acls[k], created[k])
      BY <1>10 DEF QueueInv, NothingMissing
    <3>2. n \in p.n + 1 .. created[k]
      BY <2>0, <2>1
    <3>3. \/ \E r \in Unsettled : r.handle = k /\ r.n = n
          \/ \E r \in failed : r.conn = acls[k] /\ r.n = n
      BY <2>1, <3>1, <3>2 DEF NoneMissing
    <3> QED
      BY <1>3, <3>3 DEF Unsettled
  <2>2. CASE n > created[k]
    <3>1. k = h /\ n - created[h] \in 1 .. size
      BY <1>4, <1>6, <2>0, <2>2
    <3>2. n = created[h] + (n - created[h])
      BY <1>4, <2>0
    <3>3. Packet(h, acls[h], n) \in PacketsOf(m)
      BY <1>3, <3>1, <3>2
    <3>4. Packet(h, acls[h], n).handle = h /\ Packet(h, acls[h], n).n = n
      BY DEF Packet
    <3>5. Packet(h, acls[h], n) \in PacketsOf(q)
      BY <1>3, <3>3
    <3> QED
      BY <3>1, <3>4, <3>5
  <2>3. CASE p \in PacketsOf(m)
    <3>1. k = h /\ p.n > created[k]
      <4>1. PICK i \in 1 .. size : p = Packet(h, acls[h], created[h] + i)
        BY <1>3, <2>3
      <4>2. p.handle = h /\ p.n = created[h] + i
        BY <4>1 DEF Packet
      <4> QED BY <1>4, <4>2
    <3> QED
      BY <2>0, <2>2, <3>1
  <2> QED
    BY <1>3, <2>0, <2>1, <2>2, <2>3 DEF Unsettled
<1> QED
  BY <1>1, <1>2, <1>3, <1>4, <1>5, <1>8, <1>9, <1>10, AfterSend

(* Number Of Completed Packets.                                            *)
LEMMA CompletedInv ==
  ASSUME QueueInv, NEW done \in SUBSET inflight,
         NumberOfCompletedPackets(done)
  PROVE  QueueInv'
<1> DEFINE q == outgoing_acl_packets
           held == inflight \ done
           credits == (acl_available_packets + Completed(done)) % 65536
<1>1. /\ done # {} /\ FirstOf(done)
      /\ UNCHANGED <<acls, created, links, conns>>
  BY DEF NumberOfCompletedPackets
<1>2. PICK bad : SendQueued(held, q, credits, bad)
  BY DEF NumberOfCompletedPackets, OnCompletedPackets
<1>3. /\ q \in Seq(Packets) /\ PacketsOf(q) \subseteq Packets
      /\ inflight \subseteq Packets /\ IsFiniteSet(inflight)
      /\ created' \in [Handles -> 0 .. MaxSent] /\ lost \in Nat
      /\ created \in [Handles -> Nat]
  BY <1>1, PacketsOfSeq DEF QueueInv, QueueTypes
<1>4. Ready
  BY <1>1 DEF QueueInv, NothingBefore
<1>5. /\ IsFiniteSet(held) /\ held \subseteq Packets
      /\ Cardinality(held) = Cardinality(inflight) - Cardinality(done)
      /\ Cardinality(inflight) \in Nat /\ Cardinality(done) \in Nat
      /\ Cardinality(done) <= Cardinality(inflight)
  <2>1. inflight \cap done = done
    OBVIOUS
  <2>2. IsFiniteSet(done) /\ Cardinality(done) <= Cardinality(inflight)
    BY <1>3, FS_Subset
  <2> QED
    BY <1>3, <2>1, <2>2, FS_Difference, FS_CardinalityType
<1>6. /\ credits \in 0 .. MaxPackets
      /\ credits + Cardinality(held) + lost = MaxPackets
  <2>1. /\ acl_available_packets \in 0 .. MaxPackets
        /\ acl_available_packets + Cardinality(inflight) + lost = MaxPackets
        /\ MaxPackets \in Nat /\ MaxPackets < 65535
    BY <1>4, AclSizeAssumption
       DEF QueueInv, QueueTypes, CreditConservation, Ready
  <2> DEFINE sum == acl_available_packets + Cardinality(done)
  <2>2. sum \in Nat /\ sum <= MaxPackets
        /\ sum + Cardinality(held) + lost = MaxPackets
    BY <1>3, <1>5, <2>1
  <2> HIDE DEF sum
  <2>3. sum % 65536 = sum
    BY <2>1, <2>2
  <2> QED
    BY <2>1, <2>2, <2>3 DEF sum, Completed
<1> HIDE DEF credits
<1>7. Ordered(q) /\ Behind(q, held)
  BY DEF QueueInv, Behind
<1>8. \A p \in PacketsOf(q) :
        p.n <= created'[p.handle] /\ p.conn = acls[p.handle]
  BY <1>1 DEF QueueInv, Numbered, NoStalePackets
<1>9. \A p \in held :
        /\ p.conn = links[p.handle]
        /\ acls[p.handle] # NoConn => p.n <= created'[p.handle]
  BY <1>1 DEF QueueInv, Numbered, NoStalePackets
<1>10. ASSUME NEW k \in Handles, acls[k] # NoConn
       PROVE  NoneMissing(held \cup PacketsOf(q), failed, k, acls[k],
                          created'[k])
  <2> SUFFICES ASSUME NEW p \in held \cup PacketsOf(q), p.handle = k,
                      NEW n \in p.n + 1 .. created[k]
               PROVE  \/ \E r \in held \cup PacketsOf(q) :
                           r.handle = k /\ r.n = n
                      \/ \E r \in failed : r.conn = acls[k] /\ r.n = n
    BY <1>1 DEF NoneMissing
  <2>1. p \in Unsettled /\ p \in Packets
    BY <1>3, <1>5 DEF Unsettled
  <2>2. \/ \E r \in Unsettled : r.handle = k /\ r.n = n
        \/ \E r \in failed : r.conn = acls[k] /\ r.n = n
    BY <1>10, <2>1 DEF QueueInv, NothingMissing, NoneMissing
  <2>3. ASSUME NEW r \in done, r.handle = k, r.n = n PROVE FALSE
    <3>1. p.n < r.n /\ p.n \in Nat /\ r.n \in Nat
      BY <1>3, <2>1, <2>3 DEF Packets
    <3>2. p \in inflight => p \in done
      BY <2>3, <3>1, <1>1 DEF FirstOf
    <3>3. p \in PacketsOf(q)
      BY <3>2
    <3>4. r.n < p.n
      BY <2>3, <3>3 DEF QueueInv, Behind
    <3> QED BY <3>1, <3>4
  <2> QED
    BY <2>2, <2>3 DEF Unsettled
<1> HIDE DEF held, q
<1> QED
  BY <1>1, <1>2, <1>3, <1>5, <1>6, <1>7, <1>8, <1>9, <1>10, AfterSend

(* The answer to Read Buffer Size.                                         *)
LEMMA SetBufferSizeInv ==
  ASSUME QueueInv, SetBufferSize
  PROVE  QueueInv'
<1>1. /\ ~Ready /\ acl_available_packets' = MaxPackets
      /\ UNCHANGED <<outgoing_acl_packets, acls, created, failed, links,
                     inflight, lost, conns, ret>>
  BY DEF SetBufferSize
<1>2. outgoing_acl_packets = << >> /\ inflight = {} /\ lost = 0
  BY <1>1 DEF QueueInv, NothingBefore
<1>3. MaxPackets \in Nat /\ MaxPackets # UNSET /\ Cardinality({}) = 0
  BY AclSizeAssumption, FS_EmptySet DEF UNSET
<1>4. QueueTypes' /\ NothingBefore' /\ Linked'
  BY <1>1, <1>3
     DEF QueueInv, QueueTypes, NothingBefore, Linked, Ready
<1>5. CreditConservation' /\ NoIdleCredit'
  BY <1>1, <1>2, <1>3 DEF CreditConservation, NoIdleCredit
<1>6. /\ Ordered(outgoing_acl_packets)'
      /\ Behind(outgoing_acl_packets, inflight)'
      /\ Numbered(outgoing_acl_packets, inflight)'
      /\ NothingMissing' /\ NoStalePackets'
  BY <1>1 DEF QueueInv, Ordered, Behind, Numbered, NothingMissing,
              NoneMissing, Unsettled, NoStalePackets, PacketsOf
<1> QED
  BY <1>4, <1>5, <1>6 DEF QueueInv

(* A new connection: nothing of an earlier one is left under its handle.   *)
LEMMA ConnectedInv ==
  ASSUME QueueInv, NEW h \in Handles, Connected(h)
  PROVE  QueueInv'
<1>1. /\ Ready /\ links[h] = NoConn /\ conns < MaxConns
      /\ conns' = conns + 1
      /\ links' = [links EXCEPT ![h] = conns']
      /\ acls' = [acls EXCEPT ![h] = conns']
      /\ created' = [created EXCEPT ![h] = 0]
      /\ UNCHANGED <<outgoing_acl_packets, acl_available_packets, failed,
                     inflight, lost>>
  BY DEF Connected
<1>2. /\ outgoing_acl_packets \in Seq(Packets)
      /\ PacketsOf(outgoing_acl_packets) \subseteq Packets
      /\ inflight \subseteq Packets
      /\ acls \in [Handles -> Conns \cup {NoConn}]
      /\ links \in [Handles -> Conns \cup {NoConn}]
      /\ created \in [Handles -> 0 .. MaxSent]
      /\ MaxSent \in Nat /\ MaxConns \in Nat /\ conns \in 0 .. MaxConns
  BY PacketsOfSeq, AclSizeAssumption DEF QueueInv, QueueTypes
<1>3. conns' \in Conns
  BY <1>1, <1>2 DEF Conns
<1>4. acls[h] = NoConn
  BY <1>1 DEF QueueInv, Linked
<1>5. \A p \in Unsettled : p.handle \in Handles \ {h} /\ p.conn # NoConn
  <2> SUFFICES ASSUME NEW p \in Unsettled
               PROVE  p.handle \in Handles \ {h} /\ p.conn # NoConn
    OBVIOUS
  <2>1. p \in Packets
    BY <1>2 DEF Unsettled
  <2>2. p.handle \in Handles /\ p.conn # NoConn
    BY <2>1 DEF Packets, Conns, NoConn
  <2>3. p.conn = acls[p.handle] \/ p.conn = links[p.handle]
    BY DEF Unsettled, QueueInv, NoStalePackets
  <2> QED
    BY <1>1, <1>4, <2>2, <2>3
<1>6. QueueTypes'
  <2>1. /\ acls' \in [Handles -> Conns \cup {NoConn}]
        /\ links' \in [Handles -> Conns \cup {NoConn}]
        /\ created' \in [Handles -> 0 .. MaxSent]
        /\ conns' \in 0 .. MaxConns
    BY <1>1, <1>2, <1>3 DEF Conns
  <2> QED
    BY <1>1, <2>1 DEF QueueInv, QueueTypes
<1>7. NothingBefore' /\ CreditConservation' /\ NoIdleCredit'
  BY <1>1 DEF QueueInv, NothingBefore, CreditConservation, NoIdleCredit, Ready
<1>8. Linked'
  BY <1>1, <1>2 DEF QueueInv, Linked
<1>9. \A k \in Handles \ {h} :
        acls'[k] = acls[k] /\ links'[k] = links[k] /\ created'[k] = created[k]
  BY <1>1, <1>2
<1>10. /\ Ordered(outgoing_acl_packets)'
       /\ Behind(outgoing_acl_packets, inflight)'
  BY <1>1 DEF QueueInv, Ordered, Behind, PacketsOf
<1>11. Numbered(outgoing_acl_packets, inflight)' /\ NoStalePackets'
  <2>1. \A p \in PacketsOf(outgoing_acl_packets) :
          p.n <= created'[p.handle] /\ p.conn = acls'[p.handle]
    BY <1>5, <1>9 DEF Unsettled, QueueInv, Numbered, NoStalePackets
  <2>2. \A p \in inflight :
          /\ p.conn = links'[p.handle]
          /\ acls'[p.handle] # NoConn => p.n <= created'[p.handle]
    BY <1>5, <1>9 DEF Unsettled, QueueInv, Numbered, NoStalePackets
  <2> QED
    BY <1>1, <2>1, <2>2 DEF Numbered, NoStalePackets, PacketsOf
<1>12. NothingMissing'
  <2>1. Unsettled' = Unsettled
    BY <1>1 DEF Unsettled, PacketsOf
  <2> SUFFICES ASSUME NEW k \in Handles, acls'[k] # NoConn
               PROVE  NoneMissing(Unsettled, failed, k, acls'[k], created'[k])
    BY <1>1, <2>1 DEF NothingMissing, NoneMissing
  <2>2. CASE k = h
    BY <1>5, <2>2 DEF NoneMissing
  <2>3. CASE k # h
    BY <1>9, <2>3 DEF QueueInv, NothingMissing
  <2> QED BY <2>2, <2>3
<1> QED
  BY <1>6, <1>7, <1>8, <1>10, <1>11, <1>12 DEF QueueInv

(* What is left of a queue when a connection ends.                         *)
LEMMA PurgeEffect ==
  ASSUME NEW q \in Seq(Packets), Ordered(q), NEW h
  PROVE  /\ Purge(q, h) \in Seq(Packets) /\ Ordered(Purge(q, h))
         /\ PacketsOf(Purge(q, h)) = {p \in PacketsOf(q) : p.handle # h}
         /\ Purge(q, h) # << >> => q # << >>
<1> DEFINE r == Purge(q, h)
<1>1. KeptOf(r, q, h, Len(q))
  BY PurgeKeeps
<1> HIDE DEF r
<1>2. r \in Seq(Packets)
  BY <1>1 DEF KeptOf
<1>3. Ordered(r)
  <2> SUFFICES ASSUME NEW a \in 1 .. Len(r), NEW b \in 1 .. Len(r), a < b,
                      r[a].handle = r[b].handle
               PROVE  r[a].n < r[b].n
    BY DEF Ordered
  <2>1. PICK c, d \in 1 .. Len(q) : c < d /\ r[a] = q[c] /\ r[b] = q[d]
    BY <1>1 DEF KeptOf
  <2> QED
    BY <2>1 DEF Ordered
<1>4. PacketsOf(r) = {p \in PacketsOf(q) : p.handle # h}
  <2>1. PacketsOf(r) = {r[i] : i \in 1 .. Len(r)}
    BY <1>2, PacketsOfSeq
  <2>2. PacketsOf(q) = {q[i] : i \in 1 .. Len(q)}
    BY PacketsOfSeq
  <2>3. ASSUME NEW a \in 1 .. Len(r)
        PROVE  r[a] \in PacketsOf(q) /\ r[a].handle # h
    BY <1>1, <2>2 DEF KeptOf
  <2>4. ASSUME NEW c \in 1 .. Len(q), q[c].handle # h
        PROVE  q[c] \in PacketsOf(r)
    <3>1. PICK a \in 1 .. Len(r) : r[a] = q[c]
      BY <1>1, <2>4 DEF KeptOf
    <3> QED BY <2>1, <3>1
  <2> QED
    BY <2>1, <2>2, <2>3, <2>4
<1>5. r # << >> => q # << >>
  <2> SUFFICES ASSUME r # << >>, q = << >> PROVE FALSE
    OBVIOUS
  <2>1. 1 \in 1 .. Len(r)
    BY <1>2
  <2>2. \E c \in 1 .. Len(q) : r[1] = q[c]
    BY <1>1, <2>1 DEF KeptOf
  <2> QED BY <2>2
<1> QED
  BY <1>2, <1>3, <1>4, <1>5 DEF r

(* A link that goes down, or stays, without changing the credits.          *)
LEMMA LinkEffect ==
  ASSUME QueueInv, NEW h \in Handles, Ready, DropLink(h) \/ KeepLink
  PROVE  /\ links' \in [Handles -> Conns \cup {NoConn}]
         /\ inflight' \subseteq inflight /\ IsFiniteSet(inflight')
         /\ lost' \in Nat
         /\ acl_available_packets + Cardinality(inflight') + lost' = MaxPackets
         /\ \A p \in inflight : p.handle # h => p \in inflight'
         /\ \A k \in Handles \ {h} : links'[k] = links[k]
         /\ \A p \in inflight' : p.conn = links'[p.handle]
<1>0. /\ links \in [Handles -> Conns \cup {NoConn}] /\ lost \in Nat
      /\ inflight \subseteq Packets /\ IsFiniteSet(inflight)
      /\ acl_available_packets \in Nat
      /\ acl_available_packets + Cardinality(inflight) + lost = MaxPackets
      /\ \A p \in inflight : p.conn = links[p.handle]
  BY AclSizeAssumption
     DEF QueueInv, QueueTypes, CreditConservation, NoStalePackets, Ready
<1>1. CASE KeepLink
  BY <1>0, <1>1 DEF KeepLink
<1>2. CASE DropLink(h)
  <2> DEFINE dropped == {p \in inflight : p.handle = h}
  <2>1. /\ links' = [links EXCEPT ![h] = NoConn]
        /\ inflight' = inflight \ dropped
        /\ lost' = lost + Cardinality(dropped)
    BY <1>2 DEF DropLink
  <2>2. \A p \in inflight : p \notin dropped <=> p.handle # h
    OBVIOUS
  <2>3. dropped \subseteq inflight /\ inflight \cap dropped = dropped
    OBVIOUS
  <2> HIDE DEF dropped
  <2>4. IsFiniteSet(dropped) /\ Cardinality(dropped) \in Nat
    BY <1>0, <2>3, FS_Subset, FS_CardinalityType
  <2>5. /\ IsFiniteSet(inflight')
        /\ Cardinality(inflight') = Cardinality(inflight) - Cardinality(dropped)
        /\ Cardinality(inflight) \in Nat
    BY <1>0, <2>1, <2>3, FS_Difference, FS_CardinalityType
  <2>6. /\ lost' \in Nat
        /\ acl_available_packets + Cardinality(inflight') + lost' = MaxPackets
    BY <1>0, <2>1, <2>4, <2>5
  <2>7. /\ inflight' \subseteq inflight
        /\ \A p \in inflight : p.handle # h => p \in inflight'
        /\ \A p \in inflight' : p.handle # h
    BY <2>1, <2>2
  <2>8. /\ links' \in [Handles -> Conns \cup {NoConn}]
        /\ \A k \in Handles \ {h} : links'[k] = links[k]
    BY <1>0, <2>1
  <2>9. \A p \in inflight' : p.conn = links'[p.handle]
    <3> TAKE p \in inflight'
    <3>1. p.handle \in Handles \ {h} /\ p \in inflight
      BY <1>0, <2>7 DEF Packets
    <3> QED
      BY <1>0, <2>8, <3>1
  <2> QED
    BY <2>5, <2>6, <2>7, <2>8, <2>9
<1> QED
  BY <1>1, <1>2

(* A connection ends, or the link of a handle without BteAcl: the packets  *)
(* of the other handles are where they were.                               *)
LEMMA EndInv ==
  ASSUME QueueInv, NEW h \in Handles, Ready, DropLink(h) \/ KeepLink,
         UNCHANGED <<acl_available_packets, created, failed, conns>>,
         acls' = [acls EXCEPT ![h] = NoConn],
         outgoing_acl_packets' \in Seq(Packets),
         Ordered(outgoing_acl_packets'),
         PacketsOf(outgoing_acl_packets')
           = {p \in PacketsOf(outgoing_acl_packets) : p.handle # h},
         outgoing_acl_packets' # << >> => outgoing_acl_packets # << >>
  PROVE  QueueInv'
<1> DEFINE r == outgoing_acl_packets'
<1>1. /\ links' \in [Handles -> Conns \cup {NoConn}]
      /\ inflight' \subseteq inflight /\ IsFiniteSet(inflight')
      /\ lost' \in Nat
      /\ acl_available_packets + Cardinality(inflight') + lost' = MaxPackets
      /\ \A p \in inflight : p.handle # h => p \in inflight'
      /\ \A k \in Handles \ {h} : links'[k] = links[k]
      /\ \A p \in inflight' : p.conn = links'[p.handle]
  BY LinkEffect
<1>2. /\ acls \in [Handles -> Conns \cup {NoConn}]
      /\ PacketsOf(outgoing_acl_packets) \subseteq Packets
      /\ inflight \subseteq Packets
  BY PacketsOfSeq DEF QueueInv, QueueTypes
<1>3. /\ acls' \in [Handles -> Conns \cup {NoConn}] /\ acls'[h] = NoConn
      /\ \A k \in Handles \ {h} : acls'[k] = acls[k]
  BY <1>2
<1>4. QueueTypes'
  BY <1>1, <1>3 DEF QueueInv, QueueTypes
<1>5. NothingBefore' /\ CreditConservation' /\ NoIdleCredit'
  BY <1>1 DEF QueueInv, NothingBefore, CreditConservation, NoIdleCredit, Ready
<1>6. Linked'
  BY <1>1, <1>3 DEF QueueInv, Linked
<1>7. Ordered(outgoing_acl_packets)' /\ Behind(outgoing_acl_packets, inflight)'
  <2>1. Behind(outgoing_acl_packets', inflight')
    BY <1>1 DEF QueueInv, Behind
  <2> QED
    BY <2>1 DEF Ordered, Behind, PacketsOf
<1>8. Numbered(outgoing_acl_packets, inflight)' /\ NoStalePackets'
  <2>1. \A p \in PacketsOf(outgoing_acl_packets') :
          p.n <= created[p.handle] /\ p.conn = acls'[p.handle]
    <3> TAKE p \in PacketsOf(outgoing_acl_packets')
    <3>1. p \in PacketsOf(outgoing_acl_packets) /\ p.handle \in Handles \ {h}
      BY <1>2 DEF Packets
    <3> QED
      BY <1>3, <3>1 DEF QueueInv, Numbered, NoStalePackets
  <2>2. \A p \in inflight' :
          acls'[p.handle] # NoConn => p.n <= created[p.handle]
    <3> TAKE p \in inflight'
    <3>1. p \in inflight /\ p.handle \in Handles
      BY <1>1, <1>2 DEF Packets
    <3> QED
      BY <1>3, <3>1 DEF QueueInv, Numbered
  <2> QED
    BY <1>1, <2>1, <2>2 DEF Numbered, NoStalePackets, PacketsOf
<1>9. NothingMissing'
  <2> DEFINE B == inflight' \cup PacketsOf(outgoing_acl_packets')
  <2> SUFFICES ASSUME NEW k \in Handles, acls'[k] # NoConn
               PROVE  NoneMissing(B, failed, k, acls'[k], created[k])
    BY DEF NothingMissing, Unsettled, NoneMissing, PacketsOf
  <2>1. k # h /\ acls'[k] = acls[k]
    BY <1>3
  <2>2. /\ B \subseteq Unsettled
        /\ \A p \in Unsettled : p.handle = k => p \in B
    BY <1>1, <2>1 DEF Unsettled
  <2>3. NoneMissing(Unsettled, failed, k, acls[k], created[k])
    BY <2>1 DEF QueueInv, NothingMissing
  <2> HIDE DEF B
  <2> QED
    BY <2>1, <2>2, <2>3 DEF NoneMissing
<1> QED
  BY <1>4, <1>5, <1>6, <1>7, <1>8, <1>9 DEF QueueInv

(* bte_acl_disconnected.                                                   *)
LEMMA DisconnectedInv ==
  ASSUME QueueInv, NEW h \in Handles, NEW how \in Departures,
         Disconnected(h, how)
  PROVE  QueueInv'
<1>1. /\ acls[h] # NoConn
      /\ outgoing_acl_packets' = Purge(outgoing_acl_packets, h)
      /\ acls' = [acls EXCEPT ![h] = NoConn]
      /\ DropLink(h) \/ KeepLink
      /\ UNCHANGED <<acl_available_packets, created, failed, conns>>
  BY DEF Disconnected
<1>2. Ready
  BY <1>1 DEF QueueInv, NothingBefore
<1>3. outgoing_acl_packets \in Seq(Packets) /\ Ordered(outgoing_acl_packets)
  BY DEF QueueInv, QueueTypes
<1>4. /\ outgoing_acl_packets' \in Seq(Packets)
      /\ Ordered(outgoing_acl_packets')
      /\ PacketsOf(outgoing_acl_packets')
           = {p \in PacketsOf(outgoing_acl_packets) : p.handle # h}
      /\ outgoing_acl_packets' # << >> => outgoing_acl_packets # << >>
  BY <1>1, <1>3, PurgeEffect
<1> QED
  BY <1>1, <1>2, <1>4, EndInv

(* Disconnection Complete for a handle that no BteAcl has.                 *)
LEMMA UnknownDisconnectedInv ==
  ASSUME QueueInv, NEW h \in Handles, UnknownDisconnected(h)
  PROVE  QueueInv'
<1>1. /\ acls[h] = NoConn /\ links[h] # NoConn /\ DropLink(h)
      /\ UNCHANGED <<library, conns>>
  BY DEF UnknownDisconnected
<1>2. Ready
  BY <1>1 DEF QueueInv, NothingBefore
<1>3. /\ outgoing_acl_packets \in Seq(Packets) /\ Ordered(outgoing_acl_packets)
      /\ acls \in [Handles -> Conns \cup {NoConn}]
  BY DEF QueueInv, QueueTypes
<1>4. acls' = [acls EXCEPT ![h] = NoConn]
  BY <1>1, <1>3 DEF library
<1>5. PacketsOf(outgoing_acl_packets)
        = {p \in PacketsOf(outgoing_acl_packets) : p.handle # h}
  <2> SUFFICES ASSUME NEW p \in PacketsOf(outgoing_acl_packets)
               PROVE  p.handle # h
    OBVIOUS
  <2>1. p \in Packets
    BY <1>3, PacketsOfSeq
  <2>2. p.conn # NoConn
    BY <2>1 DEF Packets, Conns, NoConn
  <2> QED
    BY <1>1, <2>2 DEF QueueInv, NoStalePackets
<1>6. outgoing_acl_packets' = outgoing_acl_packets
  BY <1>1 DEF library
<1>7. UNCHANGED <<acl_available_packets, created, failed, conns>>
  BY <1>1 DEF library
<1> QED
  BY <1>1, <1>2, <1>3, <1>4, <1>5, <1>6, <1>7, EndInv

(* The invariant holds in every reachable state.                           *)
LEMMA QueueInvariance == Spec => []QueueInv
<1>1. Init => QueueInv
  <2> SUFFICES ASSUME Init PROVE QueueInv
    OBVIOUS
  <2>1. PacketsOf(<< >>) = {}
    BY DEF PacketsOf
  <2>2. QueueTypes /\ NothingBefore /\ Linked
    BY AclSizeAssumption, FS_EmptySet
       DEF Init, QueueTypes, NothingBefore, Linked
  <2>3. /\ Ordered(outgoing_acl_packets)
        /\ Behind(outgoing_acl_packets, inflight)
        /\ Numbered(outgoing_acl_packets, inflight)
        /\ NothingMissing /\ NoStalePackets
    BY <2>1 DEF Init, Ordered, Behind, Numbered, NothingMissing,
                NoStalePackets
  <2>4. CreditConservation /\ NoIdleCredit
    BY DEF Init, CreditConservation, NoIdleCredit, Ready
  <2> QED
    BY <2>2, <2>3, <2>4 DEF QueueInv
<1>2. QueueInv /\ [Next]_vars => QueueInv'
  <2> SUFFICES ASSUME QueueInv, [Next]_vars PROVE QueueInv'
    OBVIOUS
  <2>1. CASE Send
    BY <2>1, SendMessageInv DEF Send
  <2>2. CASE Complete
    BY <2>2, CompletedInv DEF Complete
  <2>3. CASE UNCHANGED vars
    BY <2>3 DEF vars, QueueInv, QueueTypes, NothingBefore, Linked, Ordered,
                Behind, Numbered, NothingMissing, NoneMissing, Unsettled,
                NoStalePackets, CreditConservation, NoIdleCredit, Ready,
                PacketsOf
  <2> QED
    BY <2>1, <2>2, <2>3, SetBufferSizeInv, ConnectedInv, DisconnectedInv,
       UnknownDisconnectedInv DEF Next
<1> QED
  BY <1>1, <1>2, PTL DEF Spec

-----------------------------------------------------------------------------
(* What the queue guarantees.                                              *)

(* The controller is never overrun, and no credit disappears that was not  *)
(* lost with a refused packet or a dropped link: the credits of            *)
(* _bte_hci_send_queued_data, the packets held and the credits lost always *)
(* add up to acl_max_packets.                                              *)
THEOREM CreditsConserved == Spec => []CreditConservation
<1>1. QueueInv => CreditConservation
  BY DEF QueueInv
<1> QED
  BY <1>1, QueueInvariance, PTL

(* No call and no event returns with a packet queued and a credit unused.  *)
THEOREM CreditsNeverIdle == Spec => []NoIdleCredit
<1>1. QueueInv => NoIdleCredit
  BY DEF QueueInv
<1> QED
  BY <1>1, QueueInvariance, PTL

(* No packet of a closed connection is queued or held under the handle of  *)
(* a later one, whatever handles the controller reuses: the purge loop of  *)
(* bte_acl_disconnected leaves none.                                       *)
THEOREM NoPacketStale == Spec => []NoStalePackets
<1>1. QueueInv => NoStalePackets
  BY DEF QueueInv
<1> QED
  BY <1>1, QueueInvariance, PTL

(* The packets of a connection reach the controller in the order they were *)
(* created in, without a gap but for those that the backend refused.       *)
THEOREM PacketsOrdered == Spec => []PacketOrder
<1>1. QueueInv => PacketOrder
  <2> SUFFICES ASSUME QueueInv, NEW h \in Handles, acls[h] # NoConn
               PROVE  LET queue == outgoing_acl_packets
                          mine == {i \in DOMAIN queue : queue[i].handle = h}
                          held == {p.n : p \in {q \in inflight : q.handle = h}}
                          bad == {p.n : p \in {q \in failed :
                                                 q.conn = acls[h]}}
                          queued == {queue[i].n : i \in mine}
                      IN /\ \A i, j \in mine : i < j => queue[i].n < queue[j].n
                         /\ \A n \in held, m \in queued : n < m
                         /\ \A n \in held \cup queued :
                              n + 1 .. created[h]
                                \subseteq held \cup queued \cup bad
    BY DEF PacketOrder
  <2> DEFINE queue == outgoing_acl_packets
             mine == {i \in DOMAIN queue : queue[i].handle = h}
             held == {p.n : p \in {q \in inflight : q.handle = h}}
             bad == {p.n : p \in {q \in failed : q.conn = acls[h]}}
             queued == {queue[i].n : i \in mine}
  <2>0. /\ queue \in Seq(Packets)
        /\ PacketsOf(queue) = {queue[i] : i \in 1 .. Len(queue)}
        /\ DOMAIN queue = 1 .. Len(queue)
    BY PacketsOfSeq DEF QueueInv, QueueTypes
  <2>1. \A i, j \in mine : i < j => queue[i].n < queue[j].n
    BY <2>0 DEF QueueInv, Ordered
  <2>2. \A n \in held : \E p \in inflight : p.handle = h /\ p.n = n
    OBVIOUS
  <2>3. \A m \in queued : \E r \in PacketsOf(queue) : r.handle = h /\ r.n = m
    BY <2>0
  <2>4. \A n \in held, m \in queued : n < m
    BY <2>2, <2>3 DEF QueueInv, Behind
  <2>5. NoneMissing(Unsettled, failed, h, acls[h], created[h])
    BY DEF QueueInv, NothingMissing
  <2>6. \A r \in Unsettled : r.handle = h => r.n \in held \cup queued
    BY <2>0 DEF Unsettled
  <2>7. \A r \in failed : r.conn = acls[h] => r.n \in bad
    OBVIOUS
  <2>8. \A n \in held \cup queued : \E r \in Unsettled : r.handle = h /\ r.n = n
    BY <2>2, <2>3 DEF Unsettled
  <2> HIDE DEF held, queued, bad
  <2>9. ASSUME NEW n \in held \cup queued, NEW m \in n + 1 .. created[h]
        PROVE  m \in held \cup queued \cup bad
    BY <2>5, <2>6, <2>7, <2>8 DEF NoneMissing
  <2> QED
    BY <2>1, <2>4, <2>9 DEF held, queued, bad
<1> QED
  BY <1>1, QueueInvariance, PTL

(* A message that finds packets queued finds no credit, and a message that *)
(* finds credits has the queue for itself: only so does the value that     *)
(* bte_acl_send_message returns tell the fate of the message it was given. *)
LEMMA SendReturns ==
  ASSUME QueueInv, NEW h \in Handles, NEW size \in 1 .. MaxFrags,
         SendMessage(h, size)
  PROVE  ReturnTellsFate'
<1> DEFINE m == Message(h, size)
           out == outgoing_acl_packets
           q == Enqueue(out, m)
           own == PacketsOf(m)
           credits == acl_available_packets
           count == Smaller(Len(q), credits)
           taken == PacketsOf(Taken(q, credits))
           rest == outgoing_acl_packets'
<1>1. Ready /\ acls[h] # NoConn /\ created[h] + size <= MaxSent
  BY DEF SendMessage
<1>2. PICK bad \in SUBSET taken :
        /\ SendQueued(inflight, q, credits, bad)
        /\ ret' = [rc |-> Return(size, Cardinality(taken), Cardinality(bad),
                                 Len(rest)),
                   size |-> size,
                   failed |-> Cardinality(bad \cap own),
                   left |-> Cardinality(own \cap PacketsOf(rest))]
  BY DEF SendMessage
<1>3. /\ m \in Seq(Packets) /\ Len(m) = size
      /\ q \in Seq(Packets) /\ Len(q) = Len(out) + size
      /\ PacketsOf(q) = PacketsOf(out) \cup own
      /\ Ordered(q)
  BY <1>1, QueueWithMessage
<1>4. /\ out \in Seq(Packets) /\ Len(out) \in Nat
      /\ credits \in Nat /\ size \in Nat /\ size > 0
      /\ out # << >> => credits = 0
  BY <1>1, AclSizeAssumption
     DEF QueueInv, QueueTypes, NoIdleCredit, Ready
<1>5. rest = SubSeq(q, count + 1, Len(q))
  BY <1>2 DEF SendQueued
<1> HIDE DEF m, q, own
<1>6. Distinct(q)
  BY <1>3, OrderedDistinct
<1>7. /\ count \in Nat /\ count <= Len(q) /\ count <= credits
      /\ rest \in Seq(Packets) /\ Len(rest) = Len(q) - count
  BY <1>3, <1>4, <1>5, TakenAndRest
<1>8. /\ taken \cup PacketsOf(rest) = PacketsOf(q)
      /\ Cardinality(taken) = count /\ IsFiniteSet(taken)
      /\ taken \cap PacketsOf(rest) = {}
  BY <1>3, <1>4, <1>5, <1>6, TakenSplit
<1>9. /\ IsFiniteSet(PacketsOf(q)) /\ Cardinality(PacketsOf(q)) = Len(q)
  BY <1>3, <1>6, CountDistinct
<1>10. count = 0 => credits = 0 \/ Len(q) = 0
  BY <1>3, <1>4 DEF Smaller
<1> HIDE DEF count, taken, credits
<1>11. /\ IsFiniteSet(own \cap PacketsOf(rest))
       /\ IsFiniteSet(bad) /\ Cardinality(bad) \in Nat
       /\ Cardinality(own \cap PacketsOf(rest)) \in Nat
  <2>1. own \cap PacketsOf(rest) \in SUBSET PacketsOf(q)
    BY <1>8
  <2> QED
    BY <1>8, <1>9, <2>1, FS_Subset, FS_CardinalityType
<1>12. bad = bad \cap own
  <2>1. CASE out = << >>
    <3>1. PacketsOf(out) = {}
      BY <2>1 DEF PacketsOf
    <3> QED
      BY <1>3, <1>8, <3>1
  <2>2. CASE out # << >>
    <3>1. count = 0
      BY <1>4, <1>7, <2>2
    <3>2. taken = {}
      BY <1>8, <3>1, FS_EmptySet
    <3> QED
      BY <3>2
  <2> QED BY <2>1, <2>2
<1>13. own \cap PacketsOf(rest) = {} <=> Len(rest) = 0
  <2>1. PacketsOf(rest) = {rest[i] : i \in 1 .. Len(rest)}
    BY <1>7, PacketsOfSeq
  <2>2. ASSUME Len(rest) = 0 PROVE own \cap PacketsOf(rest) = {}
    BY <2>1, <2>2
  <2>3. ASSUME Len(rest) # 0 PROVE own \cap PacketsOf(rest) # {}
    <3>1. CASE out = << >>
      <4>1. PacketsOf(out) = {}
        BY <3>1 DEF PacketsOf
      <4>2. rest[1] \in PacketsOf(rest)
        BY <1>7, <2>1, <2>3
      <4> QED
        BY <1>3, <1>8, <4>1, <4>2
    <3>2. CASE out # << >>
      <4>1. count = 0
        BY <1>4, <1>7, <3>2
      <4>2. taken = {}
        BY <1>8, <4>1, FS_EmptySet
      <4>3. own \subseteq PacketsOf(rest)
        BY <1>3, <1>8, <4>2
      <4>4. m[1] \in own
        <5>1. own = {m[i] : i \in 1 .. Len(m)}
          BY <1>3, PacketsOfSeq DEF own
        <5> QED BY <1>3, <1>4, <5>1
      <4> QED
        BY <4>3, <4>4
    <3> QED BY <3>1, <3>2
  <2> QED BY <2>2, <2>3
<1>14. Cardinality(own \cap PacketsOf(rest)) = 0 <=> Len(rest) = 0
  BY <1>11, <1>13, FS_EmptySet
<1>15. /\ count = 0 => Len(rest) >= size
       /\ Len(rest) \in Nat
  BY <1>3, <1>4, <1>7, <1>10
<1> DEFINE errors == Cardinality(bad)
           left == Cardinality(own \cap PacketsOf(rest))
           queued == Len(rest)
<1>16. /\ ret'.rc = Return(size, count, errors, queued)
       /\ ret'.size = size /\ ret'.failed = errors /\ ret'.left = left
  BY <1>2, <1>8, <1>12
<1>17. /\ errors \in Nat /\ left \in Nat /\ queued \in Nat
       /\ left = 0 <=> queued = 0
       /\ count = 0 => queued >= size
  BY <1>11, <1>14, <1>15
<1> HIDE DEF errors, left, queued
<1>18. CASE errors > 0
  <2>1. ret'.rc = -errors
    BY <1>16, <1>18 DEF Return
  <2> QED
    BY <1>16, <1>17, <1>18, <2>1 DEF ReturnTellsFate
<1>19. CASE errors = 0
  <2>1. /\ ret'.rc \in Nat
        /\ ret'.rc > 0 <=> queued = 0
    <3>1. CASE count = 0
      BY <1>4, <1>16, <1>17, <1>19, <3>1 DEF Return
    <3>2. CASE count > 0
      BY <1>4, <1>16, <1>17, <1>19, <3>2 DEF Return
    <3> QED BY <1>7, <3>1, <3>2
  <2> QED
    BY <1>16, <1>17, <1>19, <2>1 DEF ReturnTellsFate
<1> QED
  BY <1>17, <1>18, <1>19

(* What bte_acl_send_message returns is about the message it was given,    *)
(* although it is computed from what was sent and what is queued of every  *)
(* connection.  It is not what acl.h:73 and l2cap.h:588 say that it is, as *)
(* ReturnCountsSent and its run show.                                      *)
THEOREM ReturnCorrect == Spec => []ReturnTellsFate
<1>1. Init => ReturnTellsFate
  BY DEF Init, ReturnTellsFate, NoRet
<1>2. QueueInv /\ ReturnTellsFate /\ [Next]_vars => ReturnTellsFate'
  <2> SUFFICES ASSUME QueueInv, ReturnTellsFate, [Next]_vars
               PROVE  ReturnTellsFate'
    OBVIOUS
  <2>1. CASE Send
    BY <2>1, SendReturns DEF Send
  <2>2. CASE ret' = NoRet \/ ret' = ret
    BY <2>2 DEF ReturnTellsFate, NoRet
  <2>3. CASE Complete
    BY <2>2, <2>3 DEF Complete, NumberOfCompletedPackets
  <2>4. CASE SetBufferSize \/ UNCHANGED vars
    BY <2>2, <2>4 DEF SetBufferSize, vars
  <2>5. CASE \E h \in Handles : Connected(h) \/ UnknownDisconnected(h)
    BY <2>2, <2>5 DEF Connected, UnknownDisconnected
  <2>6. CASE \E h \in Handles, how \in Departures : Disconnected(h, how)
    BY <2>2, <2>6 DEF Disconnected
  <2> QED
    BY <2>1, <2>3, <2>4, <2>5, <2>6 DEF Next
<1> QED
  BY <1>1, <1>2, QueueInvariance, PTL DEF Spec
=============================================================================

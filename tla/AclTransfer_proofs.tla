-------------------------- MODULE AclTransfer_proofs --------------------------
(***************************************************************************)
(* Proofs about AclTransfer, for packets, messages and pieces of any size, *)
(* any channels and limits, and wherever packets are cut and messages      *)
(* flushed.                                                                *)
(***************************************************************************)
EXTENDS AclTransfer, SequenceTheorems, FiniteSetTheorems, WellFoundedInduction,
        TLAPS

-----------------------------------------------------------------------------
(* A set of numbers has a least one: what induction over the naturals      *)
(* stands on here.                                                         *)
LEMMA LeastNat ==
  ASSUME NEW T, T \subseteq Nat, T # {}
  PROVE  \E n \in T : \A m \in T : n <= m
<1> DEFINE R == OpToRel(<, Nat)
<1>1. IsWellFoundedOn(R, Nat)
  BY NatLessThanWellFounded
<1> HIDE DEF R
<1>2. PICK n \in T : \A m \in T : ~ (<<m, n>> \in R)
  BY <1>1, WFMin
<1>3. \A m \in T : ~(m < n)
  BY <1>2 DEF R, OpToRel
<1> QED
  BY <1>3

-----------------------------------------------------------------------------
(* What packets carry.                                                     *)
Packets == [pb : {CONTINUATION, FIRST_FLUSH}, length : Nat, data : Seq(Nat)]

(* A packet with its headers.                                              *)
Headed(p) ==
  /\ p \in Packets
  /\ Size(p) >= ACL_HDR_LEN + (IF IsStart(p) THEN L2CAP_HDR_LEN ELSE 0)
Chain(s) == s \in Seq(Packets) /\ \A i \in 1 .. Len(s) : Headed(s[i])
Payload(p) == SubSeq(p.data, ACL_HDR_LEN + 1, Size(p))

(* f[i] is what the first i packets of the chain carry.                    *)
Joined(f, s, i) ==
  IF i = 0 THEN << >>
  ELSE f[i - 1] \o SubSeq(s[i].data, ACL_HDR_LEN + 1, Size(s[i]))
Joins(f, s, k) ==
  f = [i \in 0 .. k |->
         IF i = 0 THEN << >>
         ELSE f[i - 1] \o SubSeq(s[i].data, ACL_HDR_LEN + 1, Size(s[i]))]
Carries(f, s) ==
  /\ f \in [0 .. Len(s) -> Seq(Nat)]
  /\ f[0] = << >>
  /\ \A i \in 1 .. Len(s) :
       /\ f[i] = f[i - 1] \o Payload(s[i])
       /\ Len(f[i]) = Len(f[i - 1]) + Size(s[i]) - ACL_HDR_LEN

LEMMA PayloadIs ==
  ASSUME NEW p, Headed(p)
  PROVE  /\ Payload(p) \in Seq(Nat)
         /\ Len(Payload(p)) = Size(p) - ACL_HDR_LEN
         /\ Size(p) \in Nat /\ Size(p) >= ACL_HDR_LEN
         /\ \A j \in 1 .. Size(p) - ACL_HDR_LEN :
              Payload(p)[j] = p.data[ACL_HDR_LEN + j]
<1>1. p.data \in Seq(Nat) /\ Size(p) = Len(p.data) /\ Len(p.data) \in Nat
  BY DEF Headed, Packets, Size
<1>2. Size(p) >= ACL_HDR_LEN /\ ACL_HDR_LEN = 4
  BY <1>1 DEF Headed, ACL_HDR_LEN, L2CAP_HDR_LEN
<1> QED
  BY <1>1, <1>2 DEF Payload

LEMMA JoinsExists ==
  ASSUME NEW s, NEW k \in Nat
  PROVE  \E f : Joins(f, s, k)
<1> DEFINE T == {n \in Nat : ~ \E f : Joins(f, s, n)}
<1> SUFFICES ASSUME T # {} PROVE FALSE
  OBVIOUS
<1>1. PICK n \in T : \A m \in T : n <= m
  <2>1. T \subseteq Nat
    OBVIOUS
  <2> HIDE DEF T
  <2> QED
    BY <2>1, LeastNat
<1>2. CASE n = 0
  <2> DEFINE f == [i \in 0 .. 0 |-> << >>]
  <2>1. f = [i \in 0 .. 0 |-> Joined(f, s, i)]
    BY DEF Joined
  <2>2. Joins(f, s, 0)
    <3> HIDE DEF f
    <3> QED
      BY <2>1 DEF Joins, Joined
  <2> QED
    BY <1>2, <2>2
<1>3. CASE n # 0
  <2>1. n - 1 \in Nat /\ n - 1 \notin T
    BY <1>1, <1>3
  <2>2. PICK g : Joins(g, s, n - 1)
    BY <2>1
  <2> DEFINE f == [i \in 0 .. n |-> IF i = n THEN Joined(g, s, n) ELSE g[i]]
  <2>3. \A i \in 0 .. n - 1 : g[i] = Joined(g, s, i)
    BY <2>2 DEF Joins, Joined
  <2>4. \A i \in 0 .. n : f[i] = Joined(f, s, i)
    <3> TAKE i \in 0 .. n
    <3>1. CASE i = n
      <4>1. f[i - 1] = g[n - 1]
        BY <1>3, <3>1
      <4> QED
        BY <1>3, <3>1, <4>1 DEF Joined
    <3>2. CASE i # n
      <4>1. f[i] = g[i] /\ i \in 0 .. n - 1
        BY <3>2
      <4>2. i # 0 => f[i - 1] = g[i - 1]
        BY <3>2
      <4>3. g[i] = Joined(g, s, i)
        BY <2>3, <4>1
      <4> HIDE DEF f
      <4> QED
        BY <4>1, <4>2, <4>3 DEF Joined
    <3> QED
      BY <3>1, <3>2
  <2>5. Joins(f, s, n)
    <3>1. f = [i \in 0 .. n |-> f[i]]
      OBVIOUS
    <3> HIDE DEF f
    <3>2. f = [i \in 0 .. n |-> Joined(f, s, i)]
      BY <2>4, <3>1
    <3> QED
      BY <3>2 DEF Joins, Joined
  <2> QED
    BY <2>5
<1> QED
  BY <1>2, <1>3

LEMMA CarriedIs ==
  ASSUME NEW s, Chain(s)
  PROVE  \E f : Carries(f, s) /\ Carried(s) = f[Len(s)]
<1> DEFINE f == CHOOSE g : Joins(g, s, Len(s))
<1>1. Len(s) \in Nat
  BY DEF Chain
<1>2. Joins(f, s, Len(s))
  <2>1. \E g : Joins(g, s, Len(s))
    BY <1>1, JoinsExists, Zenon
  <2> QED
    BY <2>1, Zenon
<1>3. Carried(s) = f[Len(s)]
  BY DEF Carried, Joins
<1> HIDE DEF f
<1>4. DOMAIN f = 0 .. Len(s) /\ \A i \in 0 .. Len(s) : f[i] = Joined(f, s, i)
  BY <1>2 DEF Joins, Joined
<1>5. f = [i \in 0 .. Len(s) |-> f[i]]
  BY <1>2 DEF Joins
<1>6. f[0] = << >>
  BY <1>1, <1>4 DEF Joined
<1>7. ASSUME NEW i \in 1 .. Len(s)
      PROVE  f[i] = f[i - 1] \o Payload(s[i])
  <2>1. i \in 0 .. Len(s) /\ i # 0
    BY <1>1
  <2>2. f[i] = Joined(f, s, i)
    BY <1>4, <2>1
  <2> QED
    BY <2>1, <2>2 DEF Joined, Payload
<1>8. \A i \in 0 .. Len(s) : f[i] \in Seq(Nat)
  <2> DEFINE T == {i \in 0 .. Len(s) : f[i] \notin Seq(Nat)}
  <2> SUFFICES ASSUME T # {} PROVE FALSE
    OBVIOUS
  <2>1. PICK i \in T : \A m \in T : i <= m
    <3>1. T \subseteq Nat
      BY <1>1
    <3> HIDE DEF T
    <3> QED
      BY <3>1, LeastNat
  <2>2. CASE i = 0
    <3>1. << >> \in Seq(Nat)
      OBVIOUS
    <3>2. f[i] = << >>
      BY <1>6, <2>2
    <3> QED
      BY <3>1, <3>2
  <2>3. CASE i # 0
    <3>1. i \in 1 .. Len(s) /\ i - 1 \in 0 .. Len(s) /\ i - 1 \notin T
      BY <1>1, <2>1, <2>3
    <3>2. f[i - 1] \in Seq(Nat)
      BY <3>1
    <3>3. Payload(s[i]) \in Seq(Nat)
      BY <3>1, PayloadIs DEF Chain
    <3>4. f[i] = f[i - 1] \o Payload(s[i])
      BY <1>7, <3>1
    <3>5. f[i] \in Seq(Nat)
      <4> HIDE DEF T
      <4> QED BY <3>2, <3>3, <3>4
    <3> QED
      BY <3>5
  <2> QED
    BY <2>2, <2>3
<1>9. f \in [0 .. Len(s) -> Seq(Nat)]
  BY <1>5, <1>8
<1>10. ASSUME NEW i \in 1 .. Len(s)
       PROVE  Len(f[i]) = Len(f[i - 1]) + Size(s[i]) - ACL_HDR_LEN
  <2>1. i - 1 \in 0 .. Len(s)
    BY <1>1
  <2>2. f[i - 1] \in Seq(Nat) /\ f[i] = f[i - 1] \o Payload(s[i])
    BY <1>7, <1>8, <2>1
  <2>3. /\ Payload(s[i]) \in Seq(Nat)
        /\ Len(Payload(s[i])) = Size(s[i]) - ACL_HDR_LEN
        /\ Size(s[i]) \in Nat
    BY PayloadIs DEF Chain
  <2>4. Len(f[i]) = Len(f[i - 1]) + Len(Payload(s[i]))
    BY <2>2, <2>3, ConcatProperties
  <2>5. Len(f[i - 1]) \in Nat
    BY <2>2
  <2> QED
    BY <2>3, <2>4, <2>5 DEF ACL_HDR_LEN
<1> QED
  BY <1>3, <1>6, <1>7, <1>9, <1>10 DEF Carries

(* Two chains that begin alike carry the same in the beginning.            *)
LEMMA CarriesAlike ==
  ASSUME NEW s, NEW t, NEW f, NEW g, NEW n \in Nat, Chain(s), Chain(t),
         Carries(f, s), Carries(g, t), n <= Len(s), n <= Len(t),
         \A i \in 1 .. n : s[i] = t[i]
  PROVE  \A i \in 0 .. n : f[i] = g[i]
<1> DEFINE T == {i \in 0 .. n : f[i] # g[i]}
<1> SUFFICES ASSUME T # {} PROVE FALSE
  OBVIOUS
<1>1. PICK i \in T : \A m \in T : i <= m
  <2>1. T \subseteq Nat
    OBVIOUS
  <2> HIDE DEF T
  <2> QED
    BY <2>1, LeastNat
<1>2. i # 0
  BY DEF Carries
<1>3. i \in 1 .. n /\ i - 1 \in 0 .. n /\ i - 1 \notin T
  BY <1>1, <1>2
<1>4. Len(s) \in Nat /\ Len(t) \in Nat
  BY DEF Chain
<1>5. i \in 1 .. Len(s) /\ i \in 1 .. Len(t)
  BY <1>3, <1>4
<1>6. f[i] = f[i - 1] \o Payload(s[i]) /\ g[i] = g[i - 1] \o Payload(t[i])
  BY <1>5 DEF Carries
<1>7. f[i - 1] = g[i - 1] /\ s[i] = t[i]
  BY <1>3
<1> QED
  BY <1>6, <1>7

LEMMA CarriedType ==
  ASSUME NEW s, Chain(s)
  PROVE  Carried(s) \in Seq(Nat)
<1>1. PICK f : Carries(f, s) /\ Carried(s) = f[Len(s)]
  BY CarriedIs
<1>2. Len(s) \in 0 .. Len(s)
  BY DEF Chain
<1> QED
  BY <1>1, <1>2 DEF Carries

LEMMA CarriedOne ==
  ASSUME NEW p, Headed(p)
  PROVE  Chain(<<p>>) /\ Carried(<<p>>) = Payload(p)
<1>1. p \in Packets
  BY DEF Headed
<1>2. PICK s : s = <<p>>
  OBVIOUS
<1>3. s \in Seq(Packets) /\ Len(s) = 1 /\ s[1] = p
  BY <1>1, <1>2
<1>4. Chain(s)
  BY <1>3 DEF Chain
<1>5. PICK f : Carries(f, s) /\ Carried(s) = f[Len(s)]
  BY <1>4, CarriedIs
<1>6. f[0] = << >> /\ f[1] = f[0] \o Payload(p)
  <2>1. 1 \in 1 .. Len(s) /\ 1 - 1 = 0
    BY <1>3
  <2> QED
    BY <1>3, <1>5, <2>1 DEF Carries
<1>7. Payload(p) \in Seq(Nat)
  BY PayloadIs
<1>8. f[1] = Payload(p)
  BY <1>6, <1>7, ConcatEmptySeq
<1> QED
  BY <1>2, <1>3, <1>4, <1>5, <1>8

LEMMA CarriedAppended ==
  ASSUME NEW s, Chain(s), NEW p, Headed(p)
  PROVE  /\ Chain(Appended(s, p))
         /\ Carried(Appended(s, p)) = Carried(s) \o Payload(p)
<1> DEFINE t == Appended(s, p)
<1>1. p \in Packets /\ s \in Seq(Packets) /\ Len(s) \in Nat
  BY DEF Headed, Chain
<1>2. /\ t \in Seq(Packets) /\ Len(t) = Len(s) + 1 /\ t[Len(s) + 1] = p
      /\ \A i \in 1 .. Len(s) : t[i] = s[i]
  BY <1>1 DEF Appended
<1> HIDE DEF t
<1>3. Chain(t)
  <2> SUFFICES ASSUME NEW i \in 1 .. Len(t) PROVE Headed(t[i])
    BY <1>2 DEF Chain
  <2>1. CASE i = Len(s) + 1
    BY <1>2, <2>1
  <2>2. CASE i # Len(s) + 1
    <3>1. i \in 1 .. Len(s)
      BY <1>1, <1>2, <2>2
    <3> QED
      BY <1>2, <3>1 DEF Chain
  <2> QED
    BY <2>1, <2>2
<1>4. PICK f : Carries(f, s) /\ Carried(s) = f[Len(s)]
  BY CarriedIs
<1>5. PICK g : Carries(g, t) /\ Carried(t) = g[Len(t)]
  BY <1>3, CarriedIs
<1>6. f[Len(s)] = g[Len(s)]
  <2>1. Len(s) <= Len(s) /\ Len(s) <= Len(t) /\ Len(s) \in 0 .. Len(s)
    BY <1>1, <1>2
  <2>2. \A i \in 1 .. Len(s) : s[i] = t[i]
    BY <1>2
  <2>3. \A i \in 0 .. Len(s) : f[i] = g[i]
    BY <1>1, <1>3, <1>4, <1>5, <2>1, <2>2, CarriesAlike
  <2> QED
    BY <2>1, <2>3
<1>7. g[Len(t)] = g[Len(s)] \o Payload(p)
  <2>1. Len(t) \in 1 .. Len(t) /\ Len(t) - 1 = Len(s) /\ t[Len(t)] = p
    BY <1>1, <1>2
  <2>2. g[Len(t)] = g[Len(t) - 1] \o Payload(t[Len(t)])
    BY <1>5, <2>1 DEF Carries
  <2> QED
    BY <2>1, <2>2
<1> QED
  BY <1>3, <1>4, <1>5, <1>6, <1>7 DEF t

LEMMA Concat ==
  ASSUME NEW a \in Seq(Nat), NEW b \in Seq(Nat)
  PROVE  /\ a \o b \in Seq(Nat) /\ Len(a \o b) = Len(a) + Len(b)
         /\ Len(a) \in Nat /\ Len(b) \in Nat
         /\ \A j \in 1 .. Len(a) : (a \o b)[j] = a[j]
         /\ \A j \in 1 .. Len(b) : (a \o b)[Len(a) + j] = b[j]
<1>1. a \o b \in Seq(Nat) /\ Len(a \o b) = Len(a) + Len(b)
  BY ConcatProperties
<1>2. Len(a) \in Nat /\ Len(b) \in Nat
  OBVIOUS
<1>3. ASSUME NEW j \in 1 .. Len(a) PROVE (a \o b)[j] = a[j]
  BY <1>2
<1>4. ASSUME NEW j \in 1 .. Len(b) PROVE (a \o b)[Len(a) + j] = b[j]
  BY <1>2
<1> QED
  BY <1>1, <1>2, <1>3, <1>4

(* A byte of a packet, and its place in what the chain carries.            *)
LEMMA CarriesUpTo ==
  ASSUME NEW s, Chain(s), NEW f, Carries(f, s), NEW k \in 0 .. Len(s)
  PROVE  \A j \in k .. Len(s) :
           /\ Len(f[k]) <= Len(f[j])
           /\ \A b \in 1 .. Len(f[k]) : f[j][b] = f[k][b]
<1> DEFINE P(j) == /\ Len(f[k]) <= Len(f[j])
                   /\ \A b \in 1 .. Len(f[k]) : f[j][b] = f[k][b]
           T == {j \in k .. Len(s) : ~P(j)}
<1> SUFFICES ASSUME T # {} PROVE FALSE
  OBVIOUS
<1>1. Len(s) \in Nat
  BY DEF Chain
<1>2. PICK j \in T : \A m \in T : j <= m
  <2>1. T \subseteq Nat
    BY <1>1
  <2> HIDE DEF T
  <2> QED
    BY <2>1, LeastNat
<1>3. \A i \in 0 .. Len(s) : f[i] \in Seq(Nat) /\ Len(f[i]) \in Nat
  BY SMTT(40) DEF Carries
<1>4. j # k
  <2>1. P(k)
    BY <1>3
  <2> QED
    BY <2>1
<1>5. /\ j \in 1 .. Len(s) /\ j - 1 \in k .. Len(s) /\ j - 1 \notin T
      /\ j - 1 \in 0 .. Len(s)
  BY <1>1, <1>2, <1>4
<1>6. P(j - 1)
  BY <1>5
<1>7. f[j] = f[j - 1] \o Payload(s[j])
  BY <1>5 DEF Carries
<1>8. Payload(s[j]) \in Seq(Nat)
  BY <1>5, PayloadIs DEF Chain
<1>9. /\ Len(f[j]) = Len(f[j - 1]) + Len(Payload(s[j]))
      /\ \A b \in 1 .. Len(f[j - 1]) : f[j][b] = f[j - 1][b]
  <2>1. f[j - 1] \in Seq(Nat)
    BY <1>3, <1>5
  <2>2. /\ Len(f[j - 1] \o Payload(s[j])) = Len(f[j - 1]) + Len(Payload(s[j]))
        /\ \A b \in 1 .. Len(f[j - 1]) :
             (f[j - 1] \o Payload(s[j]))[b] = f[j - 1][b]
    <3> HIDE DEF T
    <3> QED
      BY <1>8, <2>1, Concat
  <2> HIDE DEF T
  <2> QED
    BY <1>7, <2>2
<1>10. Len(Payload(s[j])) \in Nat /\ Len(f[j - 1]) \in Nat /\ Len(f[k]) \in Nat
  BY <1>3, <1>5, <1>8, SMTT(40)
<1>11. P(j)
  <2>1. Len(f[k]) <= Len(f[j])
    <3>1. Len(f[k]) <= Len(f[j - 1])
      BY <1>6
    <3>2. Len(f[j]) = Len(f[j - 1]) + Len(Payload(s[j]))
      BY <1>9
    <3>3. \A x, y, z \in Nat : x <= y => x <= y + z
      OBVIOUS
    <3> HIDE DEF P, T
    <3>4. Len(f[k]) <= Len(f[j - 1]) + Len(Payload(s[j]))
      BY <1>10, <3>1, <3>3
    <3> QED
      BY <3>2, <3>4, Zenon
  <2>2. ASSUME NEW b \in 1 .. Len(f[k]) PROVE f[j][b] = f[k][b]
    <3>1. b \in 1 .. Len(f[j - 1])
      BY <1>6, <1>10
    <3> QED
      BY <1>6, <1>9, <3>1
  <2> QED
    BY <2>1, <2>2
<1> QED
  BY <1>11

LEMMA CarriesAt ==
  ASSUME NEW s, Chain(s), NEW f, Carries(f, s), NEW k \in 1 .. Len(s)
  PROVE  /\ f[Len(s)] \in Seq(Nat) /\ Len(f[k - 1]) \in Nat
         /\ Len(f[k]) = Len(f[k - 1]) + Size(s[k]) - ACL_HDR_LEN
         /\ Len(f[k]) <= Len(f[Len(s)])
         /\ \A j \in 1 .. Size(s[k]) - ACL_HDR_LEN :
              f[Len(s)][Len(f[k - 1]) + j] = s[k].data[ACL_HDR_LEN + j]
<1>1. /\ Len(s) \in Nat /\ k \in 0 .. Len(s) /\ k - 1 \in 0 .. Len(s)
      /\ Len(s) \in k .. Len(s) /\ Len(s) \in 0 .. Len(s)
  BY DEF Chain
<1>2. \A i \in 0 .. Len(s) : f[i] \in Seq(Nat) /\ Len(f[i]) \in Nat
  BY DEF Carries
<1>3. /\ f[k] = f[k - 1] \o Payload(s[k])
      /\ Len(f[k]) = Len(f[k - 1]) + Size(s[k]) - ACL_HDR_LEN
  BY DEF Carries
<1>4. /\ Len(f[k]) <= Len(f[Len(s)])
      /\ \A b \in 1 .. Len(f[k]) : f[Len(s)][b] = f[k][b]
  BY <1>1, CarriesUpTo
<1>5. /\ Payload(s[k]) \in Seq(Nat)
      /\ Len(Payload(s[k])) = Size(s[k]) - ACL_HDR_LEN
      /\ Size(s[k]) \in Nat /\ Size(s[k]) >= ACL_HDR_LEN
      /\ \A j \in 1 .. Size(s[k]) - ACL_HDR_LEN :
           Payload(s[k])[j] = s[k].data[ACL_HDR_LEN + j]
  BY PayloadIs DEF Chain
<1>6. ASSUME NEW j \in 1 .. Size(s[k]) - ACL_HDR_LEN
      PROVE  f[Len(s)][Len(f[k - 1]) + j] = s[k].data[ACL_HDR_LEN + j]
  <2>1. f[k - 1] \in Seq(Nat) /\ Len(f[k - 1]) \in Nat
    BY <1>1, <1>2
  <2>2. j \in 1 .. Len(Payload(s[k]))
    BY <1>5
  <2>3. (f[k - 1] \o Payload(s[k]))[Len(f[k - 1]) + j] = Payload(s[k])[j]
    BY <1>5, <2>1, <2>2, Concat
  <2>4. Len(f[k - 1]) + j \in 1 .. Len(f[k])
    BY <1>3, <1>5, <2>1 DEF ACL_HDR_LEN
  <2> QED
    BY <1>3, <1>4, <1>5, <2>3, <2>4
<1> QED
  BY <1>1, <1>2, <1>3, <1>4, <1>6

-----------------------------------------------------------------------------
(* The inductive invariant.                                                *)

(* The length field says what the packet carries, which is something.      *)
Proper(p) ==
  Headed(p) /\ Size(p) > ACL_HDR_LEN /\ p.length = Size(p) - ACL_HDR_LEN

(* What the message is to have that a packet starts.                       *)
Total(p) == Word(p.data, ACL_HDR_LEN + 1) + L2CAP_HDR_LEN

(* The packets of s are whole messages, after continuations: left[i] bytes *)
(* of the message of the i-th packet come after it.                        *)
RunsAt(s, left, i) ==
  /\ Proper(s[i])
  /\ IF IsStart(s[i])
     THEN left[i - 1] = 0 /\ s[i].length + left[i] = Total(s[i])
     ELSE left[i - 1] = s[i].length + left[i]
Runs(s, left) ==
  /\ s \in Seq(Packets)
  /\ left \in [0 .. Len(s) -> Nat]
  /\ left[Len(s)] = 0
  /\ \A i \in 1 .. Len(s) : RunsAt(s, left, i)

(* The message that is being put together.                                 *)
Held ==
  /\ Chain(fragmented_message)
  /\ fragmented_message_size \in Nat /\ reassembled_message_size \in Nat
  /\ fragmented_message = << >> => fragmented_message_size = 0
  /\ fragmented_message # << >> =>
       /\ IsStart(fragmented_message[1])
       /\ Len(Carried(fragmented_message)) = fragmented_message_size
       /\ Total(fragmented_message[1]) = reassembled_message_size
       /\ reassembled_message_size < INVALID_PACKET
       /\ fragmented_message_size < reassembled_message_size

(* The packet that waits for a callback to return.                         *)
InHand ==
  packet # None =>
    /\ packet \in [some : {TRUE}, p : Packets]
    /\ Proper(packet.p) /\ IsStart(packet.p)
    /\ packet.p.length <= Total(packet.p)
    /\ fragmented_message = << >>

(* How many bytes of the message that is under way are on their way: what  *)
(* it lacks, or none because it was flushed.                               *)
Lacks ==
  IF fragmented_message # << >>
  THEN reassembled_message_size - fragmented_message_size
  ELSE IF packet # None THEN Total(packet.p) - packet.p.length
  ELSE 0
Turned ==
  /\ fragmented_message = << >> /\ packet = None
  /\ reassembled_message_size = INVALID_PACKET
Cuts == {i \in 1 .. Len(got) : ~IsWhole(got[i])}
Owed(lead) == IF lead = 0 /\ Lacks > 0 THEN 1 ELSE 0
Fits(lead) ==
  /\ Turned \/ lead \in {0, Lacks}
  /\ Cardinality(Cuts) + Owed(lead) <= flushes
Stream == \E left : Runs(air, left) /\ Fits(left[0])

(* What the writer has written.                                            *)
Before(k) == (k - 1) * Room
Writers ==
  [some : {TRUE}, channel : Channels, size : Sizes, done : Nat, todo : Nat,
   packet : Nat, pos : Nat, chain : Seq(Packets)]
LaidAt(s, size, i) ==
  /\ IsStart(s[i]) <=> i = 1
  /\ s[i].length = Min({size - (i - 1) * Room, Room})
  /\ Size(s[i]) = Min({FragmentedSize(size) - (i - 1) * PacketSize, PacketSize})
Shaped(s, n) ==
  LET size == U16(L2CAP_HDR_LEN + n) IN
  /\ Chain(s) /\ Len(s) = CeilDiv(FragmentedSize(size), PacketSize)
  /\ \A i \in 1 .. Len(s) : LaidAt(s, size, i)
Laid(s, n) == Shaped(s, n) /\ Total(s[1]) = L2CAP_HDR_LEN + n
Written(w) ==
  /\ w \in Writers
  /\ Laid(w.chain, w.size)
  /\ w.packet \in 1 .. Len(w.chain)
  /\ w.done + w.todo <= w.size
  /\ w.pos \in ACL_HDR_LEN .. Size(Here(w))
  /\ L2CAP_HDR_LEN + w.done = Before(w.packet) + w.pos - ACL_HDR_LEN

(* What the reader has read: all up to where it stands.                    *)
Readers ==
  [some : {TRUE}, chain : Seq(Packets), packet : Nat, pos : Nat, todo : Nat,
   out : Seq(Nat), short : BOOLEAN]
StandsAt(r, f) ==
  /\ r.packet \in 1 .. Len(r.chain)
  /\ r.pos \in ACL_HDR_LEN .. Size(Here(r))
  /\ r.packet = 1 => r.pos >= ACL_HDR_LEN + L2CAP_HDR_LEN
  /\ r.out = SubSeq(f[Len(r.chain)], L2CAP_HDR_LEN + 1,
                    Len(f[r.packet - 1]) + r.pos - ACL_HDR_LEN)
  /\ r.short => r.packet = Len(r.chain) /\ r.pos = Size(Here(r))
Read(r) ==
  /\ r \in Readers
  /\ Chain(r.chain) /\ r.chain # << >> /\ IsStart(r.chain[1])
  /\ got # << >> /\ Last(got).body = MessageOf(r.chain).body
  /\ \E f : Carries(f, r.chain) /\ StandsAt(r, f)

(* The messages that callbacks were given.                                 *)
Arrived == [channel : Nat, length : Nat, body : Seq(Nat)]

AclInv ==
  /\ Held /\ InHand /\ Stream
  /\ writer # None => Written(writer)
  /\ reader # None => Read(reader)
  /\ open \subseteq Channels /\ linked \subseteq Channels
  /\ got \in Seq(Arrived)
  /\ flushes \in Nat /\ sent \in Nat

LEMMA Numbers ==
  /\ ACL_HDR_LEN = 4 /\ L2CAP_HDR_LEN = 4 /\ INVALID_PACKET = 65535
  /\ CONTINUATION = 1 /\ FIRST_FLUSH = 2
  /\ PacketSize \in Nat /\ PacketSize >= 8 /\ PacketSize <= 65535
  /\ Room = PacketSize - 4 /\ Room \in Nat /\ Room >= 4
<1>1. PacketSize \in Nat /\ PacketSize >= 8 /\ PacketSize <= UINT16_MAX
  BY PacketAssumption, SMTT(40) DEF ACL_HDR_LEN, L2CAP_HDR_LEN
<1> QED
  BY <1>1 DEF UINT16_MAX, ACL_HDR_LEN, L2CAP_HDR_LEN, INVALID_PACKET, CONTINUATION,
    FIRST_FLUSH, Room

LEMMA Headers == ACL_HDR_LEN = 4 /\ L2CAP_HDR_LEN = 4
  BY DEF ACL_HDR_LEN, L2CAP_HDR_LEN

LEMMA RoomIs ==
  PacketSize \in Nat /\ Room \in Nat /\ PacketSize = Room + 4 /\ Room >= 4
  BY Numbers

LEMMA BeforeIs ==
  /\ \A k \in Nat : k >= 1 => Before(k) \in Nat /\ Before(k + 1) = Before(k) + Room
  /\ Before(1) = 0
<1>1. Room \in Nat
  BY RoomIs
<1>2. ASSUME NEW k \in Nat, k >= 1
      PROVE  (k - 1) * Room \in Nat /\ (k + 1 - 1) * Room = (k - 1) * Room + Room
  BY <1>1, <1>2
<1> QED
  BY <1>1, <1>2 DEF Before

LEMMA SubIs ==
  ASSUME NEW s \in Seq(Nat), NEW m \in Nat, NEW n \in Nat, m >= 1,
         m <= n + 1, n <= Len(s)
  PROVE  /\ SubSeq(s, m, n) \in Seq(Nat)
         /\ Len(SubSeq(s, m, n)) = n - m + 1
         /\ \A i \in 1 .. n - m + 1 : SubSeq(s, m, n)[i] = s[m + i - 1]
<1>1. \A i \in m .. n : s[i] \in Nat
  OBVIOUS
<1>2. m \in Int /\ n \in Int
  OBVIOUS
<1>3. /\ SubSeq(s, m, n) \in Seq(Nat)
      /\ Len(SubSeq(s, m, n)) = IF m <= n THEN n - m + 1 ELSE 0
      /\ \A i \in 1 .. n - m + 1 : SubSeq(s, m, n)[i] = s[m + i - 1]
  BY <1>1, <1>2, SubSeqProperties
<1>4. (IF m <= n THEN n - m + 1 ELSE 0) = n - m + 1
  OBVIOUS
<1> QED
  BY <1>3, <1>4

LEMMA TotalIs ==
  ASSUME NEW p, Headed(p), IsStart(p)
  PROVE  /\ Total(p) \in Nat /\ Total(p) >= 4
         /\ Total(p) = p.data[5] + 256 * p.data[6] + 4
         /\ \A i \in 1 .. 8 : p.data[i] \in Nat
         /\ Len(p.data) >= 8
<1>1. p.data \in Seq(Nat) /\ Len(p.data) >= 8
  BY Numbers DEF Headed, Packets, Size
<1>2. \A i \in 1 .. 8 : p.data[i] \in Nat
  BY <1>1
<1>3. p.data[5] \in Nat /\ p.data[6] \in Nat
  BY <1>2
<1>4. Total(p) = p.data[5] + 256 * p.data[6] + 4
  BY <1>3 DEF Total, Word, ACL_HDR_LEN, L2CAP_HDR_LEN
<1>5. \A x, y \in Nat : x + 256 * y + 4 \in Nat /\ x + 256 * y + 4 >= 4
  OBVIOUS
<1>6. Total(p) \in Nat /\ Total(p) >= 4
  BY <1>3, <1>4, <1>5
<1> QED
  BY <1>1, <1>2, <1>4, <1>6

(* The header of a chain that begins with a start is that of its first     *)
(* packet, and the message is whole when as much follows as it says.       *)
LEMMA MessageIs ==
  ASSUME NEW s, Chain(s), s # << >>, IsStart(s[1])
  PROVE  /\ Carried(s) \in Seq(Nat) /\ Len(Carried(s)) >= 4
         /\ Len(Carried(s)) \in Nat
         /\ MessageOf(s).length + 4 = Total(s[1])
         /\ Len(MessageOf(s).body) + 4 = Len(Carried(s))
         /\ MessageOf(s) \in Arrived
         /\ MessageOf(s).body = SubSeq(Carried(s), 5, Len(Carried(s)))
<1>1. s \in Seq(Packets) /\ Len(s) \in Nat /\ Len(s) >= 1
  BY DEF Chain
<1>2. PICK f : Carries(f, s) /\ Carried(s) = f[Len(s)]
  BY CarriedIs
<1>3. PICK p : p = s[1] /\ Headed(p)
  BY <1>1 DEF Chain
<1>4. 1 \in 1 .. Len(s) /\ 1 - 1 = 0
  BY <1>1
<1>5. /\ Carried(s) \in Seq(Nat) /\ Len(f[0]) \in Nat
      /\ Len(f[1]) = Len(f[0]) + Size(p) - ACL_HDR_LEN
      /\ Len(f[1]) <= Len(Carried(s))
      /\ \A j \in 1 .. Size(p) - ACL_HDR_LEN :
           Carried(s)[Len(f[0]) + j] = p.data[ACL_HDR_LEN + j]
  BY <1>2, <1>3, <1>4, CarriesAt
<1>6. Len(f[0]) = 0
  BY <1>2 DEF Carries
<1>7. Size(p) = Len(p.data) /\ Len(p.data) \in Nat /\ Len(p.data) >= 8
  BY <1>3, Numbers DEF Headed, Size, Packets
<1>8. Len(Carried(s)) \in Nat /\ Len(Carried(s)) >= 4
  BY <1>5, <1>6, <1>7, Numbers
<1>9. \A j \in 1 .. 4 : Carried(s)[j] = p.data[4 + j]
  <2> SUFFICES ASSUME NEW j \in 1 .. 4 PROVE Carried(s)[j] = p.data[4 + j]
    OBVIOUS
  <2>1. j \in 1 .. Size(p) - ACL_HDR_LEN
    BY <1>7, Numbers
  <2>2. Carried(s)[Len(f[0]) + j] = p.data[ACL_HDR_LEN + j]
    BY <1>5, <2>1
  <2>3. Len(f[0]) + j = j
    BY <1>6
  <2> QED
    BY <2>2, <2>3, Numbers
<1>10. PICK bytes : bytes = Carried(s)
  OBVIOUS
<1>11. /\ bytes[1] = p.data[5] /\ bytes[2] = p.data[6]
       /\ \A j \in 1 .. 4 : bytes[j] \in Nat
  <2>1. 1 \in 1 .. 4 /\ 2 \in 1 .. 4 /\ 4 + 1 = 5 /\ 4 + 2 = 6
    OBVIOUS
  <2>2. bytes[1] = p.data[5] /\ bytes[2] = p.data[6]
    BY <1>9, <1>10, <2>1, Zenon
  <2>3. bytes \in Seq(Nat) /\ Len(bytes) \in Nat /\ Len(bytes) >= 4
    BY <1>5, <1>8, <1>10, Zenon
  <2>4. \A j \in 1 .. 4 : bytes[j] \in Nat
    BY <2>3
  <2> QED
    BY <2>2, <2>4, Zenon
<1>12. /\ Word(bytes, 1) + 4 = Total(p) /\ Word(bytes, 1) \in Nat
       /\ Word(bytes, 3) \in Nat
  <2>1. Total(p) = p.data[5] + 256 * p.data[6] + 4
    BY <1>3, TotalIs
  <2>2. bytes[1] \in Nat /\ bytes[2] \in Nat /\ bytes[3] \in Nat /\ bytes[4] \in Nat
    BY <1>11
  <2>3. /\ Word(bytes, 1) = bytes[1] + 256 * bytes[2]
        /\ Word(bytes, 3) = bytes[3] + 256 * bytes[4]
    BY DEF Word
  <2>4. Total(p) = bytes[1] + 256 * bytes[2] + 4
    BY <1>11, <2>1
  <2>5. ASSUME NEW x \in Nat, NEW y \in Nat, NEW z, z = x + 256 * y
        PROVE  z \in Nat
    BY <2>5
  <2>6. Word(bytes, 1) \in Nat /\ Word(bytes, 3) \in Nat
    BY <2>2, <2>3, <2>5, SMTT(40)
  <2>7. Word(bytes, 1) + 4 = Total(p)
    BY <2>3, <2>4, Zenon
  <2> QED
    BY <2>6, <2>7
<1>13. MessageOf(s) = [channel |-> Word(bytes, 3), length |-> Word(bytes, 1),
                       body |-> SubSeq(bytes, 5, Len(bytes))]
  BY <1>10, Numbers DEF MessageOf
<1>14. /\ SubSeq(bytes, 5, Len(bytes)) \in Seq(Nat)
       /\ Len(SubSeq(bytes, 5, Len(bytes))) + 4 = Len(bytes)
  <2>1. bytes \in Seq(Nat) /\ Len(bytes) \in Nat /\ Len(bytes) >= 4
    BY <1>5, <1>8, <1>10
  <2>2. 5 \in Nat /\ 5 >= 1 /\ 5 <= Len(bytes) + 1 /\ Len(bytes) <= Len(bytes)
    BY <2>1
  <2>3. /\ SubSeq(bytes, 5, Len(bytes)) \in Seq(Nat)
        /\ Len(SubSeq(bytes, 5, Len(bytes))) = Len(bytes) - 5 + 1
    BY <2>1, <2>2, SubIs
  <2> QED
    BY <2>1, <2>3
<1>15. MessageOf(s) \in Arrived
  BY <1>12, <1>13, <1>14 DEF Arrived
<1> QED
  BY <1>3, <1>5, <1>8, <1>10, <1>12, <1>13, <1>14, <1>15

-----------------------------------------------------------------------------
(* Sequences of packets that are whole messages.                           *)
LEMMA RunsNone == Runs(<< >>, [i \in 0 .. 0 |-> 0])
<1>1. << >> \in Seq(Packets) /\ Len(<< >>) = 0 /\ 1 .. 0 = {}
  OBVIOUS
<1>2. PICK s : s = << >> /\ s \in Seq(Packets) /\ Len(s) = 0
  BY <1>1
<1>3. Runs(s, [i \in 0 .. 0 |-> 0])
  BY <1>1, <1>2 DEF Runs
<1> QED
  BY <1>2, <1>3

LEMMA RunsSuffix ==
  ASSUME NEW s, NEW left, Runs(s, left), NEW k \in 1 .. Len(s) + 1
  PROVE  Runs(SubSeq(s, k, Len(s)), [i \in 0 .. Len(s) - k + 1 |-> left[k - 1 + i]])
<1> DEFINE t == SubSeq(s, k, Len(s))
           m == [i \in 0 .. Len(s) - k + 1 |-> left[k - 1 + i]]
<1>1. s \in Seq(Packets) /\ Len(s) \in Nat
  BY DEF Runs
<1>2. /\ t \in Seq(Packets) /\ Len(t) = Len(s) - k + 1
      /\ \A i \in 1 .. Len(s) - k + 1 : t[i] = s[k + i - 1]
  <2>1. \A i \in k .. Len(s) : s[i] \in Packets
    BY <1>1
  <2>2. k \in Int /\ Len(s) \in Int
    BY <1>1
  <2>3. /\ t \in Seq(Packets)
        /\ Len(t) = IF k <= Len(s) THEN Len(s) - k + 1 ELSE 0
        /\ \A i \in 1 .. Len(s) - k + 1 : t[i] = s[k + i - 1]
    BY <2>1, <2>2, SubSeqProperties
  <2>4. (IF k <= Len(s) THEN Len(s) - k + 1 ELSE 0) = Len(s) - k + 1
    BY <1>1
  <2> QED
    BY <2>3, <2>4
<1>3. left \in [0 .. Len(s) -> Nat] /\ left[Len(s)] = 0
  BY DEF Runs
<1>4. \A i \in 0 .. Len(t) : m[i] = left[k - 1 + i] /\ m[i] \in Nat
  BY <1>1, <1>2, <1>3
<1>5. m \in [0 .. Len(t) -> Nat] /\ m[Len(t)] = 0
  <2>1. Len(t) \in 0 .. Len(t) /\ k - 1 + Len(t) = Len(s)
    BY <1>1, <1>2
  <2>2. m \in [0 .. Len(t) -> Nat]
    BY <1>2, <1>4
  <2> QED
    BY <1>3, <1>4, <2>1, <2>2
<1> HIDE DEF t, m
<1>6. ASSUME NEW i \in 1 .. Len(t) PROVE RunsAt(t, m, i)
  <2>1. k + i - 1 \in 1 .. Len(s) /\ i - 1 \in 0 .. Len(t) /\ i \in 0 .. Len(t)
    BY <1>1, <1>2
  <2>2. RunsAt(s, left, k + i - 1)
    BY <2>1 DEF Runs
  <2>3. t[i] = s[k + i - 1] /\ m[i] = left[k + i - 1] /\ m[i - 1] = left[k + i - 1 - 1]
    <3>1. k - 1 + i = k + i - 1 /\ k - 1 + (i - 1) = k + i - 1 - 1
      OBVIOUS
    <3> QED
      BY <1>2, <1>4, <2>1, <3>1
  <2> QED
    BY <2>2, <2>3 DEF RunsAt
<1> QED
  BY <1>2, <1>5, <1>6 DEF Runs, t, m

LEMMA RunsTail ==
  ASSUME NEW s, NEW left, Runs(s, left), s # << >>
  PROVE  \E m : /\ Runs(Tail(s), m) /\ m[0] = left[1]
                /\ RunsAt(s, left, 1) /\ Head(s) = s[1]
                /\ left[0] \in Nat /\ left[1] \in Nat
<1>1. /\ s \in Seq(Packets) /\ Len(s) \in Nat /\ Len(s) >= 1
      /\ left \in [0 .. Len(s) -> Nat]
  BY DEF Runs
<1>2. Tail(s) = SubSeq(s, 2, Len(s))
  BY <1>1, TailIsSubSeq
<1> DEFINE m == [i \in 0 .. Len(s) - 2 + 1 |-> left[2 - 1 + i]]
<1>3. Runs(SubSeq(s, 2, Len(s)), m)
  <2>1. 2 \in 1 .. Len(s) + 1
    BY <1>1
  <2> QED
    BY <2>1, RunsSuffix
<1>4. m[0] = left[1]
  BY <1>1
<1>5. RunsAt(s, left, 1)
  BY <1>1 DEF Runs
<1> HIDE DEF m
<1> QED
  BY <1>1, <1>2, <1>3, <1>4, <1>5

LEMMA RunsConcat ==
  ASSUME NEW s, NEW left, Runs(s, left), NEW t, NEW m, Runs(t, m), m[0] = 0
  PROVE  \E n : Runs(s \o t, n) /\ n[0] = left[0]
<1> DEFINE u == s \o t
           n == [i \in 0 .. Len(s) + Len(t) |->
                   IF i <= Len(s) THEN left[i] ELSE m[i - Len(s)]]
<1>1. /\ s \in Seq(Packets) /\ t \in Seq(Packets) /\ Len(s) \in Nat /\ Len(t) \in Nat
      /\ left \in [0 .. Len(s) -> Nat] /\ m \in [0 .. Len(t) -> Nat]
      /\ left[Len(s)] = 0 /\ m[Len(t)] = 0
  BY DEF Runs
<1>2. /\ u \in Seq(Packets) /\ Len(u) = Len(s) + Len(t)
      /\ \A i \in 1 .. Len(s) : u[i] = s[i]
      /\ \A i \in 1 .. Len(t) : u[Len(s) + i] = t[i]
  BY <1>1
<1>3. /\ \A i \in 0 .. Len(s) : n[i] = left[i]
      /\ \A i \in 0 .. Len(t) : n[Len(s) + i] = m[i]
  <2>1. \A i \in 0 .. Len(s) : n[i] = left[i]
    BY <1>1
  <2>2. ASSUME NEW i \in 0 .. Len(t) PROVE n[Len(s) + i] = m[i]
    <3>1. CASE i = 0
      <4>1. Len(s) + i = Len(s) /\ Len(s) \in 0 .. Len(s)
        BY <1>1, <3>1
      <4> QED
        BY <1>1, <2>1, <3>1, <4>1
    <3>2. CASE i # 0
      <4>1. /\ Len(s) + i \in 0 .. Len(s) + Len(t) /\ ~(Len(s) + i <= Len(s))
            /\ Len(s) + i - Len(s) = i
        BY <1>1, <3>2
      <4> QED
        BY <4>1
    <3> QED
      BY <3>1, <3>2
  <2> QED
    BY <2>1, <2>2
<1>4. n \in [0 .. Len(u) -> Nat]
  <2> SUFFICES ASSUME NEW i \in 0 .. Len(s) + Len(t) PROVE n[i] \in Nat
    BY <1>2
  <2>1. CASE i <= Len(s)
    <3>1. i \in 0 .. Len(s) /\ n[i] = left[i]
      BY <1>1, <2>1
    <3> QED
      BY <1>1, <3>1
  <2>2. CASE i > Len(s)
    <3>1. i - Len(s) \in 0 .. Len(t) /\ n[i] = m[i - Len(s)]
      BY <1>1, <2>2
    <3> QED
      BY <1>1, <3>1
  <2> QED
    BY <1>1, <2>1, <2>2
<1> HIDE DEF u, n
<1>5. n[Len(u)] = 0
  BY <1>1, <1>2, <1>3
<1>6. ASSUME NEW i \in 1 .. Len(u) PROVE RunsAt(u, n, i)
  <2>1. CASE i <= Len(s)
    <3>1. i \in 1 .. Len(s) /\ i \in 0 .. Len(s) /\ i - 1 \in 0 .. Len(s)
      BY <1>1, <2>1
    <3>2. u[i] = s[i] /\ n[i] = left[i] /\ n[i - 1] = left[i - 1]
      BY <1>2, <1>3, <3>1
    <3>3. RunsAt(s, left, i)
      BY <3>1 DEF Runs
    <3> QED
      BY <3>2, <3>3 DEF RunsAt
  <2>2. CASE i > Len(s)
    <3>1. PICK j \in 1 .. Len(t) : i = Len(s) + j
      <4>1. i - Len(s) \in 1 .. Len(t) /\ i = Len(s) + (i - Len(s))
        BY <1>1, <1>2, <2>2
      <4> QED
        BY <4>1
    <3>2. j \in 0 .. Len(t) /\ j - 1 \in 0 .. Len(t) /\ i - 1 = Len(s) + (j - 1)
      BY <1>1, <3>1
    <3>3. u[i] = t[j] /\ n[i] = m[j] /\ n[i - 1] = m[j - 1]
      BY <1>2, <1>3, <3>1, <3>2
    <3>4. RunsAt(t, m, j)
      BY <3>1 DEF Runs
    <3> QED
      BY <3>3, <3>4 DEF RunsAt
  <2> QED
    BY <1>1, <1>2, <2>1, <2>2
<1>7. n[0] = left[0]
  BY <1>1, <1>3
<1> QED
  BY <1>2, <1>4, <1>5, <1>6, <1>7 DEF Runs, u

LEMMA RunsSplit ==
  ASSUME NEW s, NEW left, Runs(s, left), s # << >>,
         NEW a, NEW b, Proper(a), Proper(b), ~IsStart(b),
         IsStart(a) <=> IsStart(s[1]),
         a.length + b.length = s[1].length,
         IsStart(a) => Total(a) = Total(s[1])
  PROVE  \E n : Runs(<<a, b>> \o Tail(s), n) /\ n[0] = left[0]
<1>1. PICK m : /\ Runs(Tail(s), m) /\ m[0] = left[1]
               /\ RunsAt(s, left, 1) /\ Head(s) = s[1]
               /\ left[0] \in Nat /\ left[1] \in Nat
  BY RunsTail
<1>2. PICK t : t = Tail(s)
  OBVIOUS
<1>3. /\ t \in Seq(Packets) /\ Len(t) \in Nat /\ Runs(t, m)
      /\ m \in [0 .. Len(t) -> Nat] /\ m[Len(t)] = 0
  BY <1>1, <1>2 DEF Runs
<1>4. a \in Packets /\ b \in Packets /\ a.length \in Nat /\ b.length \in Nat
  BY DEF Proper, Headed, Packets
<1> DEFINE u == <<a, b>> \o t
           n == [i \in 0 .. Len(t) + 2 |->
                   IF i = 0 THEN left[0]
                   ELSE IF i = 1 THEN b.length + left[1] ELSE m[i - 2]]
<1>5. /\ u \in Seq(Packets) /\ Len(u) = Len(t) + 2 /\ u[1] = a /\ u[2] = b
      /\ \A i \in 1 .. Len(t) : u[i + 2] = t[i]
  <2>1. /\ <<a, b>> \in Seq(Packets) /\ Len(<<a, b>>) = 2
        /\ <<a, b>>[1] = a /\ <<a, b>>[2] = b
    BY <1>4
  <2>2. PICK ab \in Seq(Packets) : ab = <<a, b>>
    BY <2>1
  <2>3. /\ ab \o t \in Seq(Packets) /\ Len(ab \o t) = Len(t) + 2
        /\ (ab \o t)[1] = a /\ (ab \o t)[2] = b
        /\ \A i \in 1 .. Len(t) : (ab \o t)[i + 2] = t[i]
    BY <1>3, <2>1, <2>2
  <2> QED
    BY <2>2, <2>3
<1>6. /\ n[0] = left[0] /\ n[1] = b.length + left[1] /\ n[2] = left[1]
      /\ \A i \in 0 .. Len(t) : n[i + 2] = m[i]
  BY <1>1, <1>3
<1>7. n \in [0 .. Len(u) -> Nat]
  <2> SUFFICES ASSUME NEW i \in 0 .. Len(t) + 2 PROVE n[i] \in Nat
    BY <1>5
  <2>1. CASE i = 0
    BY <1>1, <2>1
  <2>2. CASE i = 1
    BY <1>1, <1>4, <2>2
  <2>3. CASE i > 1
    <3>1. i - 2 \in 0 .. Len(t) /\ n[i] = m[i - 2]
      BY <1>3, <2>3
    <3> QED
      BY <1>3, <3>1
  <2> QED
    BY <2>1, <2>2, <2>3
<1> HIDE DEF u, n
<1>8. n[Len(u)] = 0
  <2>1. Len(t) \in 0 .. Len(t) /\ Len(u) = Len(t) + 2
    BY <1>3, <1>5
  <2> QED
    BY <1>3, <1>6, <2>1
<1>9. RunsAt(u, n, 1)
  <2>1. n[1 - 1] = left[0] /\ u[1] = a
    BY <1>5, <1>6
  <2>2. IF IsStart(a) THEN left[0] = 0 /\ s[1].length + left[1] = Total(s[1])
        ELSE left[0] = s[1].length + left[1]
    BY <1>1 DEF RunsAt
  <2>3. a.length + (b.length + left[1]) = s[1].length + left[1]
    BY <1>1, <1>4
  <2> QED
    BY <1>6, <2>1, <2>2, <2>3 DEF RunsAt
<1>10. RunsAt(u, n, 2)
  <2>1. n[2 - 1] = b.length + n[2] /\ u[2] = b
    BY <1>5, <1>6
  <2> QED
    BY <2>1 DEF RunsAt
<1>11. ASSUME NEW i \in 1 .. Len(u) PROVE RunsAt(u, n, i)
  <2>1. CASE i > 2
    <3>1. PICK j \in 1 .. Len(t) : i = j + 2
      <4>1. i - 2 \in 1 .. Len(t) /\ i = (i - 2) + 2
        BY <1>3, <1>5, <2>1
      <4> QED
        BY <4>1
    <3>2. j \in 0 .. Len(t) /\ j - 1 \in 0 .. Len(t) /\ i - 1 = (j - 1) + 2
      BY <1>3, <3>1
    <3>3. u[i] = t[j] /\ n[i] = m[j] /\ n[i - 1] = m[j - 1]
      BY <1>5, <1>6, <3>1, <3>2
    <3>4. RunsAt(t, m, j)
      BY <1>3, <3>1 DEF Runs
    <3> QED
      BY <3>3, <3>4 DEF RunsAt
  <2>2. i = 1 \/ i = 2 \/ i > 2
    OBVIOUS
  <2> QED
    BY <1>9, <1>10, <2>1, <2>2
<1> QED
  BY <1>2, <1>5, <1>6, <1>7, <1>8, <1>11 DEF Runs, u

-----------------------------------------------------------------------------
(* Writing.                                                                *)
LEMMA MinOfTwo ==
  ASSUME NEW a \in Int, NEW b \in Int
  PROVE  Min({a, b}) = IF a <= b THEN a ELSE b
<1> DEFINE P(x) == x \in {a, b} /\ \A y \in {a, b} : x <= y
<1>1. \E x : P(x)
  <2>1. CASE a <= b
    <3>1. P(a)
      BY <2>1
    <3> QED
      BY <3>1
  <2>2. CASE ~(a <= b)
    <3>1. P(b)
      BY <2>2
    <3> QED
      BY <3>1
  <2> QED
    BY <2>1, <2>2
<1>2. Min({a, b}) = CHOOSE x : P(x)
  BY DEF Min
<1>3. P(CHOOSE x : P(x))
  <2> HIDE DEF P
  <2> QED
    BY <1>1, Zenon
<1>4. P(Min({a, b}))
  <2> HIDE DEF P
  <2> QED
    BY <1>2, <1>3
<1> QED
  BY <1>4

LEMMA CeilDivIs ==
  ASSUME NEW n \in Nat, NEW d \in Nat, d >= 1
  PROVE  /\ CeilDiv(n, d) \in Nat
         /\ n <= CeilDiv(n, d) * d
         /\ CeilDiv(n, d) * d < n + d
<1>1. n + d - 1 \in Nat
  OBVIOUS
<1>2. PICK k \in Nat : k = n + d - 1
  BY <1>1
<1>3. k \div d \in Nat /\ (k \div d) * d <= k
  OBVIOUS
<1>4. k < d * (k \div d) + d
  OBVIOUS
<1>5. d * (k \div d) = (k \div d) * d
  BY <1>3
<1>6. CeilDiv(n, d) = k \div d
  BY <1>2 DEF CeilDiv
<1>7. PICK q \in Nat : q = k \div d
  BY <1>3
<1> QED
  BY <1>2, <1>3, <1>4, <1>5, <1>6, <1>7

LEMMA Products ==
  ASSUME NEW a \in Nat, NEW b \in Nat, NEW d \in Nat, d >= 1
  PROVE  /\ a <= b => a * d <= b * d
         /\ a * d < b * d => a < b
         /\ (a - 1) * d = a * d - d
         /\ a * d \in Nat
  OBVIOUS

LEMMA Wrapped ==
  ASSUME NEW x \in Nat
  PROVE  /\ x % 65536 \in Nat
         /\ x < 65536 => x % 65536 = x
         /\ x >= 65536 => x % 65536 <= x - 65536
<1>1. x % 65536 \in Nat
  OBVIOUS
<1>2. x < 65536 => x % 65536 = x
  OBVIOUS
<1>3. x >= 65536 => x % 65536 <= x - 65536
  OBVIOUS
<1> QED
  BY <1>1, <1>2, <1>3

(* A message that was written to its end was laid out in whole packets:    *)
(* when its size wraps, there is not as much room.                         *)
WrittenTo(n, k, pos, size, total) ==
  /\ n \in Nat /\ n <= UINT16_MAX /\ k \in Nat /\ pos \in Nat
  /\ size = U16(L2CAP_HDR_LEN + n)
  /\ total = FragmentedSize(size)
  /\ k >= 1 /\ k <= CeilDiv(total, PacketSize) /\ pos <= PacketSize
  /\ L2CAP_HDR_LEN + n = (k - 1) * Room + pos - ACL_HDR_LEN
LEMMA LaidOut ==
  ASSUME NEW n, NEW k, NEW pos, NEW size, NEW total,
         WrittenTo(n, k, pos, size, total)
  PROVE  /\ size = L2CAP_HDR_LEN + n
         /\ k = CeilDiv(total, PacketSize)
         /\ total = k * PacketSize
         /\ (k - 1) * Room < size
<1> DEFINE P == PacketSize
           R == Room
<1>1. /\ P \in Nat /\ P >= 1 /\ P >= 8 /\ R \in Nat /\ R >= 4 /\ R >= 1
      /\ R + 4 = P /\ L2CAP_HDR_LEN = 4 /\ ACL_HDR_LEN = 4
  BY Numbers
<1>2. n \in Nat /\ k \in Nat /\ pos \in Nat /\ k >= 1 /\ pos <= P
  BY DEF WrittenTo
<1>3. /\ size \in Nat
      /\ size = 4 + n \/ (size <= 3 /\ 4 + n > P)
  <2>1. size = (4 + n) % 65536 /\ 4 + n \in Nat /\ n <= 65535 /\ P <= 65535
    BY <1>1, Numbers DEF WrittenTo, U16, UINT16_MAX
  <2>2. /\ size \in Nat
        /\ 4 + n < 65536 => size = 4 + n
        /\ 4 + n >= 65536 => size <= (4 + n) - 65536
    BY <2>1, Wrapped
  <2>3. 4 + n < 65536 \/ 4 + n >= 65536
    BY <1>2
  <2> QED
    BY <1>1, <1>2, <2>1, <2>2, <2>3
<1>4. PICK whole \in Nat : whole = CeilDiv(size, R) * P
  <2>1. CeilDiv(size, R) \in Nat
    BY <1>1, <1>3, CeilDivIs
  <2> QED
    BY <1>1, <2>1
<1>5. total \in Nat /\ (total = whole \/ total + P < whole)
  <2>1. total = whole % 65536 /\ P <= 65535
    BY <1>4, Numbers DEF WrittenTo, FragmentedSize, U16
  <2>2. /\ total \in Nat
        /\ whole < 65536 => total = whole
        /\ whole >= 65536 => total <= whole - 65536
    BY <2>1, Wrapped
  <2> QED
    BY <1>1, <2>1, <2>2
<1>6. k <= CeilDiv(total, P) /\ 4 + n = (k - 1) * R + pos - 4
  BY <1>1 DEF WrittenTo
<1> HIDE DEF P, R
<1>7. PICK N \in Nat, nr \in Nat :
        /\ N = CeilDiv(size, R) /\ nr = N * R /\ size <= nr /\ nr < size + R
  <2>1. /\ CeilDiv(size, R) \in Nat /\ size <= CeilDiv(size, R) * R
        /\ CeilDiv(size, R) * R < size + R
    BY <1>1, <1>3, CeilDivIs
  <2>2. CeilDiv(size, R) * R \in Nat
    BY <1>1, <2>1
  <2> QED
    BY <2>1, <2>2, Zenon
<1>8. PICK K \in Nat, kp \in Nat :
        /\ K = CeilDiv(total, P) /\ kp = K * P /\ total <= kp /\ kp < total + P
  <2>1. /\ CeilDiv(total, P) \in Nat /\ total <= CeilDiv(total, P) * P
        /\ CeilDiv(total, P) * P < total + P
    BY <1>1, <1>5, CeilDivIs
  <2>2. CeilDiv(total, P) * P \in Nat
    BY <1>1, <2>1
  <2> QED
    BY <2>1, <2>2, Zenon
<1>9. whole = N * P /\ k <= K
  BY <1>4, <1>6, <1>7, <1>8
<1>10. PICK kr \in Nat : /\ kr = k * R
                         /\ 4 + n <= kr /\ 4 + n = kr - R + pos - 4
  <2>1. k * R \in Nat /\ (k - 1) * R = k * R - R
    BY <1>1, <1>2, Products
  <2>2. PICK kr \in Nat : kr = k * R
    BY <2>1
  <2>3. 4 + n = kr - R + pos - 4
    BY <1>6, <2>1, <2>2
  <2>4. 4 + n <= kr
    BY <1>1, <1>2, <2>3
  <2> QED
    BY <2>2, <2>3, <2>4
<1>11. ASSUME NEW a \in Nat, NEW b \in Nat, a < b
       PROVE  a * R + R <= b * R /\ a * P + P <= b * P
  <2>1. b - 1 \in Nat /\ a <= b - 1
    BY <1>11
  <2>2. /\ a * R <= (b - 1) * R /\ (b - 1) * R = b * R - R
        /\ a * P <= (b - 1) * P /\ (b - 1) * P = b * P - P
    BY <1>1, <2>1, Products
  <2>3. a * R \in Nat /\ b * R \in Nat /\ a * P \in Nat /\ b * P \in Nat
    BY <1>1, Products
  <2> QED
    BY <1>1, <2>2, <2>3
<1>12. size = 4 + n
  <2>1. SUFFICES ASSUME size <= 3, 4 + n > P PROVE FALSE
    BY <1>3
  <2>2. ~(1 < N)
    <3>1. SUFFICES ASSUME 1 < N PROVE FALSE
      OBVIOUS
    <3>2. 1 * R + R <= nr
      BY <1>7, <1>11, <3>1
    <3> QED
      BY <1>1, <1>3, <1>7, <2>1, <3>2
  <2>3. whole <= P
    <3>1. N = 0 \/ N = 1
      BY <2>2
    <3> QED
      BY <1>1, <1>9, <3>1
  <2>4. total <= P
    BY <1>1, <1>4, <1>5, <2>3
  <2>5. ~(1 < K)
    <3>1. SUFFICES ASSUME 1 < K PROVE FALSE
      OBVIOUS
    <3>2. 1 * P + P <= kp
      BY <1>8, <1>11, <3>1
    <3> QED
      BY <1>1, <1>5, <1>8, <2>4, <3>2
  <2>6. k = 1
    BY <1>2, <1>9, <2>5
  <2>7. kr = R
    BY <1>1, <1>10, <2>6
  <2> QED
    BY <1>1, <1>2, <1>10, <2>1, <2>7
<1>13. ~(k < N)
  <2>1. SUFFICES ASSUME k < N PROVE FALSE
    OBVIOUS
  <2>2. kr + R <= nr
    BY <1>2, <1>7, <1>10, <1>11, <2>1
  <2> QED
    BY <1>1, <1>2, <1>7, <1>10, <1>12, <2>2
<1>14. total = whole
  <2>1. SUFFICES ASSUME total + P < whole PROVE FALSE
    BY <1>5
  <2>2. N <= K
    BY <1>2, <1>9, <1>13
  <2>3. N * P <= K * P
    BY <1>1, <2>2, Products
  <2>4. whole <= kp
    BY <1>8, <1>9, <2>3
  <2> QED
    BY <1>1, <1>4, <1>5, <1>8, <2>1, <2>4
<1>15. ~(N < K)
  <2>1. SUFFICES ASSUME N < K PROVE FALSE
    OBVIOUS
  <2>2. whole + P <= kp
    BY <1>8, <1>9, <1>11, <2>1
  <2> QED
    BY <1>1, <1>4, <1>5, <1>8, <1>14, <2>2
<1>16. k = N /\ k = K
  BY <1>2, <1>7, <1>8, <1>9, <1>13, <1>15
<1>17. (k - 1) * R < size
  <2>1. (k - 1) * R = nr - R
    BY <1>1, <1>2, <1>7, <1>16, Products
  <2>2. nr - R < size
    BY <1>1, <1>3, <1>7
  <2> QED
    BY <2>1, <2>2
<1> QED
  BY <1>1, <1>8, <1>9, <1>12, <1>14, <1>16, <1>17 DEF P, R

(* Where the packets of a layout begin, in the message and in the buffer.  *)
LEMMA LayoutAt ==
  ASSUME NEW size \in Nat, NEW total, total = FragmentedSize(size),
         NEW i \in 1 .. CeilDiv(total, PacketSize)
  PROVE  /\ (i - 1) * Room \in Nat /\ (i - 1) * Room < size
         /\ (i - 1) * PacketSize \in Nat /\ (i - 1) * PacketSize < total
         /\ i < CeilDiv(total, PacketSize) => (i - 1) * PacketSize + PacketSize < total
         /\ total \in Nat /\ CeilDiv(total, PacketSize) \in Nat
<1> DEFINE P == PacketSize
           R == Room
<1>1. /\ P \in Nat /\ P >= 1 /\ R \in Nat /\ R >= 1
  BY Numbers
<1>2. PICK N \in Nat : N = CeilDiv(size, R)
  BY <1>1, CeilDivIs
<1>3. PICK whole \in Nat : whole = N * P
  BY <1>1
<1>4. total \in Nat /\ total <= whole
  <2>1. total = whole % 65536
    BY <1>2, <1>3 DEF FragmentedSize, U16
  <2>2. /\ whole % 65536 \in Nat
        /\ whole < 65536 => whole % 65536 = whole
        /\ whole >= 65536 => whole % 65536 <= whole - 65536
    BY Wrapped
  <2> QED
    BY <2>1, <2>2
<1>5. PICK K \in Nat : K = CeilDiv(total, P)
  BY <1>1, <1>4, CeilDivIs
<1>6. PICK h \in Nat : h = i - 1
  BY <1>5
<1>7. h < K /\ (i < K => h + 1 < K) /\ i = h + 1
  BY <1>5, <1>6
<1> HIDE DEF P, R
<1>8. PICK kp \in Nat : kp = K * P /\ kp < total + P
  <2>1. CeilDiv(total, P) * P < total + P
    BY <1>1, <1>4, CeilDivIs
  <2>2. K * P \in Nat
    BY <1>1
  <2> QED
    BY <1>5, <2>1, <2>2
<1>9. PICK nr \in Nat : nr = N * R /\ nr < size + R
  <2>1. CeilDiv(size, R) * R < size + R
    BY <1>1, CeilDivIs
  <2>2. N * R \in Nat
    BY <1>1
  <2> QED
    BY <1>2, <2>1, <2>2
<1>10. ASSUME NEW a \in Nat, NEW b \in Nat, a < b
       PROVE  /\ a * R + R <= b * R /\ a * P + P <= b * P
              /\ a * R \in Nat /\ a * P \in Nat
  <2>1. b - 1 \in Nat /\ a <= b - 1
    BY <1>10
  <2>2. /\ a * R <= (b - 1) * R /\ (b - 1) * R = b * R - R
        /\ a * P <= (b - 1) * P /\ (b - 1) * P = b * P - P
    BY <1>1, <2>1, Products
  <2>3. a * R \in Nat /\ b * R \in Nat /\ a * P \in Nat /\ b * P \in Nat
    BY <1>1, Products
  <2> QED
    BY <1>1, <2>2, <2>3
<1>11. PICK hp \in Nat : hp = h * P /\ hp + P <= kp
  BY <1>6, <1>7, <1>8, <1>10
<1>12. hp < total
  BY <1>1, <1>4, <1>8, <1>11
<1>13. h < N
  <2>1. h * P < N * P
    BY <1>3, <1>4, <1>11, <1>12
  <2> QED
    BY <1>1, <2>1, Products
<1>14. PICK hr \in Nat : hr = h * R /\ hr + R <= nr
  BY <1>9, <1>10, <1>13
<1>15. hr < size
  BY <1>1, <1>9, <1>14
<1>16. h + 1 < K => hp + P < total
  <2>1. SUFFICES ASSUME h + 1 < K PROVE hp + P < total
    OBVIOUS
  <2>2. h + 1 \in Nat /\ (h + 1) - 1 = h
    OBVIOUS
  <2>3. (h + 1) * P + P <= kp /\ h * P = (h + 1) * P - P /\ (h + 1) * P \in Nat
    BY <1>1, <1>8, <1>10, <2>1, <2>2, Products
  <2>4. PICK x \in Nat : x = (h + 1) * P
    BY <2>3
  <2> QED
    BY <1>1, <1>4, <1>8, <1>11, <2>3, <2>4
<1> QED
  BY <1>4, <1>5, <1>6, <1>7, <1>11, <1>12, <1>14, <1>15, <1>16 DEF P, R

(* memcpy into a packet.                                                   *)
LEMMA PutIs ==
  ASSUME NEW p, Headed(p), NEW pos \in Nat, NEW bytes \in Seq(Nat),
         pos >= 4, pos + Len(bytes) <= Size(p)
  PROVE  /\ Put(p, pos, bytes) \in Packets /\ Headed(Put(p, pos, bytes))
         /\ Size(Put(p, pos, bytes)) = Size(p)
         /\ Put(p, pos, bytes).pb = p.pb /\ Put(p, pos, bytes).length = p.length
         /\ \A j \in 1 .. pos : Put(p, pos, bytes).data[j] = p.data[j]
         /\ \A j \in 1 .. Len(bytes) : Put(p, pos, bytes).data[pos + j] = bytes[j]
<1> DEFINE d == p.data
           a == SubSeq(d, 1, pos)
           c == SubSeq(d, pos + Len(bytes) + 1, Len(d))
           q == Put(p, pos, bytes)
<1>1. p \in Packets /\ d \in Seq(Nat) /\ Size(p) = Len(d) /\ Len(d) \in Nat
  BY DEF Headed, Packets, Size
<1>2. Len(bytes) \in Nat /\ pos + Len(bytes) <= Len(d)
  BY <1>1
<1>3. a \in Seq(Nat) /\ Len(a) = pos /\ \A j \in 1 .. pos : a[j] = d[j]
  <2>1. 1 \in Nat /\ 1 >= 1 /\ 1 <= pos + 1 /\ pos <= Len(d)
    BY <1>1, <1>2
  <2>2. /\ a \in Seq(Nat) /\ Len(a) = pos - 1 + 1
        /\ \A j \in 1 .. pos - 1 + 1 : a[j] = d[1 + j - 1]
    BY <1>1, <2>1, SubIs
  <2> QED
    BY <2>2
<1>4. c \in Seq(Nat) /\ Len(c) = Len(d) - pos - Len(bytes)
  <2>1. /\ pos + Len(bytes) + 1 \in Nat /\ pos + Len(bytes) + 1 >= 1
        /\ pos + Len(bytes) + 1 <= Len(d) + 1 /\ Len(d) <= Len(d)
    BY <1>1, <1>2
  <2>2. c \in Seq(Nat) /\ Len(c) = Len(d) - (pos + Len(bytes) + 1) + 1
    BY <1>1, <2>1, SubIs
  <2> QED
    BY <1>1, <1>2, <2>2
<1>5. q = [p EXCEPT !.data = a \o bytes \o c]
  BY <1>1 DEF Put
<1>6. q.data = a \o bytes \o c /\ q.pb = p.pb /\ q.length = p.length
  BY <1>1, <1>5 DEF Packets
<1> HIDE DEF a, c
<1>7. /\ a \o bytes \in Seq(Nat) /\ Len(a \o bytes) = pos + Len(bytes)
      /\ \A j \in 1 .. pos : (a \o bytes)[j] = d[j]
      /\ \A j \in 1 .. Len(bytes) : (a \o bytes)[pos + j] = bytes[j]
  <2>1. /\ a \o bytes \in Seq(Nat) /\ Len(a \o bytes) = Len(a) + Len(bytes)
        /\ \A j \in 1 .. Len(a) : (a \o bytes)[j] = a[j]
        /\ \A j \in 1 .. Len(bytes) : (a \o bytes)[Len(a) + j] = bytes[j]
    BY <1>3, Concat
  <2> HIDE DEF d
  <2> QED
    BY <1>3, <2>1
<1>8. PICK e \in Seq(Nat) : e = a \o bytes
  BY <1>7
<1>9. /\ Len(e) = pos + Len(bytes)
      /\ \A j \in 1 .. pos : e[j] = d[j]
      /\ \A j \in 1 .. Len(bytes) : e[pos + j] = bytes[j]
  BY <1>7, <1>8
<1>10. /\ e \o c \in Seq(Nat) /\ Len(e \o c) = Len(e) + Len(c)
       /\ \A j \in 1 .. Len(e) : (e \o c)[j] = e[j]
  BY <1>4, Concat
<1>11. q.data = e \o c
  BY <1>6, <1>8
<1>12. Len(e \o c) = Len(d)
  <2>1. PICK x \in Nat, y \in Nat : x = Len(bytes) /\ y = Len(d)
    BY <1>1, <1>2
  <2>2. Len(e) = pos + x /\ Len(c) = y - pos - x
    BY <1>4, <1>9, <2>1
  <2>3. (pos + x) + (y - pos - x) = y
    OBVIOUS
  <2> HIDE DEF d
  <2> QED
    BY <1>10, <2>1, <2>2, <2>3, Zenon
<1>13. q \in Packets
  <2>1. e \o c \in Seq(Nat)
    BY <1>10
  <2>2. q = [p EXCEPT !.data = e \o c]
    BY <1>5, <1>8
  <2> HIDE DEF q, d
  <2> QED
    BY <1>1, <2>1, <2>2 DEF Packets
<1>14. Size(q) = Size(p)
  BY <1>1, <1>11, <1>12 DEF Size
<1> HIDE DEF q
<1>15. Headed(q)
  BY <1>6, <1>13, <1>14 DEF Headed, IsStart
<1>16. ASSUME NEW j \in 1 .. pos PROVE q.data[j] = d[j]
  <2>1. j \in 1 .. Len(e)
    BY <1>2, <1>9
  <2> QED
    BY <1>9, <1>10, <1>11, <2>1
<1>17. ASSUME NEW j \in 1 .. Len(bytes) PROVE q.data[pos + j] = bytes[j]
  <2>1. pos + j \in 1 .. Len(e)
    BY <1>2, <1>9
  <2> QED
    BY <1>9, <1>10, <1>11, <2>1
<1> QED
  BY <1>6, <1>13, <1>14, <1>15, <1>16, <1>17 DEF q

PutAt(s, n, k, pos, bytes, t) ==
  /\ Shaped(s, n) /\ k \in 1 .. Len(s) /\ pos \in Nat /\ bytes \in Seq(Nat)
  /\ pos >= 4 /\ pos + Len(bytes) <= Size(s[k])
  /\ t = [s EXCEPT ![k] = Put(s[k], pos, bytes)]
LEMMA ShapedPut ==
  ASSUME NEW s, NEW n, NEW k, NEW pos, NEW bytes, NEW t,
         PutAt(s, n, k, pos, bytes, t)
  PROVE  /\ Shaped(t, n) /\ t \in Seq(Packets) /\ Len(t) = Len(s)
         /\ \A i \in 1 .. Len(s) : Size(t[i]) = Size(s[i])
         /\ \A i \in 1 .. Len(s) : i # k => t[i] = s[i]
         /\ \A j \in 1 .. pos : t[k].data[j] = s[k].data[j]
         /\ \A j \in 1 .. Len(bytes) : t[k].data[pos + j] = bytes[j]
<1> /\ Shaped(s, n) /\ k \in 1 .. Len(s) /\ pos \in Nat /\ bytes \in Seq(Nat)
    /\ pos >= 4 /\ pos + Len(bytes) <= Size(s[k])
    /\ t = [s EXCEPT ![k] = Put(s[k], pos, bytes)]
  BY DEF PutAt
<1>1. Chain(s) /\ s \in Seq(Packets) /\ Len(s) \in Nat
  BY DEF Shaped, Chain
<1>2. PICK p : p = s[k] /\ Headed(p)
  BY <1>1 DEF Chain
<1>3. PICK q : q = Put(p, pos, bytes)
  OBVIOUS
<1>4. /\ q \in Packets /\ Headed(q) /\ Size(q) = Size(p)
      /\ q.pb = p.pb /\ q.length = p.length
      /\ \A j \in 1 .. pos : q.data[j] = p.data[j]
      /\ \A j \in 1 .. Len(bytes) : q.data[pos + j] = bytes[j]
  BY <1>2, <1>3, PutIs
<1>5. t = [s EXCEPT ![k] = q]
  BY <1>1, <1>2, <1>3
<1>6. /\ t \in Seq(Packets) /\ Len(t) = Len(s) /\ t[k] = q
      /\ \A i \in 1 .. Len(s) : i # k => t[i] = s[i]
  BY <1>1, <1>4, <1>5
<1>7. ASSUME NEW i \in 1 .. Len(s)
      PROVE  /\ Headed(t[i]) /\ Size(t[i]) = Size(s[i])
             /\ t[i].length = s[i].length /\ (IsStart(t[i]) <=> IsStart(s[i]))
  <2>1. CASE i = k
    BY <1>2, <1>4, <1>6, <2>1 DEF IsStart
  <2>2. CASE i # k
    BY <1>1, <1>6, <2>2 DEF Chain
  <2> QED
    BY <2>1, <2>2
<1>8. Chain(t)
  BY <1>6, <1>7 DEF Chain
<1>9. PICK size : size = U16(L2CAP_HDR_LEN + n)
  OBVIOUS
<1>10. ASSUME NEW i \in 1 .. Len(t) PROVE LaidAt(t, size, i)
  <2>1. i \in 1 .. Len(s)
    BY <1>6
  <2>2. LaidAt(s, size, i)
    BY <1>9, <2>1 DEF Shaped
  <2> QED
    BY <1>7, <2>1, <2>2 DEF LaidAt
<1>11. Shaped(t, n)
  BY <1>6, <1>8, <1>9, <1>10 DEF Shaped
<1>12. /\ \A j \in 1 .. pos : t[k].data[j] = s[k].data[j]
       /\ \A j \in 1 .. Len(bytes) : t[k].data[pos + j] = bytes[j]
  BY <1>2, <1>4, <1>6, Zenon
<1> QED
  BY <1>6, <1>7, <1>11, <1>12

LEMMA LaidPut ==
  ASSUME NEW s, NEW n, NEW k, NEW pos, NEW bytes, NEW t,
         PutAt(s, n, k, pos, bytes, t), Laid(s, n), k = 1 => pos >= 8
  PROVE  /\ Laid(t, n) /\ t \in Seq(Packets) /\ Len(t) = Len(s)
         /\ \A i \in 1 .. Len(s) : Size(t[i]) = Size(s[i])
<1>1. /\ Shaped(t, n) /\ t \in Seq(Packets) /\ Len(t) = Len(s)
      /\ \A i \in 1 .. Len(s) : Size(t[i]) = Size(s[i])
      /\ \A i \in 1 .. Len(s) : i # k => t[i] = s[i]
      /\ \A j \in 1 .. pos : t[k].data[j] = s[k].data[j]
  BY ShapedPut
<1>2. k \in 1 .. Len(s) /\ s \in Seq(Packets) /\ pos \in Nat
  BY DEF PutAt, Shaped, Chain
<1>3. Total(t[1]) = Total(s[1])
  <2>1. CASE k = 1
    <3>1. 5 \in 1 .. pos /\ 6 \in 1 .. pos
      BY <1>2, <2>1
    <3>2. t[1].data[5] = s[1].data[5] /\ t[1].data[6] = s[1].data[6]
      BY <1>1, <2>1, <3>1
    <3> QED
      BY <3>2 DEF Total, Word, ACL_HDR_LEN
  <2>2. CASE k # 1
    <3>1. 1 \in 1 .. Len(s)
      BY <1>2
    <3> QED
      BY <1>1, <2>2, <3>1
  <2> QED
    BY <2>1, <2>2
<1> QED
  BY <1>1, <1>3 DEF Laid

LEMMA SizeIs ==
  ASSUME NEW n \in Sizes
  PROVE  n \in Nat /\ n <= UINT16_MAX /\ U16(L2CAP_HDR_LEN + n) \in Nat
<1>1. n \in 0 .. UINT16_MAX
  BY SizesAssumption
<1>2. n \in Nat /\ L2CAP_HDR_LEN + n \in Nat
  BY <1>1 DEF L2CAP_HDR_LEN
<1>3. \A x \in Nat : U16(x) \in Nat
  BY DEF U16
<1> QED
  BY <1>1, <1>2, <1>3

Piece(m, n, a, k, bytes) ==
  /\ m \in Nat /\ n \in Nat /\ a \in Nat /\ k \in Nat /\ a + k <= n
  /\ bytes = SubSeq(Body(m, n), a + 1, a + k)
LEMMA BodyIs ==
  ASSUME NEW m, NEW n, NEW a, NEW k, NEW bytes, Piece(m, n, a, k, bytes)
  PROVE  bytes \in Seq(Nat) /\ Len(bytes) = k
<1> /\ m \in Nat /\ n \in Nat /\ a \in Nat /\ k \in Nat /\ a + k <= n
    /\ bytes = SubSeq(Body(m, n), a + 1, a + k)
  BY DEF Piece
<1>1. \A i \in 1 .. n : Byte(m, i) \in Nat
  BY DEF Byte
<1>2. Body(m, n) = [i \in 1 .. n |-> Byte(m, i)]
  BY DEF Body
<1>3. PICK b : b = Body(m, n)
  OBVIOUS
<1>4. b \in Seq(Nat) /\ Len(b) = n
  BY <1>1, <1>2, <1>3
<1>5. /\ a + 1 \in Nat /\ a + 1 >= 1 /\ a + 1 <= a + k + 1 /\ a + k <= Len(b)
      /\ a + k \in Nat
  BY <1>4
<1>6. SubSeq(b, a + 1, a + k) \in Seq(Nat)
      /\ Len(SubSeq(b, a + 1, a + k)) = (a + k) - (a + 1) + 1
  BY <1>4, <1>5, SubIs
<1>7. (a + k) - (a + 1) + 1 = k
  OBVIOUS
<1> QED
  BY <1>3, <1>6, <1>7

(* One turn of bte_buffer_writer_write.                                    *)
LEMMA WrittenIs ==
  ASSUME NEW w, Written(w)
  PROVE  /\ w.size \in Sizes /\ w.size \in Nat /\ w.channel \in Channels
         /\ w.done \in Nat /\ w.todo \in Nat /\ w.packet \in Nat /\ w.pos \in Nat
         /\ w.packet >= 1 /\ w.packet <= Len(w.chain) /\ Len(w.chain) \in Nat
         /\ w.chain \in Seq(Packets) /\ Laid(w.chain, w.size)
         /\ w.done + w.todo <= w.size
         /\ Headed(w.chain[w.packet]) /\ Size(w.chain[w.packet]) \in Nat
         /\ w.pos >= 4 /\ w.pos <= Size(w.chain[w.packet])
         /\ Before(w.packet) \in Nat /\ 4 + w.done = Before(w.packet) + w.pos - 4
         /\ w.packet = 1 => w.pos >= 8
<1>1. /\ w \in Writers /\ Laid(w.chain, w.size) /\ w.packet \in 1 .. Len(w.chain)
      /\ w.done + w.todo <= w.size /\ w.pos \in ACL_HDR_LEN .. Size(Here(w))
      /\ L2CAP_HDR_LEN + w.done = Before(w.packet) + w.pos - ACL_HDR_LEN
  BY DEF Written
<1>2. /\ w.size \in Sizes /\ w.done \in Nat /\ w.todo \in Nat /\ w.packet \in Nat
      /\ w.pos \in Nat /\ w.chain \in Seq(Packets) /\ w.channel \in Channels
  BY <1>1 DEF Writers
<1>3. Len(w.chain) \in Nat /\ w.packet >= 1 /\ w.packet <= Len(w.chain)
  BY <1>1, <1>2
<1>4. w.size \in Nat
  BY <1>2, SizeIs
<1>5. Headed(w.chain[w.packet])
  BY <1>1 DEF Laid, Shaped, Chain
<1>6. Size(w.chain[w.packet]) \in Nat
  BY <1>5, PayloadIs
<1>7. w.pos >= 4 /\ w.pos <= Size(w.chain[w.packet])
  BY <1>1, <1>6, Headers DEF Here
<1>8. Before(w.packet) \in Nat
  BY <1>2, <1>3, BeforeIs
<1>9. 4 + w.done = Before(w.packet) + w.pos - 4
  BY <1>1, Headers
<1>10. w.packet = 1 => w.pos >= 8
  <2>1. SUFFICES ASSUME w.packet = 1 PROVE w.pos >= 8
    OBVIOUS
  <2>2. 4 + w.done = 0 + w.pos - 4
    BY <1>9, <2>1, BeforeIs
  <2> QED
    BY <1>2, <2>2
<1> QED
  BY <1>1, <1>2, <1>3, <1>4, <1>5, <1>6, <1>7, <1>8, <1>9, <1>10

LEMMA WrittenBy ==
  ASSUME NEW w, w \in Writers, Laid(w.chain, w.size),
         w.packet >= 1, w.packet <= Len(w.chain),
         w.done + w.todo <= w.size, w.pos >= 4, w.pos <= Size(w.chain[w.packet]),
         4 + w.done = Before(w.packet) + w.pos - 4
  PROVE  Written(w)
<1>1. w.packet \in Nat /\ w.pos \in Nat /\ w.chain \in Seq(Packets)
  BY DEF Writers
<1>2. Len(w.chain) \in Nat /\ w.packet \in 1 .. Len(w.chain)
  BY <1>1
<1>3. Headed(w.chain[w.packet])
  BY <1>2 DEF Laid, Shaped, Chain
<1>4. Size(w.chain[w.packet]) \in Nat
  BY <1>3, PayloadIs
<1>5. w.pos \in 4 .. Size(w.chain[w.packet])
  BY <1>1, <1>4
<1> QED
  BY <1>2, <1>5, Headers DEF Written, Here

LEMMA StepIs ==
  ASSUME NEW c, NEW t \in Nat, c.pos \in Nat, Size(Here(c)) \in Nat,
         c.pos <= Size(Here(c))
  PROVE  /\ Step(c, t) \in Nat /\ Step(c, t) <= t
         /\ c.pos + Step(c, t) <= Size(Here(c))
         /\ Step(c, t) < t => c.pos + Step(c, t) = Size(Here(c))
<1>1. PICK pos \in Nat, size \in Nat : pos = c.pos /\ size = Size(Here(c))
  OBVIOUS
<1>2. Step(c, t) = IF pos + t <= size THEN t ELSE size - pos
  BY <1>1 DEF Step
<1>3. pos <= size
  BY <1>1
<1> QED
  BY <1>1, <1>2, <1>3

LEMMA FullPacket ==
  ASSUME NEW s, NEW n \in Sizes, Laid(s, n), NEW k \in Nat, k >= 1, k < Len(s)
  PROVE  Size(s[k]) = PacketSize
<1>1. PICK size \in Nat : size = U16(L2CAP_HDR_LEN + n)
  BY SizeIs
<1>2. PICK total : total = FragmentedSize(size)
  OBVIOUS
<1>3. Len(s) = CeilDiv(total, PacketSize) /\ s \in Seq(Packets)
  BY <1>1, <1>2 DEF Laid, Shaped, Chain
<1>4. Len(s) \in Nat /\ k \in 1 .. Len(s)
  BY <1>3
<1>5. k \in 1 .. CeilDiv(total, PacketSize) /\ k < CeilDiv(total, PacketSize)
  BY <1>3, <1>4
<1>6. /\ (k - 1) * PacketSize \in Nat /\ total \in Nat
      /\ (k - 1) * PacketSize + PacketSize < total
  BY <1>2, <1>5, LayoutAt
<1>7. PICK at \in Nat : at = (k - 1) * PacketSize /\ at + PacketSize < total
  BY <1>6
<1>8. LaidAt(s, size, k)
  BY <1>1, <1>4 DEF Laid, Shaped
<1>9. Size(s[k]) = Min({total - at, PacketSize})
  BY <1>2, <1>7, <1>8 DEF LaidAt
<1>10. total - at \in Int /\ PacketSize \in Int /\ ~(total - at <= PacketSize)
  BY <1>6, <1>7, RoomIs
<1>11. Min({total - at, PacketSize}) = IF total - at <= PacketSize THEN total - at
                                       ELSE PacketSize
  BY <1>10, MinOfTwo
<1> QED
  BY <1>9, <1>10, <1>11

Counts(size, done, todo, k, pos, before, len, room) ==
  /\ k >= 1 /\ k <= len /\ done + todo <= size /\ pos >= 4 /\ pos <= room
  /\ 4 + done = before + pos - 4
LEMMA TurnWritten ==
  ASSUME NEW w, Written(w), sent \in Nat, WriteTurn(w) # None
  PROVE  Written(WriteTurn(w))
<1>1. /\ w.size \in Sizes /\ w.channel \in Channels
      /\ w.chain \in Seq(Packets) /\ Laid(w.chain, w.size)
      /\ Headed(w.chain[w.packet]) /\ (w.packet = 1 => w.pos >= 8)
  BY WrittenIs
<1>2. PICK size \in Nat, done \in Nat, todo \in Nat, k \in Nat, pos \in Nat,
           before \in Nat, len \in Nat, room \in Nat :
        /\ size = w.size /\ done = w.done /\ todo = w.todo /\ k = w.packet
        /\ pos = w.pos /\ before = Before(k) /\ len = Len(w.chain)
        /\ room = Size(w.chain[k])
        /\ Counts(size, done, todo, k, pos, before, len, room)
  <2>1. /\ w.size \in Nat /\ w.done \in Nat /\ w.todo \in Nat /\ w.packet \in Nat
        /\ w.pos \in Nat /\ Before(w.packet) \in Nat /\ Len(w.chain) \in Nat
        /\ Size(w.chain[w.packet]) \in Nat
        /\ w.packet >= 1 /\ w.packet <= Len(w.chain) /\ w.done + w.todo <= w.size
        /\ w.pos >= 4 /\ w.pos <= Size(w.chain[w.packet])
        /\ 4 + w.done = Before(w.packet) + w.pos - 4
    BY WrittenIs
  <2>2. Counts(w.size, w.done, w.todo, w.packet, w.pos, Before(w.packet),
               Len(w.chain), Size(w.chain[w.packet]))
    BY <2>1, Zenon DEF Counts
  <2> QED
    BY <2>1, <2>2, Zenon
<1>30. /\ k >= 1 /\ k <= len /\ done + todo <= size /\ pos >= 4 /\ pos <= room
       /\ 4 + done = before + pos - 4
  BY <1>2, Zenon DEF Counts
<1>3. PICK n \in Nat : /\ n = Step(w, todo) /\ n <= todo /\ pos + n <= room
                       /\ n < todo => pos + n = room
  <2>1. Size(Here(w)) = room /\ w.pos = pos
    BY <1>2 DEF Here
  <2>2. /\ Step(w, todo) \in Nat /\ Step(w, todo) <= todo
        /\ pos + Step(w, todo) <= room
        /\ Step(w, todo) < todo => pos + Step(w, todo) = room
    BY <1>30, <2>1, StepIs
  <2> QED
    BY <2>2, Zenon
<1>31. n <= todo /\ pos + n <= room /\ (n < todo => pos + n = room)
  BY <1>3
<1>4. PICK bytes \in Seq(Nat) :
        /\ bytes = SubSeq(Body(sent, size), done + 1, done + n) /\ Len(bytes) = n
  <2>1. done + n <= size
    BY <1>30, <1>31
  <2> QED
    <3>1. PICK bytes : bytes = SubSeq(Body(sent, size), done + 1, done + n)
      OBVIOUS
    <3>2. bytes \in Seq(Nat) /\ Len(bytes) = n
      <4>1. Piece(sent, size, done, n, bytes)
        BY <2>1, <3>1 DEF Piece
      <4> QED
        BY <4>1, BodyIs, Zenon
    <3> QED
      BY <3>1, <3>2, Zenon
<1>5. PICK chain : chain = [w.chain EXCEPT ![k] = Put(w.chain[k], pos, bytes)]
  OBVIOUS
<1>6. /\ Laid(chain, size) /\ chain \in Seq(Packets) /\ Len(chain) = len
      /\ \A i \in 1 .. len : Size(chain[i]) = Size(w.chain[i])
  <2>1. /\ Laid(w.chain, size) /\ k \in 1 .. Len(w.chain) /\ (k = 1 => pos >= 8)
        /\ pos + Len(bytes) <= Size(w.chain[k])
    <3>1. k \in 1 .. len /\ pos + n <= room
      BY <1>30, <1>31
    <3>2. Laid(w.chain, size) /\ (k = 1 => pos >= 8)
      BY <1>1, <1>2, Zenon
    <3>3. k \in 1 .. Len(w.chain) /\ pos + Len(bytes) <= Size(w.chain[k])
      BY <1>2, <1>4, <3>1, Zenon
    <3> QED
      BY <3>2, <3>3
  <2>2. pos >= 4
    BY <1>30
  <2> QED
    <3>1. PICK c : c = w.chain
      OBVIOUS
    <3>2. /\ Laid(c, size) /\ k \in 1 .. Len(c) /\ (k = 1 => pos >= 8)
          /\ pos + Len(bytes) <= Size(c[k])
      BY <2>1, <3>1
    <3>3. chain = [c EXCEPT ![k] = Put(c[k], pos, bytes)] /\ len = Len(c)
      BY <1>2, <1>5, <3>1, Zenon
    <3>4. /\ Laid(chain, size) /\ chain \in Seq(Packets) /\ Len(chain) = Len(c)
          /\ \A i \in 1 .. Len(c) : Size(chain[i]) = Size(c[i])
      <4>1. PutAt(c, size, k, pos, bytes, chain)
        BY <2>2, <3>2, <3>3 DEF PutAt, Laid
      <4> QED
        BY <3>2, <4>1, LaidPut
    <3> QED
      BY <3>1, <3>3, <3>4, Zenon
<1>7. PICK v : v = [w EXCEPT !.chain[w.packet] = Put(@, w.pos, bytes),
                             !.pos = @ + n, !.done = @ + n, !.todo = @ - n]
  OBVIOUS
<1>8. v = [some |-> TRUE, channel |-> w.channel, size |-> size,
           done |-> done + n, todo |-> todo - n, packet |-> k,
           pos |-> pos + n, chain |-> chain]
  <2>1. w = [some |-> TRUE, channel |-> w.channel, size |-> w.size,
             done |-> w.done, todo |-> w.todo, packet |-> w.packet,
             pos |-> w.pos, chain |-> w.chain]
    BY DEF Written, Writers
  <2>2. PICK ch, c : ch = w.channel /\ c = w.chain
    OBVIOUS
  <2>3. w = [some |-> TRUE, channel |-> ch, size |-> size, done |-> done,
             todo |-> todo, packet |-> k, pos |-> pos, chain |-> c]
    BY <1>2, <2>1, <2>2, Zenon
  <2>4. v = [w EXCEPT !.chain[k] = Put(@, pos, bytes),
                      !.pos = @ + n, !.done = @ + n, !.todo = @ - n]
    BY <1>2, <1>7, Zenon
  <2>5. v = [some |-> TRUE, channel |-> ch, size |-> size, done |-> done + n,
             todo |-> todo - n, packet |-> k, pos |-> pos + n,
             chain |-> [c EXCEPT ![k] = Put(c[k], pos, bytes)]]
    BY <2>3, <2>4
  <2> QED
    BY <1>5, <2>2, <2>5, Zenon
<1>9. todo - n \in Nat /\ done + n \in Nat /\ pos + n \in Nat /\ size \in Sizes
  <2>1. todo - n \in Nat /\ done + n \in Nat /\ pos + n \in Nat
    BY <1>30, <1>31
  <2> QED
    BY <1>1, <1>2, <2>1
<1>10. /\ v \in Writers /\ v.chain = chain /\ v.size = size /\ v.packet = k
       /\ v.done = done + n /\ v.todo = todo - n /\ v.pos = pos + n
  <2>1. w.channel \in Channels
    BY <1>1
  <2> QED
    BY <1>6, <1>8, <1>9, <2>1 DEF Writers
<1>11. Size(chain[k]) = room
  BY <1>2, <1>30, <1>6
<1>12. Written(v)
  <2>1. Laid(v.chain, v.size) /\ v.packet >= 1 /\ v.packet <= Len(v.chain)
    BY <1>30, <1>6, <1>10
  <2>2. (done + n) + (todo - n) <= size /\ pos + n >= 4
        /\ 4 + (done + n) = before + (pos + n) - 4
    BY <1>30, <1>31
  <2>3. /\ v.done + v.todo <= v.size /\ v.pos >= 4 /\ v.pos <= Size(v.chain[v.packet])
        /\ 4 + v.done = Before(v.packet) + v.pos - 4
    BY <1>2, <1>3, <1>10, <1>11, <2>2
  <2> QED
    BY <1>10, <2>1, <2>3, WrittenBy
<1>13. WriteTurn(w) = CASE v.todo = 0 -> v
                        [] v.todo > 0 /\ HasNext(w) -> MoveOn(v)
                        [] OTHER -> None
  BY <1>2, <1>3, <1>4, <1>7, Zenon DEF WriteTurn
<1>14. v.todo \in Nat
  BY <1>9, <1>10
<1>15. CASE v.todo = 0
  BY <1>12, <1>13, <1>15
<1>16. CASE v.todo > 0 /\ HasNext(w)
  <2>1. ~(v.todo = 0) /\ WriteTurn(w) = MoveOn(v)
    BY <1>13, <1>14, <1>16
  <2>2. PICK u : u = MoveOn(v)
    OBVIOUS
  <2>3. u = [some |-> TRUE, channel |-> w.channel, size |-> size,
             done |-> done + n, todo |-> todo - n, packet |-> k + 1,
             pos |-> 4, chain |-> chain]
    BY <1>8, <2>2, Headers DEF MoveOn
  <2>4. /\ u \in Writers /\ u.chain = chain /\ u.size = size
        /\ u.packet = k + 1 /\ u.pos = 4
        /\ u.done = done + n /\ u.todo = todo - n
    <3>1. w.channel \in Channels /\ k + 1 \in Nat /\ 4 \in Nat
      BY <1>1
    <3> QED
      BY <1>6, <1>9, <2>3, <3>1 DEF Writers
  <2>5. k < len /\ k + 1 \in 1 .. Len(chain)
    <3>1. k < len
      BY <1>2, <1>16 DEF HasNext
    <3>2. k + 1 \in 1 .. len
      BY <1>30, <3>1
    <3> QED
      BY <1>6, <3>1, <3>2
  <2>6. Headed(chain[k + 1])
    BY <1>6, <2>5 DEF Laid, Shaped, Chain
  <2>7. 4 <= Size(chain[k + 1])
    BY <2>6, PayloadIs, Headers
  <2>8. room = PacketSize
    <3>1. Size(w.chain[k]) = PacketSize
      <4>1. Laid(w.chain, size) /\ k < Len(w.chain) /\ size \in Sizes /\ k >= 1
        BY <1>1, <1>2, <1>30, <2>5
      <4> QED
        BY <4>1, FullPacket
    <3> QED
      BY <1>2, <3>1
  <2>9. pos + n = room
    BY <1>3, <1>9, <1>10, <1>16
  <2>10. Before(k + 1) = before + Room
    <3>1. before = Before(k)
      BY <1>2
    <3> QED
      BY <1>30, <3>1, BeforeIs
  <2>11. 4 + (done + n) = (before + Room) + 4 - 4 /\ (done + n) + (todo - n) <= size
    BY <1>30, <1>31, <2>8, <2>9, RoomIs
  <2>12. /\ Laid(u.chain, u.size) /\ u.packet >= 1 /\ u.packet <= Len(u.chain)
         /\ u.done + u.todo <= u.size /\ u.pos >= 4 /\ u.pos <= Size(u.chain[u.packet])
         /\ 4 + u.done = Before(u.packet) + u.pos - 4
    BY <1>6, <2>4, <2>5, <2>7, <2>10, <2>11
  <2>13. Written(u)
    BY <2>4, <2>12, WrittenBy
  <2> QED
    BY <2>1, <2>2, <2>13
<1> QED
  BY <1>13, <1>14, <1>15, <1>16

(* A message that was just made.                                           *)
LEMMA ZerosAre ==
  ASSUME NEW n \in Nat
  PROVE  Zeros(n) \in Seq(Nat) /\ Len(Zeros(n)) = n
  BY DEF Zeros

LEMMA LayoutIs ==
  ASSUME NEW n \in Sizes, NEW s, s = Layout(U16(L2CAP_HDR_LEN + n)), TakesHeaders(s)
  PROVE  Shaped(s, n) /\ Len(s) \in Nat /\ Len(s) >= 1 /\ Size(s[1]) >= 8
<1>1. PICK size \in Nat : size = U16(L2CAP_HDR_LEN + n)
  BY SizeIs
<1>2. PICK total : total = FragmentedSize(size)
  OBVIOUS
<1>3. PICK N : N = CeilDiv(total, PacketSize)
  OBVIOUS
<1> DEFINE L(i) == Min({size - (i - 1) * Room, Room})
           D(i) == Min({total - (i - 1) * PacketSize, PacketSize})
           P(i) == [pb     |-> IF i = 1 THEN FIRST_FLUSH ELSE CONTINUATION,
                    length |-> L(i), data |-> Zeros(D(i))]
<1>4. s = [i \in 1 .. N |-> P(i)]
  BY <1>1, <1>2, <1>3, Zenon DEF Layout
<1>5. \A i \in 1 .. N : L(i) \in Nat /\ D(i) \in Nat
  <2> SUFFICES ASSUME NEW i \in 1 .. N PROVE L(i) \in Nat /\ D(i) \in Nat
    OBVIOUS
  <2>1. /\ (i - 1) * Room \in Nat /\ (i - 1) * Room < size
        /\ (i - 1) * PacketSize \in Nat /\ (i - 1) * PacketSize < total
        /\ total \in Nat
    BY <1>2, <1>3, LayoutAt
  <2>2. PICK x \in Nat, y \in Nat :
          /\ x = (i - 1) * Room /\ x < size
          /\ y = (i - 1) * PacketSize /\ y < total
    BY <2>1, Zenon
  <2>3. size - x \in Nat /\ total - y \in Nat /\ Room \in Nat /\ PacketSize \in Nat
    BY <2>1, <2>2, RoomIs
  <2>4. Min({size - x, Room}) \in Nat /\ Min({total - y, PacketSize}) \in Nat
    <3>1. /\ size - x \in Int /\ total - y \in Int /\ Room \in Int
          /\ PacketSize \in Int
      BY <2>3
    <3>2. /\ Min({size - x, Room}) = IF size - x <= Room THEN size - x ELSE Room
          /\ Min({total - y, PacketSize})
             = IF total - y <= PacketSize THEN total - y ELSE PacketSize
      BY <3>1, MinOfTwo
    <3> QED
      BY <2>3, <3>2
  <2> QED
    BY <2>2, <2>4, Zenon
<1>6. N \in Nat
  <2>1. PICK x \in Nat : x = CeilDiv(size, Room) * PacketSize
    <3>1. CeilDiv(size, Room) \in Nat
      BY RoomIs, CeilDivIs
    <3> QED
      BY <3>1, RoomIs
  <2>2. total \in Nat
    BY <1>2, <2>1, Wrapped DEF FragmentedSize, U16
  <2> QED
    BY <1>3, <2>2, RoomIs, CeilDivIs
<1> HIDE DEF L, D
<1>7. \A i \in 1 .. N : P(i) \in Packets
  <2> SUFFICES ASSUME NEW i \in 1 .. N PROVE P(i) \in Packets
    OBVIOUS
  <2>1. L(i) \in Nat /\ Zeros(D(i)) \in Seq(Nat)
    BY <1>5, ZerosAre
  <2> QED
    BY <2>1 DEF Packets
<1>8. s \in Seq(Packets) /\ Len(s) = N /\ \A i \in 1 .. N : s[i] = P(i)
  <2> HIDE DEF P
  <2> QED
    BY <1>4, <1>6, <1>7
<1>9. ASSUME NEW i \in 1 .. N
      PROVE  /\ Headed(s[i]) /\ (IsStart(s[i]) <=> i = 1) /\ s[i].length = L(i)
             /\ Size(s[i]) = D(i)
             /\ Size(s[i]) >= ACL_HDR_LEN + IF i = 1 THEN L2CAP_HDR_LEN ELSE 0
  <2>1. s[i] = P(i)
    BY <1>8
  <2>2. IsStart(s[i]) <=> i = 1
    BY <2>1 DEF IsStart, FIRST_FLUSH, CONTINUATION
  <2>3. s[i].length = L(i) /\ Size(s[i]) = D(i)
    <3>1. s[i].length = L(i) /\ s[i].data = Zeros(D(i))
      BY <2>1
    <3>2. Len(Zeros(D(i))) = D(i)
      BY <1>5, ZerosAre
    <3> QED
      BY <3>1, <3>2 DEF Size
  <2>4. Size(s[i]) >= ACL_HDR_LEN + IF i = 1 THEN L2CAP_HDR_LEN ELSE 0
    <3>1. i \in DOMAIN s
      BY <1>4
    <3> QED
      BY <3>1 DEF TakesHeaders
  <2>5. Headed(s[i])
    <3>1. s[i] \in Packets
      BY <1>7, <2>1
    <3> QED
      BY <2>2, <2>4, <3>1 DEF Headed
  <2> QED
    BY <2>2, <2>3, <2>4, <2>5
<1>10. Chain(s)
  BY <1>8, <1>9 DEF Chain
<1>11. \A i \in 1 .. Len(s) : LaidAt(s, size, i)
  BY <1>2, <1>8, <1>9, Zenon DEF LaidAt, L, D
<1>12. Shaped(s, n)
  BY <1>1, <1>2, <1>3, <1>8, <1>10, <1>11 DEF Shaped
<1>13. N >= 1
  <2>1. s # << >>
    BY DEF TakesHeaders
  <2> QED
    BY <1>6, <1>8, <2>1
<1>14. Size(s[1]) >= 8
  <2>1. 1 \in 1 .. N
    BY <1>6, <1>13
  <2>2. Size(s[1]) >= ACL_HDR_LEN + IF 1 = 1 THEN L2CAP_HDR_LEN ELSE 0
    BY <1>9, <2>1
  <2> QED
    BY <2>2, Headers
<1> QED
  BY <1>6, <1>8, <1>12, <1>13, <1>14

LEMMA Low ==
  ASSUME NEW n \in Nat
  PROVE  n % 256 \in Nat /\ n \div 256 \in Nat /\ n = (n % 256) + 256 * (n \div 256)
  OBVIOUS

LEMMA ChannelIs ==
  ASSUME NEW c \in Channels
  PROVE  c \in Nat
<1>1. c \in 0 .. UINT16_MAX
  BY ChannelsAssumption
<1> QED
  BY <1>1

LEMMA HeaderIs ==
  ASSUME NEW n \in Nat, NEW c \in Nat, NEW h, h = L2capHeader(n, c)
  PROVE  /\ h \in Seq(Nat) /\ Len(h) = 4
         /\ h[1] = n % 256 /\ h[2] = n \div 256
<1>1. PICK a \in Nat, b \in Nat : a = n % 256 /\ b = n \div 256
  BY Low
<1>2. PICK d \in Nat, e \in Nat : d = c % 256 /\ e = c \div 256
  BY Low
<1>3. h = <<a, b, d, e>>
  BY <1>1, <1>2, Zenon DEF L2capHeader
<1>4. h \in Seq(Nat) /\ Len(h) = 4 /\ h[1] = a /\ h[2] = b
  BY <1>3
<1> QED
  BY <1>1, <1>4

LEMMA WriterType ==
  ASSUME NEW c \in Channels, NEW n \in Sizes, NEW done \in Nat, NEW todo \in Nat,
         NEW k \in Nat, NEW pos \in Nat, NEW s \in Seq(Packets)
  PROVE  [some |-> TRUE, channel |-> c, size |-> n, done |-> done, todo |-> todo,
          packet |-> k, pos |-> pos, chain |-> s] \in Writers
  BY DEF Writers

LEMMA CreatedWritten ==
  ASSUME NEW c \in Channels, NEW n \in Sizes, NEW s,
         s = Layout(U16(L2CAP_HDR_LEN + n)), TakesHeaders(s), NEW w,
         w = [some |-> TRUE, channel |-> c, size |-> n, done |-> 0,
              todo |-> 0, packet |-> 1, pos |-> ACL_HDR_LEN + L2CAP_HDR_LEN,
              chain |-> [s EXCEPT ![1] = Put(@, ACL_HDR_LEN, L2capHeader(n, c))]]
  PROVE  Written(w)
<1>1. Shaped(s, n) /\ Len(s) \in Nat /\ Len(s) >= 1 /\ Size(s[1]) >= 8
  BY LayoutIs
<1>2. n \in Nat /\ c \in Nat
  BY SizeIs, ChannelIs
<1>3. PICK h \in Seq(Nat) : /\ h = L2capHeader(n, c) /\ Len(h) = 4
                            /\ h[1] = n % 256 /\ h[2] = n \div 256
  BY <1>2, HeaderIs
<1>4. PICK t : t = [s EXCEPT ![1] = Put(s[1], 4, h)]
  OBVIOUS
<1>5. PutAt(s, n, 1, 4, h, t)
  <2>1. 1 \in 1 .. Len(s) /\ 4 \in Nat /\ 4 >= 4
    BY <1>1
  <2>2. 4 + Len(h) <= Size(s[1])
    <3>1. Size(s[1]) \in Nat
      BY <1>1, <2>1, PayloadIs DEF Shaped, Chain
    <3> QED
      BY <1>1, <1>3, <3>1
  <2> QED
    BY <1>1, <1>4, <2>1, <2>2 DEF PutAt
<1>6. /\ Shaped(t, n) /\ t \in Seq(Packets) /\ Len(t) = Len(s)
      /\ Size(t[1]) = Size(s[1])
      /\ \A j \in 1 .. Len(h) : t[1].data[4 + j] = h[j]
  BY <1>1, <1>5, ShapedPut
<1>7. Total(t[1]) = 4 + n
  <2>1. t[1].data[4 + 1] = h[1] /\ t[1].data[4 + 2] = h[2]
    BY <1>3, <1>6, SMTT(40)
  <2>2. t[1].data[5] = n % 256 /\ t[1].data[6] = n \div 256
    BY <1>3, <2>1
  <2>3. Total(t[1]) = t[1].data[5] + 256 * t[1].data[6] + 4
    BY DEF Total, Word, ACL_HDR_LEN, L2CAP_HDR_LEN
  <2>4. Total(t[1]) = (n % 256) + 256 * (n \div 256) + 4
    BY <2>2, <2>3, Zenon
  <2>5. n = (n % 256) + 256 * (n \div 256)
    BY <1>2, Low
  <2>6. Total(t[1]) = n + 4
    BY <2>4, <2>5, Zenon
  <2> QED
    BY <1>2, <2>6
<1>8. Laid(t, n)
  BY <1>6, <1>7, Headers DEF Laid
<1>9. w = [some |-> TRUE, channel |-> c, size |-> n, done |-> 0,
           todo |-> 0, packet |-> 1, pos |-> 8, chain |-> t]
  BY <1>3, <1>4, Headers
<1>10. /\ w \in Writers /\ w.size = n /\ w.done = 0 /\ w.todo = 0
       /\ w.packet = 1 /\ w.pos = 8 /\ w.chain = t
  <2>1. 0 \in Nat /\ 1 \in Nat /\ 8 \in Nat /\ t \in Seq(Packets)
    BY <1>6
  <2>2. PICK zero \in Nat, one \in Nat, eight \in Nat :
          zero = 0 /\ one = 1 /\ eight = 8
    BY <2>1
  <2>3. w = [some |-> TRUE, channel |-> c, size |-> n, done |-> zero,
             todo |-> zero, packet |-> one, pos |-> eight, chain |-> t]
    BY <1>9, <2>2, Zenon
  <2>4. w \in Writers
    <3>1. [some |-> TRUE, channel |-> c, size |-> n, done |-> zero,
           todo |-> zero, packet |-> one, pos |-> eight, chain |-> t] \in Writers
      BY <2>1, WriterType
    <3> QED
      BY <2>3, <3>1, Zenon
  <2> QED
    BY <1>9, <2>4
<1>11. /\ w.packet >= 1 /\ w.packet <= Len(w.chain)
       /\ w.done + w.todo <= w.size /\ w.pos >= 4
       /\ w.pos <= Size(w.chain[w.packet])
       /\ 4 + w.done = Before(w.packet) + w.pos - 4
  <2>1. 8 <= Size(t[1]) /\ 1 <= Len(t)
    <3>1. 1 \in 1 .. Len(t) /\ 1 <= Len(t)
      BY <1>1, <1>6
    <3>2. Size(t[1]) \in Nat
      BY <1>6, <3>1, PayloadIs DEF Shaped, Chain
    <3> QED
      BY <1>1, <1>6, <3>1, <3>2
  <2> QED
    <3>1. /\ 1 >= 1 /\ 0 + 0 <= n /\ 8 >= 4 /\ 4 + 0 = 0 + 8 - 4
      BY <1>2
    <3>2. Before(1) = 0
      BY BeforeIs
    <3> QED
      BY <1>10, <2>1, <3>1, <3>2, Zenon
<1> QED
  BY <1>8, <1>10, <1>11, WrittenBy

LEMMA BeforeMono ==
  ASSUME NEW i \in Nat, NEW k \in Nat, i >= 1, i <= k
  PROVE  Before(i) <= Before(k)
<1>1. i - 1 \in Nat /\ k - 1 \in Nat /\ i - 1 <= k - 1
  OBVIOUS
<1>2. (i - 1) * Room <= (k - 1) * Room
  BY <1>1, RoomIs, Products
<1> QED
  BY <1>2 DEF Before

CutAt(s, k, pos, t) ==
  /\ s \in Seq(Packets) /\ k \in 1 .. Len(s) /\ pos \in Nat
  /\ pos <= Size(s[k]) /\ pos >= 1
  /\ t = [s EXCEPT ![k].data = SubSeq(@, 1, pos)]
LEMMA Shortened ==
  ASSUME NEW s, NEW k, NEW pos, NEW t, CutAt(s, k, pos, t)
  PROVE  /\ t \in Seq(Packets) /\ Len(t) = Len(s)
         /\ \A i \in 1 .. Len(s) : i # k => t[i] = s[i]
         /\ Size(t[k]) = pos /\ t[k].pb = s[k].pb /\ t[k].length = s[k].length
         /\ \A j \in 1 .. pos : t[k].data[j] = s[k].data[j]
<1>0. /\ s \in Seq(Packets) /\ k \in 1 .. Len(s) /\ pos \in Nat
      /\ pos <= Size(s[k]) /\ pos >= 1 /\ Len(s) \in Nat
      /\ t = [s EXCEPT ![k].data = SubSeq(@, 1, pos)]
  BY DEF CutAt
<1>1. PICK p \in Packets : p = s[k]
  BY <1>0
<1>2. p.data \in Seq(Nat) /\ Size(p) = Len(p.data) /\ Len(p.data) \in Nat
  BY DEF Packets, Size
<1>3. PICK d : d = SubSeq(p.data, 1, pos)
  OBVIOUS
<1>4. d \in Seq(Nat) /\ Len(d) = pos /\ \A j \in 1 .. pos : d[j] = p.data[j]
  <2>1. PICK e \in Seq(Nat) : e = p.data
    BY <1>2
  <2>2. 1 \in Nat /\ 1 >= 1 /\ 1 <= pos + 1 /\ pos <= Len(e)
    BY <1>0, <1>1, <1>2, <2>1
  <2>3. /\ SubSeq(e, 1, pos) \in Seq(Nat) /\ Len(SubSeq(e, 1, pos)) = pos - 1 + 1
        /\ \A j \in 1 .. pos - 1 + 1 : SubSeq(e, 1, pos)[j] = e[1 + j - 1]
    BY <1>0, <2>2, SubIs
  <2>4. pos - 1 + 1 = pos /\ \A j \in 1 .. pos : 1 + j - 1 = j
    BY <1>0
  <2>5. d = SubSeq(e, 1, pos)
    BY <1>3, <2>1
  <2> QED
    BY <2>1, <2>3, <2>4, <2>5
<1>5. PICK q : q = [p EXCEPT !.data = d]
  OBVIOUS
<1>6. q \in Packets /\ q.data = d /\ q.pb = p.pb /\ q.length = p.length
  BY <1>4, <1>5 DEF Packets
<1>7. t = [s EXCEPT ![k] = q]
  BY <1>0, <1>1, <1>3, <1>5
<1>8. /\ t \in Seq(Packets) /\ Len(t) = Len(s) /\ t[k] = q
      /\ \A i \in 1 .. Len(s) : i # k => t[i] = s[i]
  <2>1. s \in Seq(Packets) /\ k \in 1 .. Len(s) /\ Len(s) \in Nat
    BY <1>0
  <2> QED
    BY <1>6, <1>7, <2>1
<1>9. Size(t[k]) = pos
  BY <1>4, <1>6, <1>8 DEF Size
<1> QED
  BY <1>1, <1>4, <1>6, <1>8, <1>9

(* What bte_l2cap_send_message hands on: the packets of the message, the   *)
(* last one cut to what was written.                                       *)
EndedAt(t, w, k, pos, i) ==
  /\ Proper(t[i]) /\ (IsStart(t[i]) <=> i = 1)
  /\ Size(t[i]) = IF i = k THEN pos ELSE PacketSize
  /\ t[i].length = IF i = k THEN pos - 4 ELSE Room
  /\ \A j \in 1 .. Size(t[i]) : t[i].data[j] = w.chain[i].data[j]
Ended(t, w, n, k, pos) ==
  /\ n = w.size /\ k = w.packet /\ pos = w.pos
  /\ n \in Nat /\ k \in Nat /\ pos \in Nat /\ k >= 1 /\ pos > 4
  /\ t \in Seq(Packets) /\ Len(t) = k /\ Total(t[1]) = 4 + n
  /\ Before(k) \in Nat /\ 4 + n = Before(k) + pos - 4 /\ (k = 1 => pos >= 8)
  /\ \A i \in 1 .. k : EndedAt(t, w, k, pos, i)

LEMMA SentEnds ==
  ASSUME NEW w, Written(w), w.todo = 0, w.done = w.size
  PROVE  \E n, k, pos : Ended(WriterEnd(w), w, n, k, pos)
<1>1. PICK s \in Seq(Packets) : s = w.chain
  BY WrittenIs
<1>2. PICK n \in Sizes, k \in Nat, pos \in Nat : n = w.size /\ k = w.packet /\ pos = w.pos
  BY WrittenIs
<1>3. /\ n \in Nat /\ n <= UINT16_MAX
  BY SizeIs
<1>4. /\ k >= 1 /\ k <= Len(s) /\ Len(s) \in Nat /\ Laid(s, n) /\ Size(s[k]) \in Nat
      /\ pos >= 4 /\ pos <= Size(s[k]) /\ Before(k) \in Nat
      /\ 4 + n = Before(k) + pos - 4 /\ (k = 1 => pos >= 8)
  <2>1. w.done = n
    BY <1>2
  <2> QED
    BY <1>1, <1>2, <2>1, WrittenIs
<1>5. k \in 1 .. Len(s)
  BY <1>4
<1>6. PICK size \in Nat : size = U16(L2CAP_HDR_LEN + n)
  BY SizeIs
<1>7. PICK total : total = FragmentedSize(size)
  OBVIOUS
<1>8. /\ Len(s) = CeilDiv(total, PacketSize) /\ Total(s[1]) = 4 + n
      /\ \A i \in 1 .. Len(s) : Headed(s[i]) /\ LaidAt(s, size, i)
  BY <1>4, <1>6, <1>7, Headers DEF Laid, Shaped, Chain
<1>9. pos <= PacketSize
  <2>1. PICK x : x = total - (k - 1) * PacketSize
    OBVIOUS
  <2>2. LaidAt(s, size, k)
    BY <1>5, <1>8
  <2>3. Size(s[k]) = Min({x, PacketSize})
    BY <1>7, <2>1, <2>2 DEF LaidAt
  <2>4. (k - 1) * PacketSize \in Nat /\ total \in Nat
    <3>1. k \in 1 .. CeilDiv(total, PacketSize)
      BY <1>5, <1>8
    <3> QED
      BY <1>7, <3>1, LayoutAt
  <2>5. x \in Int
    BY <2>1, <2>4
  <2>6. Min({x, PacketSize}) = IF x <= PacketSize THEN x ELSE PacketSize
    BY <2>5, RoomIs, MinOfTwo
  <2> QED
    BY <1>4, <2>3, <2>5, <2>6, RoomIs
<1>10. /\ size = 4 + n /\ k = Len(s) /\ Before(k) < size
  <2>1. WrittenTo(n, k, pos, size, total)
    <3>1. k <= CeilDiv(total, PacketSize)
      BY <1>4, <1>8
    <3>2. L2CAP_HDR_LEN + n = (k - 1) * Room + pos - ACL_HDR_LEN
      BY <1>4, Headers, Zenon DEF Before
    <3> QED
      BY <1>3, <1>4, <1>6, <1>7, <1>9, <3>1, <3>2 DEF WrittenTo
  <2>2. /\ size = L2CAP_HDR_LEN + n /\ k = CeilDiv(total, PacketSize)
        /\ (k - 1) * Room < size
    BY <2>1, LaidOut
  <2> QED
    BY <1>8, <2>2, Headers DEF Before
<1>11. PICK t : t = [s EXCEPT ![k].data = SubSeq(@, 1, pos)]
  OBVIOUS
<1>12. WriterEnd(w) = t
  BY <1>1, <1>2, <1>11, Zenon DEF WriterEnd
<1>13. /\ t \in Seq(Packets) /\ Len(t) = k
       /\ \A i \in 1 .. k : i # k => t[i] = s[i]
       /\ Size(t[k]) = pos /\ t[k].pb = s[k].pb /\ t[k].length = s[k].length
       /\ \A j \in 1 .. pos : t[k].data[j] = s[k].data[j]
  <2>1. pos >= 1
    BY <1>4
  <2> QED
    <3>1. CutAt(s, k, pos, t)
      BY <1>4, <1>5, <1>11, <2>1 DEF CutAt
    <3> QED
      BY <1>10, <3>1, Shortened
<1>14. ASSUME NEW i \in 1 .. k
       PROVE  /\ t[i] \in Packets /\ (IsStart(t[i]) <=> i = 1)
              /\ Size(t[i]) = IF i = k THEN pos ELSE PacketSize
              /\ t[i].length = IF i = k THEN pos - 4 ELSE Room
  <2>1. i \in 1 .. Len(s) /\ i \in Nat /\ i >= 1 /\ i <= k
    BY <1>10
  <2>2. LaidAt(s, size, i)
    BY <1>8, <2>1
  <2>3. /\ Before(i) \in Nat /\ Before(i) <= Before(k)
        /\ (i < k => Before(i) + Room <= Before(k))
    <3>1. Before(i) \in Nat /\ Before(i) <= Before(k)
      BY <2>1, BeforeIs, BeforeMono
    <3>2. ASSUME i < k PROVE Before(i) + Room <= Before(k)
      <4>1. i + 1 \in Nat /\ i + 1 >= 1 /\ i + 1 <= k
        BY <2>1, <3>2
      <4>2. Before(i + 1) <= Before(k)
        BY <4>1, BeforeMono
      <4>3. Before(i + 1) = Before(i) + Room
        BY <2>1, BeforeIs
      <4> QED
        BY <4>2, <4>3
    <3> QED
      BY <3>1, <3>2
  <2>4. s[i].length = Min({size - Before(i), Room}) /\ (IsStart(s[i]) <=> i = 1)
    BY <2>2 DEF LaidAt, Before
  <2>5. size - Before(i) \in Int /\ Room \in Int
    BY <2>3, RoomIs
  <2>6. Min({size - Before(i), Room})
        = IF size - Before(i) <= Room THEN size - Before(i) ELSE Room
    BY <2>5, MinOfTwo
  <2>7. t[i] \in Packets
    BY <1>13
  <2>8. CASE i = k
    <3>1. size - Before(k) = pos - 4 /\ pos - 4 <= Room
      BY <1>3, <1>4, <1>9, <1>10, RoomIs
    <3>2. s[k].length = pos - 4
      BY <2>4, <2>6, <2>8, <3>1
    <3>3. IsStart(t[k]) <=> IsStart(s[k])
      BY <1>13 DEF IsStart
    <3> QED
      BY <1>13, <2>4, <2>7, <2>8, <3>2, <3>3
  <2>9. CASE i # k
    <3>1. i < k /\ i < Len(s)
      BY <1>10, <2>1, <2>9
    <3>2. t[i] = s[i]
      BY <1>13, <2>9
    <3>3. Size(s[i]) = PacketSize
      BY <1>4, <2>1, <3>1, FullPacket
    <3>4. s[i].length = Room
      BY <1>4, <1>10, <2>3, <2>4, <2>6, <3>1, RoomIs, SMTT(40)
    <3> QED
      BY <2>4, <2>7, <2>9, <3>2, <3>3, <3>4
  <2> QED
    BY <2>8, <2>9
<1>15. pos > 4
  BY <1>3, <1>4, <1>10
<1>16. ASSUME NEW i \in 1 .. k PROVE Proper(t[i])
  <2>1. /\ t[i] \in Packets /\ (IsStart(t[i]) <=> i = 1)
        /\ Size(t[i]) = IF i = k THEN pos ELSE PacketSize
        /\ t[i].length = IF i = k THEN pos - 4 ELSE Room
    BY <1>14
  <2>2. Size(t[i]) > 4 /\ t[i].length = Size(t[i]) - 4
        /\ (i = 1 => Size(t[i]) >= 8) /\ Size(t[i]) >= 4
    BY <1>4, <1>15, <2>1, RoomIs
  <2>3. Headed(t[i])
    <3>1. CASE i = 1
      BY <2>1, <2>2, <3>1, Headers DEF Headed
    <3>2. CASE i # 1
      <4>1. ~IsStart(t[i]) /\ t[i] \in Packets
        BY <2>1, <3>2
      <4>2. Size(t[i]) >= 4 + 0
        BY <2>2
      <4> QED
        BY <4>1, <4>2, Headers DEF Headed
    <3> QED
      BY <3>1, <3>2
  <2> QED
    BY <2>2, <2>3, Headers DEF Proper
<1>17. Total(t[1]) = size
  <2>1. Total(t[1]) = Total(s[1])
    <3>1. CASE k = 1
      <4>1. 5 \in 1 .. pos /\ 6 \in 1 .. pos
        BY <1>4, <3>1
      <4>2. t[1].data[5] = s[1].data[5] /\ t[1].data[6] = s[1].data[6]
        BY <1>13, <3>1, <4>1
      <4> QED
        BY <4>2 DEF Total, Word, ACL_HDR_LEN
    <3>2. CASE k # 1
      <4>1. 1 \in 1 .. k
        BY <1>4
      <4> QED
        BY <1>13, <3>2, <4>1
    <3> QED
      BY <3>1, <3>2
  <2> QED
    BY <1>8, <1>10, <2>1
<1>18. ASSUME NEW i \in 1 .. k PROVE EndedAt(t, w, k, pos, i)
  <2>1. /\ (IsStart(t[i]) <=> i = 1)
        /\ Size(t[i]) = IF i = k THEN pos ELSE PacketSize
        /\ t[i].length = IF i = k THEN pos - 4 ELSE Room
    BY <1>14
  <2>2. Proper(t[i])
    BY <1>16
  <2>3. ASSUME NEW j \in 1 .. Size(t[i])
        PROVE  t[i].data[j] = w.chain[i].data[j]
    <3>1. CASE i = k
      BY <1>1, <1>13, <3>1
    <3>2. CASE i # k
      BY <1>1, <1>13, <3>2
    <3> QED
      BY <3>1, <3>2
  <2> QED
    BY <2>1, <2>2, <2>3 DEF EndedAt
<1>19. Ended(t, w, n, k, pos)
  BY <1>2, <1>3, <1>4, <1>10, <1>13, <1>15, <1>17, <1>18 DEF Ended
<1> QED
  BY <1>12, <1>19

(* It is a whole message.                                                  *)
LEMMA SentRuns ==
  ASSUME NEW w, Written(w), w.todo = 0, w.done = w.size
  PROVE  \E left : Runs(WriterEnd(w), left) /\ left[0] = 0
<1>1. PICK t : t = WriterEnd(w)
  OBVIOUS
<1>2. PICK n \in Nat, k \in Nat, pos \in Nat : Ended(t, w, n, k, pos)
  BY <1>1, SentEnds DEF Ended
<1>3. /\ k >= 1 /\ pos > 4
      /\ t \in Seq(Packets) /\ Len(t) = k /\ Total(t[1]) = 4 + n
      /\ Before(k) \in Nat /\ 4 + n = Before(k) + pos - 4
  BY <1>2 DEF Ended
<1>10. ASSUME NEW i \in 1 .. k PROVE EndedAt(t, w, k, pos, i)
  BY <1>2 DEF Ended
<1>4. PICK size \in Nat : size = 4 + n /\ size = Before(k) + pos - 4 /\ Before(k) <= size
  BY <1>3
<1> DEFINE left == [i \in 0 .. k |-> IF i = 0 \/ i = k THEN 0 ELSE size - Before(i + 1)]
<1>5. ASSUME NEW i \in 0 .. k, i # 0, i # k
       PROVE  /\ left[i] = size - Before(i + 1) /\ left[i] \in Nat
              /\ Before(i + 1) \in Nat
  <2>1. i + 1 \in Nat /\ i + 1 >= 1 /\ i + 1 <= k
    BY <1>5
  <2>2. Before(i + 1) \in Nat /\ Before(i + 1) <= Before(k)
    BY <2>1, BeforeIs, BeforeMono
  <2>3. left[i] = size - Before(i + 1)
    BY <1>5
  <2> QED
    BY <1>3, <1>4, <2>2, <2>3
<1>6. left[0] = 0 /\ left[k] = 0
  BY <1>3
<1>7. left \in [0 .. k -> Nat]
  BY <1>5, <1>6
<1> HIDE DEF left
<1>8. ASSUME NEW i \in 1 .. k PROVE RunsAt(t, left, i)
  <2>1. Proper(t[i]) /\ (IsStart(t[i]) <=> i = 1)
    BY <1>10 DEF EndedAt
  <2>2. t[i].length = IF i = k THEN pos - 4 ELSE Room
    BY <1>10 DEF EndedAt
  <2>3. size = Before(k) + pos - 4 /\ Before(k) \in Nat
    BY <1>3, <1>4
  <2>4. /\ Before(i) \in Nat /\ Before(i + 1) = Before(i) + Room /\ i - 1 \in 0 .. k
        /\ i \in 0 .. k
    BY BeforeIs
  <2>5. left[i] = IF i = k THEN 0 ELSE size - Before(i + 1)
    BY <1>5, <1>6, <2>4
  <2>6. left[i - 1] = IF i = 1 THEN 0 ELSE size - Before(i)
    <3>1. i = 1 => i - 1 = 0
      OBVIOUS
    <3>2. i # 1 => i - 1 # 0 /\ i - 1 # k /\ (i - 1) + 1 = i
      OBVIOUS
    <3> QED
      BY <1>5, <1>6, <2>4, <3>1, <3>2
  <2>7. t[i].length + left[i] = size - Before(i)
    <3>1. CASE i = k
      BY <2>2, <2>3, <2>5, <3>1
    <3>2. CASE i # k
      BY <2>2, <2>3, <2>4, <2>5, <3>2, RoomIs
    <3> QED
      BY <3>1, <3>2
  <2>8. CASE i = 1
    <3>1. left[i - 1] = 0 /\ t[i].length + left[i] = size
      BY <2>6, <2>7, <2>8, BeforeIs
    <3> QED
      BY <1>3, <1>4, <2>1, <2>8, <3>1 DEF RunsAt
  <2>9. CASE i # 1
    BY <2>1, <2>6, <2>7, <2>9 DEF RunsAt
  <2> QED
    BY <2>8, <2>9
<1>9. Runs(t, left)
  BY <1>3, <1>6, <1>7, <1>8 DEF Runs
<1> QED
  BY <1>1, <1>6, <1>9

-----------------------------------------------------------------------------
(* What the steps of the sender and of the controllers preserve.           *)
LEMMA ReceiverSame ==
  ASSUME Held, InHand, UNCHANGED <<packet, fragmented_message,
         fragmented_message_size, reassembled_message_size>>
  PROVE  Held' /\ InHand'
<1>1. /\ packet' = packet /\ fragmented_message' = fragmented_message
      /\ fragmented_message_size' = fragmented_message_size
      /\ reassembled_message_size' = reassembled_message_size
  OBVIOUS
<1>2. Held'
  BY <1>1, Zenon DEF Held
<1>3. InHand'
  BY <1>1, Zenon DEF InHand
<1> QED
  BY <1>2, <1>3

LEMMA LacksSame ==
  ASSUME UNCHANGED <<packet, fragmented_message, fragmented_message_size,
                     reassembled_message_size>>
  PROVE  Lacks' = Lacks /\ (Turned' <=> Turned)
<1>1. /\ packet' = packet /\ fragmented_message' = fragmented_message
      /\ fragmented_message_size' = fragmented_message_size
      /\ reassembled_message_size' = reassembled_message_size
  OBVIOUS
<1>2. Lacks' = Lacks
  BY <1>1, Zenon DEF Lacks
<1>3. Turned' <=> Turned
  BY <1>1, Zenon DEF Turned
<1> QED
  BY <1>2, <1>3

LEMMA FitsSame ==
  ASSUME NEW lead, Fits(lead), UNCHANGED <<packet, fragmented_message,
         fragmented_message_size, reassembled_message_size, got, flushes>>
  PROVE  Fits(lead)'
<1>1. Lacks' = Lacks /\ (Turned' <=> Turned)
  BY LacksSame
<1>2. Cuts' = Cuts /\ flushes' = flushes
  BY DEF Cuts
<1>3. Owed(lead)' = Owed(lead)
  BY <1>1, Zenon DEF Owed
<1> QED
  BY <1>1, <1>2, <1>3, Zenon DEF Fits

LEMMA ReadSame ==
  ASSUME reader # None => Read(reader), UNCHANGED <<reader, got>>
  PROVE  (reader # None => Read(reader))'
<1>1. reader' = reader /\ got' = got
  OBVIOUS
<1> QED
  BY <1>1, Zenon DEF Read

LEMMA CutsFinite ==
  got \in Seq(Arrived)
    => IsFiniteSet(Cuts) /\ Cardinality(Cuts) \in Nat
<1> HAVE got \in Seq(Arrived)
<1>1. Len(got) \in Nat
  OBVIOUS
<1>2. IsFiniteSet(1 .. Len(got))
  BY <1>1, FS_Interval
<1>3. Cuts \subseteq 1 .. Len(got)
  BY DEF Cuts
<1>4. IsFiniteSet(Cuts)
  BY <1>2, <1>3, FS_Subset
<1> QED
  BY <1>4, FS_CardinalityType

(* An invariant part for the steps that only concern the sender.           *)
LEMMA SenderSteps ==
  ASSUME AclInv, UNCHANGED <<flushes, receiver, open>>,
         writer' # None => Written(writer'), linked' \subseteq linked,
         sent' \in Nat,
         NEW left, Runs(air', left), NEW old, Fits(old), left[0] = old
  PROVE  AclInv'
<1>1. /\ Held /\ InHand /\ (reader # None => Read(reader))
      /\ open \subseteq Channels /\ linked \subseteq Channels
      /\ got \in Seq(Arrived)
      /\ flushes \in Nat /\ sent \in Nat
  BY DEF AclInv
<1>2. /\ packet' = packet /\ fragmented_message' = fragmented_message
      /\ fragmented_message_size' = fragmented_message_size
      /\ reassembled_message_size' = reassembled_message_size
      /\ reader' = reader /\ got' = got /\ flushes' = flushes /\ open' = open
  BY DEF receiver
<1>3. Held' /\ InHand'
  BY <1>1, <1>2, ReceiverSame
<1>4. Fits(old)'
  BY <1>2, FitsSame
<1>5. Stream'
  <2>1. Fits(left[0])'
    BY <1>4
  <2> QED
    BY <2>1, Zenon DEF Stream
<1>6. (reader # None => Read(reader))'
  BY <1>1, <1>2, ReadSame
<1>7. open' \subseteq Channels /\ linked' \subseteq Channels
  BY <1>1, <1>2
<1>8. /\ got' \in Seq(Arrived)
      /\ flushes' \in Nat
  BY <1>1, <1>2
<1> QED
  BY <1>3, <1>5, <1>6, <1>7, <1>8, Zenon DEF AclInv

LEMMA CreateInv ==
  ASSUME AclInv, NEW c \in Channels, NEW n \in Sizes, CreateMessage(c, n)
  PROVE  AclInv'
<1>1. PICK s : s = Layout(U16(L2CAP_HDR_LEN + n))
  OBVIOUS
<1>2. TakesHeaders(s)
  BY <1>1 DEF CreateMessage
<1>3. writer' = [some |-> TRUE, channel |-> c, size |-> n, done |-> 0,
                 todo |-> 0, packet |-> 1, pos |-> ACL_HDR_LEN + L2CAP_HDR_LEN,
                 chain |-> [s EXCEPT ![1] =
                              Put(@, ACL_HDR_LEN, L2capHeader(n, c))]]
  BY <1>1, Zenon DEF CreateMessage
<1>4. Written(writer')
  BY <1>1, <1>2, <1>3, CreatedWritten
<1>5. /\ sent' = sent + 1 /\ linked' = linked /\ air' = air
      /\ UNCHANGED <<flushes, receiver, open>>
  BY DEF CreateMessage
<1>6. sent' \in Nat
  BY <1>5 DEF AclInv
<1>7. PICK left : Runs(air, left) /\ Fits(left[0])
  BY DEF AclInv, Stream
<1>8. Runs(air', left)
  BY <1>5, <1>7
<1> QED
  BY <1>4, <1>5, <1>6, <1>7, <1>8, SenderSteps

LEMMA WriteInv ==
  ASSUME AclInv, NEW w, Written(w), writer' = WriteTurn(w),
         UNCHANGED <<linked, sent, air, flushes, receiver, open>>
  PROVE  AclInv'
<1>1. sent \in Nat
  BY DEF AclInv
<1>2. writer' # None => Written(writer')
  <2>1. WriteTurn(w) # None => Written(WriteTurn(w))
    BY <1>1, TurnWritten
  <2> QED
    BY <2>1, Zenon
<1>3. PICK left : Runs(air, left) /\ Fits(left[0])
  BY DEF AclInv, Stream
<1>4. /\ linked' = linked /\ air' = air /\ sent' \in Nat
      /\ UNCHANGED <<flushes, receiver, open>>
  BY <1>1
<1>5. Runs(air', left)
  BY <1>3, <1>4
<1> QED
  BY <1>2, <1>3, <1>4, <1>5, SenderSteps

LEMMA Asked ==
  ASSUME NEW w, Written(w), w.todo = 0, NEW n \in Nat, n <= w.size - w.done
  PROVE  Written([w EXCEPT !.todo = n])
<1>1. PICK u : u = [w EXCEPT !.todo = n]
  OBVIOUS
<1>2. w \in Writers
  BY DEF Written
<1>3. /\ u \in Writers /\ u.size = w.size /\ u.done = w.done /\ u.todo = n
      /\ u.packet = w.packet /\ u.pos = w.pos /\ u.chain = w.chain
  BY <1>1, <1>2 DEF Writers
<1>4. /\ w.size \in Nat /\ w.done \in Nat
      /\ w.packet >= 1 /\ w.packet <= Len(w.chain) /\ Laid(w.chain, w.size)
      /\ w.pos >= 4 /\ w.pos <= Size(w.chain[w.packet])
      /\ 4 + w.done = Before(w.packet) + w.pos - 4
  BY WrittenIs
<1>5. w.done + n <= w.size
  BY <1>4
<1>6. /\ Laid(u.chain, u.size) /\ u.packet >= 1 /\ u.packet <= Len(u.chain)
      /\ u.done + u.todo <= u.size /\ u.pos >= 4
      /\ u.pos <= Size(u.chain[u.packet])
      /\ 4 + u.done = Before(u.packet) + u.pos - 4
  BY <1>3, <1>4, <1>5, Zenon
<1>7. Written(u)
  BY <1>3, <1>6, WrittenBy
<1> QED
  BY <1>1, <1>7

LEMMA ChunkIs ==
  ASSUME NEW n \in Chunks
  PROVE  n \in Nat /\ n >= 1
  BY ChunksAssumption

LEMMA WriterThere ==
  ASSUME AclInv, writer.some
  PROVE  Written(writer)
  BY DEF AclInv, None

LEMMA WriterWriteInv ==
  ASSUME AclInv, NEW n \in Chunks, WriterWrite(n)
  PROVE  AclInv'
<1>1. /\ writer.some /\ writer.todo = 0 /\ n <= writer.size - writer.done
      /\ writer' = WriteTurn([writer EXCEPT !.todo = n])
      /\ UNCHANGED <<linked, sent, air, flushes, receiver, open>>
  BY DEF WriterWrite
<1>2. Written(writer)
  BY <1>1, WriterThere
<1>3. n \in Nat
  BY ChunkIs
<1>4. Written([writer EXCEPT !.todo = n])
  BY <1>1, <1>2, <1>3, Asked
<1> QED
  BY <1>1, <1>4, WriteInv

LEMMA WriterWriteLoopInv ==
  ASSUME AclInv, WriterWriteLoop
  PROVE  AclInv'
<1>1. /\ writer.some /\ writer' = WriteTurn(writer)
      /\ UNCHANGED <<linked, sent, air, flushes, receiver, open>>
  BY DEF WriterWriteLoop
<1>2. Written(writer)
  BY <1>1, WriterThere
<1> QED
  BY <1>1, <1>2, WriteInv

LEMMA SendInv ==
  ASSUME AclInv, SendMessage
  PROVE  AclInv'
<1>1. /\ writer.some /\ writer.todo = 0 /\ writer.done = writer.size
      /\ (air' = air \o WriterEnd(writer) \/ air' = air)
      /\ writer' = None /\ linked' = linked /\ sent' = sent
      /\ UNCHANGED <<flushes, receiver, open>>
  BY DEF SendMessage
<1>2. Written(writer)
  BY <1>1, WriterThere
<1>3. PICK m : Runs(WriterEnd(writer), m) /\ m[0] = 0
  BY <1>1, <1>2, SentRuns
<1>4. PICK left : Runs(air, left) /\ Fits(left[0])
  BY DEF AclInv, Stream
<1>5. PICK n : Runs(air', n) /\ n[0] = left[0]
  <2>1. PICK n : Runs(air \o WriterEnd(writer), n) /\ n[0] = left[0]
    BY <1>3, <1>4, RunsConcat
  <2> QED
    BY <1>1, <1>4, <2>1
<1>6. sent' \in Nat
  BY <1>1 DEF AclInv
<1> QED
  BY <1>1, <1>4, <1>5, <1>6, SenderSteps

LEMMA UnlinkInv ==
  ASSUME AclInv, NEW c, Unlink(c)
  PROVE  AclInv'
<1>1. /\ linked' \subseteq linked /\ writer' = writer /\ sent' = sent /\ air' = air
      /\ UNCHANGED <<flushes, receiver, open>>
  BY DEF Unlink
<1>2. PICK left : Runs(air, left) /\ Fits(left[0])
  BY DEF AclInv, Stream
<1>3. Runs(air', left)
  BY <1>1, <1>2
<1>4. (writer' # None => Written(writer')) /\ sent' \in Nat
  <2>1. (writer # None => Written(writer)) /\ sent \in Nat
    BY DEF AclInv
  <2> QED
    BY <1>1, <2>1, Zenon
<1> QED
  BY <1>1, <1>2, <1>3, <1>4, SenderSteps

IsPiece(q, pb, d) ==
  q = [pb |-> pb, length |-> Len(d), data |-> Zeros(ACL_HDR_LEN) \o d]
LEMMA PieceIs ==
  ASSUME NEW pb, pb \in {CONTINUATION, FIRST_FLUSH}, NEW d \in Seq(Nat), NEW q,
         IsPiece(q, pb, d)
  PROVE  /\ q \in Packets /\ q.pb = pb /\ q.length = Len(d) /\ Len(d) \in Nat
         /\ Size(q) = 4 + Len(d)
         /\ \A j \in 1 .. Len(d) : q.data[4 + j] = d[j]
<1>1. PICK z \in Seq(Nat) : z = Zeros(ACL_HDR_LEN) /\ Len(z) = 4
  <2>1. 4 \in Nat
    OBVIOUS
  <2> QED
    BY <2>1, Headers, ZerosAre
<1>2. /\ z \o d \in Seq(Nat) /\ Len(z \o d) = Len(z) + Len(d) /\ Len(d) \in Nat
      /\ \A j \in 1 .. Len(d) : (z \o d)[Len(z) + j] = d[j]
  BY Concat
<1>3. PICK e \in Seq(Nat) : e = z \o d
  BY <1>2
<1>4. q = [pb |-> pb, length |-> Len(d), data |-> e]
  BY <1>1, <1>3, Zenon DEF IsPiece
<1>5. q.pb = pb /\ q.length = Len(d) /\ q.data = e
  BY <1>4
<1>6. q \in Packets
  <2>1. PICK len \in Nat : len = Len(d)
    BY <1>2
  <2>2. q = [pb |-> pb, length |-> len, data |-> e]
    BY <1>4, <2>1
  <2> QED
    BY <2>2 DEF Packets
<1>7. Size(q) = 4 + Len(d)
  BY <1>1, <1>2, <1>3, <1>5 DEF Size
<1>8. \A j \in 1 .. Len(d) : q.data[4 + j] = d[j]
  BY <1>1, <1>2, <1>3, <1>5, Zenon
<1> QED
  BY <1>2, <1>5, <1>6, <1>7, <1>8

Halves(p, n, a, b) ==
  /\ IsPiece(a, p.pb, SubSeq(p.data, ACL_HDR_LEN + 1, ACL_HDR_LEN + n))
  /\ IsPiece(b, CONTINUATION, SubSeq(p.data, ACL_HDR_LEN + n + 1, Size(p)))
LEMMA SplitInTwo ==
  ASSUME NEW p, Proper(p), NEW n \in Nat, n >= 1, n <= p.length - 1,
         IsStart(p) => n >= L2CAP_HDR_LEN, NEW a, NEW b, Halves(p, n, a, b)
  PROVE  /\ Proper(a) /\ Proper(b) /\ ~IsStart(b) /\ (IsStart(a) <=> IsStart(p))
         /\ a.length + b.length = p.length
         /\ IsStart(a) => Total(a) = Total(p)
<1>1. PICK d \in Seq(Nat) : d = p.data /\ Size(p) = Len(d)
  BY DEF Proper, Headed, Packets, Size
<1>2. /\ Len(d) \in Nat /\ p.length = Len(d) - 4 /\ Len(d) > 4
      /\ p.pb \in {CONTINUATION, FIRST_FLUSH}
  BY <1>1, Headers DEF Proper, Headed, Packets
<1>3. 4 + n + 1 <= Len(d)
  BY <1>2
<1>4. PICK x : x = SubSeq(d, 5, 4 + n)
  OBVIOUS
<1>5. x \in Seq(Nat) /\ Len(x) = n /\ \A j \in 1 .. n : x[j] = d[4 + j]
  <2>1. 5 \in Nat /\ 4 + n \in Nat /\ 5 >= 1 /\ 5 <= (4 + n) + 1 /\ 4 + n <= Len(d)
    BY <1>2, <1>3
  <2>2. /\ SubSeq(d, 5, 4 + n) \in Seq(Nat)
        /\ Len(SubSeq(d, 5, 4 + n)) = (4 + n) - 5 + 1
        /\ \A j \in 1 .. (4 + n) - 5 + 1 : SubSeq(d, 5, 4 + n)[j] = d[5 + j - 1]
    BY <2>1, SubIs
  <2>3. (4 + n) - 5 + 1 = n /\ \A j \in 1 .. n : 5 + j - 1 = 4 + j
    OBVIOUS
  <2> QED
    BY <1>4, <2>2, <2>3
<1>6. PICK y : y = SubSeq(d, 4 + n + 1, Len(d))
  OBVIOUS
<1>7. y \in Seq(Nat) /\ Len(y) = Len(d) - 4 - n
  <2>1. /\ 4 + n + 1 \in Nat /\ 4 + n + 1 >= 1 /\ 4 + n + 1 <= Len(d) + 1
        /\ Len(d) <= Len(d)
    BY <1>2, <1>3
  <2>2. /\ SubSeq(d, 4 + n + 1, Len(d)) \in Seq(Nat)
        /\ Len(SubSeq(d, 4 + n + 1, Len(d))) = Len(d) - (4 + n + 1) + 1
    BY <1>2, <2>1, SubIs
  <2>3. Len(d) - (4 + n + 1) + 1 = Len(d) - 4 - n
    BY <1>2
  <2> QED
    BY <1>6, <2>2, <2>3
<1>8. IsPiece(a, p.pb, x)
  <2>1. x = SubSeq(p.data, ACL_HDR_LEN + 1, ACL_HDR_LEN + n)
    <3>1. ACL_HDR_LEN + 1 = 5 /\ ACL_HDR_LEN + n = 4 + n
      BY Headers
    <3> QED
      BY <1>1, <1>4, <3>1
  <2> QED
    BY <2>1, Zenon DEF Halves
<1>9. IsPiece(b, CONTINUATION, y)
  <2>1. y = SubSeq(p.data, ACL_HDR_LEN + n + 1, Size(p))
    BY <1>1, <1>6, Headers
  <2> QED
    BY <2>1, Zenon DEF Halves
<1>10. /\ a \in Packets /\ a.pb = p.pb /\ a.length = n /\ Size(a) = 4 + n
       /\ \A j \in 1 .. n : a.data[4 + j] = x[j]
  <2>1. /\ a \in Packets /\ a.pb = p.pb /\ a.length = Len(x)
        /\ Size(a) = 4 + Len(x) /\ \A j \in 1 .. Len(x) : a.data[4 + j] = x[j]
    BY <1>2, <1>5, <1>8, PieceIs, ZenonT(40)
  <2>2. Len(x) = n
    BY <1>5
  <2> QED
    BY <2>1, <2>2, Zenon
<1>11. /\ b \in Packets /\ b.pb = CONTINUATION /\ b.length = Len(y)
       /\ Size(b) = 4 + Len(y)
  BY <1>7, <1>9, PieceIs
<1>12. (IsStart(a) <=> IsStart(p)) /\ ~IsStart(b)
  BY <1>10, <1>11 DEF IsStart
<1>13. Proper(a)
  <2>1. Headed(a)
    <3>1. CASE IsStart(a)
      <4>1. n >= 4
        BY <1>12, <3>1, Headers
      <4>2. Size(a) >= 4 + 4
        BY <1>10, <4>1
      <4> QED
        BY <1>10, <3>1, <4>2, Headers DEF Headed
    <3>2. CASE ~IsStart(a)
      <4>1. Size(a) >= 4 + 0
        BY <1>10
      <4> QED
        BY <1>10, <3>2, <4>1, Headers DEF Headed
    <3> QED
      BY <3>1, <3>2
  <2>2. Size(a) > 4 /\ a.length = Size(a) - 4
    BY <1>10
  <2> QED
    BY <2>1, <2>2, Headers DEF Proper
<1>14. Proper(b)
  <2>1. Len(y) \in Nat /\ Len(y) >= 1
    BY <1>2, <1>3, <1>7
  <2>2. Size(b) > 4 /\ b.length = Size(b) - 4 /\ Size(b) >= 4 + 0
    BY <1>11, <2>1
  <2>3. Headed(b)
    BY <1>11, <1>12, <2>2, Headers DEF Headed
  <2> QED
    BY <2>2, <2>3, Headers DEF Proper
<1>15. a.length + b.length = p.length
  BY <1>2, <1>7, <1>10, <1>11
<1>16. ASSUME IsStart(a) PROVE Total(a) = Total(p)
  <2>1. n >= 4
    BY <1>12, <1>16, Headers
  <2>2. 1 \in 1 .. n /\ 2 \in 1 .. n
    BY <2>1
  <2>3. a.data[4 + 1] = d[4 + 1] /\ a.data[4 + 2] = d[4 + 2]
    BY <1>5, <1>10, <2>2
  <2>4. a.data[5] = p.data[5] /\ a.data[6] = p.data[6]
    BY <1>1, <2>3
  <2> QED
    BY <2>4 DEF Total, Word, ACL_HDR_LEN
<1> QED
  BY <1>12, <1>13, <1>14, <1>15, <1>16

LEMMA ResplitInv ==
  ASSUME AclInv, air # << >>, NEW n \in Nat, Resplit(n)
  PROVE  AclInv'
<1>1. PICK left : Runs(air, left) /\ Fits(left[0])
  BY DEF AclInv, Stream
<1>2. PICK p : p = Head(air) /\ p = air[1] /\ Proper(p)
  <2>1. RunsAt(air, left, 1) /\ Head(air) = air[1]
    BY <1>1, RunsTail
  <2> QED
    BY <2>1 DEF RunsAt
<1>3. PICK a, b : /\ Halves(p, n, a, b) /\ air' = <<a, b>> \o Tail(air)
  <2>1. PICK a, b :
          /\ a = [pb |-> p.pb,
                  length |-> Len(SubSeq(p.data, ACL_HDR_LEN + 1, ACL_HDR_LEN + n)),
                  data |-> Zeros(ACL_HDR_LEN)
                             \o SubSeq(p.data, ACL_HDR_LEN + 1, ACL_HDR_LEN + n)]
          /\ b = [pb |-> CONTINUATION,
                  length |-> Len(SubSeq(p.data, ACL_HDR_LEN + n + 1, Size(p))),
                  data |-> Zeros(ACL_HDR_LEN)
                             \o SubSeq(p.data, ACL_HDR_LEN + n + 1, Size(p))]
    OBVIOUS
  <2>2. air' = <<a, b>> \o Tail(air)
    BY <1>2, <2>1, Zenon DEF Resplit
  <2>3. Halves(p, n, a, b)
    BY <2>1, Zenon DEF Halves, IsPiece
  <2> QED
    BY <2>2, <2>3
<1>4. n \in 1 .. p.length - 1 /\ (IsStart(p) => n >= L2CAP_HDR_LEN)
  BY <1>2 DEF Resplit
<1>6. n >= 1 /\ n <= p.length - 1
  <2>1. p.length \in Nat
    BY <1>2 DEF Proper, Headed, Packets
  <2> QED
    BY <1>4, <2>1
<1>7. /\ Proper(a) /\ Proper(b) /\ ~IsStart(b) /\ (IsStart(a) <=> IsStart(p))
      /\ a.length + b.length = p.length
      /\ IsStart(a) => Total(a) = Total(p)
  <2>1. IsStart(p) => n >= L2CAP_HDR_LEN
    BY <1>4
  <2> QED
    BY <1>2, <1>3, <1>6, <2>1, SplitInTwo
<1>8. PICK m : Runs(air', m) /\ m[0] = left[0]
  BY <1>1, <1>2, <1>3, <1>7, RunsSplit
<1>9. /\ linked' = linked /\ writer' = writer /\ sent' = sent
      /\ UNCHANGED <<flushes, receiver, open>>
  BY DEF Resplit, sender
<1>10. (writer' # None => Written(writer')) /\ sent' \in Nat
  <2>1. (writer # None => Written(writer)) /\ sent \in Nat
    BY DEF AclInv
  <2> QED
    BY <1>9, <2>1, Zenon
<1> QED
  BY <1>1, <1>8, <1>9, <1>10, SenderSteps

LEMMA MinIs ==
  ASSUME NEW T, T \subseteq Nat, T # {}
  PROVE  Min(T) \in T /\ \A m \in T : Min(T) <= m
<1> DEFINE P(x) == x \in T /\ \A m \in T : x <= m
<1>1. \E x : P(x)
  BY LeastNat
<1>2. Min(T) = CHOOSE x : P(x)
  BY DEF Min
<1> HIDE DEF P
<1>3. P(CHOOSE x : P(x))
  BY <1>1, Zenon
<1>4. P(Min(T))
  BY <1>2, <1>3
<1> QED
  BY <1>4 DEF P

LEMMA FlushInv ==
  ASSUME AclInv, Flush
  PROVE  AclInv'
<1>1. PICK left : Runs(air, left) /\ Fits(left[0])
  BY DEF AclInv, Stream
<1>2. PICK later : later = {i \in 2 .. Len(air) : IsStart(air[i])}
  OBVIOUS
<1>3. /\ air' = IF later = {} THEN << >> ELSE SubSeq(air, Min(later), Len(air))
      /\ flushes' = flushes + 1 /\ UNCHANGED <<sender, receiver, open>>
  BY <1>2, Zenon DEF Flush
<1>4. air \in Seq(Packets) /\ Len(air) \in Nat
  BY <1>1 DEF Runs
<1>5. PICK m : Runs(air', m) /\ m[0] = 0
  <2>1. CASE later = {}
    <3>1. air' = << >>
      BY <1>3, <2>1
    <3>2. PICK m : m = [i \in 0 .. 0 |-> 0]
      OBVIOUS
    <3>3. m[0] = 0
      BY <3>2
    <3>4. Runs(air', m)
      BY <3>1, <3>2, RunsNone
    <3> QED
      BY <3>3, <3>4
  <2>2. CASE later # {}
    <3>1. PICK k : k = Min(later) /\ k \in later
      <4>1. later \subseteq Nat
        BY <1>2, <1>4
      <4> QED
        BY <2>2, <4>1, MinIs
    <3>2. k \in 2 .. Len(air) /\ IsStart(air[k])
      BY <1>2, <3>1
    <3>3. k \in 1 .. Len(air) + 1 /\ k \in 1 .. Len(air) /\ 0 \in 0 .. Len(air) - k + 1
          /\ k - 1 + 0 = k - 1
      BY <1>4, <3>2
    <3>4. PICK m : m = [i \in 0 .. Len(air) - k + 1 |-> left[k - 1 + i]]
      OBVIOUS
    <3>5. Runs(SubSeq(air, k, Len(air)), m)
      BY <1>1, <3>3, <3>4, RunsSuffix
    <3>6. m[0] = left[k - 1]
      BY <3>3, <3>4
    <3>7. RunsAt(air, left, k)
      BY <1>1, <3>3 DEF Runs
    <3>8. left[k - 1] = 0
      BY <3>2, <3>7 DEF RunsAt
    <3>9. air' = SubSeq(air, k, Len(air))
      BY <1>3, <2>2, <3>1
    <3> QED
      BY <3>5, <3>6, <3>8, <3>9
  <2> QED
    BY <2>1, <2>2
<1>6. /\ writer' = writer /\ linked' = linked /\ sent' = sent
      /\ packet' = packet /\ fragmented_message' = fragmented_message
      /\ fragmented_message_size' = fragmented_message_size
      /\ reassembled_message_size' = reassembled_message_size
      /\ reader' = reader /\ got' = got /\ open' = open
  BY <1>3 DEF sender, receiver
<1>7. /\ Held /\ InHand /\ (reader # None => Read(reader))
      /\ (writer # None => Written(writer))
      /\ open \subseteq Channels /\ linked \subseteq Channels
      /\ got \in Seq(Arrived)
      /\ flushes \in Nat /\ sent \in Nat
  BY DEF AclInv
<1>8. Held' /\ InHand' /\ (reader # None => Read(reader))'
  BY <1>6, <1>7, ReceiverSame, ReadSame
<1>9. Fits(0)'
  <2>1. Lacks' = Lacks /\ Cuts' = Cuts
    BY <1>6, LacksSame DEF Cuts
  <2>2. PICK c \in Nat, f \in Nat : c = Cardinality(Cuts) /\ f = flushes
    BY <1>7, CutsFinite
  <2>8. PICK o : o = Owed(left[0])
    OBVIOUS
  <2>3. c + o <= f /\ (o = 0 \/ o = 1)
    BY <1>1, <2>2, <2>8 DEF Fits, Owed
  <2>4. PICK u : u = Owed(0)'
    OBVIOUS
  <2>5. u = 0 \/ u = 1
    BY <2>4 DEF Owed
  <2>6. c + u <= f + 1
    BY <2>3, <2>5
  <2>7. Cardinality(Cuts)' = c /\ flushes' = f + 1
    BY <1>3, <2>1, <2>2
  <2> QED
    BY <2>4, <2>6, <2>7 DEF Fits
<1>10. Stream'
  <2>1. Fits(m[0])'
    BY <1>5, <1>9
  <2> QED
    BY <1>5, <2>1, Zenon DEF Stream
<1>11. /\ (writer # None => Written(writer))'
       /\ open' \subseteq Channels /\ linked' \subseteq Channels
       /\ got' \in Seq(Arrived)
       /\ flushes' \in Nat /\ sent' \in Nat
  BY <1>3, <1>6, <1>7
<1> QED
  BY <1>8, <1>10, <1>11, Zenon DEF AclInv

LEMMA ChangeOpenInv ==
  ASSUME AclInv, NEW c \in Channels, ChangeOpen(c)
  PROVE  AclInv'
<1>1. /\ open' = (IF c \in open THEN open \ {c} ELSE open \cup {c})
      /\ UNCHANGED <<sender, air, flushes, receiver>>
  BY DEF ChangeOpen
<1>2. open' \subseteq Channels
  BY <1>1 DEF AclInv
<1>3. /\ writer' = writer /\ linked' = linked /\ sent' = sent /\ air' = air
      /\ flushes' = flushes
      /\ packet' = packet /\ fragmented_message' = fragmented_message
      /\ fragmented_message_size' = fragmented_message_size
      /\ reassembled_message_size' = reassembled_message_size
      /\ reader' = reader /\ got' = got
  BY <1>1 DEF sender, receiver
<1>4. /\ Held /\ InHand /\ (reader # None => Read(reader))
      /\ (writer # None => Written(writer)) /\ linked \subseteq Channels
      /\ got \in Seq(Arrived)
      /\ flushes \in Nat /\ sent \in Nat
  BY DEF AclInv
<1>5. Held' /\ InHand' /\ (reader # None => Read(reader))'
  BY <1>3, <1>4, ReceiverSame, ReadSame
<1>6. PICK left : Runs(air, left) /\ Fits(left[0])
  BY DEF AclInv, Stream
<1>7. PICK lead : lead = left[0]
  OBVIOUS
<1>8. Fits(lead)'
  BY <1>3, <1>6, <1>7, FitsSame
<1>9. Stream'
  <2>1. Runs(air', left) /\ Fits(left[0])'
    BY <1>3, <1>6, <1>7, <1>8
  <2> QED
    BY <2>1, Zenon DEF Stream
<1> QED
  BY <1>2, <1>3, <1>4, <1>5, <1>9, Zenon DEF AclInv

-----------------------------------------------------------------------------
(* What on_data_received preserves.                                        *)
LEMMA CutsAppend ==
  ASSUME got \in Seq(Arrived), NEW m \in Arrived, got' = Append(got, m)
  PROVE  Cardinality(Cuts)' = Cardinality(Cuts) + (IF IsWhole(m) THEN 0 ELSE 1)
<1>1. PICK n \in Nat : n = Len(got)
  OBVIOUS
<1>2. /\ Len(got') = n + 1 /\ got'[n + 1] = m
      /\ \A i \in 1 .. n : got'[i] = got[i]
  BY <1>1
<1>3. IsFiniteSet(Cuts) /\ Cardinality(Cuts) \in Nat
  BY CutsFinite
<1>4. Cuts' = {i \in 1 .. n + 1 : ~IsWhole(got'[i])}
  BY <1>2 DEF Cuts
<1>5. Cuts = {i \in 1 .. n : ~IsWhole(got[i])}
  BY <1>1 DEF Cuts
<1>6. \A i : i \in 1 .. n + 1 <=> i \in 1 .. n \/ i = n + 1
  OBVIOUS
<1>7. CASE IsWhole(m)
  <2>1. Cuts' = Cuts
    BY <1>2, <1>4, <1>5, <1>6, <1>7
  <2> QED
    BY <1>3, <1>7, <2>1
<1>8. CASE ~IsWhole(m)
  <2>1. Cuts' = Cuts \cup {n + 1}
    BY <1>2, <1>4, <1>5, <1>6, <1>8
  <2>2. n + 1 \notin Cuts
    BY <1>5
  <2>3. Cardinality(Cuts \cup {n + 1}) = Cardinality(Cuts) + 1
    BY <1>3, <2>2, FS_AddElement
  <2> QED
    BY <1>8, <2>1, <2>3
<1> QED
  BY <1>7, <1>8

LEMMA FreshRead ==
  ASSUME NEW s, Chain(s), s # << >>, IsStart(s[1]),
         got' # << >>, Last(got').body = MessageOf(s).body
  PROVE  Read(ReaderOf(s))'
<1>1. s \in Seq(Packets) /\ Len(s) \in Nat /\ Len(s) >= 1 /\ Headed(s[1])
  BY DEF Chain
<1>2. PICK r : r = ReaderOf(s)
  OBVIOUS
<1>3. r = [some |-> TRUE, chain |-> s, packet |-> 1, pos |-> 8, todo |-> 0,
           out |-> << >>, short |-> FALSE]
  BY <1>2, Headers DEF ReaderOf
<1>4. /\ r.chain = s /\ r.packet = 1 /\ r.pos = 8 /\ r.out = << >> /\ r.short = FALSE
  BY <1>3
<1>5. r \in Readers
  <2>1. 0 \in Nat /\ 1 \in Nat /\ 8 \in Nat /\ << >> \in Seq(Nat)
    OBVIOUS
  <2>2. PICK zero \in Nat, one \in Nat, eight \in Nat, none \in Seq(Nat) :
          zero = 0 /\ one = 1 /\ eight = 8 /\ none = << >>
    BY <2>1
  <2>3. r = [some |-> TRUE, chain |-> s, packet |-> one, pos |-> eight,
             todo |-> zero, out |-> none, short |-> FALSE]
    BY <1>3, <2>2, Zenon
  <2> QED
    BY <1>1, <2>3 DEF Readers
<1>6. PICK f : Carries(f, s)
  BY CarriedIs
<1>7. Size(s[1]) \in Nat /\ Size(s[1]) >= 8
  <2>1. Size(s[1]) \in Nat
    BY <1>1, PayloadIs
  <2> QED
    BY <1>1, <2>1, Headers DEF Headed
<1>8. StandsAt(r, f)
  <2>1. r.packet \in 1 .. Len(r.chain) /\ (r.packet = 1 => r.pos >= 8)
    BY <1>1, <1>4
  <2>2. r.pos \in 4 .. Size(Here(r))
    BY <1>4, <1>7 DEF Here
  <2>3. Len(f[r.packet - 1]) + r.pos - ACL_HDR_LEN = 4
    <3>1. r.packet - 1 = 0
      BY <1>4
    <3>2. Len(f[0]) = 0
      BY <1>6 DEF Carries
    <3> QED
      BY <1>4, <3>1, <3>2, Headers
  <2>4. SubSeq(f[Len(s)], 5, 4) = << >>
    <3>1. PICK e \in Seq(Nat) : e = f[Len(s)]
      BY <1>1, <1>6 DEF Carries
    <3> QED
      BY <3>1
  <2>5. r.out = SubSeq(f[Len(r.chain)], L2CAP_HDR_LEN + 1,
                       Len(f[r.packet - 1]) + r.pos - ACL_HDR_LEN)
    <3>1. L2CAP_HDR_LEN + 1 = 5
      BY Headers
    <3> QED
      BY <1>4, <2>3, <2>4, <3>1, Zenon
  <2>6. ACL_HDR_LEN + L2CAP_HDR_LEN = 8
    BY Headers
  <2> QED
    BY <1>4, <2>1, <2>2, <2>5, <2>6, Headers DEF StandsAt
<1>9. /\ r \in Readers /\ Chain(r.chain) /\ r.chain # << >> /\ IsStart(r.chain[1])
      /\ got' # << >> /\ Last(got').body = MessageOf(r.chain).body
      /\ Carries(f, r.chain) /\ StandsAt(r, f)
  BY <1>4, <1>5, <1>6, <1>8
<1>10. Read(r)'
  BY <1>9, Zenon DEF Read
<1> QED
  BY <1>2, <1>10

LEMMA Delivered ==
  ASSUME got \in Seq(Arrived), reader = None, NEW s, Chain(s), s # << >>,
         IsStart(s[1]), Deliver(s)
  PROVE  /\ got' \in Seq(Arrived)
         /\ (reader # None => Read(reader))'
         /\ Cardinality(Cuts)' \in Nat /\ Cardinality(Cuts) \in Nat
         /\ Cardinality(Cuts)' <= Cardinality(Cuts) + 1
         /\ Len(Carried(s)) = Total(s[1]) => Cardinality(Cuts)' = Cardinality(Cuts)
<1>1. PICK m : m = MessageOf(s)
  OBVIOUS
<1>2. /\ m \in Arrived /\ m.length + 4 = Total(s[1])
      /\ Len(m.body) + 4 = Len(Carried(s)) /\ Len(Carried(s)) \in Nat
  BY <1>1, MessageIs
<1>3. Cardinality(Cuts) \in Nat
  BY CutsFinite
<1>4. CASE got' = Append(got, m) /\ reader' = ReaderOf(s)
  <2>1. got' \in Seq(Arrived) /\ got' # << >> /\ Last(got') = m
    BY <1>2, <1>4 DEF Last
  <2>2. Read(ReaderOf(s))'
    BY <1>1, <2>1, FreshRead
  <2>3. (reader # None => Read(reader))'
    <3>1. Read(reader)' <=> Read(ReaderOf(s))'
      BY <1>4, Zenon DEF Read
    <3> QED
      BY <2>2, <3>1
  <2>4. Cardinality(Cuts)' = Cardinality(Cuts) + (IF IsWhole(m) THEN 0 ELSE 1)
    BY <1>2, <1>4, CutsAppend
  <2>5. Len(Carried(s)) = Total(s[1]) => IsWhole(m)
    <3>1. m.length \in Nat /\ Len(m.body) \in Nat
      BY <1>2 DEF Arrived
    <3> QED
      BY <1>2, <3>1 DEF IsWhole
  <2> QED
    BY <1>3, <2>1, <2>3, <2>4, <2>5
<1>5. CASE got' = got /\ reader' = reader
  <2>1. Cuts' = Cuts
    BY <1>5 DEF Cuts
  <2> QED
    BY <1>3, <1>5, <2>1
<1> QED
  BY <1>1, <1>4, <1>5 DEF Deliver

LEMMA Limits ==
  /\ INVALID_PACKET \in Nat /\ INVALID_PACKET = UINT16_MAX
  /\ \A x \in Nat : x <= INVALID_PACKET => U16(x) = x
<1>1. INVALID_PACKET = 65535 /\ UINT16_MAX = 65535
  BY DEF INVALID_PACKET, UINT16_MAX
<1>2. ASSUME NEW x \in Nat, x <= 65535 PROVE U16(x) = x
  BY <1>2, Wrapped DEF U16
<1> QED
  BY <1>1, <1>2

LEMMA MtuIs ==
  ASSUME NEW c \in Channels
  PROVE  /\ Mtu[c] \in Nat
         /\ Mtu[c] + 4 < INVALID_PACKET /\ Mtu[c] + 4 <= INVALID_PACKET
<1>1. Mtu[c] \in 0 .. UINT16_MAX - L2CAP_HDR_LEN - 1
  BY MtuAssumption
<1> QED
  BY <1>1, Limits, Headers

(* A packet is skipped when the size that is noted says so.                *)
LEMMA SkippedStart ==
  ASSUME NEW p, Proper(p), IsStart(p), open \subseteq Channels
  PROVE  Skipped(p) <=> Expected(p) = INVALID_PACKET
<1>1. PICK s : s = <<p>>
  OBVIOUS
<1>2. Chain(s) /\ s # << >> /\ s[1] = p
  <2>1. Chain(<<p>>)
    BY CarriedOne DEF Proper
  <2> QED
    BY <1>1, <2>1
<1>3. PICK m : m = MessageOf(s)
  OBVIOUS
<1>4. m.length \in Nat
  BY <1>2, <1>3, MessageIs DEF Arrived
<1>5. IncomingCheck(p) = IF Accepted(m.channel, m.length)
                         THEN m.length + L2CAP_HDR_LEN ELSE -1
  BY <1>1, <1>3, Zenon DEF IncomingCheck
<1>6. CASE Accepted(m.channel, m.length)
  <2>1. m.channel \in Channels /\ m.length <= Mtu[m.channel]
    BY <1>6 DEF Accepted
  <2>2. Mtu[m.channel] \in Nat /\ Mtu[m.channel] + 4 < INVALID_PACKET
    BY <2>1, MtuIs
  <2>3. IncomingCheck(p) = m.length + 4
    BY <1>5, <1>6, Headers
  <2>4. ~(IncomingCheck(p) < 0) /\ IncomingCheck(p) # INVALID_PACKET
    BY <1>4, <2>1, <2>2, <2>3, Limits
  <2> QED
    BY <2>4 DEF Skipped, Expected
<1>7. CASE ~Accepted(m.channel, m.length)
  <2>1. IncomingCheck(p) < 0
    BY <1>5, <1>7
  <2> QED
    BY <2>1 DEF Skipped, Expected
<1> QED
  BY <1>6, <1>7

LEMMA SkippedRest ==
  ASSUME NEW p, ~IsStart(p)
  PROVE  Skipped(p) <=> Expected(p) = INVALID_PACKET
  BY DEF Skipped, Expected

LEMMA ExpectedStart ==
  ASSUME NEW p, Proper(p), IsStart(p), open \subseteq Channels
  PROVE  \/ Expected(p) = INVALID_PACKET
         \/ Expected(p) = Total(p) /\ Total(p) < INVALID_PACKET
<1>1. PICK s : s = <<p>>
  OBVIOUS
<1>2. Chain(s) /\ s # << >> /\ s[1] = p
  <2>1. Chain(<<p>>)
    BY CarriedOne DEF Proper
  <2> QED
    BY <1>1, <2>1
<1>3. PICK m : m = MessageOf(s)
  OBVIOUS
<1>4. m.length + 4 = Total(p) /\ m.length \in Nat
  BY <1>2, <1>3, MessageIs DEF Arrived
<1>5. IncomingCheck(p) = IF Accepted(m.channel, m.length)
                         THEN m.length + L2CAP_HDR_LEN ELSE -1
  BY <1>1, <1>3, Zenon DEF IncomingCheck
<1>6. CASE Accepted(m.channel, m.length)
  <2>1. m.channel \in Channels /\ m.length <= Mtu[m.channel]
    BY <1>6 DEF Accepted
  <2>2. IncomingCheck(p) = m.length + 4
    BY <1>5, <1>6, Headers
  <2>3. Mtu[m.channel] \in Nat /\ Mtu[m.channel] + 4 <= INVALID_PACKET
    BY <2>1, MtuIs
  <2>4. Total(p) <= INVALID_PACKET /\ ~(IncomingCheck(p) < 0)
    BY <1>4, <2>1, <2>2, <2>3, Limits
  <2>5. Expected(p) = Total(p)
    BY <1>4, <2>2, <2>4 DEF Expected
  <2> QED
    BY <1>4, <2>4, <2>5, Limits
<1>7. CASE ~Accepted(m.channel, m.length)
  <2>1. IncomingCheck(p) < 0
    BY <1>5, <1>7
  <2> QED
    BY <2>1 DEF Expected
<1> QED
  BY <1>6, <1>7

Took(lead) ==
  /\ Held /\ InHand /\ Fits(lead) /\ got \in Seq(Arrived)
  /\ reader # None => Read(reader)

(* Nothing is under way after the step, and no message was cut.            *)
LEMMA Idle ==
  ASSUME NEW lead, fragmented_message' = << >>, fragmented_message_size' = 0,
         reassembled_message_size' \in Nat, packet' = None,
         lead = 0 \/ reassembled_message_size' = INVALID_PACKET,
         Cardinality(Cuts)' <= flushes', Cardinality(Cuts)' \in Nat,
         got' \in Seq(Arrived), (reader # None => Read(reader))'
  PROVE  Took(lead)'
<1>1. Chain(<< >>)
  BY DEF Chain
<1>2. Held'
  BY <1>1 DEF Held
<1>3. InHand'
  BY DEF InHand
<1>4. Lacks' = 0 /\ (reassembled_message_size' = INVALID_PACKET => Turned')
  BY DEF Lacks, Turned
<1>5. Owed(lead)' = 0
  BY <1>4 DEF Owed
<1>6. Fits(lead)'
  BY <1>4, <1>5 DEF Fits
<1> QED
  BY <1>2, <1>3, <1>6, Zenon DEF Took

(* A start, with what of its message follows, or with nothing although     *)
(* something is lacking: it was flushed.                                   *)
LEMMA HandleStart ==
  ASSUME got \in Seq(Arrived), reader = None, open \subseteq Channels,
         fragmented_message = << >>, fragmented_message_size = 0,
         NEW p, Proper(p), IsStart(p), p.length <= Total(p), NEW lead,
         lead \in {0, Total(p) - p.length},
         Cardinality(Cuts) <= flushes, flushes \in Nat,
         lead = 0 /\ p.length < Total(p) => Cardinality(Cuts) + 1 <= flushes,
         HandlePacket(p), packet' = None, flushes' = flushes
  PROVE  Took(lead)'
<1>1. Headed(p) /\ p.length \in Nat /\ p.length >= 1 /\ Size(p) \in Nat
      /\ Size(p) = p.length + 4
  BY PayloadIs, Headers, SMTT(40) DEF Proper, Headed, Packets
<1>2. Total(p) \in Nat /\ Total(p) >= 4
  BY <1>1, TotalIs
<1>3. Cardinality(Cuts) \in Nat
  BY CutsFinite
<1>4. reassembled_message_size' = Expected(p)
  BY DEF HandlePacket
<1>5. \/ Expected(p) = INVALID_PACKET
      \/ Expected(p) = Total(p) /\ Total(p) < INVALID_PACKET
  BY ExpectedStart
<1>6. CASE Expected(p) = INVALID_PACKET
  <2>1. /\ fragmented_message' = << >> /\ fragmented_message_size' = 0
        /\ reader' = reader /\ got' = got
    BY <1>6, SkippedStart DEF HandlePacket
  <2>2. Cuts' = Cuts
    BY <2>1 DEF Cuts
  <2>3. (reader # None => Read(reader))'
    BY <2>1
  <2>4. reassembled_message_size' = INVALID_PACKET /\ INVALID_PACKET \in Nat
    BY <1>4, <1>6, Limits
  <2> QED
    BY <1>3, <2>1, <2>2, <2>3, <2>4, Idle
<1>7. CASE Expected(p) = Total(p) /\ Total(p) < INVALID_PACKET
  <2>1. ~Skipped(p)
    BY <1>2, <1>7, Limits, SkippedStart
  <2>2. Remaining(p) = Total(p)
    <3>1. Expected(p) - fragmented_message_size = Total(p)
      BY <1>2, <1>7
    <3>2. Total(p) <= INVALID_PACKET
      BY <1>2, <1>7, Limits
    <3> QED
      BY <1>2, <3>1, <3>2, Limits DEF Remaining
  <2>3. PICK s : s = Appended(fragmented_message, p)
    OBVIOUS
  <2>4. Chain(s) /\ s # << >> /\ s[1] = p /\ Len(Carried(s)) = p.length
    <3>1. s = <<p>>
      BY <2>3 DEF Appended
    <3>2. Chain(<<p>>) /\ Carried(<<p>>) = Payload(p)
      BY <1>1, CarriedOne
    <3>3. Len(Payload(p)) = p.length
      BY <1>1, PayloadIs, Headers
    <3> QED
      BY <3>1, <3>2, <3>3
  <2>5. CASE Completes(p)
    <3>1. p.length = Total(p)
      BY <1>1, <1>2, <2>2, <2>5 DEF Completes
    <3>2. /\ Deliver(s) /\ fragmented_message' = << >> /\ fragmented_message_size' = 0
      BY <2>1, <2>3, <2>5 DEF HandlePacket
    <3>3. /\ got' \in Seq(Arrived) /\ (reader # None => Read(reader))'
          /\ Cardinality(Cuts)' = Cardinality(Cuts)
      BY <2>4, <3>1, <3>2, Delivered
    <3>4. lead = 0 /\ reassembled_message_size' \in Nat
      BY <1>1, <1>2, <1>4, <1>7, <3>1
    <3> QED
      BY <1>3, <3>2, <3>3, <3>4, Idle
  <2>6. CASE ~Completes(p)
    <3>1. p.length < Total(p)
      BY <1>1, <1>2, <2>2, <2>6 DEF Completes
    <3>2. /\ fragmented_message' = s /\ reader' = reader /\ got' = got
          /\ fragmented_message_size' = U16(fragmented_message_size + p.length)
      BY <2>1, <2>3, <2>6 DEF HandlePacket
    <3>3. fragmented_message_size' = p.length
      <4>1. fragmented_message_size + p.length = p.length /\ p.length <= INVALID_PACKET
        BY <1>1, <1>2, <1>7, <3>1, Limits
      <4> QED
        BY <1>1, <3>2, <4>1, Limits
    <3>4. Held'
      BY <1>1, <1>2, <1>4, <1>7, <2>4, <3>1, <3>2, <3>3 DEF Held
    <3>5. InHand'
      BY DEF InHand
    <3>6. Lacks' = Total(p) - p.length
      BY <1>4, <1>7, <2>4, <3>2, <3>3 DEF Lacks
    <3>7. Cuts' = Cuts
      BY <3>2 DEF Cuts
    <3>8. Cardinality(Cuts)' + Owed(lead)' <= flushes'
      <4>1. CASE lead = 0
        <5>1. Cardinality(Cuts) + 1 <= flushes
          BY <3>1, <4>1
        <5>2. Owed(lead)' = 1
          BY <1>1, <1>2, <3>1, <3>6, <4>1 DEF Owed
        <5> QED
          BY <1>3, <3>7, <5>1, <5>2
      <4>2. CASE lead # 0
        <5>1. Owed(lead)' = 0
          BY <4>2 DEF Owed
        <5> QED
          BY <1>3, <3>7, <5>1
      <4> QED
        BY <4>1, <4>2
    <3>9. Fits(lead)'
      BY <3>6, <3>8 DEF Fits
    <3>10. got' \in Seq(Arrived) /\ (reader # None => Read(reader))'
      BY <3>2
    <3> QED
      BY <3>4, <3>5, <3>9, <3>10, Zenon DEF Took
  <2> QED
    BY <2>5, <2>6
<1> QED
  BY <1>5, <1>6, <1>7

(* A continuation, when lead bytes of its message follow.                  *)
LEMMA HandleContinuation ==
  ASSUME got \in Seq(Arrived), reader = None, Held, packet = None,
         NEW p, Proper(p), ~IsStart(p), NEW lead \in Nat,
         NEW before, before = p.length + lead, Fits(before), flushes \in Nat,
         HandlePacket(p), packet' = None, flushes' = flushes
  PROVE  Took(lead)'
<1>1. Headed(p) /\ p.length \in Nat /\ p.length >= 1 /\ Size(p) \in Nat
      /\ Size(p) = p.length + 4
  BY PayloadIs, Headers DEF Proper, Headed, Packets
<1>2. Cardinality(Cuts) \in Nat
  BY CutsFinite
<1>3. before \in Nat /\ before >= 1 /\ Owed(before) = 0
  BY <1>1 DEF Owed
<1>4. Cardinality(Cuts) <= flushes
  BY <1>2, <1>3 DEF Fits
<1>5. PICK size \in Nat, full \in Nat :
        size = fragmented_message_size /\ full = reassembled_message_size
  BY DEF Held
<1>6. Expected(p) = full /\ reassembled_message_size' = full
  BY <1>5 DEF Expected, HandlePacket
<1>7. CASE Turned
  <2>1. Expected(p) = INVALID_PACKET /\ fragmented_message = << >> /\ size = 0
    BY <1>5, <1>6, <1>7 DEF Turned, Held
  <2>2. /\ fragmented_message' = << >> /\ fragmented_message_size' = 0
        /\ reader' = reader /\ got' = got
    BY <1>5, <2>1, SkippedRest DEF HandlePacket
  <2>3. Cuts' = Cuts
    BY <2>2 DEF Cuts
  <2>4. (reader # None => Read(reader))'
    BY <2>2
  <2>5. reassembled_message_size' = INVALID_PACKET /\ INVALID_PACKET \in Nat
    BY <1>6, <2>1, Limits
  <2> QED
    BY <1>2, <1>4, <2>2, <2>3, <2>4, <2>5, Idle
<1>8. CASE ~Turned
  <2>1. Lacks = before
    BY <1>3, <1>8 DEF Fits
  <2>2. fragmented_message # << >>
    BY <1>3, <2>1 DEF Lacks
  <2>3. full - size = before
    BY <1>5, <2>1, <2>2 DEF Lacks
  <2>4. /\ Chain(fragmented_message) /\ IsStart(fragmented_message[1])
        /\ Len(Carried(fragmented_message)) = size
        /\ Total(fragmented_message[1]) = full /\ full < INVALID_PACKET
    BY <1>5, <2>2 DEF Held
  <2>5. full = size + p.length + lead
    BY <1>1, <2>3, SMTT(40)
  <2>6. ~Skipped(p)
    BY <1>6, <2>4, Limits, SkippedRest
  <2>7. Remaining(p) = p.length + lead
    <3>1. Expected(p) - fragmented_message_size = p.length + lead
      BY <1>1, <1>5, <1>6, <2>5, SMTT(40)
    <3>2. p.length + lead \in Nat /\ p.length + lead <= INVALID_PACKET
      BY <1>1, <2>4, <2>5, Limits
    <3> QED
      BY <3>1, <3>2, Limits DEF Remaining
  <2>8. PICK s : s = Appended(fragmented_message, p)
    OBVIOUS
  <2>9. /\ Chain(s) /\ s # << >> /\ s[1] = fragmented_message[1]
        /\ Len(Carried(s)) = size + p.length
    <3>1. Chain(s) /\ Carried(s) = Carried(fragmented_message) \o Payload(p)
      BY <1>1, <2>4, <2>8, CarriedAppended
    <3>2. fragmented_message \in Seq(Packets) /\ p \in Packets
      BY <1>1, <2>4 DEF Chain, Headed
    <3>3. s # << >> /\ s[1] = fragmented_message[1]
      BY <2>2, <2>8, <3>2 DEF Appended
    <3>4. Payload(p) \in Seq(Nat) /\ Len(Payload(p)) = p.length
      BY <1>1, PayloadIs, Headers
    <3>5. Carried(fragmented_message) \in Seq(Nat)
      BY <2>4, CarriedType
    <3>6. Len(Carried(fragmented_message) \o Payload(p))
          = Len(Carried(fragmented_message)) + Len(Payload(p))
      BY <3>4, <3>5, Concat
    <3> QED
      BY <2>4, <3>1, <3>3, <3>4, <3>6
  <2>10. CASE Completes(p)
    <3>1. lead = 0
      BY <1>1, <2>7, <2>10 DEF Completes
    <3>2. /\ Deliver(s) /\ fragmented_message' = << >> /\ fragmented_message_size' = 0
      BY <2>6, <2>8, <2>10 DEF HandlePacket
    <3>3. Len(Carried(s)) = Total(s[1]) /\ IsStart(s[1])
      BY <1>1, <2>4, <2>5, <2>9, <3>1
    <3>4. /\ got' \in Seq(Arrived) /\ (reader # None => Read(reader))'
          /\ Cardinality(Cuts)' = Cardinality(Cuts)
      BY <2>9, <3>2, <3>3, Delivered
    <3> QED
      BY <1>2, <1>4, <1>6, <3>1, <3>2, <3>4, Idle
  <2>11. CASE ~Completes(p)
    <3>1. lead >= 1
      BY <1>1, <2>7, <2>11 DEF Completes
    <3>2. /\ fragmented_message' = s /\ reader' = reader /\ got' = got
          /\ fragmented_message_size' = U16(fragmented_message_size + p.length)
      BY <2>6, <2>8, <2>11 DEF HandlePacket
    <3>3. fragmented_message_size' = size + p.length /\ size + p.length \in Nat
          /\ size + p.length < full
      <4>1. /\ size + p.length \in Nat /\ size + p.length <= INVALID_PACKET
            /\ size + p.length < full
        BY <1>1, <2>4, <2>5, <3>1, Limits, SMTT(40)
      <4>2. U16(size + p.length) = size + p.length
        BY <4>1, Limits
      <4> QED
        BY <1>5, <3>2, <4>1, <4>2
    <3>4. Held'
      <4>1. /\ Chain(s) /\ s # << >> /\ IsStart(s[1]) /\ Total(s[1]) = full
            /\ Len(Carried(s)) = size + p.length
        BY <2>4, <2>9
      <4> QED
        BY <1>6, <2>4, <3>2, <3>3, <4>1, Zenon DEF Held
    <3>5. InHand'
      BY DEF InHand
    <3>6. Lacks' = lead
      <4>1. full - (size + p.length) = lead
        BY <1>1, <2>5
      <4> QED
        BY <1>6, <2>9, <3>2, <3>3, <4>1 DEF Lacks
    <3>7. Cuts' = Cuts
      BY <3>2 DEF Cuts
    <3>8. Owed(lead)' = 0
      BY <3>1 DEF Owed
    <3>9. Fits(lead)'
      BY <1>2, <1>4, <3>6, <3>7, <3>8 DEF Fits
    <3>10. got' \in Seq(Arrived) /\ (reader # None => Read(reader))'
      BY <3>2
    <3> QED
      BY <3>4, <3>5, <3>9, <3>10, Zenon DEF Took
  <2> QED
    BY <2>10, <2>11
<1> QED
  BY <1>7, <1>8

LEMMA NoReader ==
  ASSUME AclInv, ~reader.some
  PROVE  reader = None
<1>1. Read(reader) => reader.some
  BY DEF Read, Readers
<1> QED
  BY <1>1 DEF AclInv

LEMMA NoPacket ==
  ASSUME AclInv
  PROVE  packet.some <=> packet # None
<1>1. packet # None => packet.some
  BY DEF AclInv, InHand
<1> QED
  BY <1>1 DEF None

LEMMA TookInv ==
  ASSUME AclInv, UNCHANGED <<sender, flushes, open>>, NEW left,
         Runs(air', left), NEW lead, left[0] = lead, Took(lead)'
  PROVE  AclInv'
<1>1. /\ (writer # None => Written(writer))
      /\ open \subseteq Channels /\ linked \subseteq Channels
      /\ flushes \in Nat /\ sent \in Nat
  BY DEF AclInv
<1>2. /\ writer' = writer /\ linked' = linked /\ sent' = sent
      /\ flushes' = flushes /\ open' = open
  BY DEF sender
<1>3. /\ Held' /\ InHand' /\ Fits(lead)' /\ got' \in Seq(Arrived)
      /\ (reader # None => Read(reader))'
  BY Zenon DEF Took
<1>4. Stream'
  <2>1. Fits(left[0])'
    BY <1>3
  <2> QED
    BY <2>1, Zenon DEF Stream
<1> QED
  BY <1>1, <1>2, <1>3, <1>4, Zenon DEF AclInv

LEMMA OnDataReceivedInv ==
  ASSUME AclInv, OnDataReceived
  PROVE  AclInv'
<1>1. /\ ~reader.some /\ ~packet.some /\ air # << >>
      /\ ~Interrupts(Head(air)) /\ HandlePacket(Head(air)) /\ air' = Tail(air)
      /\ packet' = packet /\ UNCHANGED <<sender, flushes, open>>
  BY DEF OnDataReceived
<1>2. reader = None /\ packet = None
  BY <1>1, NoReader, NoPacket
<1>3. PICK left : Runs(air, left) /\ Fits(left[0])
  BY DEF AclInv, Stream
<1>4. PICK m : /\ Runs(Tail(air), m) /\ m[0] = left[1]
               /\ RunsAt(air, left, 1) /\ Head(air) = air[1]
               /\ left[0] \in Nat /\ left[1] \in Nat
  BY <1>1, <1>3, RunsTail
<1>5. PICK p : p = air[1]
  OBVIOUS
<1>6. PICK lead \in Nat, before \in Nat : lead = left[1] /\ before = left[0]
  BY <1>4
<1>7. /\ Proper(p) /\ Fits(before) /\ HandlePacket(p) /\ ~Interrupts(p)
      /\ IF IsStart(p) THEN before = 0 /\ p.length + lead = Total(p)
         ELSE before = p.length + lead
  <2>1. left[1 - 1] = before
    BY <1>6
  <2> QED
    BY <1>1, <1>3, <1>4, <1>5, <1>6, <2>1 DEF RunsAt
<1>8. /\ Held /\ got \in Seq(Arrived) /\ open \subseteq Channels /\ flushes \in Nat
  BY DEF AclInv
<1>9. packet' = None /\ flushes' = flushes
  BY <1>1, <1>2
<1>10. Took(lead)'
  <2>1. CASE IsStart(p)
    <3>1. fragmented_message = << >> /\ fragmented_message_size = 0
      BY <1>7, <1>8, <2>1 DEF Interrupts, Held
    <3>2. /\ p.length \in Nat /\ Total(p) \in Nat
      BY <1>7, <2>1, TotalIs DEF Proper, Headed, Packets
    <3>3. lead = Total(p) - p.length /\ p.length <= Total(p)
      BY <1>7, <2>1, <3>2
    <3>4. lead \in {0, Total(p) - p.length}
      BY <3>3
    <3>5. Lacks = 0
      BY <1>2, <3>1 DEF Lacks
    <3>6. Owed(before) = 0
      BY <3>5 DEF Owed
    <3>7. Cardinality(Cuts) \in Nat
      BY <1>8, CutsFinite
    <3>8. Cardinality(Cuts) <= flushes
      BY <1>7, <3>6, <3>7 DEF Fits
    <3>9. lead = 0 /\ p.length < Total(p) => Cardinality(Cuts) + 1 <= flushes
      BY <3>2, <3>3
    <3> QED
      BY <1>2, <1>7, <1>8, <1>9, <2>1, <3>1, <3>3, <3>4, <3>8, <3>9, HandleStart
  <2>2. CASE ~IsStart(p)
    <3>1. before = p.length + lead
      BY <1>7, <2>2
    <3> QED
      BY <1>2, <1>7, <1>8, <1>9, <2>2, <3>1, HandleContinuation
  <2> QED
    BY <2>1, <2>2
<1>11. Runs(air', m) /\ m[0] = lead
  BY <1>1, <1>4, <1>6
<1> QED
  BY <1>1, <1>10, <1>11, TookInv

LEMMA OnStartResumedInv ==
  ASSUME AclInv, OnStartResumed
  PROVE  AclInv'
<1>1. /\ ~reader.some /\ packet.some /\ HandlePacket(packet.p) /\ packet' = None
      /\ air' = air /\ UNCHANGED <<sender, flushes, open>>
  BY DEF OnStartResumed
<1>2. reader = None /\ packet # None
  BY <1>1, NoReader, NoPacket
<1>3. PICK p : p = packet.p
  OBVIOUS
<1>4. /\ Proper(p) /\ IsStart(p) /\ p.length <= Total(p)
      /\ fragmented_message = << >>
  BY <1>2, <1>3 DEF AclInv, InHand
<1>5. /\ fragmented_message_size = 0 /\ got \in Seq(Arrived)
      /\ open \subseteq Channels /\ flushes \in Nat
  BY <1>4 DEF AclInv, Held
<1>6. PICK left : Runs(air, left) /\ Fits(left[0])
  BY DEF AclInv, Stream
<1>7. PICK lead : lead = left[0]
  OBVIOUS
<1>8. Lacks = Total(p) - p.length
  BY <1>2, <1>3, <1>4 DEF Lacks
<1>9. lead \in {0, Total(p) - p.length}
  BY <1>2, <1>6, <1>7, <1>8 DEF Fits, Turned
<1>10. /\ p.length \in Nat /\ Total(p) \in Nat
  BY <1>4, TotalIs DEF Proper, Headed, Packets
<1>11. Cardinality(Cuts) \in Nat
  BY <1>5, CutsFinite
<1>12. PICK o : o = Owed(lead) /\ Cardinality(Cuts) + o <= flushes
  BY <1>6, <1>7 DEF Fits
<1>13. (o = 0 \/ o = 1) /\ (lead = 0 /\ p.length < Total(p) => o = 1)
  BY <1>8, <1>10, <1>12 DEF Owed
<1>14. /\ Cardinality(Cuts) <= flushes
       /\ lead = 0 /\ p.length < Total(p) => Cardinality(Cuts) + 1 <= flushes
  BY <1>5, <1>11, <1>12, <1>13
<1>15. HandlePacket(p) /\ flushes' = flushes
  BY <1>1, <1>3
<1>16. Took(lead)'
  <2>1. Cardinality(Cuts) <= flushes
    BY <1>14
  <2>2. lead = 0 /\ p.length < Total(p) => Cardinality(Cuts) + 1 <= flushes
    BY <1>14
  <2> QED
    BY <1>1, <1>2, <1>4, <1>5, <1>9, <1>15, <2>1, <2>2, HandleStart
<1>17. Runs(air', left)
  BY <1>1, <1>6
<1> QED
  BY <1>1, <1>7, <1>16, <1>17, TookInv

LEMMA OnStartWhilePendingInv ==
  ASSUME AclInv, OnStartWhilePending
  PROVE  AclInv'
<1>1. /\ ~reader.some /\ ~packet.some /\ air # << >>
      /\ Interrupts(Head(air)) /\ Deliver(fragmented_message)
      /\ packet' = [some |-> TRUE, p |-> Head(air)] /\ air' = Tail(air)
      /\ fragmented_message' = << >> /\ fragmented_message_size' = 0
      /\ reassembled_message_size' = reassembled_message_size
      /\ UNCHANGED <<sender, flushes, open>>
  BY DEF OnStartWhilePending
<1>2. reader = None /\ packet = None
  BY <1>1, NoReader, NoPacket
<1>3. PICK left : Runs(air, left) /\ Fits(left[0])
  BY DEF AclInv, Stream
<1>4. PICK m : /\ Runs(Tail(air), m) /\ m[0] = left[1]
               /\ RunsAt(air, left, 1) /\ Head(air) = air[1]
               /\ left[0] \in Nat /\ left[1] \in Nat
  BY <1>1, <1>3, RunsTail
<1>5. PICK p : p = air[1] /\ p = Head(air)
  BY <1>4
<1>6. PICK lead \in Nat : lead = left[1]
  BY <1>4
<1>7. fragmented_message # << >> /\ IsStart(p)
  BY <1>1, <1>5 DEF Interrupts
<1>8. Proper(p) /\ left[0] = 0 /\ p.length + lead = Total(p)
  <2>1. left[1 - 1] = left[0]
    OBVIOUS
  <2> QED
    BY <1>4, <1>5, <1>6, <1>7, <2>1 DEF RunsAt
<1>9. /\ Chain(fragmented_message) /\ IsStart(fragmented_message[1])
      /\ fragmented_message_size \in Nat /\ reassembled_message_size \in Nat
      /\ fragmented_message_size < reassembled_message_size
      /\ got \in Seq(Arrived) /\ flushes \in Nat
  BY <1>7 DEF AclInv, Held
<1>10. Cardinality(Cuts) + 1 <= flushes
  <2>1. Lacks = reassembled_message_size - fragmented_message_size
    BY <1>7 DEF Lacks
  <2>2. Lacks > 0
    BY <1>9, <2>1
  <2>3. Owed(0) = 1
    BY <2>2 DEF Owed
  <2> QED
    BY <1>3, <1>8, <2>3 DEF Fits
<1>11. /\ got' \in Seq(Arrived) /\ (reader # None => Read(reader))'
       /\ Cardinality(Cuts)' \in Nat /\ Cardinality(Cuts) \in Nat
       /\ Cardinality(Cuts)' <= Cardinality(Cuts) + 1
  BY <1>1, <1>2, <1>7, <1>9, Delivered
<1>12. packet' # None /\ packet'.p = p /\ packet' = [some |-> TRUE, p |-> p]
  <2>1. packet' = [some |-> TRUE, p |-> p]
    BY <1>1, <1>5
  <2>2. packet'.p = p /\ packet'.some = TRUE
    BY <2>1
  <2>3. packet' # None
    BY <2>2 DEF None
  <2> QED
    BY <2>1, <2>2, <2>3
<1>13. p \in Packets /\ p.length \in Nat /\ Total(p) \in Nat
  BY <1>7, <1>8, TotalIs DEF Proper, Headed, Packets
<1>14. lead = Total(p) - p.length /\ p.length <= Total(p)
  BY <1>8, <1>13
<1>15. Held'
  <2>1. Chain(<< >>)
    BY DEF Chain
  <2> QED
    BY <1>1, <1>9, <2>1 DEF Held
<1>16. InHand'
  <2>1. packet' \in [some : {TRUE}, p : Packets]
    BY <1>12, <1>13
  <2> QED
    BY <1>1, <1>7, <1>8, <1>12, <1>14, <2>1 DEF InHand
<1>17. Lacks' = lead
  BY <1>1, <1>12, <1>14 DEF Lacks
<1>18. Owed(lead)' = 0
  BY <1>17 DEF Owed
<1>19. Fits(lead)'
  <2>1. flushes' = flushes
    BY <1>1
  <2>2. Cardinality(Cuts)' <= flushes
    BY <1>9, <1>10, <1>11
  <2> QED
    BY <1>11, <1>17, <1>18, <2>1, <2>2 DEF Fits
<1>20. Took(lead)'
  BY <1>11, <1>15, <1>16, <1>19, Zenon DEF Took
<1>21. Runs(air', m) /\ m[0] = lead
  BY <1>1, <1>4, <1>6
<1> QED
  BY <1>1, <1>20, <1>21, TookInv

-----------------------------------------------------------------------------
(* What reading preserves.  A reader is taken apart into its chain c, the  *)
(* packet k and the place p in it where it stands, the bytes o that it has *)
(* read and whether it came to the end, b.                                 *)
IsRec(r, y, c, k, p, t, o, b) ==
  r = [some |-> y, chain |-> c, packet |-> k, pos |-> p, todo |-> t, out |-> o,
       short |-> b]
Rec(r, c, k, p, t, o, b) == IsRec(r, TRUE, c, k, p, t, o, b)
Place(f, k, p) == Len(f[k - 1]) + p - 4
ReadAt(f, c, k, p, o, b) ==
  /\ Chain(c) /\ c # << >> /\ IsStart(c[1])
  /\ got # << >> /\ Last(got).body = MessageOf(c).body
  /\ Carries(f, c)
  /\ k \in Nat /\ k >= 1 /\ k <= Len(c)
  /\ p \in Nat /\ p >= 4 /\ p <= Size(c[k]) /\ (k = 1 => p >= 8)
  /\ o = SubSeq(f[Len(c)], 5, Place(f, k, p)) /\ o \in Seq(Nat)
  /\ b \in BOOLEAN /\ (b => k = Len(c) /\ p = Size(c[k]))

LEMMA ReadApart ==
  ASSUME NEW r, Read(r)
  PROVE  \E f, c, k, p, o, b : \E t \in Nat :
           Rec(r, c, k, p, t, o, b) /\ ReadAt(f, c, k, p, o, b)
<1>1. /\ r \in Readers /\ Chain(r.chain) /\ r.chain # << >> /\ IsStart(r.chain[1])
      /\ got # << >> /\ Last(got).body = MessageOf(r.chain).body
  BY DEF Read
<1>2. PICK f : Carries(f, r.chain) /\ StandsAt(r, f)
  BY DEF Read
<1>3. PICK c, k, p, o, b, t : /\ c = r.chain /\ k = r.packet /\ p = r.pos
                              /\ o = r.out /\ b = r.short /\ t = r.todo
  OBVIOUS
<1>4. /\ c \in Seq(Packets) /\ k \in Nat /\ p \in Nat /\ t \in Nat /\ o \in Seq(Nat)
      /\ b \in BOOLEAN
  BY <1>1, <1>3 DEF Readers
<1>5. Rec(r, c, k, p, t, o, b)
  BY <1>1, <1>3 DEF Readers, Rec, IsRec
<1>6. Here(r) = c[k]
  BY <1>3 DEF Here
<1>7. /\ k \in 1 .. Len(c) /\ p \in 4 .. Size(c[k]) /\ (k = 1 => p >= 4 + 4)
      /\ o = SubSeq(f[Len(c)], 4 + 1, Len(f[k - 1]) + p - 4)
      /\ (b => k = Len(c) /\ p = Size(c[k]))
  BY <1>2, <1>3, <1>6, Headers, Zenon DEF StandsAt
<1>8. k >= 1 /\ k <= Len(c)
  BY <1>4, <1>7
<1>9. Size(c[k]) \in Nat
  BY <1>1, <1>3, <1>7, PayloadIs DEF Chain
<1>10. p >= 4 /\ p <= Size(c[k]) /\ (k = 1 => p >= 8)
  BY <1>7, <1>9
<1>11. o = SubSeq(f[Len(c)], 5, Place(f, k, p))
  <2>1. 4 + 1 = 5
    OBVIOUS
  <2> QED
    BY <1>7, <2>1, Zenon DEF Place
<1>12. ReadAt(f, c, k, p, o, b)
  BY <1>1, <1>2, <1>3, <1>4, <1>7, <1>8, <1>10, <1>11, Zenon DEF ReadAt
<1> QED
  BY <1>4, <1>5, <1>12, Zenon

LEMMA ReadWhole ==
  ASSUME NEW f, NEW c, NEW k, NEW p, NEW o, NEW b, ReadAt(f, c, k, p, o, b),
         NEW t \in Nat, NEW r, Rec(r, c, k, p, t, o, b)
  PROVE  Read(r)
<1>1. /\ Chain(c) /\ c # << >> /\ IsStart(c[1])
      /\ got # << >> /\ Last(got).body = MessageOf(c).body
      /\ Carries(f, c)
      /\ k \in Nat /\ k >= 1 /\ k <= Len(c)
      /\ p \in Nat /\ p >= 4 /\ p <= Size(c[k]) /\ (k = 1 => p >= 8)
      /\ o = SubSeq(f[Len(c)], 5, Place(f, k, p)) /\ o \in Seq(Nat)
      /\ b \in BOOLEAN /\ (b => k = Len(c) /\ p = Size(c[k]))
  BY DEF ReadAt
<1>2. c \in Seq(Packets) /\ Len(c) \in Nat
  BY <1>1 DEF Chain
<1>3. /\ r.chain = c /\ r.packet = k /\ r.pos = p /\ r.todo = t /\ r.out = o
      /\ r.short = b
  BY DEF Rec, IsRec
<1>4. r \in Readers
  BY <1>1, <1>2 DEF Rec, IsRec, Readers
<1>5. k \in 1 .. Len(c)
  BY <1>1, <1>2
<1>6. Size(c[k]) \in Nat
  BY <1>1, <1>5, PayloadIs DEF Chain
<1>7. p \in 4 .. Size(c[k])
  BY <1>1, <1>6
<1>8. Here(r) = c[k]
  BY <1>3 DEF Here
<1>9. 4 + 4 = 8 /\ 4 + 1 = 5
  OBVIOUS
<1>10. StandsAt(r, f)
  BY <1>1, <1>3, <1>5, <1>7, <1>8, <1>9, Headers, Zenon DEF StandsAt, Place
<1> QED
  BY <1>1, <1>3, <1>4, <1>10, Zenon DEF Read

(* Where a reader stands in what its chain carries.                        *)
LEMMA PlaceIs ==
  ASSUME NEW f, NEW c, NEW k, NEW p, NEW o, NEW b, ReadAt(f, c, k, p, o, b)
  PROVE  /\ f[Len(c)] \in Seq(Nat) /\ Len(f[Len(c)]) \in Nat
         /\ Place(f, k, p) \in Nat /\ Place(f, k, p) >= 4
         /\ Place(f, k, Size(c[k])) \in Nat
         /\ Place(f, k, Size(c[k])) <= Len(f[Len(c)])
         /\ Size(c[k]) \in Nat
         /\ \A j \in 1 .. Size(c[k]) - 4 :
              f[Len(c)][Place(f, k, 4) + j] = c[k].data[4 + j]
         /\ \A n \in Nat : Place(f, k, p + n) = Place(f, k, p) + n
         /\ Place(f, k, p) = Place(f, k, 4) + p - 4 /\ Place(f, k, 4) \in Nat
         /\ Place(f, k + 1, 4) = Place(f, k, Size(c[k]))
         /\ k = Len(c) => Place(f, k, Size(c[k])) = Len(f[Len(c)])
<1>0. /\ Chain(c) /\ c # << >> /\ IsStart(c[1]) /\ Carries(f, c)
      /\ k \in Nat /\ k >= 1 /\ k <= Len(c)
      /\ p \in Nat /\ p >= 4 /\ p <= Size(c[k]) /\ (k = 1 => p >= 8)
  BY DEF ReadAt
<1> USE <1>0
<1>1. c \in Seq(Packets) /\ Len(c) \in Nat /\ k \in 1 .. Len(c) /\ 1 \in 1 .. Len(c)
  BY DEF Chain
<1>2. /\ f[Len(c)] \in Seq(Nat) /\ Len(f[k - 1]) \in Nat
      /\ Len(f[k]) = Len(f[k - 1]) + Size(c[k]) - 4
      /\ Len(f[k]) <= Len(f[Len(c)])
      /\ \A j \in 1 .. Size(c[k]) - 4 :
           f[Len(c)][Len(f[k - 1]) + j] = c[k].data[4 + j]
  <2>1. /\ f[Len(c)] \in Seq(Nat) /\ Len(f[k - 1]) \in Nat
        /\ Len(f[k]) = Len(f[k - 1]) + Size(c[k]) - ACL_HDR_LEN
        /\ Len(f[k]) <= Len(f[Len(c)])
        /\ \A j \in 1 .. Size(c[k]) - ACL_HDR_LEN :
             f[Len(c)][Len(f[k - 1]) + j] = c[k].data[ACL_HDR_LEN + j]
    BY <1>1, CarriesAt
  <2> QED
    BY <2>1, Headers, Zenon
<1>3. PICK u \in Nat, v \in Nat, sz \in Nat :
        u = Len(f[k - 1]) /\ v = Len(f[Len(c)]) /\ sz = Size(c[k])
  <2>1. Headed(c[k])
    BY <1>1 DEF Chain
  <2>2. Size(c[k]) \in Nat
    BY <2>1, PayloadIs
  <2> QED
    BY <1>2, <2>2
<1>4. \A q : Place(f, k, q) = u + q - 4
  BY <1>3 DEF Place
<1>5. Place(f, k, p) \in Nat /\ Place(f, k, p) >= 4
  <2>1. CASE k = 1
    BY <1>4, <2>1
  <2>2. CASE k # 1
    <3>1. k - 1 \in 1 .. Len(c) /\ 1 \in 0 .. Len(c)
      BY <1>1, <2>2
    <3>2. Len(f[1]) <= Len(f[k - 1])
      BY <3>1, CarriesUpTo
    <3>3. /\ Len(f[1 - 1]) \in Nat
          /\ Len(f[1]) = Len(f[1 - 1]) + Size(c[1]) - 4
      BY <1>1, CarriesAt, Headers
    <3>4. Headed(c[1])
      BY <1>1 DEF Chain
    <3>5. Size(c[1]) \in Nat /\ Size(c[1]) >= 8
      BY <3>4, PayloadIs, Headers DEF Headed
    <3>6. u >= 4
      BY <1>3, <3>2, <3>3, <3>5
    <3> QED
      BY <1>4, <3>6
  <2> QED
    BY <2>1, <2>2
<1>6. Place(f, k, sz) \in Nat /\ Place(f, k, sz) <= v /\ Place(f, k, 4) = u
  <2>1. Place(f, k, sz) = u + sz - 4 /\ Place(f, k, 4) = u + 4 - 4
    BY <1>4
  <2>2. u + sz - 4 <= v
    BY <1>2, <1>3
  <2>3. sz >= 4
    BY <1>3
  <2> QED
    BY <2>1, <2>2, <2>3
<1>7. \A n \in Nat : Place(f, k, p + n) = Place(f, k, p) + n
  BY <1>4
<1>8. Place(f, k, p) = u + p - 4
  BY <1>4
<1>9. Place(f, k + 1, 4) = Place(f, k, sz)
  <2>1. k + 1 - 1 = k
    OBVIOUS
  <2>2. Place(f, k + 1, 4) = Len(f[k]) + 4 - 4
    BY <2>1 DEF Place
  <2>3. Len(f[k]) = u + sz - 4
    BY <1>2, <1>3
  <2> QED
    BY <1>4, <2>2, <2>3
<1>10. k = Len(c) => Place(f, k, sz) = v
  BY <1>2, <1>3, <1>4
<1> QED
  BY <1>2, <1>3, <1>5, <1>6, <1>7, <1>8, <1>9, <1>10

Follows(s, a, n, t) ==
  /\ s \in Seq(Nat) /\ a \in Nat /\ n \in Nat /\ a >= 4 /\ a + n <= Len(s)
  /\ t \in Seq(Nat) /\ Len(t) = n /\ \A j \in 1 .. n : t[j] = s[a + j]
LEMMA Adjacent ==
  ASSUME NEW s, NEW a, NEW n, NEW t, Follows(s, a, n, t)
  PROVE  /\ SubSeq(s, 5, a) \o t = SubSeq(s, 5, a + n)
         /\ SubSeq(s, 5, a) \o t \in Seq(Nat)
<1>0. /\ s \in Seq(Nat) /\ a \in Nat /\ n \in Nat /\ a >= 4 /\ a + n <= Len(s)
      /\ t \in Seq(Nat) /\ Len(t) = n /\ \A j \in 1 .. n : t[j] = s[a + j]
  BY DEF Follows
<1> USE <1>0
<1>1. Len(s) \in Nat
  OBVIOUS
<1>2. PICK x : x = SubSeq(s, 5, a)
  OBVIOUS
<1>3. x \in Seq(Nat) /\ Len(x) = a - 4 /\ \A j \in 1 .. a - 4 : x[j] = s[4 + j]
  <2>1. 5 \in Nat /\ 5 >= 1 /\ 5 <= a + 1 /\ a <= Len(s)
    BY <1>1
  <2>2. /\ SubSeq(s, 5, a) \in Seq(Nat) /\ Len(SubSeq(s, 5, a)) = a - 5 + 1
        /\ \A j \in 1 .. a - 5 + 1 : SubSeq(s, 5, a)[j] = s[5 + j - 1]
    BY <2>1, SubIs
  <2>3. a - 5 + 1 = a - 4 /\ \A j \in 1 .. a - 4 : 5 + j - 1 = 4 + j
    OBVIOUS
  <2> QED
    BY <1>2, <2>2, <2>3
<1>4. PICK y : y = SubSeq(s, 5, a + n)
  OBVIOUS
<1>5. /\ y \in Seq(Nat) /\ Len(y) = a + n - 4
      /\ \A j \in 1 .. a + n - 4 : y[j] = s[4 + j]
  <2>1. 5 \in Nat /\ a + n \in Nat /\ 5 >= 1 /\ 5 <= (a + n) + 1 /\ a + n <= Len(s)
    BY <1>1
  <2>2. /\ SubSeq(s, 5, a + n) \in Seq(Nat)
        /\ Len(SubSeq(s, 5, a + n)) = (a + n) - 5 + 1
        /\ \A j \in 1 .. (a + n) - 5 + 1 : SubSeq(s, 5, a + n)[j] = s[5 + j - 1]
    BY <2>1, SubIs
  <2>3. (a + n) - 5 + 1 = a + n - 4 /\ \A j \in 1 .. a + n - 4 : 5 + j - 1 = 4 + j
    OBVIOUS
  <2> QED
    BY <1>4, <2>2, <2>3
<1>6. /\ x \o t \in Seq(Nat) /\ Len(x \o t) = Len(x) + Len(t)
      /\ \A j \in 1 .. Len(x) : (x \o t)[j] = x[j]
      /\ \A j \in 1 .. Len(t) : (x \o t)[Len(x) + j] = t[j]
  BY <1>3, Concat
<1>7. PICK z \in Seq(Nat) : z = x \o t
  BY <1>6
<1>8. Len(z) = a + n - 4 /\ a - 4 \in Nat
  BY <1>3, <1>6, <1>7
<1>9. ASSUME NEW j \in 1 .. a + n - 4 PROVE z[j] = y[j]
  <2>1. CASE j <= a - 4
    <3>1. j \in 1 .. a - 4 /\ j \in 1 .. Len(x)
      BY <1>3, <1>8, <2>1
    <3>2. z[j] = x[j]
      BY <1>6, <1>7, <3>1
    <3> QED
      BY <1>3, <1>5, <3>1, <3>2
  <2>2. CASE j > a - 4
    <3>1. PICK i \in 1 .. n : j = (a - 4) + i
      <4>1. j - (a - 4) \in 1 .. n /\ j = (a - 4) + (j - (a - 4))
        BY <1>8, <2>2
      <4> QED
        BY <4>1
    <3>2. z[j] = t[i]
      <4>1. Len(x) + i = j /\ i \in 1 .. Len(t)
        BY <1>3, <3>1
      <4>2. (x \o t)[Len(x) + i] = t[i]
        BY <1>6, <4>1
      <4> QED
        BY <1>7, <4>1, <4>2
    <3>3. t[i] = s[a + i] /\ a + i = 4 + j
      BY <3>1
    <3> QED
      BY <1>5, <3>2, <3>3
  <2> QED
    BY <1>8, <2>1, <2>2
<1>10. Len(y) = Len(z) /\ \A j \in 1 .. Len(z) : z[j] = y[j]
  BY <1>5, <1>8, <1>9
<1>11. z = y
  BY <1>5, <1>10, SeqEqual
<1> QED
  BY <1>2, <1>4, <1>6, <1>7, <1>11

(* A record that is updated field by field.                                *)
LEMMA RecFields ==
  ASSUME NEW r, NEW c, NEW k, NEW p, NEW t, NEW o, NEW b, Rec(r, c, k, p, t, o, b)
  PROVE  /\ r.chain = c /\ r.packet = k /\ r.pos = p /\ r.todo = t /\ r.out = o
         /\ r.short = b /\ Here(r) = c[k]
  BY DEF Rec, IsRec, Here

LEMMA FieldPos ==
  ASSUME NEW r, NEW c, NEW k, NEW p, NEW t, NEW o, NEW b, Rec(r, c, k, p, t, o, b)
  PROVE  r.pos = p
  BY RecFields

LEMMA FieldTodo ==
  ASSUME NEW r, NEW c, NEW k, NEW p, NEW t, NEW o, NEW b, Rec(r, c, k, p, t, o, b)
  PROVE  r.todo = t
  BY RecFields

LEMMA FieldShort ==
  ASSUME NEW r, NEW c, NEW k, NEW p, NEW t, NEW o, NEW b, Rec(r, c, k, p, t, o, b)
  PROVE  r.short = b
  BY RecFields

LEMMA FieldHere ==
  ASSUME NEW r, NEW c, NEW k, NEW p, NEW t, NEW o, NEW b, Rec(r, c, k, p, t, o, b)
  PROVE  Here(r) = c[k]
  BY RecFields

LEMMA IsRecUpdate ==
  ASSUME NEW r, NEW y, NEW c, NEW k, NEW p, NEW t, NEW o, NEW b,
         IsRec(r, y, c, k, p, t, o, b), NEW j, NEW q, NEW u, NEW v, NEW e
  PROVE  /\ IsRec([r EXCEPT !.pos = q], y, c, k, q, t, o, b)
         /\ IsRec([r EXCEPT !.out = u], y, c, k, p, t, u, b)
         /\ IsRec([r EXCEPT !.packet = j], y, c, j, p, t, o, b)
         /\ IsRec([r EXCEPT !.todo = v], y, c, k, p, v, o, b)
         /\ IsRec([r EXCEPT !.short = e], y, c, k, p, t, o, e)
<1>1. IsRec([r EXCEPT !.pos = q], y, c, k, q, t, o, b)
  BY DEF IsRec
<1>2. IsRec([r EXCEPT !.out = u], y, c, k, p, t, u, b)
  BY DEF IsRec
<1>3. IsRec([r EXCEPT !.packet = j], y, c, j, p, t, o, b)
  BY DEF IsRec
<1>4. IsRec([r EXCEPT !.todo = v], y, c, k, p, v, o, b)
  BY DEF IsRec
<1>5. IsRec([r EXCEPT !.short = e], y, c, k, p, t, o, e)
  BY DEF IsRec
<1> QED
  BY <1>1, <1>2, <1>3, <1>4, <1>5

LEMMA IsRecUpdates ==
  ASSUME NEW r, NEW y, NEW c, NEW k, NEW p, NEW t, NEW o, NEW b,
         IsRec(r, y, c, k, p, t, o, b), NEW j, NEW q, NEW u, NEW v, NEW e
  PROVE  /\ IsRec([r EXCEPT !.pos = q, !.out = u], y, c, k, q, t, u, b)
         /\ IsRec([r EXCEPT !.packet = j, !.pos = q], y, c, j, q, t, o, b)
         /\ IsRec([r EXCEPT !.todo = v, !.short = e], y, c, k, p, v, o, e)
<1>1. IsRec([r EXCEPT !.pos = q, !.out = u], y, c, k, q, t, u, b)
  <2>1. PICK w : w = [r EXCEPT !.pos = q]
    OBVIOUS
  <2>2. IsRec(w, y, c, k, q, t, o, b)
    BY <2>1, IsRecUpdate, Zenon
  <2>3. IsRec([w EXCEPT !.out = u], y, c, k, q, t, u, b)
    BY <2>2, IsRecUpdate, Zenon
  <2>4. [r EXCEPT !.pos = q, !.out = u] = [w EXCEPT !.out = u]
    BY <2>1
  <2> QED
    BY <2>3, <2>4, Zenon
<1>2. IsRec([r EXCEPT !.packet = j, !.pos = q], y, c, j, q, t, o, b)
  <2>1. PICK w : w = [r EXCEPT !.packet = j]
    OBVIOUS
  <2>2. IsRec(w, y, c, j, p, t, o, b)
    BY <2>1, IsRecUpdate, Zenon
  <2>3. IsRec([w EXCEPT !.pos = q], y, c, j, q, t, o, b)
    BY <2>2, IsRecUpdate, Zenon
  <2>4. [r EXCEPT !.packet = j, !.pos = q] = [w EXCEPT !.pos = q]
    BY <2>1
  <2> QED
    BY <2>3, <2>4, Zenon
<1>3. IsRec([r EXCEPT !.todo = v, !.short = e], y, c, k, p, v, o, e)
  <2>1. PICK w : w = [r EXCEPT !.todo = v]
    OBVIOUS
  <2>2. IsRec(w, y, c, k, p, v, o, b)
    BY <2>1, IsRecUpdate, Zenon
  <2>3. IsRec([w EXCEPT !.short = e], y, c, k, p, v, o, e)
    BY <2>2, IsRecUpdate, Zenon
  <2>4. [r EXCEPT !.todo = v, !.short = e] = [w EXCEPT !.short = e]
    BY <2>1
  <2> QED
    BY <2>3, <2>4, Zenon
<1> QED
  BY <1>1, <1>2, <1>3

LEMMA RecTake ==
  ASSUME NEW r, NEW c, NEW k, NEW p, NEW t, NEW o, NEW b, Rec(r, c, k, p, t, o, b),
         NEW q, NEW u
  PROVE  Rec([r EXCEPT !.pos = q, !.out = u], c, k, q, t, u, b)
<1>1. PICK y : y = TRUE
  OBVIOUS
<1>2. IsRec(r, y, c, k, p, t, o, b)
  BY <1>1, Zenon DEF Rec
<1>3. IsRec([r EXCEPT !.pos = q, !.out = u], y, c, k, q, t, u, b)
  BY <1>2, IsRecUpdates, Zenon
<1> QED
  BY <1>1, <1>3, Zenon DEF Rec

LEMMA RecMove ==
  ASSUME NEW r, NEW c, NEW k, NEW p, NEW t, NEW o, NEW b, Rec(r, c, k, p, t, o, b),
         NEW j, NEW q
  PROVE  Rec([r EXCEPT !.packet = j, !.pos = q], c, j, q, t, o, b)
<1>1. PICK y : y = TRUE
  OBVIOUS
<1>2. IsRec(r, y, c, k, p, t, o, b)
  BY <1>1, Zenon DEF Rec
<1>3. IsRec([r EXCEPT !.packet = j, !.pos = q], y, c, j, q, t, o, b)
  BY <1>2, IsRecUpdates, Zenon
<1> QED
  BY <1>1, <1>3, Zenon DEF Rec

LEMMA RecTodo ==
  ASSUME NEW r, NEW c, NEW k, NEW p, NEW t, NEW o, NEW b, Rec(r, c, k, p, t, o, b),
         NEW v
  PROVE  Rec([r EXCEPT !.todo = v], c, k, p, v, o, b)
<1>1. PICK y : y = TRUE
  OBVIOUS
<1>2. IsRec(r, y, c, k, p, t, o, b)
  BY <1>1, Zenon DEF Rec
<1>3. IsRec([r EXCEPT !.todo = v], y, c, k, p, v, o, b)
  BY <1>2, IsRecUpdate, Zenon
<1> QED
  BY <1>1, <1>3, Zenon DEF Rec

LEMMA RecShort ==
  ASSUME NEW r, NEW c, NEW k, NEW p, NEW t, NEW o, NEW b, Rec(r, c, k, p, t, o, b),
         NEW e
  PROVE  Rec([r EXCEPT !.short = e], c, k, p, t, o, e)
<1>1. PICK y : y = TRUE
  OBVIOUS
<1>2. IsRec(r, y, c, k, p, t, o, b)
  BY <1>1, Zenon DEF Rec
<1>3. IsRec([r EXCEPT !.short = e], y, c, k, p, t, o, e)
  BY <1>2, IsRecUpdate, Zenon
<1> QED
  BY <1>1, <1>3, Zenon DEF Rec

LEMMA RecEnd ==
  ASSUME NEW r, NEW c, NEW k, NEW p, NEW t, NEW o, NEW b, Rec(r, c, k, p, t, o, b),
         NEW v, NEW e
  PROVE  Rec([r EXCEPT !.todo = v, !.short = e], c, k, p, v, o, e)
<1>1. PICK y : y = TRUE
  OBVIOUS
<1>2. IsRec(r, y, c, k, p, t, o, b)
  BY <1>1, Zenon DEF Rec
<1>3. IsRec([r EXCEPT !.todo = v, !.short = e], y, c, k, p, v, o, e)
  BY <1>2, IsRecUpdates, Zenon
<1> QED
  BY <1>1, <1>3, Zenon DEF Rec

LEMMA TakeRec ==
  ASSUME NEW r, NEW c, NEW k, NEW p, NEW t, NEW o, NEW b, Rec(r, c, k, p, t, o, b),
         NEW n, NEW q, q = p + n,
         NEW u, u = o \o SubSeq(c[k].data, p + 1, p + n)
  PROVE  Rec(Take(r, n), c, k, q, t, u, b)
<1>1. r.pos = p /\ r.out = o /\ Here(r) = c[k]
  BY RecFields
<1>2. Take(r, n) = [r EXCEPT !.pos = q, !.out = u]
  <2>1. r.pos + n = q /\ r.out \o SubSeq(Here(r).data, r.pos + 1, r.pos + n) = u
    BY <1>1, Zenon
  <2>2. Take(r, n) = [r EXCEPT !.pos = r.pos + n,
               !.out = r.out \o SubSeq(Here(r).data, r.pos + 1, r.pos + n)]
    BY Zenon DEF Take
  <2> QED
    BY <2>1, <2>2, Zenon
<1>3. Rec([r EXCEPT !.pos = q, !.out = u], c, k, q, t, u, b)
  BY RecTake, Zenon
<1> QED
  BY <1>2, <1>3, Zenon

LEMMA MoveRec ==
  ASSUME NEW r, NEW c, NEW k, NEW p, NEW t, NEW o, NEW b, Rec(r, c, k, p, t, o, b)
  PROVE  /\ Rec(MoveOn(r), c, k + 1, 4, t, o, b)
         /\ (HasNext(r) <=> k < Len(c))
         /\ Size(Here(r)) = Size(c[k])
         /\ (AtEnd(r) <=> p >= Size(c[k]))
<1>1. r.pos = p /\ r.packet = k /\ Here(r) = c[k] /\ r.chain = c
  BY RecFields
<1>2. MoveOn(r) = [r EXCEPT !.packet = k + 1, !.pos = 4]
  <2>1. MoveOn(r) = [r EXCEPT !.packet = r.packet + 1, !.pos = ACL_HDR_LEN]
    BY Zenon DEF MoveOn
  <2> QED
    BY <1>1, <2>1, Headers, Zenon
<1>3. Rec(MoveOn(r), c, k + 1, 4, t, o, b)
  <2>1. Rec([r EXCEPT !.packet = k + 1, !.pos = 4], c, k + 1, 4, t, o, b)
    BY RecMove, Zenon
  <2> QED
    BY <1>2, <2>1, Zenon
<1> QED
  BY <1>1, <1>3, Zenon DEF HasNext, AtEnd

(* Where the reader stands, for one that stands there.                     *)
LEMMA Standing ==
  ASSUME NEW f, NEW c, NEW k, NEW p, NEW o, NEW b, ReadAt(f, c, k, p, o, b)
  PROVE  /\ k \in Nat /\ k >= 1 /\ k <= Len(c) /\ Len(c) \in Nat /\ k \in 1 .. Len(c)
         /\ p \in Nat /\ p >= 4 /\ p <= Size(c[k]) /\ (k = 1 => p >= 8)
         /\ Size(c[k]) \in Nat /\ Headed(c[k])
         /\ b \in BOOLEAN
<1>1. /\ Chain(c) /\ k \in Nat /\ k >= 1 /\ k <= Len(c) /\ p \in Nat /\ p >= 4
      /\ p <= Size(c[k]) /\ (k = 1 => p >= 8) /\ b \in BOOLEAN
  BY Zenon DEF ReadAt
<1>2. Len(c) \in Nat
  BY <1>1 DEF Chain
<1>3. k \in 1 .. Len(c)
  BY <1>1, <1>2
<1>4. Headed(c[k])
  BY <1>1, <1>3, Zenon DEF Chain
<1>5. Size(c[k]) \in Nat
  BY <1>4, PayloadIs
<1> QED
  BY <1>1, <1>2, <1>3, <1>4, <1>5, Zenon

BytesAt(f, c, k) ==
  \A j \in 1 .. Size(c[k]) - 4 :
    f[Len(c)][Place(f, k, 4) + j] = c[k].data[4 + j]
AddsUp(f, k, p) == \A n \in Nat : Place(f, k, p + n) = Place(f, k, p) + n

LEMMA PlaceBytes ==
  ASSUME NEW f, NEW c, NEW k, NEW p, NEW o, NEW b, ReadAt(f, c, k, p, o, b)
  PROVE  f[Len(c)] \in Seq(Nat) /\ BytesAt(f, c, k)
<1>1. Chain(c) /\ Carries(f, c)
  BY Zenon DEF ReadAt
<1>2. k \in 1 .. Len(c)
  BY Standing, Zenon
<1>3. /\ f[Len(c)] \in Seq(Nat) /\ Len(f[k - 1]) \in Nat
      /\ \A j \in 1 .. Size(c[k]) - ACL_HDR_LEN :
           f[Len(c)][Len(f[k - 1]) + j] = c[k].data[ACL_HDR_LEN + j]
  BY <1>1, <1>2, CarriesAt
<1>4. Place(f, k, 4) = Len(f[k - 1])
  BY <1>3 DEF Place
<1> QED
  BY <1>3, <1>4, Headers, Zenon DEF BytesAt

LEMMA PlaceIn ==
  ASSUME NEW f, NEW c, NEW k, NEW p, NEW o, NEW b, ReadAt(f, c, k, p, o, b)
  PROVE  /\ Place(f, k, p) \in Nat /\ Place(f, k, p) >= 4
         /\ Place(f, k, Size(c[k])) <= Len(f[Len(c)])
         /\ Place(f, k, p) = Place(f, k, 4) + p - 4 /\ Place(f, k, 4) \in Nat
  BY PlaceIs

LEMMA PlaceAdds ==
  ASSUME NEW f, NEW c, NEW k, NEW p, NEW o, NEW b, ReadAt(f, c, k, p, o, b)
  PROVE  AddsUp(f, k, p)
  BY PlaceIs DEF AddsUp

LEMMA PlaceNext ==
  ASSUME NEW f, NEW c, NEW k, NEW p, NEW o, NEW b, ReadAt(f, c, k, p, o, b)
  PROVE  /\ Place(f, k + 1, 4) = Place(f, k, Size(c[k]))
         /\ (k = Len(c) => Place(f, k, Size(c[k])) = Len(f[Len(c)]))
  BY PlaceIs

LEMMA TakesOn ==
  ASSUME NEW f, NEW c, NEW k, NEW p, NEW o, ReadAt(f, c, k, p, o, FALSE),
         NEW n \in Nat, NEW q, q = p + n, q <= Size(c[k]),
         NEW u, u = o \o SubSeq(c[k].data, p + 1, p + n)
  PROVE  ReadAt(f, c, k, q, u, FALSE)
<1>1. /\ k \in Nat /\ k >= 1 /\ k <= Len(c) /\ Len(c) \in Nat /\ k \in 1 .. Len(c)
      /\ p \in Nat /\ p >= 4 /\ p <= Size(c[k]) /\ (k = 1 => p >= 8)
      /\ Size(c[k]) \in Nat /\ Headed(c[k])
  BY Standing, Zenon
<1>2. /\ f[Len(c)] \in Seq(Nat)
      /\ Place(f, k, p) \in Nat /\ Place(f, k, p) >= 4
      /\ Place(f, k, Size(c[k])) <= Len(f[Len(c)])
      /\ \A j \in 1 .. Size(c[k]) - 4 :
           f[Len(c)][Place(f, k, 4) + j] = c[k].data[4 + j]
      /\ Place(f, k, p) = Place(f, k, 4) + p - 4 /\ Place(f, k, 4) \in Nat
      /\ \A m \in Nat : Place(f, k, p + m) = Place(f, k, p) + m
  <2>1. /\ f[Len(c)] \in Seq(Nat)
        /\ \A j \in 1 .. Size(c[k]) - 4 :
             f[Len(c)][Place(f, k, 4) + j] = c[k].data[4 + j]
    <3>1. f[Len(c)] \in Seq(Nat) /\ BytesAt(f, c, k)
      BY PlaceBytes, Zenon
    <3> QED
      BY <3>1, Zenon DEF BytesAt
  <2>2. /\ Place(f, k, p) \in Nat /\ Place(f, k, p) >= 4
        /\ Place(f, k, Size(c[k])) <= Len(f[Len(c)])
        /\ Place(f, k, p) = Place(f, k, 4) + p - 4 /\ Place(f, k, 4) \in Nat
    BY PlaceIn, Zenon
  <2>3. \A m \in Nat : Place(f, k, p + m) = Place(f, k, p) + m
    <3>1. AddsUp(f, k, p)
      BY PlaceAdds, Zenon
    <3> QED
      BY <3>1, Zenon DEF AddsUp
  <2> QED
    BY <2>1, <2>2, <2>3, Zenon
<1>3. o = SubSeq(f[Len(c)], 5, Place(f, k, p))
  BY Zenon DEF ReadAt
<1>4. PICK d \in Seq(Nat) : d = c[k].data
  BY <1>1 DEF Headed, Packets
<1>5. Len(d) = Size(c[k])
  BY <1>4 DEF Size
<1>6. PICK s \in Seq(Nat), a \in Nat, base \in Nat, sz \in Nat, len \in Nat :
        /\ s = f[Len(c)] /\ a = Place(f, k, p) /\ base = Place(f, k, 4)
        /\ sz = Size(c[k]) /\ len = Len(s)
  <2>0. f[Len(c)] \in Seq(Nat)
    BY <1>2, Zenon
  <2>1. Len(f[Len(c)]) \in Nat
    BY <2>0
  <2> QED
    BY <1>1, <1>2, <2>1, Zenon
<1>7. /\ a >= 4 /\ a = base + p - 4 /\ p <= sz /\ q <= sz
      /\ Place(f, k, sz) <= len /\ Len(d) = sz
      /\ \A j \in 1 .. sz - 4 : s[base + j] = d[4 + j]
      /\ \A m \in Nat : Place(f, k, p + m) = a + m
      /\ o = SubSeq(s, 5, a)
  BY <1>1, <1>2, <1>3, <1>4, <1>5, <1>6, Zenon
<1>8. a >= 4 /\ a = base + p - 4 /\ p <= sz /\ q <= sz /\ p \in Nat /\ p >= 4 /\ Len(d) = sz
  BY <1>1, <1>7
<1>9. a + n <= len
  <2>1. sz - p \in Nat /\ p + (sz - p) = sz
    BY <1>8
  <2>2. Place(f, k, p + (sz - p)) = a + (sz - p)
    BY <1>7, <2>1, Zenon
  <2>3. a + (sz - p) <= len
    BY <1>7, <2>1, <2>2, Zenon
  <2> QED
    BY <1>8, <2>3
<1>10. PICK more : more = SubSeq(d, p + 1, p + n)
  OBVIOUS
<1>11. /\ more \in Seq(Nat) /\ Len(more) = n
       /\ \A j \in 1 .. n : more[j] = d[p + j]
  <2>1. /\ p + 1 \in Nat /\ p + n \in Nat /\ p + 1 >= 1 /\ p + 1 <= (p + n) + 1
        /\ p + n <= Len(d)
    BY <1>8
  <2>2. /\ SubSeq(d, p + 1, p + n) \in Seq(Nat)
        /\ Len(SubSeq(d, p + 1, p + n)) = (p + n) - (p + 1) + 1
        /\ \A j \in 1 .. (p + n) - (p + 1) + 1 :
             SubSeq(d, p + 1, p + n)[j] = d[(p + 1) + j - 1]
    BY <2>1, SubIs
  <2>3. (p + n) - (p + 1) + 1 = n /\ \A j \in 1 .. n : (p + 1) + j - 1 = p + j
    BY <1>8
  <2>4. \A j \in 1 .. n : more[j] = d[(p + 1) + j - 1]
    BY <1>10, <2>2, <2>3, Zenon
  <2>5. ASSUME NEW j \in 1 .. n PROVE more[j] = d[p + j]
    <3>1. (p + 1) + j - 1 = p + j
      BY <2>3
    <3> QED
      BY <2>4, <3>1, Zenon
  <2> QED
    BY <1>10, <2>2, <2>3, <2>5, Zenon
<1>12. ASSUME NEW j \in 1 .. n PROVE more[j] = s[a + j]
  <2>1. PICK i \in 1 .. sz - 4 : i = p - 4 + j
    <3>1. p - 4 + j \in 1 .. sz - 4
      BY <1>8
    <3> QED
      BY <3>1
  <2>2. s[base + i] = d[4 + i]
    BY <1>7, Zenon
  <2>3. base + i = a + j /\ 4 + i = p + j
    BY <1>8, <2>1
  <2> QED
    BY <1>11, <2>2, <2>3, Zenon
<1>13. /\ SubSeq(s, 5, a) \o more = SubSeq(s, 5, a + n)
       /\ SubSeq(s, 5, a) \o more \in Seq(Nat)
  <2>1. a + n <= Len(s)
    BY <1>6, <1>9
  <2>2. a >= 4
    BY <1>8
  <2>3. more \in Seq(Nat) /\ Len(more) = n /\ \A j \in 1 .. n : more[j] = s[a + j]
    BY <1>11, <1>12, Zenon
  <2>4. Follows(s, a, n, more)
    BY <2>1, <2>2, <2>3, Zenon DEF Follows
  <2> QED
    BY <2>4, Adjacent, Zenon
<1>14. u = SubSeq(f[Len(c)], 5, Place(f, k, q)) /\ u \in Seq(Nat)
  <2>1. Place(f, k, q) = a + n
    BY <1>7, Zenon
  <2>2. u = SubSeq(s, 5, a) \o more
    BY <1>4, <1>7, <1>10, Zenon
  <2> QED
    BY <1>6, <1>13, <2>1, <2>2, Zenon
<1>15. q \in Nat /\ q >= 4 /\ (k = 1 => q >= 8)
  BY <1>1
<1>16. /\ Chain(c) /\ c # << >> /\ IsStart(c[1])
       /\ got # << >> /\ Last(got).body = MessageOf(c).body
       /\ Carries(f, c)
  BY Zenon DEF ReadAt
<1> QED
  BY <1>1, <1>14, <1>15, <1>16, Zenon DEF ReadAt

LEMMA Moves ==
  ASSUME NEW f, NEW c, NEW k, NEW p, NEW o, ReadAt(f, c, k, p, o, FALSE),
         p = Size(c[k]), k < Len(c)
  PROVE  ReadAt(f, c, k + 1, 4, o, FALSE)
<1>1. /\ Chain(c) /\ c # << >> /\ IsStart(c[1])
      /\ got # << >> /\ Last(got).body = MessageOf(c).body
      /\ Carries(f, c)
      /\ o = SubSeq(f[Len(c)], 5, Place(f, k, p)) /\ o \in Seq(Nat)
  BY Zenon DEF ReadAt
<1>2. Place(f, k + 1, 4) = Place(f, k, p)
  BY PlaceNext, Zenon
<1>3. k \in Nat /\ Len(c) \in Nat /\ k >= 1
  BY Standing, Zenon
<1>4. /\ k + 1 \in Nat /\ k + 1 >= 1 /\ k + 1 <= Len(c) /\ ~(k + 1 = 1)
      /\ k + 1 \in 1 .. Len(c)
  BY <1>3
<1>5. 4 <= Size(c[k + 1])
  <2>1. Headed(c[k + 1])
    BY <1>1, <1>4, Zenon DEF Chain
  <2>2. Size(c[k + 1]) \in Nat /\ Size(c[k + 1]) >= 4
    BY <2>1, PayloadIs, Headers
  <2> QED
    BY <2>2
<1>6. 4 \in Nat /\ 4 >= 4
  OBVIOUS
<1>7. o = SubSeq(f[Len(c)], 5, Place(f, k + 1, 4))
  BY <1>1, <1>2, Zenon
<1> QED
  BY <1>1, <1>4, <1>5, <1>6, <1>7, Zenon DEF ReadAt

LEMMA Ends ==
  ASSUME NEW f, NEW c, NEW k, NEW p, NEW o, ReadAt(f, c, k, p, o, FALSE),
         p = Size(c[k]), k = Len(c)
  PROVE  ReadAt(f, c, k, p, o, TRUE)
  BY Zenon DEF ReadAt

LEMMA ReadNotShort ==
  ASSUME NEW r, Read(r), ~r.short
  PROVE  \E f, c, k, p, o : \E t \in Nat :
           Rec(r, c, k, p, t, o, FALSE) /\ ReadAt(f, c, k, p, o, FALSE)
<1>1. PICK f, c, k, p, o, b : \E t \in Nat :
        Rec(r, c, k, p, t, o, b) /\ ReadAt(f, c, k, p, o, b)
  BY ReadApart, Zenon
<1>2. PICK t \in Nat : Rec(r, c, k, p, t, o, b) /\ ReadAt(f, c, k, p, o, b)
  BY <1>1
<1>3. r.short = b
  BY <1>2, FieldShort, Zenon
<1>4. b \in BOOLEAN
  BY <1>2, Standing, Zenon
<1>5. b = FALSE
  BY <1>3, <1>4, Zenon
<1> QED
  BY <1>2, <1>5, Zenon

(* One turn of bte_buffer_reader_read.                                     *)
LEMMA TurnRead ==
  ASSUME NEW r, Read(r), ~r.short
  PROVE  Read(ReadTurn(r))
<1>1. PICK f, c, k, p, o : \E t \in Nat :
        Rec(r, c, k, p, t, o, FALSE) /\ ReadAt(f, c, k, p, o, FALSE)
  BY ReadNotShort, Zenon
<1>2. PICK t \in Nat : Rec(r, c, k, p, t, o, FALSE) /\ ReadAt(f, c, k, p, o, FALSE)
  BY <1>1
<1>3. /\ k \in Nat /\ p \in Nat /\ Size(c[k]) \in Nat /\ p <= Size(c[k])
      /\ k <= Len(c) /\ Len(c) \in Nat
  BY <1>2, Standing, Zenon
<1>4. /\ r.pos = p /\ r.todo = t /\ Size(Here(r)) = Size(c[k])
      /\ (HasNext(r) <=> k < Len(c))
  <2>1. r.pos = p
    BY <1>2, FieldPos, Zenon
  <2>2. r.todo = t
    BY <1>2, FieldTodo, Zenon
  <2>3. Size(Here(r)) = Size(c[k])
    BY <1>2, MoveRec, Zenon
  <2>4. HasNext(r) <=> k < Len(c)
    BY <1>2, MoveRec, Zenon
  <2> QED
    BY <2>1, <2>2, <2>3, <2>4, Zenon
<1>5. PICK n \in Nat : /\ n = Step(r, t) /\ n <= t /\ p + n <= Size(c[k])
                       /\ (n < t => p + n = Size(c[k]))
  <2>1. r.pos \in Nat /\ Size(Here(r)) \in Nat /\ r.pos <= Size(Here(r))
    BY <1>3, <1>4, Zenon
  <2>2. /\ Step(r, t) \in Nat /\ Step(r, t) <= t
        /\ r.pos + Step(r, t) <= Size(Here(r))
        /\ Step(r, t) < t => r.pos + Step(r, t) = Size(Here(r))
    BY <2>1, StepIs
  <2> QED
    BY <1>4, <2>2, Zenon
<1>6. PICK u, q, x : /\ u = o \o SubSeq(c[k].data, p + 1, p + n) /\ q = p + n
                     /\ x = t - n
  OBVIOUS
<1>7. q <= Size(c[k]) /\ x \in Nat /\ (x > 0 => q = Size(c[k]))
  <2>1. n <= t /\ q <= Size(c[k]) /\ (n < t => q = Size(c[k])) /\ x = t - n
    BY <1>5, <1>6, Zenon
  <2> QED
    BY <2>1
<1>8. ReadAt(f, c, k, q, u, FALSE)
  BY <1>2, <1>6, <1>7, TakesOn, Zenon
<1>9. PICK v : v = [Take(r, n) EXCEPT !.todo = @ - n]
  OBVIOUS
<1>10. Rec(v, c, k, q, x, u, FALSE)
  <2>1. Rec(Take(r, n), c, k, q, t, u, FALSE)
    BY <1>2, <1>6, TakeRec, Zenon
  <2>2. PICK w : w = Take(r, n)
    OBVIOUS
  <2>3. Rec(w, c, k, q, t, u, FALSE)
    BY <2>1, <2>2, Zenon
  <2>4. w.todo = t
    BY <2>3, FieldTodo, Zenon
  <2>5. Rec([w EXCEPT !.todo = x], c, k, q, x, u, FALSE)
    BY <2>3, RecTodo, Zenon
  <2>6. v = [w EXCEPT !.todo = w.todo - n]
    BY <1>9, <2>2, Zenon
  <2>7. w.todo - n = x
    BY <1>6, <2>4, Zenon
  <2> QED
    BY <2>5, <2>6, <2>7, Zenon
<1>11. v.todo = x
  BY <1>10, FieldTodo, Zenon
<1>12. ReadTurn(r) = CASE v.todo = 0 -> v
                       [] v.todo > 0 /\ HasNext(r) -> MoveOn(v)
                       [] OTHER -> [v EXCEPT !.todo = 0, !.short = TRUE]
  BY <1>4, <1>5, <1>9, Zenon DEF ReadTurn
<1>13. CASE x = 0
  <2>1. Read(v)
    BY <1>7, <1>8, <1>10, ReadWhole, Zenon
  <2>2. ReadTurn(r) = v
    BY <1>11, <1>12, <1>13
  <2> QED
    BY <2>1, <2>2, Zenon
<1>14. CASE x > 0
  <2>1. ~(x = 0) /\ q = Size(c[k])
    BY <1>7, <1>14
  <2>2. CASE HasNext(r)
    <3>1. ReadTurn(r) = MoveOn(v)
      BY <1>11, <1>12, <1>14, <2>1, <2>2
    <3>2. Rec(MoveOn(v), c, k + 1, 4, x, u, FALSE)
      BY <1>10, MoveRec, Zenon
    <3>3. ReadAt(f, c, k + 1, 4, u, FALSE)
      BY <1>4, <1>8, <2>1, <2>2, Moves, Zenon
    <3>4. Read(MoveOn(v))
      BY <1>7, <3>2, <3>3, ReadWhole, Zenon
    <3> QED
      BY <3>1, <3>4, Zenon
  <2>3. CASE ~HasNext(r)
    <3>1. ReadTurn(r) = [v EXCEPT !.todo = 0, !.short = TRUE]
      BY <1>11, <1>12, <2>1, <2>3
    <3>2. Rec([v EXCEPT !.todo = 0, !.short = TRUE], c, k, q, 0, u, TRUE)
      BY <1>10, RecEnd, Zenon
    <3>3. ~(k < Len(c))
      BY <1>4, <2>3, Zenon
    <3>4. k = Len(c)
      BY <1>3, <3>3
    <3>5. ReadAt(f, c, k, q, u, TRUE)
      BY <1>8, <2>1, <3>4, Ends, Zenon
    <3>6. 0 \in Nat
      OBVIOUS
    <3>7. Rec(ReadTurn(r), c, k, q, 0, u, TRUE)
      BY <3>1, <3>2, Zenon
    <3> QED
      BY <3>5, <3>6, <3>7, ReadWhole, Zenon
  <2> QED
    BY <2>2, <2>3
<1> QED
  BY <1>7, <1>13, <1>14

LEMMA AskedRead ==
  ASSUME NEW r, Read(r), NEW n \in Nat
  PROVE  Read([r EXCEPT !.todo = n]) /\ [r EXCEPT !.todo = n].short = r.short
<1>1. PICK f, c, k, p, o, b : \E t \in Nat :
        Rec(r, c, k, p, t, o, b) /\ ReadAt(f, c, k, p, o, b)
  BY ReadApart, Zenon
<1>2. PICK t \in Nat : Rec(r, c, k, p, t, o, b) /\ ReadAt(f, c, k, p, o, b)
  BY <1>1
<1>3. PICK w : w = [r EXCEPT !.todo = n]
  OBVIOUS
<1>4. Rec(w, c, k, p, n, o, b)
  BY <1>2, <1>3, RecTodo, Zenon
<1>5. Read(w)
  BY <1>2, <1>4, ReadWhole, Zenon
<1>6. w.short = b
  BY <1>4, FieldShort, Zenon
<1>7. r.short = b
  BY <1>2, FieldShort, Zenon
<1> QED
  BY <1>3, <1>5, <1>6, <1>7, Zenon

(* bte_buffer_reader_read_n and bte_buffer_reader_read_max.                *)
LEMMA AtPacketRead ==
  ASSUME NEW r, Read(r), ~r.short
  PROVE  Read(AtPacket(r)) /\ ~AtPacket(r).short
<1>1. CASE AtEnd(r) /\ HasNext(r)
  <2>1. PICK f, c, k, p, o : \E t \in Nat :
          Rec(r, c, k, p, t, o, FALSE) /\ ReadAt(f, c, k, p, o, FALSE)
    BY ReadNotShort, Zenon
  <2>2. PICK t \in Nat :
          Rec(r, c, k, p, t, o, FALSE) /\ ReadAt(f, c, k, p, o, FALSE)
    BY <2>1
  <2>3. PICK w : w = MoveOn(r)
    OBVIOUS
  <2>4. Rec(w, c, k + 1, 4, t, o, FALSE) /\ p >= Size(c[k]) /\ k < Len(c)
    BY <1>1, <2>2, <2>3, MoveRec, Zenon
  <2>5. p \in Nat /\ Size(c[k]) \in Nat /\ p <= Size(c[k])
    BY <2>2, Standing, Zenon
  <2>6. p = Size(c[k])
    BY <2>4, <2>5
  <2>7. ReadAt(f, c, k + 1, 4, o, FALSE)
    BY <2>2, <2>4, <2>6, Moves, Zenon
  <2>8. Read(w)
    BY <2>2, <2>4, <2>7, ReadWhole, Zenon
  <2>9. ~w.short
    <3>1. PICK no : no = FALSE
      OBVIOUS
    <3>2. Rec(w, c, k + 1, 4, t, o, no)
      BY <2>4, <3>1, Zenon
    <3>3. w.short = no
      BY <3>2, FieldShort, Zenon
    <3> QED
      BY <3>1, <3>3, Zenon
  <2>10. AtPacket(r) = w
    BY <1>1, <2>3, Zenon DEF AtPacket
  <2> QED
    BY <2>8, <2>9, <2>10, Zenon
<1>2. CASE ~(AtEnd(r) /\ HasNext(r))
  <2>1. AtPacket(r) = r
    BY <1>2, Zenon DEF AtPacket
  <2> QED
    BY <2>1, Zenon
<1> QED
  BY <1>1, <1>2

LEMMA TakeRead ==
  ASSUME NEW r, Read(r), ~r.short, NEW n \in Nat, n <= Size(Here(r)) - r.pos
  PROVE  Read(Take(r, n))
<1>1. PICK f, c, k, p, o : \E t \in Nat :
        Rec(r, c, k, p, t, o, FALSE) /\ ReadAt(f, c, k, p, o, FALSE)
  BY ReadNotShort, Zenon
<1>2. PICK t \in Nat : Rec(r, c, k, p, t, o, FALSE) /\ ReadAt(f, c, k, p, o, FALSE)
  BY <1>1
<1>3. PICK u, q : u = o \o SubSeq(c[k].data, p + 1, p + n) /\ q = p + n
  OBVIOUS
<1>4. q <= Size(c[k])
  <2>1. p \in Nat /\ Size(c[k]) \in Nat
    BY <1>2, Standing, Zenon
  <2>2. r.pos = p /\ Here(r) = c[k]
    BY <1>2, FieldPos, FieldHere, Zenon
  <2>3. n <= Size(c[k]) - p
    BY <2>2, Zenon
  <2> QED
    BY <1>3, <2>1, <2>3
<1>5. ReadAt(f, c, k, q, u, FALSE)
  BY <1>2, <1>3, <1>4, TakesOn, Zenon
<1>6. Rec(Take(r, n), c, k, q, t, u, FALSE)
  BY <1>2, <1>3, TakeRec, Zenon
<1> QED
  BY <1>5, <1>6, ReadWhole, Zenon

LEMMA LeftToRead ==
  ASSUME NEW r, Read(r), ~r.short
  PROVE  Size(Here(r)) - r.pos \in Nat
<1>1. PICK f, c, k, p, o : \E t \in Nat :
        Rec(r, c, k, p, t, o, FALSE) /\ ReadAt(f, c, k, p, o, FALSE)
  BY ReadNotShort, Zenon
<1>2. PICK t \in Nat : Rec(r, c, k, p, t, o, FALSE) /\ ReadAt(f, c, k, p, o, FALSE)
  BY <1>1
<1>3. p \in Nat /\ Size(c[k]) \in Nat /\ p <= Size(c[k])
  BY <1>2, Standing, Zenon
<1>4. r.pos = p /\ Here(r) = c[k]
  BY <1>2, FieldPos, FieldHere, Zenon
<1>5. Size(c[k]) - p \in Nat
  BY <1>3
<1> QED
  BY <1>4, <1>5, Zenon

LEMMA EndRead ==
  ASSUME NEW r, Read(r), ~r.short, AtEnd(r), ~HasNext(r)
  PROVE  Read([r EXCEPT !.short = TRUE])
<1>1. PICK f, c, k, p, o : \E t \in Nat :
        Rec(r, c, k, p, t, o, FALSE) /\ ReadAt(f, c, k, p, o, FALSE)
  BY ReadNotShort, Zenon
<1>2. PICK t \in Nat : Rec(r, c, k, p, t, o, FALSE) /\ ReadAt(f, c, k, p, o, FALSE)
  BY <1>1
<1>3. p >= Size(c[k]) /\ ~(k < Len(c))
  BY <1>2, MoveRec, Zenon
<1>4. /\ p \in Nat /\ Size(c[k]) \in Nat /\ p <= Size(c[k])
      /\ k \in Nat /\ Len(c) \in Nat /\ k <= Len(c)
  BY <1>2, Standing, Zenon
<1>5. p = Size(c[k]) /\ k = Len(c)
  BY <1>3, <1>4
<1>6. ReadAt(f, c, k, p, o, TRUE)
  BY <1>2, <1>5, Ends, Zenon
<1>7. Rec([r EXCEPT !.short = TRUE], c, k, p, t, o, TRUE)
  BY <1>2, RecShort, Zenon
<1> QED
  BY <1>6, <1>7, ReadWhole, Zenon

(* The steps of a callback that reads.                                     *)
LEMMA ReaderSteps ==
  ASSUME AclInv, reader' # None => Read(reader'),
         UNCHANGED <<sender, air, flushes, packet, fragmented_message,
                     fragmented_message_size, reassembled_message_size, open, got>>
  PROVE  AclInv'
<1>1. /\ writer' = writer /\ linked' = linked /\ sent' = sent /\ air' = air
      /\ flushes' = flushes /\ open' = open /\ got' = got
      /\ packet' = packet /\ fragmented_message' = fragmented_message
      /\ fragmented_message_size' = fragmented_message_size
      /\ reassembled_message_size' = reassembled_message_size
  BY DEF sender
<1>2. /\ Held /\ InHand
      /\ (writer # None => Written(writer)) /\ linked \subseteq Channels
      /\ open \subseteq Channels /\ got \in Seq(Arrived)
      /\ flushes \in Nat /\ sent \in Nat
  BY DEF AclInv
<1>3. Held' /\ InHand'
  BY <1>1, <1>2, ReceiverSame
<1>4. (reader # None => Read(reader))'
  BY <1>1, Zenon DEF Read
<1>5. PICK left : Runs(air, left) /\ Fits(left[0])
  BY DEF AclInv, Stream
<1>6. PICK lead : lead = left[0]
  OBVIOUS
<1>7. Fits(lead)'
  BY <1>1, <1>5, <1>6, FitsSame
<1>8. Stream'
  <2>1. Runs(air', left) /\ Fits(left[0])'
    BY <1>1, <1>5, <1>6, <1>7
  <2> QED
    BY <2>1, Zenon DEF Stream
<1> QED
  BY <1>1, <1>2, <1>3, <1>4, <1>8, Zenon DEF AclInv

LEMMA ReaderThere ==
  ASSUME AclInv, Reading
  PROVE  Read(reader) /\ ~reader.short
<1>1. reader.some /\ ~reader.short
  BY DEF Reading
<1>2. reader # None
  BY <1>1 DEF None
<1> QED
  BY <1>1, <1>2 DEF AclInv

LEMMA ReaderReadInv ==
  ASSUME AclInv, NEW n \in Chunks, ReaderRead(n)
  PROVE  AclInv'
<1>1. /\ Reading /\ reader' = ReadTurn([reader EXCEPT !.todo = n])
      /\ UNCHANGED <<sender, air, flushes, packet, fragmented_message,
                     fragmented_message_size, reassembled_message_size, open, got>>
  BY DEF ReaderRead
<1>2. Read(reader) /\ ~reader.short
  BY <1>1, ReaderThere
<1>3. n \in Nat
  BY ChunkIs
<1>4. PICK w : w = [reader EXCEPT !.todo = n]
  OBVIOUS
<1>5. Read(w) /\ w.short = reader.short
  BY <1>2, <1>3, <1>4, AskedRead, Zenon
<1>6. ~w.short
  BY <1>2, <1>5, Zenon
<1>7. Read(ReadTurn(w))
  BY <1>5, <1>6, TurnRead, Zenon
<1>8. Read(reader')
  BY <1>1, <1>4, <1>7, Zenon
<1> QED
  BY <1>1, <1>8, ReaderSteps, Zenon

LEMMA ReaderReadLoopInv ==
  ASSUME AclInv, ReaderReadLoop
  PROVE  AclInv'
<1>1. /\ Reading /\ reader' = ReadTurn(reader)
      /\ UNCHANGED <<sender, air, flushes, packet, fragmented_message,
                     fragmented_message_size, reassembled_message_size, open, got>>
  BY DEF ReaderReadLoop
<1>2. Read(reader) /\ ~reader.short
  BY <1>1, ReaderThere
<1>3. Read(reader')
  BY <1>1, <1>2, TurnRead, Zenon
<1> QED
  BY <1>1, <1>3, ReaderSteps, Zenon

LEMMA ReaderReadNInv ==
  ASSUME AclInv, NEW n \in Chunks, ReaderReadN(n)
  PROVE  AclInv'
<1>1. PICK r : r = AtPacket(reader)
  OBVIOUS
<1>2. /\ Reading
      /\ reader' = IF n <= Size(Here(r)) - r.pos THEN Take(r, n) ELSE r
      /\ UNCHANGED <<sender, air, flushes, packet, fragmented_message,
                     fragmented_message_size, reassembled_message_size, open, got>>
  BY <1>1 DEF ReaderReadN
<1>3. Read(reader) /\ ~reader.short
  BY <1>2, ReaderThere
<1>4. Read(r) /\ ~r.short
  BY <1>1, <1>3, AtPacketRead, Zenon
<1>5. n \in Nat
  BY ChunkIs
<1>6. n <= Size(Here(r)) - r.pos => Read(Take(r, n))
  BY <1>4, <1>5, TakeRead, Zenon
<1>7. Read(reader')
  BY <1>2, <1>4, <1>6, Zenon
<1> QED
  BY <1>2, <1>7, ReaderSteps, Zenon

LEMMA ReaderReadMaxInv ==
  ASSUME AclInv, ReaderReadMax
  PROVE  AclInv'
<1>1. PICK r : r = AtPacket(reader)
  OBVIOUS
<1>2. /\ Reading
      /\ reader' = IF AtEnd(reader) /\ ~HasNext(reader)
                   THEN [reader EXCEPT !.short = TRUE]
                   ELSE Take(r, Size(Here(r)) - r.pos)
      /\ UNCHANGED <<sender, air, flushes, packet, fragmented_message,
                     fragmented_message_size, reassembled_message_size, open, got>>
  BY <1>1 DEF ReaderReadMax
<1>3. Read(reader) /\ ~reader.short
  BY <1>2, ReaderThere
<1>4. Read(r) /\ ~r.short
  BY <1>1, <1>3, AtPacketRead, Zenon
<1>5. PICK n \in Nat : n = Size(Here(r)) - r.pos
  BY <1>4, LeftToRead
<1>6. Read(Take(r, n))
  <2>1. n <= Size(Here(r)) - r.pos
    BY <1>5
  <2> QED
    BY <1>4, <2>1, TakeRead, Zenon
<1>7. AtEnd(reader) /\ ~HasNext(reader) => Read([reader EXCEPT !.short = TRUE])
  BY <1>3, EndRead, Zenon
<1>8. Read(reader')
  BY <1>2, <1>5, <1>6, <1>7, Zenon
<1> QED
  BY <1>2, <1>8, ReaderSteps, Zenon

LEMMA ReaderDoneInv ==
  ASSUME AclInv, ReaderDone
  PROVE  AclInv'
<1>1. /\ reader' = None
      /\ UNCHANGED <<sender, air, flushes, packet, fragmented_message,
                     fragmented_message_size, reassembled_message_size, open, got>>
  BY DEF ReaderDone
<1> QED
  BY <1>1, ReaderSteps, Zenon

-----------------------------------------------------------------------------
(* The invariant holds in every state.                                     *)
LEMMA InitInv == Init => AclInv
<1> HAVE Init
<1>1. /\ writer = None /\ linked = Channels /\ sent = 0
      /\ air = << >> /\ flushes = 0 /\ packet = None
      /\ fragmented_message = << >> /\ fragmented_message_size = 0
      /\ reassembled_message_size = 0 /\ open = Channels
      /\ reader = None /\ got = << >>
  BY DEF Init
<1>2. << >> \in Seq(Packets) /\ << >> \in Seq(Arrived) /\ Len(<< >>) = 0 /\ 1 .. 0 = {}
  OBVIOUS
<1>3. Chain(fragmented_message)
  <2>1. PICK s : s = << >> /\ s \in Seq(Packets) /\ Len(s) = 0
    BY <1>2
  <2>2. Chain(s)
    BY <2>1 DEF Chain
  <2> QED
    BY <1>1, <2>1, <2>2, Zenon
<1>4. Held
  BY <1>1, <1>3 DEF Held
<1>5. InHand
  BY <1>1, Zenon DEF InHand
<1>6. Cuts = {}
  <2>1. Len(got) = 0
    BY <1>1, <1>2, Zenon
  <2> QED
    BY <1>2, <2>1, Zenon DEF Cuts
<1>7. Cardinality(Cuts) = 0
  BY <1>6, FS_EmptySet, Zenon
<1>8. Lacks = 0
  BY <1>1, Zenon DEF Lacks
<1>9. Fits(0)
  <2>1. Owed(0) = 0
    BY <1>8 DEF Owed
  <2>2. 0 \in {0, Lacks}
    OBVIOUS
  <2>3. Cardinality(Cuts) + Owed(0) <= flushes
    BY <1>1, <1>7, <2>1
  <2> QED
    BY <2>2, <2>3, Zenon DEF Fits
<1>10. Stream
  <2>1. PICK left : left = [i \in 0 .. 0 |-> 0]
    OBVIOUS
  <2>2. left[0] = 0
    BY <2>1
  <2>3. Runs(air, left)
    BY <1>1, <2>1, RunsNone, Zenon
  <2>4. Runs(air, left) /\ Fits(left[0])
    BY <1>9, <2>2, <2>3, Zenon
  <2> QED
    BY <2>4, Zenon DEF Stream
<1>11. flushes \in Nat /\ sent \in Nat
  BY <1>1
<1> QED
  BY <1>1, <1>2, <1>4, <1>5, <1>10, <1>11, Zenon DEF AclInv

LEMMA NextInv ==
  ASSUME AclInv, Next
  PROVE  AclInv'
<1>1. CASE \E c \in Channels, size \in Sizes : CreateMessage(c, size)
  BY <1>1, CreateInv, Zenon
<1>2. CASE \E n \in Chunks : WriterWrite(n) \/ ReaderRead(n) \/ ReaderReadN(n)
  BY <1>2, WriterWriteInv, ReaderReadInv, ReaderReadNInv, Zenon
<1>3. CASE WriterWriteLoop \/ SendMessage
  BY <1>3, WriterWriteLoopInv, SendInv, Zenon
<1>4. CASE \E c \in Channels : Unlink(c) \/ ChangeOpen(c)
  BY <1>4, UnlinkInv, ChangeOpenInv, Zenon
<1>5. CASE air # << >> /\ \E n \in 1 .. PacketSize : Resplit(n)
  <2>1. PICK n \in 1 .. PacketSize : Resplit(n)
    BY <1>5
  <2>2. n \in Nat
    BY RoomIs
  <2> QED
    BY <1>5, <2>1, <2>2, ResplitInv, Zenon
<1>6. CASE Flush
  BY <1>6, FlushInv, Zenon
<1>7. CASE OnDataReceived \/ OnStartWhilePending \/ OnStartResumed
  BY <1>7, OnDataReceivedInv, OnStartWhilePendingInv, OnStartResumedInv, Zenon
<1>8. CASE ReaderReadLoop \/ ReaderReadMax \/ ReaderDone
  BY <1>8, ReaderReadLoopInv, ReaderReadMaxInv, ReaderDoneInv, Zenon
<1> QED
  BY <1>1, <1>2, <1>3, <1>4, <1>5, <1>6, <1>7, <1>8, Zenon DEF Next

LEMMA StutterInv ==
  ASSUME AclInv, UNCHANGED vars
  PROVE  AclInv'
<1>1. /\ reader' = reader
      /\ UNCHANGED <<sender, air, flushes, packet, fragmented_message,
                     fragmented_message_size, reassembled_message_size, open, got>>
  BY DEF vars, sender
<1>2. reader' # None => Read(reader')
  BY <1>1, Zenon DEF AclInv
<1> QED
  BY <1>1, <1>2, ReaderSteps, Zenon

-----------------------------------------------------------------------------
(* What the invariant says of a reader.                                    *)
LEMMA Prefixes5 ==
  ASSUME NEW s \in Seq(Nat), NEW e \in Nat, e >= 4, e <= Len(s)
  PROVE  IsPrefix(SubSeq(s, 5, e), SubSeq(s, 5, Len(s)))
<1>1. PICK n \in Nat : n = Len(s)
  OBVIOUS
<1>2. PICK x, y : x = SubSeq(s, 5, e) /\ y = SubSeq(s, 5, n)
  OBVIOUS
<1>3. /\ x \in Seq(Nat) /\ Len(x) = e - 4
      /\ \A j \in 1 .. e - 4 : x[j] = s[5 + j - 1]
  <2>1. 5 \in Nat /\ 5 >= 1 /\ 5 <= e + 1 /\ e <= Len(s)
    OBVIOUS
  <2>2. /\ SubSeq(s, 5, e) \in Seq(Nat) /\ Len(SubSeq(s, 5, e)) = e - 5 + 1
        /\ \A j \in 1 .. e - 5 + 1 : SubSeq(s, 5, e)[j] = s[5 + j - 1]
    BY <2>1, SubIs
  <2>3. e - 5 + 1 = e - 4
    OBVIOUS
  <2> QED
    BY <1>2, <2>2, <2>3, Zenon
<1>4. /\ y \in Seq(Nat) /\ Len(y) = n - 4
      /\ \A j \in 1 .. n - 4 : y[j] = s[5 + j - 1]
  <2>1. 5 \in Nat /\ 5 >= 1 /\ 5 <= n + 1 /\ n <= Len(s)
    BY <1>1
  <2>2. /\ SubSeq(s, 5, n) \in Seq(Nat) /\ Len(SubSeq(s, 5, n)) = n - 5 + 1
        /\ \A j \in 1 .. n - 5 + 1 : SubSeq(s, 5, n)[j] = s[5 + j - 1]
    BY <2>1, SubIs
  <2>3. n - 5 + 1 = n - 4
    OBVIOUS
  <2> QED
    BY <1>2, <2>2, <2>3, Zenon
<1>5. PICK k \in Nat : k = Len(x) /\ k = e - 4 /\ k <= Len(y) /\ k <= n - 4
  BY <1>1, <1>3, <1>4
<1>6. PICK v, w : v = SubSeq(x, 1, k) /\ w = SubSeq(y, 1, k)
  OBVIOUS
<1>7. 1 \in Nat /\ 1 >= 1 /\ 1 <= k + 1 /\ k - 1 + 1 = k /\ k <= Len(x)
  BY <1>5
<1>8. v \in Seq(Nat) /\ Len(v) = k /\ \A j \in 1 .. k : v[j] = x[1 + j - 1]
  <2>1. /\ SubSeq(x, 1, k) \in Seq(Nat) /\ Len(SubSeq(x, 1, k)) = k - 1 + 1
        /\ \A j \in 1 .. k - 1 + 1 : SubSeq(x, 1, k)[j] = x[1 + j - 1]
    BY <1>3, <1>7, SubIs
  <2> QED
    BY <1>6, <1>7, <2>1, Zenon
<1>9. w \in Seq(Nat) /\ Len(w) = k /\ \A j \in 1 .. k : w[j] = y[1 + j - 1]
  <2>1. /\ SubSeq(y, 1, k) \in Seq(Nat) /\ Len(SubSeq(y, 1, k)) = k - 1 + 1
        /\ \A j \in 1 .. k - 1 + 1 : SubSeq(y, 1, k)[j] = y[1 + j - 1]
    BY <1>4, <1>5, <1>7, SubIs
  <2> QED
    BY <1>6, <1>7, <2>1, Zenon
<1>10. ASSUME NEW j \in 1 .. k PROVE v[j] = w[j]
  <2>1. 1 + j - 1 = j /\ j \in 1 .. e - 4 /\ j \in 1 .. n - 4
    BY <1>1, <1>5
  <2> QED
    BY <1>3, <1>4, <1>8, <1>9, <2>1, ZenonT(40)
<1>11. v = w
  BY <1>8, <1>9, <1>10, SeqEqual
<1>12. IsPrefix(x, y)
  BY <1>5, <1>6, <1>11, Zenon DEF IsPrefix
<1> QED
  BY <1>1, <1>2, <1>12, Zenon

LEMMA ReadsOn ==
  ASSUME NEW r, Read(r)
  PROVE  /\ IsPrefix(r.out, Last(got).body)
         /\ r.short => r.out = Last(got).body
<1>1. PICK f, c, k, p, o, b : \E t \in Nat :
        Rec(r, c, k, p, t, o, b) /\ ReadAt(f, c, k, p, o, b)
  BY ReadApart, Zenon
<1>2. PICK t \in Nat : Rec(r, c, k, p, t, o, b) /\ ReadAt(f, c, k, p, o, b)
  BY <1>1
<1>3. r.out = o
  BY <1>2, RecFields, ZenonT(40)
<1>4. r.short = b
  BY <1>2, FieldShort, Zenon
<1>5. /\ Chain(c) /\ Last(got).body = MessageOf(c).body /\ Carries(f, c)
      /\ o = SubSeq(f[Len(c)], 5, Place(f, k, p))
      /\ (b => k = Len(c) /\ p = Size(c[k]))
  BY <1>2, Zenon DEF ReadAt
<1>6. Carried(c) = f[Len(c)]
  <2>1. PICK g : Carries(g, c) /\ Carried(c) = g[Len(c)]
    BY <1>5, CarriedIs
  <2>2. Len(c) \in Nat /\ Len(c) <= Len(c) /\ Len(c) \in 0 .. Len(c)
    BY <1>5 DEF Chain
  <2>3. \A i \in 0 .. Len(c) : f[i] = g[i]
    BY <1>5, <2>1, <2>2, CarriesAlike
  <2> QED
    BY <2>1, <2>2, <2>3, Zenon
<1>7. PICK s, e : s = f[Len(c)] /\ e = Place(f, k, p)
  OBVIOUS
<1>8. Last(got).body = SubSeq(s, 5, Len(s))
  <2>1. MessageOf(c).body = SubSeq(Carried(c), L2CAP_HDR_LEN + 1, Len(Carried(c)))
    BY DEF MessageOf
  <2>2. L2CAP_HDR_LEN + 1 = 5
    BY Headers
  <2> QED
    BY <1>5, <1>6, <1>7, <2>1, <2>2, Zenon
<1>9. o = SubSeq(s, 5, e)
  BY <1>5, <1>7, Zenon
<1>10. s \in Seq(Nat) /\ AddsUp(f, k, p)
  BY <1>2, <1>7, PlaceBytes, PlaceAdds, Zenon
<1>11. /\ e \in Nat /\ e >= 4 /\ Place(f, k, Size(c[k])) <= Len(s)
  BY <1>2, <1>7, PlaceIn, Zenon
<1>12. e <= Len(s)
  <2>1. p \in Nat /\ Size(c[k]) \in Nat /\ p <= Size(c[k])
    BY <1>2, Standing, Zenon
  <2>2. PICK n \in Nat : Size(c[k]) = p + n
    <3>1. Size(c[k]) - p \in Nat /\ Size(c[k]) = p + (Size(c[k]) - p)
      BY <2>1
    <3> QED
      BY <3>1, Zenon
  <2>3. Place(f, k, p + n) = Place(f, k, p) + n
    BY <1>10, Zenon DEF AddsUp
  <2>4. e + n <= Len(s)
    BY <1>7, <1>11, <2>2, <2>3, Zenon
  <2>5. Len(s) \in Nat
    BY <1>10
  <2> QED
    BY <1>11, <2>4, <2>5
<1>13. IsPrefix(o, Last(got).body)
  BY <1>8, <1>9, <1>10, <1>11, <1>12, Prefixes5, Zenon
<1>14. ASSUME b PROVE o = Last(got).body
  <2>1. k = Len(c) /\ p = Size(c[k])
    BY <1>5, <1>14, Zenon
  <2>2. Place(f, k, Size(c[k])) = Len(f[Len(c)])
    BY <1>2, <2>1, PlaceNext, Zenon
  <2>3. e = Len(s)
    BY <1>7, <2>1, <2>2, Zenon
  <2> QED
    BY <1>8, <1>9, <2>3, Zenon
<1> QED
  BY <1>3, <1>4, <1>13, <1>14, Zenon

LEMMA InvReads == AclInv => ReadsItsMessage
<1> HAVE AclInv
<1>1. (reader # None => Read(reader)) /\ got \in Seq(Arrived) /\ flushes \in Nat
  BY DEF AclInv
<1>2. ASSUME reader.some
      PROVE  /\ IsPrefix(reader.out, Last(got).body)
             /\ reader.short => reader.out = Last(got).body
  <2>1. reader # None
    BY <1>2 DEF None
  <2> QED
    BY <1>1, <2>1, ReadsOn, Zenon
<1>3. Cardinality(Cuts) <= flushes
  <2>1. PICK left : Runs(air, left) /\ Fits(left[0])
    BY DEF AclInv, Stream
  <2>2. PICK lead : lead = left[0] /\ Fits(lead)
    BY <2>1, Zenon
  <2>3. Cardinality(Cuts) + Owed(lead) <= flushes
    BY <2>2, Zenon DEF Fits
  <2>4. Owed(lead) \in {0, 1}
    BY DEF Owed
  <2>5. Cardinality(Cuts) \in Nat
    BY <1>1, CutsFinite, Zenon
  <2> QED
    BY <1>1, <2>3, <2>4, <2>5
<1> QED
  BY <1>2, <1>3, Zenon DEF ReadsItsMessage, Cuts

(* However its callback mixes the three ways of reading, wherever the      *)
(* sender laid a message out in packets, controllers cut them and messages *)
(* are flushed, turned down or interrupted: what bte_buffer_reader_read,   *)
(* _read_n and _read_max have returned is a beginning of the body that     *)
(* on_data_received put together, all of it once they say that there is no *)
(* more, and no more messages are handed over cut short than were flushed. *)
THEOREM Reads == Spec => []ReadsItsMessage
<1>1. AclInv /\ [Next]_vars => AclInv'
  BY NextInv, StutterInv, Zenon
<1> QED
  BY <1>1, InitInv, InvReads, PTL DEF Spec

-----------------------------------------------------------------------------
(* The messages that packets make up.                                      *)

(* f[i] is the concatenation of the first i elements of v, and q that of   *)
(* all.                                                                    *)
SumAt(f, v, i) == IF i = 0 THEN << >> ELSE f[i - 1] \o v[i]
Sums(f, v, k) == \A i \in 0 .. k : f[i] = SumAt(f, v, i)
Flattens(q, v) == \E f : Sums(f, v, Len(v)) /\ q = f[Len(v)]

LEMMA SumsExist ==
  ASSUME NEW v, NEW k \in Nat
  PROVE  \E f : f = [i \in 0 .. k |-> SumAt(f, v, i)]
<1> DEFINE P(f, n) == f = [i \in 0 .. n |-> SumAt(f, v, i)]
           T == {n \in Nat : ~ \E f : P(f, n)}
<1> SUFFICES ASSUME T # {} PROVE FALSE
  OBVIOUS
<1>1. PICK n \in T : \A m \in T : n <= m
  <2>1. T \subseteq Nat
    OBVIOUS
  <2> HIDE DEF T
  <2> QED
    BY <2>1, LeastNat
<1>2. CASE n = 0
  <2> DEFINE f == [i \in 0 .. 0 |-> << >>]
  <2>1. f = [i \in 0 .. 0 |-> SumAt(f, v, i)]
    BY DEF SumAt
  <2>2. P(f, 0)
    <3> HIDE DEF f
    <3> QED
      BY <2>1
  <2> QED
    BY <1>2, <2>2
<1>3. CASE n # 0
  <2>1. n - 1 \in Nat /\ n - 1 \notin T
    BY <1>1, <1>3
  <2>2. PICK g : P(g, n - 1)
    BY <2>1
  <2> DEFINE f == [i \in 0 .. n |-> IF i = n THEN SumAt(g, v, n) ELSE g[i]]
  <2>3. \A i \in 0 .. n - 1 : g[i] = SumAt(g, v, i)
    BY <2>2
  <2>4. \A i \in 0 .. n : f[i] = SumAt(f, v, i)
    <3> TAKE i \in 0 .. n
    <3>1. CASE i = n
      <4>1. f[i - 1] = g[n - 1]
        BY <1>3, <3>1
      <4> QED
        BY <1>3, <3>1, <4>1 DEF SumAt
    <3>2. CASE i # n
      <4>1. f[i] = g[i] /\ i \in 0 .. n - 1
        BY <3>2
      <4>2. i # 0 => f[i - 1] = g[i - 1]
        BY <3>2
      <4>3. g[i] = SumAt(g, v, i)
        BY <2>3, <4>1
      <4> HIDE DEF f
      <4> QED
        BY <4>1, <4>2, <4>3 DEF SumAt
    <3> QED
      BY <3>1, <3>2
  <2>5. P(f, n)
    <3>1. f = [i \in 0 .. n |-> f[i]]
      OBVIOUS
    <3> HIDE DEF f
    <3> QED
      BY <2>4, <3>1
  <2> QED
    BY <2>5
<1> QED
  BY <1>2, <1>3

(* What the first elements give does not depend on the later ones.         *)
LEMMA SumsAlike ==
  ASSUME NEW S, NEW v \in Seq(Seq(S)), NEW w \in Seq(Seq(S)), NEW f, NEW g,
         NEW n \in Nat, Sums(f, v, n), Sums(g, w, n), n <= Len(v), n <= Len(w),
         \A i \in 1 .. n : v[i] = w[i]
  PROVE  \A i \in 0 .. n : f[i] = g[i] /\ f[i] \in Seq(S)
<1> DEFINE T == {i \in 0 .. n : ~(f[i] = g[i] /\ f[i] \in Seq(S))}
<1> SUFFICES ASSUME T # {} PROVE FALSE
  OBVIOUS
<1>1. PICK i \in T : \A m \in T : i <= m
  <2>1. T \subseteq Nat
    OBVIOUS
  <2> HIDE DEF T
  <2> QED
    BY <2>1, LeastNat
<1>2. f[i] = SumAt(f, v, i) /\ g[i] = SumAt(g, w, i) /\ i \in 0 .. n
  BY DEF Sums
<1>3. i # 0
  <2>1. << >> \in Seq(S)
    OBVIOUS
  <2> QED
    BY <1>2, <2>1 DEF SumAt
<1>4. i - 1 \in 0 .. n /\ i - 1 \notin T
  BY <1>1, <1>2, <1>3
<1>5. f[i - 1] = g[i - 1] /\ f[i - 1] \in Seq(S)
  BY <1>4
<1>6. i \in 1 .. n /\ i \in 1 .. Len(v) /\ v[i] = w[i] /\ v[i] \in Seq(S)
  <2>1. Len(v) \in Nat
    OBVIOUS
  <2>2. i \in 1 .. n /\ i \in 1 .. Len(v)
    BY <1>2, <1>3, <2>1
  <2> QED
    BY <2>2
<1>7. f[i] = f[i - 1] \o v[i] /\ g[i] = f[i - 1] \o v[i]
  BY <1>2, <1>3, <1>5, <1>6 DEF SumAt
<1>8. f[i - 1] \o v[i] \in Seq(S)
  BY <1>5, <1>6
<1> QED
  BY <1>7, <1>8

LEMMA FlattensOne ==
  ASSUME NEW S, NEW v \in Seq(Seq(S)), NEW p, NEW q, Flattens(p, v), Flattens(q, v)
  PROVE  p = q /\ p \in Seq(S)
<1>1. PICK f : Sums(f, v, Len(v)) /\ p = f[Len(v)]
  BY DEF Flattens
<1>2. PICK g : Sums(g, v, Len(v)) /\ q = g[Len(v)]
  BY DEF Flattens
<1>3. Len(v) \in Nat /\ Len(v) \in 0 .. Len(v) /\ Len(v) <= Len(v)
  OBVIOUS
<1>4. \A i \in 0 .. Len(v) : f[i] = g[i] /\ f[i] \in Seq(S)
  BY <1>1, <1>2, <1>3, SumsAlike
<1> QED
  BY <1>1, <1>2, <1>3, <1>4

LEMMA Associative ==
  ASSUME NEW S, NEW a \in Seq(S), NEW b \in Seq(S), NEW c \in Seq(S)
  PROVE  (a \o b) \o c = a \o (b \o c)
  OBVIOUS

LEMMA FlattensConcat ==
  ASSUME NEW S, NEW v \in Seq(Seq(S)), NEW w \in Seq(Seq(S)), NEW p, NEW q, NEW r,
         Flattens(p, v), Flattens(q, w), Flattens(r, v \o w)
  PROVE  r = p \o q
<1> DEFINE n == Len(v)
           m == Len(w)
           u == v \o w
<1>1. /\ u \in Seq(Seq(S)) /\ Len(u) = n + m /\ n \in Nat /\ m \in Nat
      /\ \A i \in 1 .. n : u[i] = v[i]
      /\ \A i \in 1 .. m : u[n + i] = w[i] /\ w[i] \in Seq(S)
  OBVIOUS
<1>9. n \in Nat /\ m \in Nat
  OBVIOUS
<1>2. PICK f : Sums(f, v, n) /\ p = f[n]
  BY DEF Flattens
<1>3. PICK g : Sums(g, w, m) /\ q = g[m]
  BY DEF Flattens
<1>4. PICK h : Sums(h, u, n + m) /\ r = h[n + m]
  BY <1>1 DEF Flattens
<1> HIDE DEF u, n, m
<1>5. h[n] = f[n] /\ f[n] \in Seq(S)
  <2>1. Sums(h, u, n)
    <3>1. \A i \in 0 .. n : i \in 0 .. n + m
      BY <1>9
    <3> QED
      BY <1>4, <3>1 DEF Sums
  <2>2. n <= Len(v) /\ n <= Len(u)
    BY <1>1 DEF n
  <2>4. u \in Seq(Seq(S)) /\ \A i \in 1 .. n : v[i] = u[i]
    BY <1>1
  <2>3. \A i \in 0 .. n : f[i] = h[i] /\ f[i] \in Seq(S)
    BY <1>2, <1>9, <2>1, <2>2, <2>4, SumsAlike
  <2> QED
    BY <1>1, <2>3
<1>6. \A i \in 0 .. m : g[i] \in Seq(S)
  <2>1. m <= Len(w)
    BY <1>1 DEF m
  <2> QED
    BY <1>1, <1>3, <2>1, SumsAlike
<1>7. \A i \in 0 .. m : h[n + i] = f[n] \o g[i]
  <2> DEFINE T == {i \in 0 .. m : h[n + i] # f[n] \o g[i]}
  <2> SUFFICES ASSUME T # {} PROVE FALSE
    OBVIOUS
  <2>1. PICK i \in T : \A j \in T : i <= j
    <3>1. 0 .. m \subseteq Nat
      BY <1>9
    <3>2. T \subseteq 0 .. m
      BY Zenon
    <3> HIDE DEF T
    <3>3. T \subseteq Nat
      BY <3>1, <3>2
    <3> QED
      BY <3>3, LeastNat
  <2>2. i \in 0 .. m /\ n + i \in 0 .. n + m
    <3>1. i \in 0 .. m
      OBVIOUS
    <3> QED
      BY <1>9, <3>1
  <2>3. i # 0
    <3>1. g[0] = << >>
      <4>1. 0 \in 0 .. m
        BY <1>9
      <4> QED
        BY <1>3, <4>1 DEF Sums, SumAt
    <3>2. f[n] \o << >> = f[n]
      BY <1>5
    <3>3. n + 0 = n
      BY <1>9
    <3> QED
      BY <1>5, <3>1, <3>2, <3>3
  <2>4. i - 1 \in 0 .. m /\ i - 1 \notin T /\ i \in 1 .. m
    <3>1. i - 1 \in 0 .. m /\ i \in 1 .. m /\ ~(i <= i - 1)
      BY <1>9, <2>2, <2>3
    <3> QED
      BY <2>1, <3>1
  <2>5. h[n + (i - 1)] = f[n] \o g[i - 1]
    BY <2>4
  <2>6. h[n + i] = h[(n + i) - 1] \o u[n + i]
    <3>1. n + i # 0
      BY <1>9, <2>2, <2>3
    <3> QED
      BY <1>4, <2>2, <3>1 DEF Sums, SumAt
  <2>7. (n + i) - 1 = n + (i - 1)
    BY <1>1, <2>2
  <2>8. g[i] = g[i - 1] \o w[i]
    BY <1>3, <2>2, <2>3 DEF Sums, SumAt
  <2>9. (f[n] \o g[i - 1]) \o w[i] = f[n] \o (g[i - 1] \o w[i])
    <3>1. w[i] \in Seq(S) /\ g[i - 1] \in Seq(S)
      BY <1>1, <1>6, <2>4
    <3>2. PICK a \in Seq(S) : a = f[n]
      BY <1>5
    <3>3. PICK b \in Seq(S) : b = g[i - 1]
      BY <3>1
    <3>4. PICK c \in Seq(S) : c = w[i]
      BY <3>1
    <3>5. (a \o b) \o c = a \o (b \o c)
      <4> HIDE DEF T
      <4> QED
        BY Associative
    <3> QED
      BY <3>2, <3>3, <3>4, <3>5
  <2>10. u[n + i] = w[i]
    BY <1>1, <2>4
  <2>11. h[n + i] = f[n] \o g[i]
    BY <2>5, <2>6, <2>7, <2>8, <2>9, <2>10
  <2> QED
    BY <2>11
<1>8. m \in 0 .. m
  BY <1>1
<1> QED
  BY <1>2, <1>3, <1>4, <1>7, <1>8

LEMMA FlattensNone ==
  ASSUME NEW q, NEW v, Len(v) = 0, Flattens(q, v)
  PROVE  q = << >>
<1>1. PICK f : Sums(f, v, 0) /\ q = f[0]
  BY DEF Flattens
<1> QED
  BY <1>1 DEF Sums, SumAt

LEMMA FlattensSingle ==
  ASSUME NEW S, NEW v \in Seq(Seq(S)), NEW q, Len(v) = 1, Flattens(q, v)
  PROVE  q = v[1]
<1>1. PICK f : Sums(f, v, 1) /\ q = f[1]
  BY DEF Flattens
<1>2. f[0] = << >> /\ f[1] = f[0] \o v[1]
  BY <1>1 DEF Sums, SumAt
<1>3. v[1] \in Seq(S)
  OBVIOUS
<1>4. << >> \o v[1] = v[1]
  BY <1>3
<1> QED
  BY <1>1, <1>2, <1>4

(* Two sequences that are c, one after the other.                          *)
Halved(c, a, b) ==
  /\ Len(c) = Len(a) + Len(b)
  /\ \A i \in 1 .. Len(a) : c[i] = a[i]
  /\ \A i \in 1 .. Len(b) : c[Len(a) + i] = b[i]
LEMMA HalvedIs ==
  ASSUME NEW S, NEW a \in Seq(S), NEW b \in Seq(S), NEW c \in Seq(S),
         Halved(c, a, b)
  PROVE  c = a \o b
<1>1. PICK d \in Seq(S) : d = a \o b
  <2>1. a \o b \in Seq(S)
    OBVIOUS
  <2> QED
    BY <2>1, Zenon
<1>2. Halved(d, a, b) /\ Len(a) \in Nat /\ Len(b) \in Nat
  BY <1>1 DEF Halved
<1>3. ASSUME NEW i \in 1 .. Len(c)
      PROVE  c[i] = d[i]
  <2>1. CASE i \in 1 .. Len(a)
    BY <1>2, <2>1 DEF Halved
  <2>2. CASE i \notin 1 .. Len(a)
    <3>1. i - Len(a) \in 1 .. Len(b) /\ Len(a) + (i - Len(a)) = i
      BY <1>2, <2>2 DEF Halved
    <3> QED
      BY <1>2, <3>1 DEF Halved
  <2> QED
    BY <2>1, <2>2
<1>4. Len(c) = Len(d)
  BY <1>2 DEF Halved
<1>5. c = d
  BY <1>3, <1>4, SeqEqual
<1> QED
  BY <1>1, <1>5

(* Carried puts the payloads together.                                     *)
Payloads(s) == [i \in 1 .. Len(s) |-> Payload(s[i])]

LEMMA ChainIs ==
  ASSUME NEW s, Chain(s)
  PROVE  s \in Seq(Packets) /\ Len(s) \in Nat /\ \A i \in 1 .. Len(s) : Headed(s[i])
  BY DEF Chain

LEMMA PayloadsAre ==
  ASSUME NEW s, Chain(s)
  PROVE  /\ Payloads(s) \in Seq(Seq(Nat)) /\ Len(Payloads(s)) = Len(s)
         /\ \A i \in 1 .. Len(s) : Payloads(s)[i] = Payload(s[i])
         /\ Flattens(Carried(s), Payloads(s))
<1>1. Len(s) \in Nat
  BY ChainIs
<1>2. \A i \in 1 .. Len(s) : Payload(s[i]) \in Seq(Nat)
  BY ChainIs, PayloadIs
<1>3. /\ Payloads(s) \in Seq(Seq(Nat)) /\ Len(Payloads(s)) = Len(s)
      /\ \A i \in 1 .. Len(s) : Payloads(s)[i] = Payload(s[i])
  BY <1>1, <1>2 DEF Payloads
<1>4. PICK f : Carries(f, s) /\ Carried(s) = f[Len(s)]
  BY CarriedIs
<1>5. \A i \in 0 .. Len(s) : f[i] = SumAt(f, Payloads(s), i)
  <2> TAKE i \in 0 .. Len(s)
  <2>1. CASE i = 0
    BY <1>4, <2>1 DEF Carries, SumAt
  <2>2. CASE i # 0
    <3>1. i \in 1 .. Len(s)
      BY <1>1, <2>2
    <3>2. f[i] = f[i - 1] \o Payload(s[i])
      BY <1>4, <3>1 DEF Carries
    <3> QED
      BY <1>3, <2>2, <3>1, <3>2 DEF SumAt
  <2> QED
    BY <2>1, <2>2
<1> QED
  BY <1>3, <1>4, <1>5 DEF Flattens, Sums

LEMMA ChainConcat ==
  ASSUME NEW s, NEW t, Chain(s), Chain(t)
  PROVE  /\ Chain(s \o t) /\ Len(s \o t) = Len(s) + Len(t)
         /\ \A i \in 1 .. Len(s) : (s \o t)[i] = s[i]
         /\ \A i \in 1 .. Len(t) : (s \o t)[Len(s) + i] = t[i]
<1>1. s \in Seq(Packets) /\ t \in Seq(Packets) /\ Len(s) \in Nat /\ Len(t) \in Nat
  BY ChainIs
<1>2. /\ s \o t \in Seq(Packets) /\ Len(s \o t) = Len(s) + Len(t)
      /\ \A i \in 1 .. Len(s) : (s \o t)[i] = s[i]
      /\ \A i \in 1 .. Len(t) : (s \o t)[Len(s) + i] = t[i]
  BY <1>1
<1>3. ASSUME NEW i \in 1 .. Len(s \o t)
      PROVE  Headed((s \o t)[i])
  <2>1. CASE i \in 1 .. Len(s)
    BY <1>2, <2>1, ChainIs
  <2>2. CASE i \notin 1 .. Len(s)
    <3>1. i - Len(s) \in 1 .. Len(t) /\ Len(s) + (i - Len(s)) = i
      BY <1>1, <1>2, <2>2
    <3>2. (s \o t)[i] = t[i - Len(s)]
      BY <1>2, <3>1
    <3> QED
      BY <3>1, <3>2, ChainIs
  <2> QED
    BY <2>1, <2>2
<1> QED
  BY <1>2, <1>3 DEF Chain

LEMMA CarriedConcat ==
  ASSUME NEW s, NEW t, Chain(s), Chain(t)
  PROVE  Carried(s \o t) = Carried(s) \o Carried(t)
<1>1. Chain(s \o t) /\ Len(s) \in Nat /\ Len(t) \in Nat
  BY ChainConcat, ChainIs
<1>2. Payloads(s \o t) = Payloads(s) \o Payloads(t)
  <2>1. PICK u : u = s \o t
    OBVIOUS
  <2>2. /\ Len(u) = Len(s) + Len(t)
        /\ \A i \in 1 .. Len(s) : u[i] = s[i]
        /\ \A i \in 1 .. Len(t) : u[Len(s) + i] = t[i]
    BY <2>1, ChainConcat
  <2>3. PICK a, b, c : a = Payloads(s) /\ b = Payloads(t) /\ c = Payloads(u)
    OBVIOUS
  <2>4. /\ a \in Seq(Seq(Nat)) /\ Len(a) = Len(s)
        /\ \A i \in 1 .. Len(s) : a[i] = Payload(s[i])
    BY <2>3, PayloadsAre
  <2>5. /\ b \in Seq(Seq(Nat)) /\ Len(b) = Len(t)
        /\ \A i \in 1 .. Len(t) : b[i] = Payload(t[i])
    BY <2>3, PayloadsAre
  <2>6. /\ c \in Seq(Seq(Nat)) /\ Len(c) = Len(s) + Len(t)
        /\ \A i \in 1 .. Len(s) + Len(t) : c[i] = Payload(u[i])
    BY <1>1, <2>1, <2>2, <2>3, PayloadsAre
  <2>7. Halved(c, a, b)
    <3>1. ASSUME NEW i \in 1 .. Len(s)
          PROVE  c[i] = a[i]
      BY <1>1, <2>2, <2>4, <2>6
    <3>2. ASSUME NEW i \in 1 .. Len(t)
          PROVE  c[Len(s) + i] = b[i]
      <4>1. Len(s) + i \in 1 .. Len(s) + Len(t)
        BY <1>1
      <4> QED
        BY <2>2, <2>5, <2>6, <4>1
    <3> QED
      BY <2>4, <2>5, <2>6, <3>1, <3>2 DEF Halved
  <2>8. PICK S : S = Seq(Nat)
    OBVIOUS
  <2>9. a \in Seq(S) /\ b \in Seq(S) /\ c \in Seq(S)
    BY <2>4, <2>5, <2>6, <2>8
  <2>10. c = a \o b
    BY <2>7, <2>9, HalvedIs
  <2> QED
    BY <2>1, <2>3, <2>10
<1> QED
  BY <1>1, <1>2, PayloadsAre, FlattensConcat

-----------------------------------------------------------------------------
(* The messages in a sequence of packets.                                  *)
(* The message of the packet at i ends with the one at e.                  *)
EndsAt(s, i, e) ==
  /\ e \in Nat /\ i <= e /\ e <= Len(s)
  /\ e < Len(s) => IsStart(s[e + 1])
  /\ \A j \in i + 1 .. e : ~IsStart(s[j])

LEMMA EndsOnce ==
  ASSUME NEW s, NEW i \in Nat, NEW e, NEW d, EndsAt(s, i, e), EndsAt(s, i, d),
         Len(s) \in Nat
  PROVE  e = d
<1>1. ASSUME NEW x, NEW y, EndsAt(s, i, x), EndsAt(s, i, y)
      PROVE  ~(x < y)
  <2> SUFFICES ASSUME x < y PROVE FALSE
    OBVIOUS
  <2>1. x \in Nat /\ y \in Nat /\ i <= x /\ y <= Len(s)
    BY <1>1 DEF EndsAt
  <2>2. x + 1 \in i + 1 .. y /\ x < Len(s)
    BY <2>1
  <2> QED
    BY <1>1, <2>2 DEF EndsAt
<1>2. e \in Nat /\ d \in Nat
  BY DEF EndsAt
<1>3. ~(e < d) /\ ~(d < e)
  BY <1>1
<1> QED
  BY <1>2, <1>3

LEMMA MessageAtIs ==
  ASSUME NEW s, Chain(s), NEW i \in 1 .. Len(s)
  PROVE  \E e : EndsAt(s, i, e) /\ MessageAt(s, i) = MessageOf(SubSeq(s, i, e))
<1> DEFINE later == {j \in i + 1 .. Len(s) : IsStart(s[j])}
           T == later \cup {Len(s) + 1}
<1>1. Len(s) \in Nat /\ i \in Nat
  BY ChainIs
<1>2. T \subseteq Nat /\ T # {}
  BY <1>1
<1>3. MessageAt(s, i) = MessageOf(SubSeq(s, i, Min(T) - 1))
  BY DEF MessageAt
<1>4. Min(T) \in T /\ \A m \in T : Min(T) <= m
  <2> HIDE DEF T
  <2> QED
    BY <1>2, MinIs
<1>5. PICK n \in T : n = Min(T)
  BY <1>4
<1>6. n \in Nat /\ i + 1 <= n /\ n <= Len(s) + 1 /\ (n <= Len(s) => IsStart(s[n]))
  BY <1>1, <1>5
<1>7. ASSUME NEW j \in i + 1 .. n - 1
      PROVE  ~IsStart(s[j])
  <2>1. j \in i + 1 .. Len(s) /\ ~(n <= j)
    BY <1>1, <1>6
  <2> QED
    BY <1>4, <1>5, <2>1
<1>8. EndsAt(s, i, n - 1)
  <2>1. n - 1 \in Nat /\ i <= n - 1 /\ n - 1 <= Len(s) /\ (n - 1) + 1 = n
    BY <1>1, <1>6
  <2>2. n - 1 < Len(s) => n <= Len(s)
    BY <1>1, <1>6
  <2> QED
    BY <1>6, <1>7, <2>1, <2>2 DEF EndsAt
<1> QED
  BY <1>3, <1>5, <1>8

LEMMA ChainSub ==
  ASSUME NEW s, Chain(s), NEW a \in Nat, NEW b \in Nat, a >= 1, a <= b + 1,
         b <= Len(s)
  PROVE  /\ Chain(SubSeq(s, a, b)) /\ Len(SubSeq(s, a, b)) = b - a + 1
         /\ \A i \in 1 .. b - a + 1 : SubSeq(s, a, b)[i] = s[a + i - 1]
<1>1. s \in Seq(Packets) /\ Len(s) \in Nat /\ \A i \in 1 .. Len(s) : Headed(s[i])
  BY ChainIs
<1>2. /\ Len(SubSeq(s, a, b)) = b - a + 1
      /\ \A i \in 1 .. b - a + 1 : SubSeq(s, a, b)[i] = s[a + i - 1]
  BY <1>1
<1>3. \A i \in 1 .. b - a + 1 : s[a + i - 1] \in Packets /\ Headed(s[a + i - 1])
  <2> TAKE i \in 1 .. b - a + 1
  <2>1. a + i - 1 \in 1 .. Len(s)
    BY <1>1
  <2> QED
    BY <1>1, <2>1
<1>4. SubSeq(s, a, b) \in Seq(Packets)
  BY <1>1, <1>3
<1> QED
  BY <1>2, <1>3, <1>4 DEF Chain

(* The sequence that MessagesIn puts together.                             *)
Slots(s) == [i \in 1 .. Len(s) |-> MessageFrom(s, i)]

LEMMA IfWholeIs ==
  ASSUME NEW m \in Arrived
  PROVE  /\ IfWhole(m) \in Seq(Arrived) /\ Len(IfWhole(m)) <= 1
         /\ IsWhole(m) => IfWhole(m) = <<m>>
         /\ ~IsWhole(m) => IfWhole(m) = << >>
<1>1. <<m>> \in Seq(Arrived) /\ << >> \in Seq(Arrived)
  OBVIOUS
<1>2. Len(<<m>>) = 1 /\ Len(<< >>) = 0
  OBVIOUS
<1> QED
  BY <1>1, <1>2 DEF IfWhole

LEMMA MessageFromIs ==
  ASSUME NEW s, Chain(s), NEW i \in 1 .. Len(s)
  PROVE  MessageFrom(s, i) \in Seq(Arrived)
<1>1. CASE ~IsStart(s[i])
  <2>1. MessageFrom(s, i) = << >>
    BY <1>1 DEF MessageFrom
  <2> QED
    BY <2>1
<1>2. CASE IsStart(s[i])
  <2>1. PICK e : EndsAt(s, i, e) /\ MessageAt(s, i) = MessageOf(SubSeq(s, i, e))
    BY MessageAtIs
  <2>2. PICK t : t = SubSeq(s, i, e)
    OBVIOUS
  <2>3. e \in Nat /\ i \in Nat /\ i >= 1 /\ i <= e + 1 /\ e <= Len(s) /\ i <= e
    BY <2>1, ChainIs DEF EndsAt
  <2>4. /\ Chain(t) /\ Len(t) = e - i + 1
        /\ \A j \in 1 .. e - i + 1 : t[j] = s[i + j - 1]
    BY <2>2, <2>3, ChainSub
  <2>5. 1 \in 1 .. e - i + 1 /\ i + 1 - 1 = i
    BY <2>3
  <2>6. t[1] = s[i] /\ t # << >>
    BY <2>4, <2>5
  <2>7. MessageOf(t) \in Arrived
    BY <1>2, <2>4, <2>6, MessageIs
  <2> QED
    BY <1>2, <2>1, <2>2, <2>7, IfWholeIs DEF MessageFrom
<1> QED
  BY <1>1, <1>2

LEMMA SlotsAre ==
  ASSUME NEW s, Chain(s)
  PROVE  /\ Slots(s) \in Seq(Seq(Arrived)) /\ Len(Slots(s)) = Len(s)
         /\ \A i \in 1 .. Len(s) : Slots(s)[i] = MessageFrom(s, i)
<1>1. Len(s) \in Nat
  BY ChainIs
<1>2. \A i \in 1 .. Len(s) : MessageFrom(s, i) \in Seq(Arrived)
  BY MessageFromIs
<1> QED
  BY <1>1, <1>2 DEF Slots

LEMMA MessagesInIs ==
  ASSUME NEW s, Chain(s)
  PROVE  Flattens(MessagesIn(s), Slots(s))
<1> DEFINE P(f) == f = [i \in 0 .. Len(s) |->
                          IF i = 0 THEN << >> ELSE f[i - 1] \o MessageFrom(s, i)]
           chosen == CHOOSE f : P(f)
<1>1. MessagesIn(s) = chosen[Len(s)]
  BY DEF MessagesIn
<1>2. Len(s) \in Nat /\ Len(Slots(s)) = Len(s)
  BY ChainIs, SlotsAre
<1>3. \A i \in 1 .. Len(s) : Slots(s)[i] = MessageFrom(s, i)
  BY SlotsAre
<1>4. PICK g : g = [i \in 0 .. Len(s) |-> SumAt(g, Slots(s), i)]
  BY <1>2, SumsExist
<1>5. P(g)
  <2>1. \A i \in 0 .. Len(s) :
          SumAt(g, Slots(s), i) = IF i = 0 THEN << >> ELSE g[i - 1] \o MessageFrom(s, i)
    <3> TAKE i \in 0 .. Len(s)
    <3>1. i # 0 => i \in 1 .. Len(s)
      BY <1>2
    <3> QED
      BY <1>3, <3>1 DEF SumAt
  <2> QED
    BY <1>4, <2>1
<1>6. P(chosen)
  BY <1>5, Zenon
<1> HIDE DEF chosen
<1>7. \A i \in 0 .. Len(s) : chosen[i] = SumAt(chosen, Slots(s), i)
  <2> TAKE i \in 0 .. Len(s)
  <2>1. i # 0 => i \in 1 .. Len(s)
    BY <1>2
  <2>2. chosen[i] = IF i = 0 THEN << >> ELSE chosen[i - 1] \o MessageFrom(s, i)
    BY <1>6
  <2> QED
    BY <1>3, <2>1, <2>2 DEF SumAt
<1> QED
  BY <1>1, <1>2, <1>7 DEF Flattens, Sums

LEMMA MessagesType ==
  ASSUME NEW s, Chain(s)
  PROVE  MessagesIn(s) \in Seq(Arrived)
  BY SlotsAre, MessagesInIs, FlattensOne

LEMMA SubAlike ==
  ASSUME NEW s, NEW t, Chain(s), Chain(t), NEW a \in Nat, NEW b \in Nat, NEW c \in Nat,
         NEW d \in Nat, a >= 1, c >= 1, a <= b, c <= d, b <= Len(s), d <= Len(t),
         b - a = d - c, \A i \in 1 .. b - a + 1 : s[a + i - 1] = t[c + i - 1]
  PROVE  SubSeq(s, a, b) = SubSeq(t, c, d)
<1>1. PICK x, y : x = SubSeq(s, a, b) /\ y = SubSeq(t, c, d)
  OBVIOUS
<1>2. /\ Chain(x) /\ Len(x) = b - a + 1
      /\ \A i \in 1 .. b - a + 1 : x[i] = s[a + i - 1]
  <2>1. a <= b + 1
    OBVIOUS
  <2> QED
    BY <1>1, <2>1, ChainSub
<1>3. /\ Chain(y) /\ Len(y) = d - c + 1
      /\ \A i \in 1 .. d - c + 1 : y[i] = t[c + i - 1]
  <2>1. c <= d + 1
    OBVIOUS
  <2> QED
    BY <1>1, <2>1, ChainSub
<1>4. Len(x) = Len(y) /\ \A i \in 1 .. Len(x) : x[i] = y[i]
  BY <1>2, <1>3
<1>5. x \in Seq(Packets) /\ y \in Seq(Packets)
  BY <1>2, <1>3, ChainIs
<1>6. x = y
  BY <1>4, <1>5, SeqEqual
<1> QED
  BY <1>1, <1>6

(* Nothing, or something that begins with a start.                         *)
Begins(t) == t = << >> \/ IsStart(t[1])

LEMMA SlotsConcat ==
  ASSUME NEW s, NEW t, Chain(s), Chain(t), Begins(t)
  PROVE  Slots(s \o t) = Slots(s) \o Slots(t)
<1>1. PICK u : u = s \o t
  OBVIOUS
<1>2. PICK n \in Nat, m \in Nat : n = Len(s) /\ m = Len(t)
  BY ChainIs
<1>3. /\ Chain(u) /\ Len(u) = n + m
      /\ \A i \in 1 .. n : u[i] = s[i]
      /\ \A i \in 1 .. m : u[n + i] = t[i]
  BY <1>1, <1>2, ChainConcat
<1>4. ASSUME NEW i \in 1 .. n
      PROVE  MessageFrom(u, i) = MessageFrom(s, i)
  <2>1. i \in 1 .. Len(s) /\ i \in 1 .. Len(u) /\ i \in Nat /\ u[i] = s[i]
    BY <1>2, <1>3
  <2>2. PICK e : EndsAt(s, i, e) /\ MessageAt(s, i) = MessageOf(SubSeq(s, i, e))
    BY <2>1, MessageAtIs
  <2>3. PICK d : EndsAt(u, i, d) /\ MessageAt(u, i) = MessageOf(SubSeq(u, i, d))
    BY <1>3, <2>1, MessageAtIs
  <2>4. e \in Nat /\ i <= e /\ e <= n /\ (e < n => IsStart(s[e + 1]))
    BY <1>2, <2>2 DEF EndsAt
  <2>5. EndsAt(u, i, e)
    <3>1. e <= Len(u)
      BY <1>3, <2>4
    <3>2. ASSUME e < Len(u)
          PROVE  IsStart(u[e + 1])
      <4>1. CASE e < n
        <5>1. e + 1 \in 1 .. n
          BY <2>4, <4>1
        <5> QED
          BY <1>3, <2>4, <4>1, <5>1
      <4>2. CASE ~(e < n)
        <5>1. e = n /\ m >= 1 /\ 1 \in 1 .. m /\ n + 1 = e + 1
          BY <1>3, <2>4, <3>2, <4>2
        <5>2. t # << >>
          BY <1>2, <5>1
        <5> QED
          BY <1>3, <5>1, <5>2 DEF Begins
      <4> QED
        BY <4>1, <4>2
    <3>3. ASSUME NEW j \in i + 1 .. e
          PROVE  ~IsStart(u[j])
      <4>1. j \in 1 .. n
        BY <2>1, <2>4
      <4> QED
        BY <1>3, <2>2, <4>1 DEF EndsAt
    <3> QED
      BY <2>4, <3>1, <3>2, <3>3 DEF EndsAt
  <2>6. d = e
    BY <1>3, <2>1, <2>3, <2>5, EndsOnce
  <2>7. SubSeq(u, i, e) = SubSeq(s, i, e)
    <3>1. \A j \in 1 .. e - i + 1 : u[i + j - 1] = s[i + j - 1]
      <4> TAKE j \in 1 .. e - i + 1
      <4>1. i + j - 1 \in 1 .. n
        BY <2>1, <2>4
      <4> QED
        BY <1>3, <4>1
    <3>2. i >= 1 /\ e <= Len(u) /\ e <= Len(s)
      BY <1>2, <1>3, <2>1, <2>4
    <3> QED
      BY <1>3, <2>1, <2>4, <3>1, <3>2, SubAlike
  <2> QED
    BY <2>1, <2>2, <2>3, <2>6, <2>7 DEF MessageFrom
<1>5. ASSUME NEW i \in 1 .. m
      PROVE  MessageFrom(u, n + i) = MessageFrom(t, i)
  <2>1. i \in 1 .. Len(t) /\ n + i \in 1 .. Len(u) /\ i \in Nat /\ n + i \in Nat /\ u[n + i] = t[i]
    BY <1>2, <1>3
  <2>2. PICK e : EndsAt(t, i, e) /\ MessageAt(t, i) = MessageOf(SubSeq(t, i, e))
    BY <2>1, MessageAtIs
  <2>3. PICK d : EndsAt(u, n + i, d) /\ MessageAt(u, n + i) = MessageOf(SubSeq(u, n + i, d))
    BY <1>3, <2>1, MessageAtIs
  <2>4. e \in Nat /\ i <= e /\ e <= m /\ (e < m => IsStart(t[e + 1]))
    BY <1>2, <2>2 DEF EndsAt
  <2>5. EndsAt(u, n + i, n + e)
    <3>1. n + e <= Len(u) /\ n + e \in Nat /\ n + i <= n + e
      BY <1>3, <2>1, <2>4
    <3>2. ASSUME n + e < Len(u)
          PROVE  IsStart(u[(n + e) + 1])
      <4>1. e + 1 \in 1 .. m /\ e < m /\ n + (e + 1) = (n + e) + 1
        BY <1>3, <2>4, <3>2
      <4> QED
        BY <1>3, <2>4, <4>1
    <3>3. ASSUME NEW j \in (n + i) + 1 .. n + e
          PROVE  ~IsStart(u[j])
      <4>1. j - n \in 1 .. m /\ n + (j - n) = j /\ j - n \in i + 1 .. e
        BY <2>1, <2>4
      <4>2. ~IsStart(t[j - n])
        BY <2>2, <4>1 DEF EndsAt
      <4> QED
        BY <1>3, <4>1, <4>2
    <3> QED
      BY <3>1, <3>2, <3>3 DEF EndsAt
  <2>6. d = n + e
    BY <1>3, <2>1, <2>3, <2>5, EndsOnce
  <2>7. SubSeq(u, n + i, n + e) = SubSeq(t, i, e)
    <3>1. \A j \in 1 .. (n + e) - (n + i) + 1 : u[(n + i) + j - 1] = t[i + j - 1]
      <4> TAKE j \in 1 .. (n + e) - (n + i) + 1
      <4>1. i + j - 1 \in 1 .. m /\ n + (i + j - 1) = (n + i) + j - 1
        BY <2>1, <2>4
      <4> QED
        BY <1>3, <4>1
    <3>2. /\ i >= 1 /\ n + e <= Len(u) /\ e <= Len(t) /\ n + i >= 1 /\ n + i <= n + e
          /\ (n + e) - (n + i) = e - i /\ n + e \in Nat
      BY <1>2, <1>3, <2>1, <2>4
    <3> QED
      BY <1>3, <2>1, <2>4, <3>1, <3>2, SubAlike
  <2> QED
    BY <2>1, <2>2, <2>3, <2>6, <2>7 DEF MessageFrom
<1>6. PICK a, b, c : a = Slots(s) /\ b = Slots(t) /\ c = Slots(u)
  OBVIOUS
<1>7. PICK S : S = Seq(Arrived)
  OBVIOUS
<1>8. /\ a \in Seq(S) /\ Len(a) = n /\ \A i \in 1 .. n : a[i] = MessageFrom(s, i)
  BY <1>2, <1>6, <1>7, SlotsAre
<1>9. /\ b \in Seq(S) /\ Len(b) = m /\ \A i \in 1 .. m : b[i] = MessageFrom(t, i)
  BY <1>2, <1>6, <1>7, SlotsAre
<1>10. /\ c \in Seq(S) /\ Len(c) = n + m /\ \A i \in 1 .. n + m : c[i] = MessageFrom(u, i)
  BY <1>3, <1>6, <1>7, SlotsAre
<1>11. Halved(c, a, b)
  <2>1. ASSUME NEW i \in 1 .. n
        PROVE  c[i] = a[i]
    BY <1>4, <1>8, <1>10
  <2>2. ASSUME NEW i \in 1 .. m
        PROVE  c[n + i] = b[i]
    <3>1. n + i \in 1 .. n + m
      OBVIOUS
    <3> QED
      BY <1>5, <1>9, <1>10, <3>1
  <2> QED
    BY <1>8, <1>9, <1>10, <2>1, <2>2 DEF Halved
<1>12. c = a \o b
  BY <1>8, <1>9, <1>10, <1>11, HalvedIs
<1> QED
  BY <1>1, <1>6, <1>12

(* What is before a start and what is from it on are read apart.           *)
LEMMA MessagesConcat ==
  ASSUME NEW s, NEW t, Chain(s), Chain(t), Begins(t)
  PROVE  MessagesIn(s \o t) = MessagesIn(s) \o MessagesIn(t)
<1>1. Chain(s \o t)
  BY ChainConcat
<1>2. Flattens(MessagesIn(s \o t), Slots(s) \o Slots(t))
  BY <1>1, MessagesInIs, SlotsConcat
<1>3. Flattens(MessagesIn(s), Slots(s)) /\ Flattens(MessagesIn(t), Slots(t))
  BY MessagesInIs
<1>4. Slots(s) \in Seq(Seq(Arrived)) /\ Slots(t) \in Seq(Seq(Arrived))
  BY SlotsAre
<1> QED
  BY <1>2, <1>3, <1>4, FlattensConcat

LEMMA Flat ==
  ASSUME NEW v, Len(v) \in Nat
  PROVE  \E q : Flattens(q, v)
<1>1. PICK f : f = [i \in 0 .. Len(v) |-> SumAt(f, v, i)]
  BY SumsExist
<1>2. \A i \in 0 .. Len(v) : f[i] = SumAt(f, v, i)
  BY <1>1
<1>3. Flattens(f[Len(v)], v)
  BY <1>2 DEF Flattens, Sums
<1> QED
  BY <1>3

LEMMA FlattensEmpties ==
  ASSUME NEW v, NEW q, Len(v) \in Nat, Flattens(q, v),
         \A i \in 1 .. Len(v) : v[i] = << >>
  PROVE  q = << >>
<1> DEFINE n == Len(v)
<1>1. PICK f : Sums(f, v, n) /\ q = f[n]
  BY DEF Flattens
<1> DEFINE T == {i \in 0 .. n : f[i] # << >>}
<1> SUFFICES ASSUME T # {} PROVE FALSE
  BY <1>1
<1>2. PICK i \in T : \A m \in T : i <= m
  <2>1. T \subseteq Nat
    OBVIOUS
  <2> HIDE DEF T
  <2> QED
    BY <2>1, LeastNat
<1>3. f[i] = SumAt(f, v, i) /\ i \in 0 .. n /\ f[i] # << >>
  BY <1>1 DEF Sums
<1>4. i # 0
  BY <1>3 DEF SumAt
<1>5. i - 1 \in 0 .. n /\ i - 1 \notin T /\ i \in 1 .. n
  BY <1>2, <1>3, <1>4
<1>6. f[i - 1] = << >> /\ v[i] = << >>
  BY <1>5
<1>7. << >> \o << >> = << >>
  OBVIOUS
<1> QED
  BY <1>3, <1>4, <1>6, <1>7, Zenon DEF SumAt

(* Continuations alone make up no message.                                 *)
Follow(s) == \A i \in 1 .. Len(s) : ~IsStart(s[i])
LEMMA MessagesNone ==
  ASSUME NEW s, Chain(s), Follow(s)
  PROVE  MessagesIn(s) = << >>
<1>1. /\ Slots(s) \in Seq(Seq(Arrived)) /\ Len(Slots(s)) = Len(s)
      /\ \A i \in 1 .. Len(s) : Slots(s)[i] = MessageFrom(s, i)
  BY SlotsAre
<1>2. \A i \in 1 .. Len(Slots(s)) : Slots(s)[i] = << >>
  BY <1>1 DEF Follow, MessageFrom
<1>3. Len(Slots(s)) \in Nat
  BY <1>1, ChainIs
<1> QED
  BY <1>2, <1>3, FlattensEmpties, MessagesInIs

(* A start and continuations make up one.                                  *)
One(s) == s # << >> /\ IsStart(s[1]) /\ \A i \in 2 .. Len(s) : ~IsStart(s[i])
LEMMA MessagesOne ==
  ASSUME NEW s, Chain(s), One(s)
  PROVE  MessagesIn(s) = IfWhole(MessageOf(s))
<1>1. Len(s) \in Nat /\ Len(s) >= 1 /\ s \in Seq(Packets)
  BY ChainIs DEF One
<1>2. PICK h, t : h = SubSeq(s, 1, 1) /\ t = SubSeq(s, 2, Len(s))
  OBVIOUS
<1>3. Slots(s)[1] = IfWhole(MessageOf(s))
  <2>1. 1 \in 1 .. Len(s)
    BY <1>1
  <2>2. PICK e : EndsAt(s, 1, e) /\ MessageAt(s, 1) = MessageOf(SubSeq(s, 1, e))
    BY <2>1, MessageAtIs
  <2>3. EndsAt(s, 1, Len(s))
    <3>1. ~(Len(s) < Len(s)) /\ Len(s) <= Len(s) /\ 1 <= Len(s) /\ 1 + 1 = 2
      BY <1>1
    <3> QED
      BY <1>1, <3>1 DEF EndsAt, One
  <2>4. e = Len(s)
    BY <1>1, <2>2, <2>3, EndsOnce
  <2>5. SubSeq(s, 1, Len(s)) = s
    BY <1>1
  <2> QED
    BY <2>1, <2>2, <2>4, <2>5, SlotsAre DEF MessageFrom, One
<1>4. PICK S, a, b, c : /\ S = Seq(Arrived) /\ c = Slots(s)
                        /\ a = <<Slots(s)[1]>> /\ b = [i \in 1 .. Len(s) - 1 |-> << >>]
  OBVIOUS
<1>5. /\ c \in Seq(S) /\ Len(c) = Len(s)
      /\ \A i \in 1 .. Len(s) : c[i] = MessageFrom(s, i)
  BY <1>4, SlotsAre
<1>6. << >> \in S
  BY <1>4
<1>7. /\ b \in Seq(S) /\ Len(b) = Len(s) - 1 /\ \A i \in 1 .. Len(s) - 1 : b[i] = << >>
  BY <1>1, <1>4, <1>6
<1>8. c[1] \in S /\ a = <<c[1]>>
  BY <1>1, <1>4, <1>5
<1>9. a \in Seq(S) /\ Len(a) = 1 /\ a[1] = c[1]
  BY <1>8
<1>10. Halved(c, a, b)
  <2>1. Len(c) = Len(a) + Len(b)
    BY <1>1, <1>5, <1>7, <1>9
  <2>2. \A i \in 1 .. Len(a) : c[i] = a[i]
    <3> TAKE i \in 1 .. Len(a)
    <3>1. i = 1
      BY <1>9
    <3> QED
      BY <1>9, <3>1
  <2>3. \A i \in 1 .. Len(b) : c[Len(a) + i] = b[i]
    <3> TAKE i \in 1 .. Len(b)
    <3>1. Len(a) + i = 1 + i /\ 1 + i \in 1 .. Len(s) /\ 1 + i \in 2 .. Len(s)
      BY <1>1, <1>7, <1>9
    <3>2. MessageFrom(s, 1 + i) = << >>
      BY <3>1 DEF MessageFrom, One
    <3> QED
      BY <1>5, <1>7, <3>1, <3>2
  <2> QED
    BY <2>1, <2>2, <2>3 DEF Halved
<1>11. c = a \o b
  BY <1>5, <1>7, <1>9, <1>10, HalvedIs
<1>12. Len(a) \in Nat /\ Len(b) \in Nat
  BY <1>1, <1>7, <1>9
<1>13. PICK p, q : Flattens(p, a) /\ Flattens(q, b)
  BY <1>12, Flat
<1>14. PICK r : r = MessagesIn(s) /\ Flattens(r, a \o b)
  BY <1>4, <1>11, MessagesInIs
<1>15. a \in Seq(Seq(Arrived)) /\ b \in Seq(Seq(Arrived))
  BY <1>4, <1>7, <1>9
<1>16. r = p \o q
  BY <1>13, <1>14, <1>15, FlattensConcat
<1>17. p = a[1]
  BY <1>9, <1>13, <1>15, FlattensSingle
<1>18. q = << >>
  BY <1>1, <1>7, <1>13, FlattensEmpties
<1>19. a[1] \in Seq(Arrived)
  BY <1>4, <1>8, <1>9
<1>20. a[1] \o << >> = a[1]
  BY <1>19
<1>21. a[1] = IfWhole(MessageOf(s))
  BY <1>3, <1>4, <1>9
<1> QED
  BY <1>14, <1>16, <1>17, <1>18, <1>20, <1>21

-----------------------------------------------------------------------------
(* What is under way: the rest of a message, then whole ones.              *)
LEMMA RunsChain ==
  ASSUME NEW s, NEW left, Runs(s, left)
  PROVE  Chain(s)
  BY DEF Runs, RunsAt, Proper, Chain

(* The continuations that packets begin with, and the messages after them. *)
Parted(s, left, lead, rest) ==
  /\ s = lead \o rest /\ Chain(lead) /\ Chain(rest)
  /\ Follow(lead) /\ Begins(rest)
  /\ Len(Carried(lead)) = left[0]
  /\ lead = << >> <=> left[0] = 0
  /\ \E m : Runs(rest, m) /\ m[0] = 0

LEMMA RunsCarried ==
  ASSUME NEW s, NEW left, Runs(s, left), NEW k \in Nat, k <= Len(s),
         \A i \in 1 .. k : ~IsStart(s[i]),
         NEW f, Carries(f, SubSeq(s, 1, k))
  PROVE  Len(f[k]) + left[k] = left[0]
<1>1. PICK t : t = SubSeq(s, 1, k)
  OBVIOUS
<1>2. /\ left \in [0 .. Len(s) -> Nat] /\ Len(s) \in Nat /\ Chain(s)
      /\ \A i \in 1 .. Len(s) : RunsAt(s, left, i)
  BY RunsChain, ChainIs DEF Runs
<1>3. Len(t) = k /\ \A i \in 1 .. k : t[i] = s[i]
  <2>1. 1 \in Nat /\ 1 >= 1 /\ 1 <= k + 1 /\ k - 1 + 1 = k
    OBVIOUS
  <2>2. /\ Len(SubSeq(s, 1, k)) = k - 1 + 1
        /\ \A i \in 1 .. k - 1 + 1 : SubSeq(s, 1, k)[i] = s[1 + i - 1]
    BY <1>2, <2>1, ChainSub
  <2>3. \A i \in 1 .. k : 1 + i - 1 = i
    OBVIOUS
  <2> QED
    BY <1>1, <2>1, <2>2, <2>3
<1>4. /\ f \in [0 .. k -> Seq(Nat)] /\ f[0] = << >>
      /\ \A i \in 1 .. k : Len(f[i]) = Len(f[i - 1]) + Size(s[i]) - ACL_HDR_LEN
  BY <1>1, <1>3 DEF Carries
<1>5. \A i \in 0 .. k : Len(f[i]) \in Nat /\ left[i] \in Nat
  <2> TAKE i \in 0 .. k
  <2>1. Len(s) \in Nat
    BY <1>2
  <2>2. i \in 0 .. Len(s)
    BY <2>1
  <2>3. f[i] \in Seq(Nat)
    BY <1>4
  <2> QED
    BY <1>2, <2>2, <2>3
<1> DEFINE T == {i \in 0 .. k : Len(f[i]) + left[i] # left[0]}
<1> SUFFICES ASSUME T # {} PROVE FALSE
  OBVIOUS
<1>6. PICK i \in T : \A m \in T : i <= m
  <2>1. T \subseteq Nat
    OBVIOUS
  <2> HIDE DEF T
  <2> QED
    BY <2>1, LeastNat
<1>7. i \in 0 .. k /\ Len(f[i]) + left[i] # left[0]
  OBVIOUS
<1>8. i # 0
  <2>1. Len(f[0]) = 0 /\ left[0] \in Nat
    BY <1>4, <1>5
  <2> QED
    BY <1>7, <2>1
<1>9. i - 1 \in 0 .. k /\ i - 1 \notin T /\ i \in 1 .. k /\ i \in 1 .. Len(s)
  BY <1>2, <1>6, <1>7, <1>8
<1>10. Len(f[i - 1]) + left[i - 1] = left[0]
  BY <1>9
<1>11. RunsAt(s, left, i) /\ ~IsStart(s[i])
  BY <1>2, <1>9
<1>12. left[i - 1] = s[i].length + left[i] /\ s[i].length = Size(s[i]) - ACL_HDR_LEN
  BY <1>11 DEF RunsAt, Proper
<1>13. Len(f[i]) = Len(f[i - 1]) + Size(s[i]) - ACL_HDR_LEN
  BY <1>4, <1>9
<1>14. Size(s[i]) \in Nat
  <2>1. Headed(s[i])
    BY <1>11 DEF RunsAt, Proper
  <2> QED
    BY <2>1, PayloadIs
<1>15. PICK a \in Nat, b \in Nat, c \in Nat, d \in Nat, e \in Nat, z \in Nat :
          /\ a = Len(f[i]) /\ b = Len(f[i - 1]) /\ c = left[i] /\ d = left[i - 1]
          /\ e = Size(s[i]) /\ z = left[0]
  <2>1. 0 \in 0 .. k /\ i \in 0 .. k
    BY <1>7
  <2> QED
    BY <1>5, <1>9, <1>14, <2>1
<1>16. /\ b + d = z /\ a = b + e - 4 /\ d = (e - 4) + c /\ a + c # z
  <2> HIDE DEF T
  <2> QED
    BY <1>7, <1>10, <1>12, <1>13, <1>15, Numbers
<1> QED
  <2> HIDE DEF T
  <2> QED
    BY <1>16

LEMMA Parts ==
  ASSUME NEW s, NEW left, Runs(s, left)
  PROVE  \E lead, rest : Parted(s, left, lead, rest)
<1>1. /\ left \in [0 .. Len(s) -> Nat] /\ Len(s) \in Nat /\ Chain(s) /\ left[Len(s)] = 0
      /\ s \in Seq(Packets) /\ \A i \in 1 .. Len(s) : RunsAt(s, left, i)
  BY RunsChain, ChainIs DEF Runs
<1> DEFINE T == {j \in 1 .. Len(s) : IsStart(s[j])} \cup {Len(s) + 1}
<1>2. PICK n \in T : \A m \in T : n <= m
  <2>1. T \subseteq Nat /\ T # {}
    BY <1>1
  <2> HIDE DEF T
  <2> QED
    BY <2>1, LeastNat
<1>3. /\ n \in Nat /\ n >= 1 /\ n <= Len(s) + 1 /\ (n <= Len(s) => IsStart(s[n]))
  BY <1>1
<1>4. ASSUME NEW i \in 1 .. n - 1
      PROVE  ~IsStart(s[i])
  <2>1. i \in 1 .. Len(s) /\ ~(n <= i)
    BY <1>1, <1>3
  <2> QED
    BY <1>2, <2>1
<1> HIDE DEF T
<1>5. PICK k \in Nat : k = n - 1 /\ n = k + 1 /\ k <= Len(s)
  BY <1>1, <1>3
<1>6. PICK lead, rest : lead = SubSeq(s, 1, k) /\ rest = SubSeq(s, k + 1, Len(s))
  OBVIOUS
<1>7. /\ Chain(lead) /\ Len(lead) = k /\ \A i \in 1 .. k : lead[i] = s[i]
  <2>1. 1 \in Nat /\ 1 >= 1 /\ 1 <= k + 1 /\ k - 1 + 1 = k
    OBVIOUS
  <2>2. /\ Chain(lead) /\ Len(lead) = k - 1 + 1
        /\ \A i \in 1 .. k - 1 + 1 : lead[i] = s[1 + i - 1]
    BY <1>1, <1>5, <1>6, <2>1, ChainSub
  <2>3. \A i \in 1 .. k : 1 + i - 1 = i
    OBVIOUS
  <2> QED
    BY <2>1, <2>2, <2>3
<1>8. /\ Chain(rest) /\ Len(rest) = Len(s) - k
      /\ \A i \in 1 .. Len(s) - k : rest[i] = s[k + i]
  <2>1. /\ k + 1 \in Nat /\ k + 1 >= 1 /\ k + 1 <= Len(s) + 1
        /\ Len(s) - (k + 1) + 1 = Len(s) - k /\ Len(s) <= Len(s)
    BY <1>1, <1>5
  <2>4. PICK a \in Nat, b \in Nat : a = k + 1 /\ b = Len(s)
    BY <1>1, <2>1
  <2>5. a >= 1 /\ a <= b + 1 /\ b <= Len(s)
    BY <2>1, <2>4
  <2>6. /\ Chain(SubSeq(s, a, b)) /\ Len(SubSeq(s, a, b)) = b - a + 1
        /\ \A i \in 1 .. b - a + 1 : SubSeq(s, a, b)[i] = s[a + i - 1]
    BY <1>1, <2>5, ChainSub
  <2>2. /\ Chain(rest) /\ Len(rest) = Len(s) - (k + 1) + 1
        /\ \A i \in 1 .. Len(s) - (k + 1) + 1 : rest[i] = s[k + 1 + i - 1]
    BY <1>6, <2>4, <2>6
  <2>3. \A i \in 1 .. Len(s) - k : k + 1 + i - 1 = k + i
    <3> TAKE i \in 1 .. Len(s) - k
    <3>1. Len(s) \in Nat
      BY <1>1
    <3>2. i \in Int
      BY <3>1
    <3> QED
      BY <3>2
  <2> QED
    BY <2>1, <2>2, <2>3
<1>9. s = lead \o rest
  <2>1. Halved(s, lead, rest)
    <3>1. Len(s) = Len(lead) + Len(rest)
      BY <1>1, <1>5, <1>7, <1>8
    <3>2. /\ \A i \in 1 .. Len(lead) : s[i] = lead[i]
          /\ \A i \in 1 .. Len(rest) : s[Len(lead) + i] = rest[i]
      BY <1>7, <1>8
    <3> QED
      BY <3>1, <3>2 DEF Halved
  <2>2. lead \in Seq(Packets) /\ rest \in Seq(Packets)
    BY <1>7, <1>8, ChainIs
  <2> QED
    BY <1>1, <2>1, <2>2, HalvedIs
<1>10. Follow(lead)
  BY <1>4, <1>5, <1>7 DEF Follow
<1>11. Begins(rest)
  <2>1. CASE n <= Len(s)
    <3>1. 1 \in 1 .. Len(s) - k
      BY <1>1, <1>5, <2>1
    <3> QED
      BY <1>3, <1>5, <1>8, <2>1, <3>1 DEF Begins
  <2>2. CASE ~(n <= Len(s))
    <3>1. Len(rest) = 0
      BY <1>1, <1>5, <1>8, <2>2
    <3>2. rest \in Seq(Packets)
      BY <1>8, ChainIs
    <3> QED
      BY <3>1, <3>2 DEF Begins
  <2> QED
    BY <2>1, <2>2
<1>12. left[k] = 0
  <2>1. CASE n <= Len(s)
    <3>1. RunsAt(s, left, n) /\ IsStart(s[n])
      BY <1>1, <1>3, <2>1
    <3> QED
      BY <1>5, <3>1 DEF RunsAt
  <2>2. CASE ~(n <= Len(s))
    <3>1. k = Len(s)
      BY <1>1, <1>5, <2>2
    <3> QED
      BY <1>1, <3>1
  <2> QED
    BY <2>1, <2>2
<1>13. Len(Carried(lead)) = left[0] /\ left[0] \in Nat
  <2>1. PICK f : Carries(f, lead) /\ Carried(lead) = f[Len(lead)]
    BY <1>7, CarriedIs
  <2>2. \A i \in 1 .. k : ~IsStart(s[i])
    BY <1>4, <1>5
  <2>3. Len(f[k]) + left[k] = left[0]
    BY <1>5, <1>6, <2>1, <2>2, RunsCarried
  <2>4. f[k] \in Seq(Nat) /\ Carried(lead) = f[k]
    BY <1>7, <2>1 DEF Carries
  <2>5. Len(f[k]) \in Nat
    BY <2>4
  <2> QED
    BY <1>12, <2>3, <2>4, <2>5
<1>14. lead = << >> <=> left[0] = 0
  <2>1. CASE k = 0
    <3>1. lead = << >>
      BY <1>7, <2>1, ChainIs
    <3> QED
      BY <1>12, <2>1, <3>1
  <2>2. CASE k # 0
    <3>1. lead # << >>
      BY <1>7, <2>2
    <3>2. 1 \in 1 .. k /\ 1 \in 1 .. Len(s)
      BY <1>1, <1>5, <2>2
    <3>3. RunsAt(s, left, 1) /\ ~IsStart(s[1])
      BY <1>1, <1>4, <1>5, <3>2
    <3>4. left[0] = s[1].length + left[1] /\ left[1] \in Nat
      BY <1>1, <3>2, <3>3 DEF RunsAt
    <3>5. s[1].length = Size(s[1]) - ACL_HDR_LEN /\ Size(s[1]) > ACL_HDR_LEN
      BY <3>3 DEF RunsAt, Proper
    <3>6. Size(s[1]) \in Nat
      <4>1. Headed(s[1])
        BY <3>3 DEF RunsAt, Proper
      <4> QED
        BY <4>1, PayloadIs
    <3> QED
      BY <3>1, <3>4, <3>5, <3>6, Numbers
  <2> QED
    BY <2>1, <2>2
<1>15. \E m : Runs(rest, m) /\ m[0] = 0
  <2> DEFINE m == [i \in 0 .. Len(s) - n + 1 |-> left[n - 1 + i]]
  <2>1. n \in 1 .. Len(s) + 1
    BY <1>1, <1>3
  <2>2. Runs(rest, m)
    BY <1>5, <1>6, <2>1, RunsSuffix
  <2>3. m[0] = 0
    <3>1. 0 \in 0 .. Len(s) - n + 1 /\ n - 1 + 0 = k
      BY <1>1, <1>5, <2>1
    <3> QED
      BY <1>12, <3>1
  <2> HIDE DEF m
  <2> QED
    BY <2>2, <2>3
<1> QED
  BY <1>7, <1>8, <1>9, <1>10, <1>11, <1>13, <1>14, <1>15 DEF Parted

(* The header of a message is that of its first packet.                    *)
LEMMA MessageHeader ==
  ASSUME NEW s, Chain(s), s # << >>, IsStart(s[1])
  PROVE  /\ MessageOf(s).channel = Word(s[1].data, 7)
         /\ MessageOf(s).length + 4 = Total(s[1])
         /\ MessageOf(s).length \in Nat
         /\ IsWhole(MessageOf(s)) <=> Len(Carried(s)) = Total(s[1])
<1>1. s \in Seq(Packets) /\ Len(s) \in Nat /\ Len(s) >= 1
  BY ChainIs
<1>2. PICK f : Carries(f, s) /\ Carried(s) = f[Len(s)]
  BY CarriedIs
<1>3. PICK p : p = s[1] /\ Headed(p)
  BY <1>1, ChainIs
<1>4. 1 \in 1 .. Len(s) /\ 1 - 1 = 0
  BY <1>1
<1>5. /\ \A j \in 1 .. Size(p) - ACL_HDR_LEN :
           Carried(s)[Len(f[0]) + j] = p.data[ACL_HDR_LEN + j]
  BY <1>2, <1>3, <1>4, CarriesAt
<1>6. Len(f[0]) = 0
  BY <1>2 DEF Carries
<1>7. Size(p) \in Nat /\ Size(p) >= 8
  BY <1>3, Numbers DEF Headed, Size, Packets
<1>8. 3 \in 1 .. Size(p) - 4 /\ 4 \in 1 .. Size(p) - 4
  BY <1>7
<1>9. Carried(s)[0 + 3] = p.data[4 + 3] /\ Carried(s)[0 + 4] = p.data[4 + 4]
  BY <1>5, <1>6, <1>8, Headers
<1>10. 0 + 3 = 3 /\ 0 + 4 = 4 /\ 4 + 3 = 7 /\ 4 + 4 = 8 /\ 3 + 1 = 4 /\ 7 + 1 = 8
  OBVIOUS
<1>11. Word(Carried(s), 3) = Word(p.data, 7)
  BY <1>9, <1>10 DEF Word
<1>12. MessageOf(s).channel = Word(Carried(s), 3)
  BY DEF MessageOf
<1>13. PICK a, b, c, d : /\ a = MessageOf(s).length /\ b = Len(MessageOf(s).body)
                         /\ c = Len(Carried(s)) /\ d = Total(s[1])
  OBVIOUS
<1>14. a + 4 = d /\ b + 4 = c /\ MessageOf(s) \in Arrived
  BY <1>13, MessageIs
<1>15. a \in Nat /\ b \in Nat
  <2>1. MessageOf(s).length \in Nat /\ MessageOf(s).body \in Seq(Nat)
    BY <1>14 DEF Arrived
  <2> QED
    BY <1>13, <2>1
<1>16. b = a <=> c = d
  BY <1>14, <1>15
<1>17. IsWhole(MessageOf(s)) <=> b = a
  BY <1>13 DEF IsWhole
<1> QED
  BY <1>3, <1>11, <1>12, <1>13, <1>14, <1>15, <1>16, <1>17

-----------------------------------------------------------------------------
(* What becomes of a packet.                                               *)

(* The receiver takes the message that a packet starts.                    *)
ChannelOf(p) == Word(p.data, 7)
Fitting(p) == ChannelOf(p) \in Channels /\ Total(p) <= Mtu[ChannelOf(p)] + 4
Takeable(p) ==
  ChannelOf(p) \in open /\ Fitting(p) /\ Total(p) < INVALID_PACKET

LEMMA TakeableIs ==
  ASSUME NEW s, Chain(s), s # << >>, IsStart(s[1]), open \subseteq Channels
  PROVE  /\ Takes(MessageOf(s), open) <=> Takeable(s[1])
         /\ MessageOf(s).channel = ChannelOf(s[1])
<1>1. PICK m, n, c, t : /\ m = MessageOf(s) /\ n = m.length /\ c = m.channel
                        /\ t = Total(s[1])
  OBVIOUS
<1>8. n \in Nat
  BY <1>1, MessageHeader
<1>2. n + 4 = t /\ c = ChannelOf(s[1])
  BY <1>1, MessageHeader DEF ChannelOf
<1>3. Takes(m, open) <=> c \in open /\ n <= Mtu[c]
  BY <1>1 DEF Takes
<1>4. c \in Channels => (n <= Mtu[c] <=> t <= Mtu[c] + 4)
  <2> HAVE c \in Channels
  <2>1. Mtu[c] \in Nat
    BY MtuIs
  <2> QED
    BY <1>2, <1>8, <2>1
<1>5. c \in open => c \in Channels
  OBVIOUS
<1>6. Takeable(s[1]) <=> c \in open /\ c \in Channels /\ t <= Mtu[c] + 4
                         /\ t < INVALID_PACKET
  BY <1>1, <1>2, Zenon DEF Takeable, Fitting
<1>7. c \in Channels /\ t <= Mtu[c] + 4 => t < INVALID_PACKET
  <2> HAVE c \in Channels /\ t <= Mtu[c] + 4
  <2>1. Mtu[c] \in Nat /\ Mtu[c] + 4 < INVALID_PACKET
    BY MtuIs
  <2> QED
    BY <1>2, <1>8, <2>1, Limits
<1> QED
  BY <1>1, <1>2, <1>3, <1>4, <1>5, <1>6, <1>7

LEMMA ExpectedIs ==
  ASSUME NEW p, Proper(p), IsStart(p), open \subseteq Channels
  PROVE  /\ Takeable(p) => Expected(p) = Total(p) /\ Total(p) < INVALID_PACKET
         /\ ~Takeable(p) => Expected(p) = INVALID_PACKET
<1>1. PICK s : s = <<p>>
  OBVIOUS
<1>2. Chain(s) /\ s # << >> /\ s[1] = p
  <2>1. Chain(<<p>>)
    BY CarriedOne DEF Proper
  <2> QED
    BY <1>1, <2>1
<1>3. PICK m, n, c : m = MessageOf(s) /\ n = m.length /\ c = m.channel
  OBVIOUS
<1>9. n \in Nat
  BY <1>2, <1>3, MessageHeader
<1>4. n + 4 = Total(p) /\ c = ChannelOf(p)
  BY <1>2, <1>3, MessageHeader DEF ChannelOf
<1>5. IncomingCheck(p) = IF Accepted(c, n) THEN n + 4 ELSE -1
  BY <1>1, <1>3, Headers, Zenon DEF IncomingCheck
<1>6. Accepted(c, n) <=> c \in open /\ n <= Mtu[c]
  BY DEF Accepted
<1>7. CASE Accepted(c, n)
  <2>1. c \in open /\ c \in Channels /\ n <= Mtu[c]
    BY <1>6, <1>7
  <2>2. IncomingCheck(p) = Total(p) /\ ~(Total(p) < 0)
    BY <1>4, <1>9, <1>5, <1>7
  <2>3. Mtu[c] \in Nat /\ Mtu[c] + 4 <= INVALID_PACKET
    BY <2>1, MtuIs
  <2>4. Total(p) <= Mtu[c] + 4 /\ Total(p) <= INVALID_PACKET
    BY <1>4, <1>9, <2>1, <2>3, Limits
  <2>5. Expected(p) = Total(p)
    BY <2>2 DEF Expected
  <2>6. Takeable(p) <=> Total(p) < INVALID_PACKET
    BY <1>4, <2>1, <2>4 DEF Takeable, Fitting
  <2>7. ~(Total(p) < INVALID_PACKET) => Total(p) = INVALID_PACKET
    BY <1>4, <1>9, <2>4, Limits
  <2> QED
    BY <2>5, <2>6, <2>7
<1>8. CASE ~Accepted(c, n)
  <2>1. IncomingCheck(p) = -1
    BY <1>5, <1>8
  <2>2. Expected(p) = INVALID_PACKET
    BY <2>1 DEF Expected
  <2>3. ~Takeable(p)
    <3> SUFFICES ASSUME Takeable(p) PROVE FALSE
      OBVIOUS
    <3>1. c \in open /\ c \in Channels /\ Total(p) <= Mtu[c] + 4
      BY <1>4 DEF Takeable, Fitting
    <3>2. Mtu[c] \in Nat
      BY <3>1, MtuIs
    <3>3. n <= Mtu[c]
      BY <1>4, <1>9, <3>1, <3>2
    <3> QED
      BY <1>6, <1>8, <3>1, <3>3
  <2> QED
    BY <2>2, <2>3
<1> QED
  BY <1>7, <1>8

TurnedDown(p) ==
  ~Takeable(p) /\ fragmented_message' = << >> /\ got' = got
Handed(p) ==
  /\ Takeable(p) /\ p.length = Total(p) /\ fragmented_message' = << >>
  /\ got' = Append(got, MessageOf(<<p>>))
Begun(p) ==
  /\ Takeable(p) /\ p.length < Total(p) /\ fragmented_message' = <<p>>
  /\ got' = got

LEMMA ProperIs ==
  ASSUME NEW p, Proper(p)
  PROVE  /\ Headed(p) /\ p.length \in Nat /\ p.length >= 1 /\ Size(p) \in Nat
         /\ Size(p) = p.length + 4 /\ p \in Packets
         /\ Chain(<<p>>) /\ Len(Carried(<<p>>)) = p.length
<1>1. Headed(p)
  BY DEF Proper
<1>2. /\ p.length \in Nat /\ p.length >= 1 /\ Size(p) \in Nat
      /\ Size(p) = p.length + 4 /\ p \in Packets
  BY <1>1, PayloadIs, Headers, SMTT(40) DEF Proper, Headed, Packets
<1>3. Chain(<<p>>) /\ Carried(<<p>>) = Payload(p)
  BY <1>1, CarriedOne
<1>4. Len(Payload(p)) = p.length
  BY <1>1, <1>2, PayloadIs, Headers
<1> QED
  BY <1>1, <1>2, <1>3, <1>4

LEMMA StartOutcome ==
  ASSUME open \subseteq Channels, fragmented_message = << >>,
         fragmented_message_size = 0,
         NEW p, Proper(p), IsStart(p), p.length <= Total(p), HandlePacket(p)
  PROVE  TurnedDown(p) \/ Handed(p) \/ Begun(p)
<1>1. p.length \in Nat /\ p \in Packets
  BY ProperIs
<1>2. Total(p) \in Nat
  BY TotalIs, ProperIs
<1>3. CASE ~Takeable(p)
  <2>1. Skipped(p)
    BY <1>3, ExpectedIs, SkippedStart
  <2>2. fragmented_message' = << >> /\ got' = got
    BY <2>1 DEF HandlePacket
  <2> QED
    BY <1>3, <2>2 DEF TurnedDown
<1>4. CASE Takeable(p)
  <2>1. Expected(p) = Total(p) /\ Total(p) < INVALID_PACKET
    BY <1>4, ExpectedIs
  <2>2. ~Skipped(p)
    BY <1>2, <2>1, Limits, SkippedStart
  <2>3. Remaining(p) = Total(p)
    <3>1. Expected(p) - fragmented_message_size = Total(p)
      BY <1>2, <2>1
    <3>2. Total(p) <= INVALID_PACKET
      BY <1>2, <2>1, Limits
    <3> QED
      BY <1>2, <3>1, <3>2, Limits DEF Remaining
  <2>4. Appended(fragmented_message, p) = <<p>>
    BY <1>1 DEF Appended
  <2>5. CASE Completes(p)
    <3>1. p.length = Total(p)
      BY <1>1, <1>2, <2>3, <2>5 DEF Completes
    <3>2. Deliver(<<p>>) /\ fragmented_message' = << >>
      BY <2>2, <2>4, <2>5 DEF HandlePacket
    <3>3. MessageOf(<<p>>).channel \in open
      <4>1. PICK s : s = <<p>>
        OBVIOUS
      <4>2. Chain(s) /\ s # << >> /\ s[1] = p
        BY <4>1, ProperIs
      <4>3. MessageOf(s).channel = ChannelOf(p)
        BY <4>2, TakeableIs
      <4> QED
        BY <1>4, <4>1, <4>3 DEF Takeable
    <3>4. got' = Append(got, MessageOf(<<p>>))
      BY <3>2, <3>3 DEF Deliver
    <3> QED
      BY <1>4, <3>1, <3>2, <3>4 DEF Handed
  <2>6. CASE ~Completes(p)
    <3>1. p.length < Total(p)
      BY <1>1, <1>2, <2>3, <2>6 DEF Completes
    <3>2. fragmented_message' = <<p>> /\ got' = got
      BY <2>2, <2>4, <2>6 DEF HandlePacket
    <3> QED
      BY <1>4, <3>1, <3>2 DEF Begun
  <2> QED
    BY <2>5, <2>6
<1> QED
  BY <1>3, <1>4

Skips == fragmented_message = << >> /\ fragmented_message' = << >> /\ got' = got
Finishes(p, lead) ==
  /\ fragmented_message # << >> /\ lead = 0 /\ fragmented_message' = << >>
  /\ fragmented_message_size + p.length = reassembled_message_size
  /\ LET m == MessageOf(Appended(fragmented_message, p)) IN
     got' = IF m.channel \in open THEN Append(got, m) ELSE got
GoesOn(p, lead) ==
  /\ fragmented_message # << >> /\ lead > 0
  /\ fragmented_message' = Appended(fragmented_message, p) /\ got' = got

LEMMA ContinuationOutcome ==
  ASSUME Held, packet = None, NEW p, Proper(p), ~IsStart(p), NEW lead \in Nat,
         NEW before, before = p.length + lead, Fits(before), HandlePacket(p)
  PROVE  Skips \/ Finishes(p, lead) \/ GoesOn(p, lead)
<1>1. p.length \in Nat /\ p.length >= 1
  BY ProperIs
<1>3. before \in Nat /\ before >= 1
  BY <1>1
<1>5. PICK size \in Nat, full \in Nat :
        size = fragmented_message_size /\ full = reassembled_message_size
  BY DEF Held
<1>6. Expected(p) = full
  BY <1>5 DEF Expected
<1>7. CASE Turned
  <2>1. Expected(p) = INVALID_PACKET /\ fragmented_message = << >>
    BY <1>5, <1>6, <1>7 DEF Turned
  <2>2. fragmented_message' = << >> /\ got' = got
    BY <2>1, SkippedRest DEF HandlePacket
  <2> QED
    BY <2>1, <2>2 DEF Skips
<1>8. CASE ~Turned
  <2>1. Lacks = before
    BY <1>3, <1>8 DEF Fits
  <2>2. fragmented_message # << >>
    BY <1>3, <2>1 DEF Lacks
  <2>3. full - size = before
    BY <1>5, <2>1, <2>2 DEF Lacks
  <2>4. full < INVALID_PACKET
    BY <1>5, <2>2 DEF Held
  <2>5. full = size + p.length + lead
    BY <1>1, <2>3, SMTT(40)
  <2>6. ~Skipped(p)
    BY <1>6, <2>4, Limits, SkippedRest
  <2>7. Remaining(p) = p.length + lead
    <3>1. Expected(p) - fragmented_message_size = p.length + lead
      BY <1>1, <1>5, <1>6, <2>5, SMTT(40)
    <3>2. p.length + lead \in Nat /\ p.length + lead <= INVALID_PACKET
      BY <1>1, <2>4, <2>5, Limits
    <3> QED
      BY <3>1, <3>2, Limits DEF Remaining
  <2>8. PICK s : s = Appended(fragmented_message, p)
    OBVIOUS
  <2>10. CASE Completes(p)
    <3>1. lead = 0
      BY <1>1, <2>7, <2>10 DEF Completes
    <3>2. Deliver(s) /\ fragmented_message' = << >>
      BY <2>6, <2>8, <2>10 DEF HandlePacket
    <3>3. fragmented_message_size + p.length = reassembled_message_size
      BY <1>1, <1>5, <2>5, <3>1
    <3>4. PICK m : m = MessageOf(s)
      OBVIOUS
    <3>5. got' = IF m.channel \in open THEN Append(got, m) ELSE got
      BY <3>2, <3>4 DEF Deliver
    <3> QED
      BY <2>2, <2>8, <3>1, <3>2, <3>3, <3>4, <3>5 DEF Finishes
  <2>11. CASE ~Completes(p)
    <3>1. lead > 0
      BY <1>1, <2>7, <2>11 DEF Completes
    <3>2. fragmented_message' = s /\ got' = got
      BY <2>6, <2>8, <2>11 DEF HandlePacket
    <3> QED
      BY <2>2, <2>8, <3>1, <3>2 DEF GoesOn
  <2> QED
    BY <2>10, <2>11
<1> QED
  BY <1>7, <1>8

(* A packet of the air that is handled, and what follows it.               *)
DataStep(p, t, m) ==
  /\ air = <<p>> \o t /\ air' = t /\ Chain(t) /\ Runs(t, m) /\ m[0] \in Nat
  /\ Proper(p) /\ packet = None /\ packet' = None
  /\ UNCHANGED <<sender, flushes, open>>
StartOf(p, t, m) ==
  /\ DataStep(p, t, m) /\ IsStart(p) /\ fragmented_message = << >>
  /\ p.length + m[0] = Total(p)
  /\ TurnedDown(p) \/ Handed(p) \/ Begun(p)
ContinuationOf(p, t, m) ==
  /\ DataStep(p, t, m) /\ ~IsStart(p)
  /\ Skips \/ Finishes(p, m[0]) \/ GoesOn(p, m[0])

LEMMA HeadAndTail ==
  ASSUME NEW s \in Seq(Packets), s # << >>
  PROVE  s = <<Head(s)>> \o Tail(s)
  OBVIOUS

LEMMA DataStepIs ==
  ASSUME AclInv, OnDataReceived
  PROVE  \E p, t, m : StartOf(p, t, m) \/ ContinuationOf(p, t, m)
<1>1. /\ ~reader.some /\ ~packet.some /\ air # << >>
      /\ ~Interrupts(Head(air)) /\ HandlePacket(Head(air)) /\ air' = Tail(air)
      /\ packet' = packet /\ UNCHANGED <<sender, flushes, open>>
  BY DEF OnDataReceived
<1>2. packet = None
  BY <1>1, NoPacket
<1>3. PICK left : Runs(air, left) /\ Fits(left[0])
  BY DEF AclInv, Stream
<1>4. PICK m : /\ Runs(Tail(air), m) /\ m[0] = left[1]
               /\ RunsAt(air, left, 1) /\ Head(air) = air[1]
               /\ left[0] \in Nat /\ left[1] \in Nat
  BY <1>1, <1>3, RunsTail
<1>5. PICK p, t : p = Head(air) /\ t = Tail(air)
  OBVIOUS
<1>6. PICK lead \in Nat, before \in Nat : lead = left[1] /\ before = left[0]
  BY <1>4
<1>7. /\ Proper(p) /\ Fits(before) /\ HandlePacket(p) /\ ~Interrupts(p)
      /\ IF IsStart(p) THEN before = 0 /\ p.length + lead = Total(p)
         ELSE before = p.length + lead
  <2>1. left[1 - 1] = before
    BY <1>6
  <2> QED
    BY <1>1, <1>3, <1>4, <1>5, <1>6, <2>1 DEF RunsAt
<1>8. Held /\ open \subseteq Channels
  BY DEF AclInv
<1>9. DataStep(p, t, m)
  <2>1. air = <<p>> \o t
    <3>1. air \in Seq(Packets)
      BY <1>3 DEF Runs
    <3> QED
      BY <1>1, <1>5, <3>1, HeadAndTail
  <2>2. Chain(t) /\ Runs(t, m) /\ m[0] \in Nat
    BY <1>4, <1>5, RunsChain
  <2> QED
    BY <1>1, <1>2, <1>5, <1>7, <2>1, <2>2 DEF DataStep
<1>10. m[0] = lead
  BY <1>4, <1>6
<1>11. CASE IsStart(p)
  <2>1. fragmented_message = << >> /\ fragmented_message_size = 0
    BY <1>7, <1>8, <1>11 DEF Interrupts, Held
  <2>2. p.length \in Nat
    BY <1>7, ProperIs
  <2>3. p.length + lead = Total(p) /\ p.length <= Total(p)
    BY <1>7, <1>11, <2>2
  <2>4. TurnedDown(p) \/ Handed(p) \/ Begun(p)
    BY <1>7, <1>8, <1>11, <2>1, <2>3, StartOutcome
  <2> QED
    BY <1>9, <1>10, <1>11, <2>1, <2>3, <2>4 DEF StartOf
<1>12. CASE ~IsStart(p)
  <2>1. before = p.length + lead
    BY <1>7, <1>12
  <2>2. Skips \/ Finishes(p, lead) \/ GoesOn(p, lead)
    BY <1>2, <1>7, <1>8, <1>12, <2>1, ContinuationOutcome
  <2> QED
    BY <1>9, <1>10, <1>12, <2>2 DEF ContinuationOf
<1> QED
  BY <1>11, <1>12

(* The packet in hand is handled, or a packet is taken in hand.            *)
ResumeStep(p, left) ==
  /\ packet # None /\ packet.some /\ packet.p = p /\ packet' = None
  /\ Proper(p) /\ IsStart(p) /\ p.length <= Total(p)
  /\ fragmented_message = << >>
  /\ air' = air /\ Runs(air, left) /\ left[0] \in {0, Total(p) - p.length}
  /\ TurnedDown(p) \/ Handed(p) \/ Begun(p)
  /\ UNCHANGED <<sender, flushes, open>>
LEMMA ResumeStepIs ==
  ASSUME AclInv, OnStartResumed
  PROVE  \E p, left : ResumeStep(p, left)
<1>1. /\ ~reader.some /\ packet.some /\ HandlePacket(packet.p) /\ packet' = None
      /\ air' = air /\ UNCHANGED <<sender, flushes, open>>
  BY DEF OnStartResumed
<1>2. packet # None
  BY <1>1, NoPacket
<1>3. PICK p : p = packet.p
  OBVIOUS
<1>4. /\ Proper(p) /\ IsStart(p) /\ p.length <= Total(p)
      /\ fragmented_message = << >>
  BY <1>2, <1>3 DEF AclInv, InHand
<1>5. fragmented_message_size = 0 /\ open \subseteq Channels
  BY <1>4 DEF AclInv, Held
<1>6. PICK left : Runs(air, left) /\ Fits(left[0])
  BY DEF AclInv, Stream
<1>8. Lacks = Total(p) - p.length
  BY <1>2, <1>3, <1>4 DEF Lacks
<1>9. left[0] \in {0, Total(p) - p.length}
  BY <1>2, <1>6, <1>8 DEF Fits, Turned
<1>10. HandlePacket(p)
  BY <1>1, <1>3
<1>11. TurnedDown(p) \/ Handed(p) \/ Begun(p)
  BY <1>4, <1>5, <1>10, StartOutcome
<1> QED
  BY <1>1, <1>2, <1>3, <1>4, <1>6, <1>9, <1>11 DEF ResumeStep

HoldStep(p, t) ==
  /\ packet = None /\ packet' = [some |-> TRUE, p |-> p]
  /\ air = <<p>> \o t /\ air' = t /\ Chain(t) /\ Chain(air)
  /\ Proper(p) /\ IsStart(p)
  /\ fragmented_message # << >> /\ fragmented_message' = << >>
  /\ got' = got \/ got' = Append(got, MessageOf(fragmented_message))
  /\ UNCHANGED <<sender, flushes, open>>
LEMMA HoldStepIs ==
  ASSUME AclInv, OnStartWhilePending
  PROVE  \E p, t : HoldStep(p, t)
<1>1. /\ ~reader.some /\ ~packet.some /\ air # << >>
      /\ Interrupts(Head(air)) /\ Deliver(fragmented_message)
      /\ packet' = [some |-> TRUE, p |-> Head(air)] /\ air' = Tail(air)
      /\ fragmented_message' = << >>
      /\ UNCHANGED <<sender, flushes, open>>
  BY DEF OnStartWhilePending
<1>2. packet = None
  BY <1>1, NoPacket
<1>3. PICK left : Runs(air, left)
  BY DEF AclInv, Stream
<1>4. PICK m : /\ Runs(Tail(air), m) /\ RunsAt(air, left, 1) /\ Head(air) = air[1]
  BY <1>1, <1>3, RunsTail
<1>5. PICK p, t : p = Head(air) /\ t = Tail(air)
  OBVIOUS
<1>6. Proper(p) /\ Chain(t) /\ Chain(air)
  BY <1>3, <1>4, <1>5, RunsChain DEF RunsAt
<1>7. air = <<p>> \o t
  <2>1. air \in Seq(Packets)
    BY <1>3 DEF Runs
  <2> QED
    BY <1>1, <1>5, <2>1, HeadAndTail
<1>8. fragmented_message # << >> /\ IsStart(p)
  BY <1>1, <1>5 DEF Interrupts
<1>9. got' = got \/ got' = Append(got, MessageOf(fragmented_message))
  BY <1>1 DEF Deliver
<1> QED
  BY <1>1, <1>2, <1>5, <1>6, <1>7, <1>8, <1>9 DEF HoldStep

(* The message that is being put together is one that the receiver took    *)
(* when it began.                                                          *)
Kept ==
  fragmented_message # << >> =>
    One(fragmented_message) /\ Fitting(fragmented_message[1])

LEMMA OneSingle ==
  ASSUME NEW p, Proper(p), IsStart(p)
  PROVE  One(<<p>>) /\ Chain(<<p>>)
<1>1. PICK s : s = <<p>>
  OBVIOUS
<1>2. Len(s) = 1 /\ s[1] = p /\ s # << >>
  BY <1>1
<1>3. One(s)
  BY <1>2 DEF One
<1> QED
  BY <1>1, <1>3, ProperIs

LEMMA OneConcat ==
  ASSUME NEW s, NEW t, Chain(s), Chain(t), One(s), Follow(t)
  PROVE  One(s \o t) /\ (s \o t)[1] = s[1] /\ s \o t # << >>
<1>1. PICK u : u = s \o t
  OBVIOUS
<1>2. PICK n \in Nat, m \in Nat : n = Len(s) /\ m = Len(t)
  BY ChainIs
<1>3. /\ Len(u) = n + m /\ \A i \in 1 .. n : u[i] = s[i]
      /\ \A i \in 1 .. m : u[n + i] = t[i]
  BY <1>1, <1>2, ChainConcat
<1>4. n # 0
  BY <1>2, ChainIs DEF One
<1>5. u[1] = s[1] /\ u # << >> /\ IsStart(u[1])
  <2>1. 1 \in 1 .. n /\ n + m # 0
    BY <1>4
  <2> QED
    BY <1>3, <2>1 DEF One
<1>6. ASSUME NEW i \in 2 .. Len(u)
      PROVE  ~IsStart(u[i])
  <2>1. CASE i <= n
    <3>1. i \in 2 .. n /\ i \in 1 .. n
      BY <2>1
    <3> QED
      BY <1>2, <1>3, <3>1 DEF One
  <2>2. CASE ~(i <= n)
    <3>1. i - n \in 1 .. m /\ n + (i - n) = i
      BY <1>3, <2>2
    <3> QED
      BY <1>2, <1>3, <3>1 DEF Follow
  <2> QED
    BY <2>1, <2>2
<1> QED
  BY <1>1, <1>5, <1>6 DEF One

LEMMA FollowSingle ==
  ASSUME NEW p, Proper(p), ~IsStart(p)
  PROVE  Follow(<<p>>) /\ Chain(<<p>>)
<1>1. PICK s : s = <<p>>
  OBVIOUS
<1>2. Len(s) = 1 /\ s[1] = p
  BY <1>1
<1>3. Follow(s)
  BY <1>2 DEF Follow
<1> QED
  BY <1>1, <1>3, ProperIs

LEMMA KeptStart ==
  ASSUME NEW p, Proper(p), IsStart(p), TurnedDown(p) \/ Handed(p) \/ Begun(p)
  PROVE  Kept'
<1>1. CASE fragmented_message' = << >>
  BY <1>1 DEF Kept
<1>2. CASE Begun(p)
  <2>1. PICK s : s = <<p>>
    OBVIOUS
  <2>2. One(s) /\ s[1] = p
    BY <2>1, OneSingle
  <2>3. Fitting(p) /\ fragmented_message' = s
    BY <1>2, <2>1 DEF Begun, Takeable
  <2> QED
    BY <2>2, <2>3 DEF Kept
<1> QED
  BY <1>1, <1>2 DEF TurnedDown, Handed

LEMMA KeptData ==
  ASSUME AclInv, Kept, OnDataReceived
  PROVE  Kept'
<1>1. PICK p, t, m : StartOf(p, t, m) \/ ContinuationOf(p, t, m)
  BY DataStepIs
<1>2. CASE StartOf(p, t, m)
  BY <1>2, KeptStart DEF StartOf, DataStep
<1>3. CASE ContinuationOf(p, t, m)
  <2>1. CASE fragmented_message' = << >>
    BY <2>1 DEF Kept
  <2>2. CASE GoesOn(p, m[0])
    <3>1. PICK s, u : s = fragmented_message /\ u = fragmented_message'
      OBVIOUS
    <3>2. s # << >> /\ One(s) /\ Fitting(s[1]) /\ u = s \o <<p>>
      BY <2>2, <3>1 DEF GoesOn, Kept, Appended
    <3>3. Chain(s)
      BY <3>1 DEF AclInv, Held
    <3>4. Follow(<<p>>) /\ Chain(<<p>>)
      BY <1>3, FollowSingle DEF ContinuationOf, DataStep
    <3>5. One(u) /\ u[1] = s[1]
      BY <3>2, <3>3, <3>4, OneConcat
    <3> QED
      BY <3>1, <3>2, <3>5 DEF Kept
  <2> QED
    BY <1>3, <2>1, <2>2 DEF ContinuationOf, Skips, Finishes
<1> QED
  BY <1>1, <1>2, <1>3

LEMMA KeptNext ==
  ASSUME AclInv, Kept, [Next]_vars
  PROVE  Kept'
<1>1. ASSUME fragmented_message' = fragmented_message
      PROVE  Kept'
  BY <1>1 DEF Kept
<1>2. CASE OnDataReceived
  BY <1>2, KeptData
<1>3. CASE OnStartWhilePending
  BY <1>3 DEF OnStartWhilePending, Kept
<1>4. CASE OnStartResumed
  <2>1. PICK p, left : ResumeStep(p, left)
    BY <1>4, ResumeStepIs
  <2> QED
    BY <2>1, KeptStart DEF ResumeStep
<1>5. CASE UNCHANGED vars
  BY <1>1, <1>5 DEF vars
<1>6. ASSUME NEW c, NEW size, CreateMessage(c, size)
      PROVE  Kept'
  BY <1>1, <1>6 DEF CreateMessage, receiver
<1>7. ASSUME NEW n, WriterWrite(n) \/ ReaderRead(n) \/ ReaderReadN(n)
      PROVE  Kept'
  BY <1>1, <1>7 DEF WriterWrite, ReaderRead, ReaderReadN, receiver
<1>8. CASE WriterWriteLoop \/ SendMessage
  BY <1>1, <1>8 DEF WriterWriteLoop, SendMessage, receiver
<1>9. ASSUME NEW c, Unlink(c) \/ ChangeOpen(c)
      PROVE  Kept'
  BY <1>1, <1>9 DEF Unlink, ChangeOpen, receiver
<1>10. ASSUME NEW n, Resplit(n)
       PROVE  Kept'
  BY <1>1, <1>10 DEF Resplit, receiver
<1>11. CASE Flush
  BY <1>1, <1>11 DEF Flush, receiver
<1>12. CASE ReaderReadLoop \/ ReaderReadMax \/ ReaderDone
  BY <1>1, <1>12 DEF ReaderReadLoop, ReaderReadMax, ReaderDone
<1> QED
  BY <1>2, <1>3, <1>4, <1>5, <1>6, <1>7, <1>8, <1>9, <1>10, <1>11, <1>12, Zenon
    DEF Next

-----------------------------------------------------------------------------
(* The refinement: what a step does to the queue.                          *)

(* What the callbacks were given, without the messages that are cut short. *)
WholeAt(g) == [i \in 1 .. Len(g) |-> IfWhole(g[i])]
LEMMA WholesAre ==
  ASSUME NEW g \in Seq(Arrived)
  PROVE  /\ WholeAt(g) \in Seq(Seq(Arrived)) /\ Len(WholeAt(g)) = Len(g)
         /\ \A i \in 1 .. Len(g) : WholeAt(g)[i] = IfWhole(g[i])
         /\ Flattens(Wholes(g), WholeAt(g)) /\ Wholes(g) \in Seq(Arrived)
<1> DEFINE P(f) == f = [i \in 0 .. Len(g) |->
                          IF i = 0 THEN << >> ELSE f[i - 1] \o IfWhole(g[i])]
           chosen == CHOOSE f : P(f)
<1>1. Wholes(g) = chosen[Len(g)]
  BY DEF Wholes
<1>2. Len(g) \in Nat
  OBVIOUS
<1>3. /\ WholeAt(g) \in Seq(Seq(Arrived)) /\ Len(WholeAt(g)) = Len(g)
      /\ \A i \in 1 .. Len(g) : WholeAt(g)[i] = IfWhole(g[i])
  <2>1. \A i \in 1 .. Len(g) : IfWhole(g[i]) \in Seq(Arrived)
    BY IfWholeIs
  <2> QED
    BY <1>2, <2>1 DEF WholeAt
<1>4. PICK h : h = [i \in 0 .. Len(g) |-> SumAt(h, WholeAt(g), i)]
  BY <1>2, SumsExist
<1>5. P(h)
  <2>1. \A i \in 0 .. Len(g) :
          SumAt(h, WholeAt(g), i) = IF i = 0 THEN << >> ELSE h[i - 1] \o IfWhole(g[i])
    <3> TAKE i \in 0 .. Len(g)
    <3>1. i # 0 => i \in 1 .. Len(g)
      BY <1>2
    <3> QED
      BY <1>3, <3>1 DEF SumAt
  <2> QED
    BY <1>4, <2>1
<1>6. P(chosen)
  BY <1>5, Zenon
<1> HIDE DEF chosen
<1>7. \A i \in 0 .. Len(g) : chosen[i] = SumAt(chosen, WholeAt(g), i)
  <2> TAKE i \in 0 .. Len(g)
  <2>1. i # 0 => i \in 1 .. Len(g)
    BY <1>2
  <2>2. chosen[i] = IF i = 0 THEN << >> ELSE chosen[i - 1] \o IfWhole(g[i])
    BY <1>6
  <2> QED
    BY <1>3, <2>1, <2>2 DEF SumAt
<1>8. Flattens(Wholes(g), WholeAt(g))
  BY <1>1, <1>3, <1>7 DEF Flattens, Sums
<1>9. Wholes(g) \in Seq(Arrived)
  BY <1>3, <1>8, FlattensOne
<1> QED
  BY <1>3, <1>8, <1>9

LEMMA WholesAppend ==
  ASSUME NEW g \in Seq(Arrived), NEW m \in Arrived
  PROVE  Wholes(Append(g, m)) = Wholes(g) \o IfWhole(m)
<1>1. PICK d : d = Append(g, m)
  OBVIOUS
<1>2. PICK n \in Nat : n = Len(g)
  OBVIOUS
<1>3. /\ d \in Seq(Arrived) /\ Len(d) = n + 1 /\ d[n + 1] = m
      /\ \A i \in 1 .. n : d[i] = g[i]
  BY <1>1, <1>2
<1>4. PICK S, a, b, c : /\ S = Seq(Arrived) /\ a = WholeAt(g) /\ b = <<IfWhole(m)>>
                        /\ c = WholeAt(d)
  OBVIOUS
<1>5. a \in Seq(S) /\ Len(a) = n /\ \A i \in 1 .. n : a[i] = IfWhole(g[i])
  BY <1>2, <1>4, WholesAre
<1>6. c \in Seq(S) /\ Len(c) = n + 1 /\ \A i \in 1 .. n + 1 : c[i] = IfWhole(d[i])
  BY <1>3, <1>4, WholesAre
<1>7. IfWhole(m) \in S
  BY <1>4, IfWholeIs
<1>8. b \in Seq(S) /\ Len(b) = 1 /\ b[1] = IfWhole(m)
  BY <1>4, <1>7
<1>9. Halved(c, a, b)
  <2>1. \A i \in 1 .. n : i \in 1 .. n + 1
    OBVIOUS
  <2>2. \A i \in 1 .. n : c[i] = a[i]
    BY <1>3, <1>5, <1>6, <2>1
  <2>3. n + 1 \in 1 .. n + 1
    OBVIOUS
  <2>4. c[n + 1] = b[1]
    BY <1>3, <1>6, <1>8, <2>3
  <2>5. \A i \in 1 .. 1 : i = 1
    OBVIOUS
  <2>6. \A i \in 1 .. Len(b) : c[Len(a) + i] = b[i]
    BY <1>5, <1>8, <2>4, <2>5
  <2> QED
    BY <1>5, <1>6, <1>8, <2>2, <2>6 DEF Halved
<1>10. c = a \o b
  BY <1>5, <1>6, <1>8, <1>9, HalvedIs
<1>11. PICK q : Flattens(q, b)
  BY <1>8, Flat
<1>12. a \in Seq(Seq(Arrived)) /\ b \in Seq(Seq(Arrived))
  BY <1>4, <1>5, <1>8
<1>13. q = IfWhole(m)
  BY <1>8, <1>11, <1>12, FlattensSingle
<1>14. Flattens(Wholes(g), a) /\ Flattens(Wholes(d), a \o b)
  BY <1>3, <1>4, <1>10, WholesAre
<1>15. Wholes(d) = Wholes(g) \o q
  BY <1>11, <1>12, <1>14, FlattensConcat
<1> QED
  BY <1>1, <1>13, <1>15

(* The steps of the abstract channel.                                      *)
Steps == [Abstract!Next]_(Abstract!vars)

LEMMA ConcatIs ==
  ASSUME NEW S, NEW a \in Seq(S), NEW b \in Seq(S)
  PROVE  /\ a \o b \in Seq(S) /\ Len(a \o b) = Len(a) + Len(b) /\ Len(b) \in Nat
         /\ \A i \in 1 .. Len(a) : (a \o b)[i] = a[i]
         /\ \A i \in 1 .. Len(b) : (a \o b)[Len(a) + i] = b[i]
<1>1. Len(a) \in Nat /\ Len(b) \in Nat
  OBVIOUS
<1>2. /\ a \o b \in Seq(S) /\ Len(a \o b) = Len(a) + Len(b)
      /\ \A i \in 1 .. Len(a) + Len(b) :
           (a \o b)[i] = IF i <= Len(a) THEN a[i] ELSE b[i - Len(a)]
  BY ConcatProperties
<1>3. ASSUME NEW i \in 1 .. Len(a)
      PROVE  (a \o b)[i] = a[i]
  <2>1. i \in 1 .. Len(a) + Len(b) /\ i <= Len(a)
    BY <1>1
  <2> QED
    BY <1>2, <2>1
<1>4. ASSUME NEW i \in 1 .. Len(b)
      PROVE  (a \o b)[Len(a) + i] = b[i]
  <2>1. /\ Len(a) + i \in 1 .. Len(a) + Len(b) /\ ~(Len(a) + i <= Len(a))
        /\ (Len(a) + i) - Len(a) = i
    BY <1>1
  <2> QED
    BY <1>2, <2>1
<1> QED
  BY <1>1, <1>2, <1>3, <1>4

LEMMA FirstOf ==
  ASSUME NEW S, NEW m \in S, NEW q \in Seq(S)
  PROVE  /\ <<m>> \o q # << >> /\ Head(<<m>> \o q) = m /\ Tail(<<m>> \o q) = q
         /\ <<m>> \o q # q
<1>1. PICK a : a = <<m>>
  OBVIOUS
<1>2. a \in Seq(S) /\ Len(a) = 1 /\ a[1] = m
  BY <1>1
<1>3. PICK b : b = a \o q
  OBVIOUS
<1>4. b \in Seq(S) /\ Len(b) = 1 + Len(q) /\ b[1] = m /\ Len(q) \in Nat
      /\ \A i \in 1 .. Len(q) : b[1 + i] = q[i]
  <2>1. /\ a \o q \in Seq(S) /\ Len(a \o q) = Len(a) + Len(q) /\ Len(q) \in Nat
        /\ \A i \in 1 .. Len(a) : (a \o q)[i] = a[i]
        /\ \A i \in 1 .. Len(q) : (a \o q)[Len(a) + i] = q[i]
    BY <1>2, ConcatIs
  <2>2. 1 \in 1 .. Len(a)
    BY <1>2
  <2> QED
    BY <1>2, <1>3, <2>1, <2>2
<1>5. b # q /\ b # << >> /\ Head(b) = m
  BY <1>4
<1>6. Tail(b) = q
  <2>1. PICK t : t = Tail(b)
    OBVIOUS
  <2>2. /\ t \in Seq(S) /\ Len(t) = Len(b) - 1
        /\ \A i \in 1 .. Len(b) - 1 : t[i] = b[i + 1]
    BY <1>4, <1>5, <2>1
  <2>3. Len(t) = Len(q)
    BY <1>4, <2>2
  <2>4. \A i \in 1 .. Len(t) : t[i] = q[i]
    <3> TAKE i \in 1 .. Len(t)
    <3>1. i \in 1 .. Len(b) - 1 /\ i \in 1 .. Len(q) /\ i + 1 = 1 + i
      BY <1>4, <2>2, <2>3
    <3> QED
      BY <1>4, <2>2, <3>1
  <2> QED
    BY <2>1, <2>2, <2>3, <2>4, SeqEqual
<1> QED
  BY <1>1, <1>3, <1>5, <1>6

LEMMA StepsSame ==
  ASSUME Pending' = Pending, Wholes(got)' = Wholes(got), open' = open,
         flushes' = flushes
  PROVE  Steps
  BY DEF Steps, Abstract!vars

LEMMA StepsReceive ==
  ASSUME NEW m \in Arrived, NEW q \in Seq(Arrived), Pending = <<m>> \o q,
         Pending' = q, Takes(m, open), got \in Seq(Arrived),
         Wholes(got)' = Append(Wholes(got), m), open' = open, flushes' = flushes
  PROVE  Steps
<1>1. /\ Pending # << >> /\ Head(Pending) = m /\ Tail(Pending) = q
      /\ Pending # q
  BY FirstOf
<1>2. Abstract!Receive /\ Pending' # Pending
  BY <1>1 DEF Abstract!Receive
<1> QED
  BY <1>2 DEF Steps, Abstract!Next

LEMMA StepsDiscard ==
  ASSUME NEW m \in Arrived, NEW q \in Seq(Arrived), Pending = <<m>> \o q,
         Pending' = q, ~Takes(m, open),
         Wholes(got)' = Wholes(got), open' = open, flushes' = flushes
  PROVE  Steps
<1>1. /\ Pending # << >> /\ Head(Pending) = m /\ Tail(Pending) = q
      /\ Pending # q
  BY FirstOf
<1>2. Abstract!Discard /\ Pending' # Pending
  BY <1>1 DEF Abstract!Discard
<1> QED
  BY <1>2 DEF Steps, Abstract!Next

-----------------------------------------------------------------------------
(* The receiver's steps are steps of the channel.                          *)
LEMMA ChainNone == Chain(<< >>) /\ Follow(<< >>) /\ Begins(<< >>) /\ Len(Carried(<< >>)) = 0
<1>1. PICK s : s = << >>
  OBVIOUS
<1>2. Len(s) = 0 /\ s \in Seq(Packets)
  BY <1>1
<1>3. Chain(s) /\ Follow(s) /\ Begins(s)
  BY <1>1, <1>2 DEF Chain, Follow, Begins
<1>4. PICK f : Carries(f, s) /\ Carried(s) = f[Len(s)]
  BY <1>3, CarriedIs
<1>5. Carried(s) = << >>
  BY <1>2, <1>4 DEF Carries
<1> QED
  BY <1>1, <1>3, <1>5

LEMMA NoneBefore ==
  ASSUME NEW s, Chain(s)
  PROVE  << >> \o s = s /\ s \o << >> = s
<1>1. s \in Seq(Packets)
  BY ChainIs
<1> QED
  BY <1>1, ConcatEmptySeq

(* The message under way stands before those that follow.                  *)
LEMMA MessagesAfter ==
  ASSUME NEW h, NEW lead, NEW rest, Chain(h), One(h), Chain(lead), Follow(lead),
         Chain(rest), Begins(rest)
  PROVE  /\ MessagesIn(h \o (lead \o rest))
              = IfWhole(MessageOf(h \o lead)) \o MessagesIn(rest)
         /\ Chain(h \o lead) /\ One(h \o lead) /\ (h \o lead)[1] = h[1]
         /\ MessagesIn(rest) \in Seq(Arrived) /\ MessageOf(h \o lead) \in Arrived
<1>1. h \o (lead \o rest) = (h \o lead) \o rest
  <2>1. h \in Seq(Packets) /\ lead \in Seq(Packets) /\ rest \in Seq(Packets)
    BY ChainIs
  <2> QED
    BY <2>1, Associative
<1>2. PICK u : u = h \o lead
  OBVIOUS
<1>3. Chain(u) /\ One(u) /\ u[1] = h[1]
  BY <1>2, ChainConcat, OneConcat
<1>4. MessagesIn(u \o rest) = MessagesIn(u) \o MessagesIn(rest)
  BY <1>3, MessagesConcat
<1>5. MessagesIn(u) = IfWhole(MessageOf(u))
  BY <1>3, MessagesOne
<1>6. MessageOf(u) \in Arrived
  BY <1>3, MessageIs DEF One
<1>7. MessagesIn(rest) \in Seq(Arrived)
  BY MessagesType
<1> QED
  BY <1>1, <1>2, <1>3, <1>4, <1>5, <1>6, <1>7

LEMMA MessagesSkip ==
  ASSUME NEW lead, NEW rest, Chain(lead), Follow(lead), Chain(rest), Begins(rest)
  PROVE  MessagesIn(lead \o rest) = MessagesIn(rest)
<1>1. MessagesIn(lead \o rest) = MessagesIn(lead) \o MessagesIn(rest)
  BY MessagesConcat
<1>2. MessagesIn(lead) = << >>
  BY MessagesNone
<1>3. MessagesIn(rest) \in Seq(Arrived)
  BY MessagesType
<1>4. << >> \o MessagesIn(rest) = MessagesIn(rest)
  BY <1>3, ConcatEmptySeq
<1> QED
  BY <1>1, <1>2, <1>4

LEMMA CarriedLen ==
  ASSUME NEW s, NEW t, Chain(s), Chain(t)
  PROVE  /\ Len(Carried(s \o t)) = Len(Carried(s)) + Len(Carried(t))
         /\ Len(Carried(s)) \in Nat /\ Len(Carried(t)) \in Nat
<1>1. Carried(s \o t) = Carried(s) \o Carried(t)
  BY CarriedConcat
<1>2. Carried(s) \in Seq(Nat) /\ Carried(t) \in Seq(Nat)
  BY CarriedType
<1> QED
  BY <1>1, <1>2, Concat

LEMMA WholeIs ==
  ASSUME NEW m \in Arrived
  PROVE  /\ IsWhole(m) => IfWhole(m) = <<m>>
         /\ ~IsWhole(m) => IfWhole(m) = << >>
  BY IfWholeIs

(* The queue, by what is in the host.                                      *)
LEMMA PendingIs ==
  /\ ~packet.some /\ Chain(fragmented_message)
       => InHost = fragmented_message
  /\ fragmented_message = << >> /\ packet.some /\ Chain(<<packet.p>>)
       => InHost = <<packet.p>>
<1>1. ASSUME ~packet.some, Chain(fragmented_message)
      PROVE  InHost = fragmented_message
  <2>1. InHost = fragmented_message \o << >>
    BY <1>1 DEF InHost
  <2> QED
    BY <1>1, <2>1, NoneBefore
<1>2. ASSUME fragmented_message = << >>, packet.some, Chain(<<packet.p>>)
      PROVE  InHost = <<packet.p>>
  <2>1. InHost = << >> \o <<packet.p>>
    BY <1>2 DEF InHost
  <2> QED
    BY <1>2, <2>1, NoneBefore
<1> QED
  BY <1>1, <1>2

(* A start is handled, with t behind it.                                   *)
StartOutcomes(p) == TurnedDown(p) \/ Handed(p) \/ Begun(p)
LEMMA StartSteps ==
  ASSUME got \in Seq(Arrived), open \subseteq Channels,
         NEW p, Proper(p), IsStart(p), p.length <= Total(p), NEW t, NEW left,
         Runs(t, left), left[0] \in {0, Total(p) - p.length},
         Pending = MessagesIn(<<p>> \o t), air' = t, packet' = None,
         StartOutcomes(p), open' = open, flushes' = flushes
  PROVE  Steps
<1>1. PICK h : h = <<p>>
  OBVIOUS
<1>2. Chain(h) /\ One(h) /\ h[1] = p /\ Len(Carried(h)) = p.length
  BY <1>1, OneSingle, ProperIs
<1>3. PICK lead, rest : Parted(t, left, lead, rest)
  BY Parts
<1>4. /\ t = lead \o rest /\ Chain(lead) /\ Follow(lead) /\ Chain(rest) /\ Begins(rest)
      /\ Len(Carried(lead)) = left[0] /\ (lead = << >> <=> left[0] = 0)
  BY <1>3 DEF Parted
<1>5. PICK u, m, q : u = h \o lead /\ m = MessageOf(u) /\ q = MessagesIn(rest)
  OBVIOUS
<1>6. /\ MessagesIn(h \o t) = IfWhole(m) \o q /\ Chain(u) /\ One(u) /\ u[1] = p
      /\ q \in Seq(Arrived) /\ m \in Arrived
  <2>1. /\ MessagesIn(h \o (lead \o rest))
             = IfWhole(MessageOf(h \o lead)) \o MessagesIn(rest)
        /\ Chain(h \o lead) /\ One(h \o lead) /\ (h \o lead)[1] = h[1]
        /\ MessagesIn(rest) \in Seq(Arrived) /\ MessageOf(h \o lead) \in Arrived
    BY <1>2, <1>4, MessagesAfter
  <2> QED
    BY <1>2, <1>4, <1>5, <2>1, Zenon
<1>7. Pending = IfWhole(m) \o q
  BY <1>1, <1>6
<1>8. Takes(m, open) <=> Takeable(p)
  BY <1>5, <1>6, TakeableIs DEF One
<1>9. p.length \in Nat /\ Total(p) \in Nat
  BY ProperIs, TotalIs
<1>10. Len(Carried(u)) = p.length + left[0]
  BY <1>2, <1>4, <1>5, CarriedLen
<1>11. IsWhole(m) <=> Len(Carried(u)) = Total(p)
  BY <1>5, <1>6, MessageHeader DEF One
<1>12. Chain(t) /\ MessagesIn(t) = q
  BY <1>4, <1>5, MessagesSkip, ChainConcat
<1>13. ~packet'.some
  BY DEF None
<1>14. ASSUME fragmented_message' = << >>
       PROVE  Pending' = q
  <2>1. InHost' = << >> \o << >>
    BY <1>13, <1>14 DEF InHost
  <2>2. << >> \o << >> = << >>
    BY ChainNone, NoneBefore
  <2>3. Pending' = MessagesIn(<< >> \o t)
    BY <2>1, <2>2 DEF Pending
  <2>4. << >> \o t = t
    BY <1>12, NoneBefore
  <2> QED
    BY <1>12, <2>3, <2>4
<1>15. CASE TurnedDown(p)
  <2>1. Pending' = q /\ Wholes(got)' = Wholes(got)
    BY <1>14, <1>15 DEF TurnedDown
  <2>2. CASE IsWhole(m)
    <3>1. Pending = <<m>> \o q
      BY <1>6, <1>7, <2>2, WholeIs
    <3>2. ~Takes(m, open)
      BY <1>8, <1>15 DEF TurnedDown
    <3> QED
      BY <1>6, <2>1, <3>1, <3>2, StepsDiscard
  <2>3. CASE ~IsWhole(m)
    <3>1. Pending = << >> \o q
      BY <1>6, <1>7, <2>3, WholeIs
    <3>2. << >> \o q = q
      BY <1>6, ConcatEmptySeq
    <3> QED
      BY <2>1, <3>1, <3>2, StepsSame
  <2> QED
    BY <2>2, <2>3
<1>16. CASE Handed(p)
  <2>1. left[0] = 0
    BY <1>9, <1>16 DEF Handed
  <2>2. u = h
    BY <1>2, <1>4, <1>5, <2>1, NoneBefore
  <2>3. IsWhole(m)
    BY <1>2, <1>11, <1>16, <2>2 DEF Handed
  <2>4. Pending = <<m>> \o q
    BY <1>6, <1>7, <2>3, WholeIs
  <2>5. got' = Append(got, m) /\ Takes(m, open) /\ Pending' = q
    BY <1>1, <1>5, <1>8, <1>14, <1>16, <2>2 DEF Handed
  <2>6. Wholes(got)' = Wholes(got) \o <<m>>
    BY <1>6, <2>3, <2>5, WholesAppend, WholeIs
  <2>7. Wholes(got) \o <<m>> = Append(Wholes(got), m)
    <3>1. Wholes(got) \in Seq(Arrived)
      BY WholesAre
    <3> QED
      BY <1>6, <3>1
  <2> QED
    BY <1>6, <2>4, <2>5, <2>6, <2>7, StepsReceive
<1>17. CASE Begun(p)
  <2>1. fragmented_message' = h /\ got' = got
    BY <1>1, <1>17 DEF Begun
  <2>2. InHost' = h \o << >>
    BY <1>13, <2>1 DEF InHost
  <2>3. h \o << >> = h
    BY <1>2, NoneBefore
  <2>4. Pending' = MessagesIn(h \o t)
    BY <2>2, <2>3 DEF Pending
  <2>5. Pending' = Pending
    BY <1>1, <2>4
  <2> QED
    BY <2>1, <2>5, StepsSame
<1> QED
  BY <1>15, <1>16, <1>17 DEF StartOutcomes

LEMMA ResumedSteps ==
  ASSUME AclInv, OnStartResumed
  PROVE  Steps
<1>1. PICK p, left : ResumeStep(p, left)
  BY ResumeStepIs
<1>2. /\ packet.some /\ packet.p = p /\ packet' = None
      /\ Proper(p) /\ IsStart(p) /\ p.length <= Total(p)
      /\ fragmented_message = << >>
      /\ air' = air /\ Runs(air, left) /\ left[0] \in {0, Total(p) - p.length}
      /\ StartOutcomes(p) /\ open' = open /\ flushes' = flushes
  BY <1>1 DEF ResumeStep, StartOutcomes
<1>3. InHost = <<p>>
  BY <1>2, PendingIs, ProperIs
<1>4. Pending = MessagesIn(<<p>> \o air)
  BY <1>3 DEF Pending
<1>5. got \in Seq(Arrived) /\ open \subseteq Channels
  BY DEF AclInv
<1> QED
  BY <1>2, <1>4, <1>5, StartSteps

LEMMA HoldSteps ==
  ASSUME AclInv, Kept, OnStartWhilePending
  PROVE  Steps
<1>1. PICK p, t : HoldStep(p, t)
  BY HoldStepIs
<1>2. /\ packet = None /\ packet' = [some |-> TRUE, p |-> p]
      /\ air = <<p>> \o t /\ air' = t /\ Chain(t) /\ Chain(air)
      /\ Proper(p) /\ IsStart(p)
      /\ fragmented_message # << >> /\ fragmented_message' = << >>
      /\ got' = got \/ got' = Append(got, MessageOf(fragmented_message))
      /\ open' = open /\ flushes' = flushes
  BY <1>1 DEF HoldStep
<1>3. PICK h, m, q : h = fragmented_message /\ m = MessageOf(h) /\ q = MessagesIn(air)
  OBVIOUS
<1>4. /\ Chain(h) /\ One(h) /\ Len(Carried(h)) = fragmented_message_size
      /\ Total(h[1]) = reassembled_message_size
      /\ fragmented_message_size < reassembled_message_size
      /\ fragmented_message_size \in Nat /\ reassembled_message_size \in Nat
      /\ got \in Seq(Arrived)
  BY <1>2, <1>3 DEF AclInv, Held, Kept
<1>5. ~IsWhole(m) /\ m \in Arrived
  <2>1. IsWhole(m) <=> Len(Carried(h)) = Total(h[1])
    BY <1>3, <1>4, MessageHeader DEF One
  <2>2. Len(Carried(h)) # Total(h[1])
    BY <1>4
  <2>3. m \in Arrived
    BY <1>3, <1>4, MessageIs DEF One
  <2> QED
    BY <2>1, <2>2, <2>3
<1>6. IfWhole(m) = << >>
  BY <1>5, WholeIs
<1>7. Begins(air)
  <2>1. air[1] = p
    <3>1. t \in Seq(Packets) /\ p \in Packets
      BY <1>2, ChainIs, ProperIs
    <3> QED
      BY <1>2, <3>1
  <2> QED
    BY <1>2, <2>1 DEF Begins
<1>8. q \in Seq(Arrived)
  BY <1>2, <1>3, MessagesType
<1>9. << >> \o q = q
  BY <1>8, ConcatEmptySeq
<1>10. Pending = q
  <2>1. ~packet.some
    BY <1>2 DEF None
  <2>2. InHost = h
    BY <1>3, <1>4, <2>1, PendingIs
  <2>3. MessagesIn(h \o air) = MessagesIn(h) \o MessagesIn(air)
    BY <1>2, <1>4, <1>7, MessagesConcat
  <2>4. MessagesIn(h) = << >>
    BY <1>3, <1>4, <1>6, MessagesOne
  <2> QED
    BY <1>3, <1>9, <2>2, <2>3, <2>4 DEF Pending
<1>11. Pending' = q
  <2>1. packet'.some /\ packet'.p = p
    BY <1>2
  <2>2. InHost' = << >> \o <<p>>
    BY <1>2, <2>1 DEF InHost
  <2>3. << >> \o <<p>> = <<p>>
    BY <1>2, ProperIs, NoneBefore
  <2>4. Pending' = MessagesIn(<<p>> \o t)
    BY <1>2, <2>2, <2>3 DEF Pending
  <2> QED
    BY <1>2, <1>3, <2>4
<1>12. Wholes(got)' = Wholes(got)
  <2>1. CASE got' = got
    BY <2>1
  <2>2. CASE got' = Append(got, MessageOf(fragmented_message))
    <3>1. Wholes(got)' = Wholes(got) \o << >>
      BY <1>3, <1>4, <1>5, <1>6, <2>2, WholesAppend
    <3>2. Wholes(got) \in Seq(Arrived)
      BY <1>4, WholesAre
    <3> QED
      BY <3>1, <3>2, ConcatEmptySeq
  <2> QED
    BY <1>2, <2>1, <2>2
<1> QED
  BY <1>2, <1>10, <1>11, <1>12, StepsSame

LEMMA ContinuationSteps ==
  ASSUME AclInv, Kept, NEW p, NEW t, NEW left, ContinuationOf(p, t, left)
  PROVE  Steps
<1>1. /\ air = <<p>> \o t /\ air' = t /\ Chain(t) /\ Runs(t, left) /\ left[0] \in Nat
      /\ Proper(p) /\ packet = None /\ packet' = None
      /\ open' = open /\ flushes' = flushes /\ ~IsStart(p)
      /\ Skips \/ Finishes(p, left[0]) \/ GoesOn(p, left[0])
  BY DEF ContinuationOf, DataStep
<1>2. PICK c : c = <<p>>
  OBVIOUS
<1>3. Chain(c) /\ Follow(c) /\ Len(Carried(c)) = p.length /\ p.length \in Nat
  BY <1>1, <1>2, FollowSingle, ProperIs
<1>4. ~packet.some /\ ~packet'.some
  BY <1>1 DEF None
<1>5. /\ Chain(fragmented_message) /\ got \in Seq(Arrived) /\ open \subseteq Channels
  BY DEF AclInv, Held
<1>6. Pending = MessagesIn(fragmented_message \o (c \o t))
  BY <1>1, <1>2, <1>4, <1>5, PendingIs DEF Pending
<1>7. PICK lead, rest : Parted(t, left, lead, rest)
  BY <1>1, Parts
<1>8. /\ t = lead \o rest /\ Chain(lead) /\ Follow(lead) /\ Chain(rest) /\ Begins(rest)
      /\ Len(Carried(lead)) = left[0] /\ (lead = << >> <=> left[0] = 0)
  BY <1>7 DEF Parted
<1>9. PICK q : q = MessagesIn(rest)
  OBVIOUS
<1>10. q \in Seq(Arrived) /\ MessagesIn(t) = q
  BY <1>8, <1>9, MessagesType, MessagesSkip
<1>11. ASSUME fragmented_message' = << >>
       PROVE  Pending' = q
  <2>1. InHost' = << >> \o << >>
    BY <1>4, <1>11 DEF InHost
  <2>2. << >> \o << >> = << >>
    BY ChainNone, NoneBefore
  <2>3. Pending' = MessagesIn(<< >> \o t)
    BY <1>1, <2>1, <2>2 DEF Pending
  <2>4. << >> \o t = t
    BY <1>1, NoneBefore
  <2> QED
    BY <1>10, <2>3, <2>4
<1>12. CASE Skips
  <2>1. fragmented_message = << >> /\ fragmented_message' = << >> /\ got' = got
    BY <1>12 DEF Skips
  <2>2. PICK d : d = c \o lead
    OBVIOUS
  <2>3. Chain(d) /\ Follow(d)
    <3>1. PICK n \in Nat : n = Len(lead)
      BY <1>8, ChainIs
    <3>2. Len(c) = 1 /\ c[1] = p
      BY <1>2
    <3>3. /\ Chain(d) /\ Len(d) = 1 + n /\ d[1] = p
          /\ \A i \in 1 .. n : d[1 + i] = lead[i]
      <4>1. 1 \in 1 .. Len(c)
        BY <3>2
      <4> QED
        <5>1. /\ Chain(c \o lead) /\ Len(c \o lead) = Len(c) + Len(lead)
              /\ \A i \in 1 .. Len(c) : (c \o lead)[i] = c[i]
              /\ \A i \in 1 .. Len(lead) : (c \o lead)[Len(c) + i] = lead[i]
          BY <1>3, <1>8, ChainConcat
        <5> QED
          BY <2>2, <3>1, <3>2, <4>1, <5>1
    <3>4. ASSUME NEW i \in 1 .. Len(d)
          PROVE  ~IsStart(d[i])
      <4>1. CASE i = 1
        BY <1>1, <3>3, <4>1
      <4>2. CASE i # 1
        <5>1. i - 1 \in 1 .. n /\ 1 + (i - 1) = i
          BY <3>3, <4>2
        <5> QED
          BY <1>8, <3>1, <3>3, <5>1 DEF Follow
      <4> QED
        BY <4>1, <4>2
    <3> QED
      BY <3>3, <3>4 DEF Follow
  <2>4. c \o t = d \o rest
    <3>1. c \in Seq(Packets) /\ lead \in Seq(Packets) /\ rest \in Seq(Packets)
      BY <1>3, <1>8, ChainIs
    <3> QED
      BY <1>8, <2>2, <3>1, Associative
  <2>5. Chain(c \o t)
    BY <1>1, <1>3, ChainConcat
  <2>6. Pending = MessagesIn(c \o t)
    BY <1>6, <2>1, <2>5, NoneBefore
  <2>7. Pending = q
    BY <1>8, <1>9, <2>3, <2>4, <2>6, MessagesSkip
  <2> QED
    BY <1>1, <1>11, <2>1, <2>7, StepsSame
<1>13. CASE Finishes(p, left[0])
  <2>1. PICK h, u : h = fragmented_message /\ u = h \o c
    OBVIOUS
  <2>2. /\ h # << >> /\ left[0] = 0 /\ fragmented_message' = << >>
        /\ fragmented_message_size + p.length = reassembled_message_size
        /\ got' = IF MessageOf(u).channel \in open THEN Append(got, MessageOf(u)) ELSE got
    BY <1>2, <1>13, <2>1 DEF Finishes, Appended
  <2>3. /\ Chain(h) /\ One(h) /\ Len(Carried(h)) = fragmented_message_size
        /\ Total(h[1]) = reassembled_message_size /\ Fitting(h[1])
        /\ reassembled_message_size < INVALID_PACKET
    BY <2>1, <2>2 DEF AclInv, Held, Kept
  <2>4. lead = << >> /\ t = rest
    <3>1. lead = << >>
      BY <1>8, <2>2
    <3> QED
      BY <1>8, <3>1, NoneBefore
  <2>5. PICK m : m = MessageOf(u)
    OBVIOUS
  <2>6. /\ Pending = IfWhole(m) \o q /\ Chain(u) /\ One(u) /\ u[1] = h[1]
        /\ m \in Arrived
    <3>1. /\ MessagesIn(h \o (c \o rest))
               = IfWhole(MessageOf(h \o c)) \o MessagesIn(rest)
          /\ Chain(h \o c) /\ One(h \o c) /\ (h \o c)[1] = h[1]
          /\ MessagesIn(rest) \in Seq(Arrived) /\ MessageOf(h \o c) \in Arrived
      <4>1. Chain(h) /\ One(h) /\ Chain(c) /\ Follow(c) /\ Chain(rest) /\ Begins(rest)
        BY <1>3, <1>8, <2>3
      <4> QED
        BY <4>1, MessagesAfter, Zenon
    <3>2. Pending = MessagesIn(h \o (c \o rest))
      BY <1>6, <2>1, <2>4
    <3>3. Pending = IfWhole(m) \o q
      BY <1>9, <2>1, <2>5, <3>1, <3>2
    <3> QED
      BY <2>1, <2>5, <3>1, <3>3
  <2>7. IsWhole(m)
    <3>1. Len(Carried(u)) = Total(u[1])
      BY <1>3, <2>1, <2>2, <2>3, <2>6, CarriedLen
    <3> QED
      BY <2>5, <2>6, <3>1, MessageHeader DEF One
  <2>8. Pending = <<m>> \o q /\ Pending' = q
    BY <1>11, <2>2, <2>6, <2>7, WholeIs
  <2>9. /\ m.channel = ChannelOf(h[1])
        /\ Takes(m, open) <=> ChannelOf(h[1]) \in open
    <3>1. /\ Takes(m, open) <=> Takeable(u[1])
          /\ m.channel = ChannelOf(u[1])
      BY <1>5, <2>5, <2>6, TakeableIs DEF One
    <3>2. Takeable(h[1]) <=> ChannelOf(h[1]) \in open
      BY <2>3 DEF Takeable
    <3> QED
      BY <2>6, <3>1, <3>2
  <2>10. CASE m.channel \in open
    <3>1. got' = Append(got, m) /\ Takes(m, open)
      BY <2>2, <2>5, <2>9, <2>10
    <3>2. Wholes(got)' = Wholes(got) \o <<m>>
      BY <1>5, <2>6, <2>7, <3>1, WholesAppend, WholeIs
    <3>3. Wholes(got) \o <<m>> = Append(Wholes(got), m)
      <4>1. Wholes(got) \in Seq(Arrived)
        BY <1>5, WholesAre
      <4> QED
        BY <2>6, <4>1
    <3> QED
      BY <1>1, <1>5, <1>10, <2>6, <2>8, <3>1, <3>2, <3>3, StepsReceive
  <2>11. CASE m.channel \notin open
    <3>1. got' = got /\ ~Takes(m, open)
      BY <2>2, <2>5, <2>9, <2>11
    <3> QED
      BY <1>1, <1>10, <2>6, <2>8, <3>1, StepsDiscard
  <2> QED
    BY <2>10, <2>11
<1>14. CASE GoesOn(p, left[0])
  <2>1. fragmented_message' = fragmented_message \o c /\ got' = got
    BY <1>2, <1>14 DEF GoesOn, Appended
  <2>2. InHost' = (fragmented_message \o c) \o << >>
    BY <1>4, <2>1 DEF InHost
  <2>3. Chain(fragmented_message \o c)
    BY <1>3, <1>5, ChainConcat
  <2>4. Pending' = MessagesIn((fragmented_message \o c) \o t)
    BY <1>1, <2>2, <2>3, NoneBefore DEF Pending
  <2>5. (fragmented_message \o c) \o t = fragmented_message \o (c \o t)
    <3>1. /\ fragmented_message \in Seq(Packets) /\ c \in Seq(Packets)
          /\ t \in Seq(Packets)
      BY <1>1, <1>3, <1>5, ChainIs
    <3> QED
      BY <3>1, Associative
  <2> QED
    BY <1>1, <1>6, <2>1, <2>4, <2>5, StepsSame
<1> QED
  BY <1>1, <1>12, <1>13, <1>14

LEMMA DataSteps ==
  ASSUME AclInv, Kept, OnDataReceived
  PROVE  Steps
<1>1. PICK p, t, m : StartOf(p, t, m) \/ ContinuationOf(p, t, m)
  BY DataStepIs
<1>2. CASE ContinuationOf(p, t, m)
  BY <1>2, ContinuationSteps
<1>3. CASE StartOf(p, t, m)
  <2>1. /\ air = <<p>> \o t /\ air' = t /\ Chain(t) /\ Runs(t, m) /\ m[0] \in Nat
        /\ Proper(p) /\ packet = None /\ packet' = None
        /\ open' = open /\ flushes' = flushes /\ IsStart(p)
        /\ fragmented_message = << >>
        /\ p.length + m[0] = Total(p) /\ StartOutcomes(p)
    BY <1>3 DEF StartOf, DataStep, StartOutcomes
  <2>2. p.length \in Nat /\ Chain(<<p>>)
    BY <2>1, ProperIs
  <2>3. p.length <= Total(p) /\ m[0] = Total(p) - p.length
    BY <2>1, <2>2
  <2>4. Chain(air)
    BY <2>1, <2>2, ChainConcat
  <2>5. Pending = MessagesIn(<<p>> \o t)
    <3>1. ~packet.some
      BY <2>1 DEF None
    <3>2. InHost = << >>
      BY <2>1, <3>1, PendingIs, ChainNone
    <3> QED
      BY <2>1, <2>4, <3>2, NoneBefore DEF Pending
  <2>6. got \in Seq(Arrived) /\ open \subseteq Channels
    BY DEF AclInv
  <2>7. m[0] \in {0, Total(p) - p.length}
    BY <2>3
  <2> QED
    BY <2>1, <2>3, <2>5, <2>6, <2>7, StartSteps
<1> QED
  BY <1>1, <1>2, <1>3

-----------------------------------------------------------------------------
(* So are the controllers'.                                                *)
(* What is in the host begins a message, or is nothing; Lacks says what    *)
(* the message does not have yet.                                          *)
HostOne(h) ==
  /\ h = InHost /\ Chain(h) /\ One(h) /\ ~Turned
  /\ Len(Carried(h)) + Lacks = Total(h[1])
LEMMA HostIs ==
  ASSUME AclInv, Kept
  PROVE  InHost = << >> \/ HostOne(InHost)
<1>1. Held /\ InHand
  BY DEF AclInv
<1>2. Chain(fragmented_message)
  BY <1>1 DEF Held
<1>3. CASE fragmented_message # << >>
  <2>1. packet = None
    BY <1>1, <1>3 DEF InHand
  <2>2. ~packet.some
    BY <2>1 DEF None
  <2>3. InHost = fragmented_message
    BY <1>2, <2>2, PendingIs
  <2>4. One(fragmented_message) /\ ~Turned
    BY <1>3 DEF Kept, Turned
  <2>5. PICK a \in Nat, b \in Nat : a = fragmented_message_size /\ b = reassembled_message_size
    BY <1>1 DEF Held
  <2>6. Len(Carried(fragmented_message)) = a /\ Total(fragmented_message[1]) = b
        /\ Lacks = b - a
    BY <1>1, <1>3, <2>5 DEF Held, Lacks
  <2>7. a + (b - a) = b
    BY <2>5
  <2> QED
    BY <1>2, <2>3, <2>4, <2>6, <2>7 DEF HostOne
<1>4. CASE fragmented_message = << >> /\ packet # None
  <2>1. packet.some
    BY <1>4, NoPacket
  <2>2. PICK p : p = packet.p
    OBVIOUS
  <2>3. Proper(p) /\ IsStart(p)
    BY <1>1, <1>4, <2>2 DEF InHand
  <2>4. Chain(<<p>>) /\ One(<<p>>) /\ Len(Carried(<<p>>)) = p.length /\ p.length \in Nat
    BY <2>3, ProperIs, OneSingle
  <2>5. InHost = <<p>> /\ ~Turned
    BY <1>4, <2>1, <2>2, <2>4, PendingIs DEF Turned
  <2>6. Lacks = Total(p) - p.length
    BY <1>4, <2>2 DEF Lacks
  <2>7. Total(p) \in Nat
    BY <2>3, ProperIs, TotalIs
  <2>8. p.length + (Total(p) - p.length) = Total(p)
    BY <2>4, <2>7
  <2>9. <<p>>[1] = p
    OBVIOUS
  <2> QED
    BY <2>4, <2>5, <2>6, <2>8, <2>9 DEF HostOne
<1>5. CASE fragmented_message = << >> /\ packet = None
  <2>1. ~packet.some
    BY <1>5 DEF None
  <2> QED
    BY <1>2, <1>5, <2>1, PendingIs
<1> QED
  BY <1>3, <1>4, <1>5

LEMMA HostSame ==
  ASSUME UNCHANGED <<packet, fragmented_message>>
  PROVE  InHost' = InHost
  BY DEF InHost

(* x lies between the host and lead and rest.                              *)
Between(h, x, lead, rest) ==
  /\ Chain(h) /\ Chain(x) /\ Chain(lead) /\ Follow(lead)
  /\ Chain(rest) /\ Begins(rest)
LEMMA ThroughStart ==
  ASSUME NEW h, NEW x, NEW lead, NEW rest, Between(h, x, lead, rest), One(x)
  PROVE  MessagesIn(h \o (x \o (lead \o rest)))
           = MessagesIn(h) \o (IfWhole(MessageOf(x \o lead)) \o MessagesIn(rest))
<1> /\ Chain(h) /\ Chain(x) /\ Chain(lead) /\ Follow(lead)
    /\ Chain(rest) /\ Begins(rest)
  BY DEF Between
<1>1. PICK t : t = lead \o rest
  OBVIOUS
<1>2. Chain(t) /\ Chain(x \o t)
  BY <1>1, ChainConcat
<1>3. MessagesIn(x \o (lead \o rest)) = IfWhole(MessageOf(x \o lead)) \o MessagesIn(rest)
  BY MessagesAfter
<1>4. Begins(x \o t)
  <2>1. 1 \in 1 .. Len(x)
    BY ChainIs DEF One
  <2>2. (x \o t)[1] = x[1]
    BY <1>2, <2>1, ChainConcat
  <2> QED
    BY <2>2 DEF Begins, One
<1>5. MessagesIn(h \o (x \o t)) = MessagesIn(h) \o MessagesIn(x \o t)
  BY <1>2, <1>4, MessagesConcat
<1> QED
  BY <1>1, <1>3, <1>5

LEMMA ThroughKept ==
  ASSUME NEW h, NEW x, NEW lead, NEW rest, Between(h, x, lead, rest), Follow(x), One(h)
  PROVE  MessagesIn(h \o (x \o (lead \o rest)))
           = IfWhole(MessageOf((h \o x) \o lead)) \o MessagesIn(rest)
<1> /\ Chain(h) /\ Chain(x) /\ Chain(lead) /\ Follow(lead)
    /\ Chain(rest) /\ Begins(rest)
  BY DEF Between
<1>1. PICK t : t = lead \o rest
  OBVIOUS
<1>2. Chain(t) /\ Chain(x \o t)
  BY <1>1, ChainConcat
<1>3. PICK u : u = h \o x
  OBVIOUS
<1>4. Chain(u) /\ One(u)
  BY <1>3, ChainConcat, OneConcat
<1>5. MessagesIn(u \o (lead \o rest)) = IfWhole(MessageOf(u \o lead)) \o MessagesIn(rest)
  BY <1>4, MessagesAfter
<1>6. h \o (x \o t) = u \o t
  <2>1. h \in Seq(Packets) /\ x \in Seq(Packets) /\ t \in Seq(Packets)
    BY <1>2, ChainIs
  <2> QED
    BY <1>3, <2>1, Associative
<1> QED
  BY <1>1, <1>3, <1>5, <1>6

LEMMA ThroughNone ==
  ASSUME NEW h, NEW x, NEW lead, NEW rest, Between(h, x, lead, rest), Follow(x)
  PROVE  MessagesIn(x \o (lead \o rest)) = MessagesIn(rest)
<1> /\ Chain(h) /\ Chain(x) /\ Chain(lead) /\ Follow(lead)
    /\ Chain(rest) /\ Begins(rest)
  BY DEF Between
<1>1. PICK t : t = lead \o rest
  OBVIOUS
<1>2. Chain(t) /\ Chain(x \o t)
  BY <1>1, ChainConcat
<1>4. x \o t = (x \o lead) \o rest
  <2>1. x \in Seq(Packets) /\ lead \in Seq(Packets) /\ rest \in Seq(Packets)
    BY ChainIs
  <2> QED
    BY <1>1, <2>1, Associative
<1>5. PICK d : d = x \o lead
  OBVIOUS
<1>6. Chain(d) /\ Follow(d)
  <2>1. PICK n \in Nat, m \in Nat : n = Len(x) /\ m = Len(lead)
    BY ChainIs
  <2>2. /\ Chain(d) /\ Len(d) = n + m /\ \A i \in 1 .. n : d[i] = x[i]
        /\ \A i \in 1 .. m : d[n + i] = lead[i]
    BY <1>5, <2>1, ChainConcat
  <2>3. ASSUME NEW i \in 1 .. n + m
        PROVE  ~IsStart(d[i])
    <3>1. CASE i \in 1 .. n
      BY <2>1, <2>2, <3>1 DEF Follow
    <3>2. CASE i \notin 1 .. n
      <4>1. i - n \in 1 .. m /\ n + (i - n) = i
        BY <3>2
      <4> QED
        BY <2>1, <2>2, <4>1 DEF Follow
    <3> QED
      BY <3>1, <3>2
  <2> QED
    BY <2>2, <2>3 DEF Follow
<1>7. MessagesIn(d \o rest) = MessagesIn(rest)
  BY <1>6, MessagesSkip
<1> QED
  BY <1>1, <1>4, <1>5, <1>7

LEMMA SameMessage ==
  ASSUME NEW s, NEW t, Carried(s) = Carried(t)
  PROVE  MessageOf(s) = MessageOf(t)
  BY DEF MessageOf

Alike(h, x, y) ==
  /\ Carried(x) = Carried(y) /\ (h = << >> \/ One(h))
  /\ (One(x) /\ One(y)) \/ (Follow(x) /\ Follow(y))
LEMMA SameThrough ==
  ASSUME NEW h, NEW x, NEW y, NEW lead, NEW rest, Between(h, x, lead, rest),
         Between(h, y, lead, rest), Alike(h, x, y)
  PROVE  MessagesIn(h \o (x \o (lead \o rest))) = MessagesIn(h \o (y \o (lead \o rest)))
<1> /\ Carried(x) = Carried(y) /\ (h = << >> \/ One(h))
    /\ (One(x) /\ One(y)) \/ (Follow(x) /\ Follow(y))
  BY DEF Alike
<1>4. Chain(h) /\ Chain(x) /\ Chain(y) /\ Chain(lead)
  BY DEF Between
<1>5. Chain(lead) /\ Chain(rest)
  BY DEF Between
<1>1. CASE One(x) /\ One(y)
  <2>1. Carried(x \o lead) = Carried(x) \o Carried(lead)
    BY <1>4, CarriedConcat
  <2>2. Carried(y \o lead) = Carried(y) \o Carried(lead)
    BY <1>4, CarriedConcat
  <2>3. MessageOf(x \o lead) = MessageOf(y \o lead)
    BY <2>1, <2>2, SameMessage, Zenon
  <2>4. MessagesIn(h \o (x \o (lead \o rest)))
          = MessagesIn(h) \o (IfWhole(MessageOf(x \o lead)) \o MessagesIn(rest))
    BY <1>1, ThroughStart
  <2>5. MessagesIn(h \o (y \o (lead \o rest)))
          = MessagesIn(h) \o (IfWhole(MessageOf(y \o lead)) \o MessagesIn(rest))
    BY <1>1, ThroughStart
  <2> QED
    BY <2>3, <2>4, <2>5, Zenon
<1>2. CASE Follow(x) /\ Follow(y) /\ One(h)
  <2>1. PICK u, v : u = h \o x /\ v = h \o y
    OBVIOUS
  <2>2. Chain(u) /\ Chain(v)
    BY <1>4, <2>1, ChainConcat, Zenon
  <2>3. Carried(u) = Carried(h) \o Carried(x)
    BY <1>4, <2>1, CarriedConcat, Zenon
  <2>4. Carried(v) = Carried(h) \o Carried(y)
    BY <1>4, <2>1, CarriedConcat, Zenon
  <2>5. Carried(u \o lead) = Carried(u) \o Carried(lead)
    BY <1>4, <2>2, CarriedConcat, Zenon
  <2>6. Carried(v \o lead) = Carried(v) \o Carried(lead)
    BY <1>4, <2>2, CarriedConcat, Zenon
  <2>7. MessageOf(u \o lead) = MessageOf(v \o lead)
    BY <2>3, <2>4, <2>5, <2>6, SameMessage, Zenon
  <2>8. MessagesIn(h \o (x \o (lead \o rest)))
          = IfWhole(MessageOf((h \o x) \o lead)) \o MessagesIn(rest)
    BY <1>2, ThroughKept
  <2>9. MessagesIn(h \o (y \o (lead \o rest)))
          = IfWhole(MessageOf((h \o y) \o lead)) \o MessagesIn(rest)
    BY <1>2, ThroughKept
  <2> QED
    BY <2>1, <2>7, <2>8, <2>9, Zenon
<1>3. CASE Follow(x) /\ Follow(y) /\ h = << >>
  <2>1. MessagesIn(x \o (lead \o rest)) = MessagesIn(rest)
    BY <1>3, ThroughNone
  <2>2. MessagesIn(y \o (lead \o rest)) = MessagesIn(rest)
    BY <1>3, ThroughNone
  <2>3. PICK t, u, v : t = lead \o rest /\ u = x \o t /\ v = y \o t
    OBVIOUS
  <2>4. Chain(t)
    BY <1>5, <2>3, ChainConcat
  <2>5. Chain(u) /\ Chain(v)
    BY <1>4, <2>3, <2>4, ChainConcat
  <2>6. << >> \o u = u /\ << >> \o v = v
    BY <2>5, NoneBefore
  <2> QED
    BY <1>3, <2>1, <2>2, <2>3, <2>6
<1> QED
  BY <1>1, <1>2, <1>3, Zenon

LEMMA PairIs ==
  ASSUME NEW S, NEW a \in S, NEW b \in S
  PROVE  <<a>> \o <<b>> = <<a, b>>
<1>1. PICK x, y, z : x = <<a>> /\ y = <<b>> /\ z = <<a, b>>
  OBVIOUS
<1>2. x \in Seq(S) /\ Len(x) = 1 /\ x[1] = a
  BY <1>1
<1>3. y \in Seq(S) /\ Len(y) = 1 /\ y[1] = b
  BY <1>1
<1>4. z \in Seq(S) /\ Len(z) = 2 /\ z[1] = a /\ z[2] = b
  BY <1>1
<1>5. \A i \in 1 .. 1 : z[i] = x[i] /\ z[1 + i] = y[i]
  <2> TAKE i \in 1 .. 1
  <2>1. i = 1 /\ 1 + i = 2
    OBVIOUS
  <2> QED
    BY <1>2, <1>3, <1>4, <2>1
<1>6. Halved(z, x, y)
  BY <1>2, <1>3, <1>4, <1>5 DEF Halved
<1>7. z = x \o y
  BY <1>2, <1>3, <1>4, <1>6, HalvedIs
<1> QED
  BY <1>1, <1>7

(* The two pieces of a packet carry what it carried.                       *)
LEMMA SplitCarries ==
  ASSUME NEW p, Proper(p), NEW n \in Nat, n >= 1, n <= p.length - 1,
         IsStart(p) => n >= L2CAP_HDR_LEN, NEW a, NEW b, Halves(p, n, a, b),
         Proper(a), Proper(b)
  PROVE  Payload(p) = Payload(a) \o Payload(b)
<1>1. PICK d \in Seq(Nat) : d = p.data /\ Size(p) = Len(d)
  BY DEF Proper, Headed, Packets, Size
<1>2. /\ Len(d) \in Nat /\ p.length = Len(d) - 4 /\ Len(d) > 4
      /\ p.pb \in {CONTINUATION, FIRST_FLUSH}
  BY <1>1, Headers DEF Proper, Headed, Packets
<1>3. PICK k \in Nat : k = Len(d)
  BY <1>2
<1>4. 4 + n + 1 <= k /\ k > 4
  BY <1>2, <1>3
<1>5. PICK x, y : x = SubSeq(d, 5, 4 + n) /\ y = SubSeq(d, 4 + n + 1, k)
  OBVIOUS
<1>6. x \in Seq(Nat) /\ Len(x) = n /\ \A j \in 1 .. n : x[j] = d[4 + j]
  <2>1. 5 \in Nat /\ 4 + n \in Nat /\ 5 >= 1 /\ 5 <= (4 + n) + 1 /\ 4 + n <= Len(d)
    BY <1>3, <1>4
  <2>2. /\ SubSeq(d, 5, 4 + n) \in Seq(Nat)
        /\ Len(SubSeq(d, 5, 4 + n)) = (4 + n) - 5 + 1
        /\ \A j \in 1 .. (4 + n) - 5 + 1 : SubSeq(d, 5, 4 + n)[j] = d[5 + j - 1]
    BY <2>1, SubIs
  <2>3. (4 + n) - 5 + 1 = n /\ \A j \in 1 .. n : 5 + j - 1 = 4 + j
    OBVIOUS
  <2> QED
    BY <1>5, <2>2, <2>3
<1>7. y \in Seq(Nat) /\ Len(y) = k - 4 - n /\ \A j \in 1 .. k - 4 - n : y[j] = d[4 + n + j]
  <2>1. /\ 4 + n + 1 \in Nat /\ 4 + n + 1 >= 1 /\ 4 + n + 1 <= k + 1
        /\ k <= Len(d)
    BY <1>3, <1>4
  <2>2. /\ SubSeq(d, 4 + n + 1, k) \in Seq(Nat)
        /\ Len(SubSeq(d, 4 + n + 1, k)) = k - (4 + n + 1) + 1
        /\ \A j \in 1 .. k - (4 + n + 1) + 1 :
             SubSeq(d, 4 + n + 1, k)[j] = d[(4 + n + 1) + j - 1]
    BY <1>3, <2>1, SubIs
  <2>3. /\ k - (4 + n + 1) + 1 = k - 4 - n
        /\ \A j \in 1 .. k - 4 - n : (4 + n + 1) + j - 1 = 4 + n + j
    OBVIOUS
  <2> QED
    BY <1>5, <2>2, <2>3
<1>8. IsPiece(a, p.pb, x)
  <2>1. x = SubSeq(p.data, ACL_HDR_LEN + 1, ACL_HDR_LEN + n)
    <3>1. ACL_HDR_LEN + 1 = 5 /\ ACL_HDR_LEN + n = 4 + n
      BY Headers
    <3> QED
      BY <1>1, <1>5, <3>1
  <2> QED
    BY <2>1, Zenon DEF Halves
<1>9. IsPiece(b, CONTINUATION, y)
  <2>1. y = SubSeq(p.data, ACL_HDR_LEN + n + 1, Size(p))
    BY <1>1, <1>3, <1>5, Headers
  <2> QED
    BY <2>1, Zenon DEF Halves
<1>10. Size(a) = 4 + n /\ \A j \in 1 .. n : a.data[4 + j] = x[j]
  <2>1. /\ Size(a) = 4 + Len(x) /\ \A j \in 1 .. Len(x) : a.data[4 + j] = x[j]
    BY <1>2, <1>6, <1>8, PieceIs, ZenonT(40)
  <2> QED
    BY <1>6, <2>1, Zenon
<1>11. Size(b) = 4 + (k - 4 - n) /\ \A j \in 1 .. k - 4 - n : b.data[4 + j] = y[j]
  <2>1. /\ Size(b) = 4 + Len(y) /\ \A j \in 1 .. Len(y) : b.data[4 + j] = y[j]
    BY <1>7, <1>9, PieceIs
  <2> QED
    BY <1>7, <2>1, Zenon
<1>12. PICK u, v, w : u = Payload(p) /\ v = Payload(a) /\ w = Payload(b)
  OBVIOUS
<1>13. Headed(p) /\ Headed(a) /\ Headed(b)
  BY ProperIs
<1>14. u \in Seq(Nat) /\ Len(u) = k - 4 /\ \A j \in 1 .. k - 4 : u[j] = d[4 + j]
  BY <1>1, <1>3, <1>12, <1>13, PayloadIs, Headers
<1>15. v \in Seq(Nat) /\ Len(v) = n /\ \A j \in 1 .. n : v[j] = d[4 + j]
  <2>1. (4 + n) - 4 = n
    OBVIOUS
  <2>2. v \in Seq(Nat) /\ Len(v) = n /\ \A j \in 1 .. n : v[j] = a.data[4 + j]
    <3>1. /\ Payload(a) \in Seq(Nat) /\ Len(Payload(a)) = Size(a) - 4
          /\ \A j \in 1 .. Size(a) - 4 : Payload(a)[j] = a.data[4 + j]
      BY <1>13, PayloadIs, Headers
    <3>2. Size(a) - 4 = n
      BY <1>10, <2>1
    <3> QED
      BY <1>12, <3>1, <3>2
  <2> QED
    BY <1>6, <1>10, <2>2
<1>16. w \in Seq(Nat) /\ Len(w) = k - 4 - n /\ \A j \in 1 .. k - 4 - n : w[j] = d[4 + n + j]
  <2>1. (4 + (k - 4 - n)) - 4 = k - 4 - n
    OBVIOUS
  <2>2. /\ w \in Seq(Nat) /\ Len(w) = k - 4 - n
        /\ \A j \in 1 .. k - 4 - n : w[j] = b.data[4 + j]
    <3>1. /\ Payload(b) \in Seq(Nat) /\ Len(Payload(b)) = Size(b) - 4
          /\ \A j \in 1 .. Size(b) - 4 : Payload(b)[j] = b.data[4 + j]
      BY <1>13, PayloadIs, Headers
    <3>2. Size(b) - 4 = k - 4 - n
      BY <1>11, <2>1
    <3> QED
      BY <1>12, <3>1, <3>2
  <2> QED
    BY <1>7, <1>11, <2>2
<1>17. Halved(u, v, w)
  <2>1. k - 4 = n + (k - 4 - n)
    OBVIOUS
  <2>2. \A j \in 1 .. n : u[j] = v[j]
    <3> TAKE j \in 1 .. n
    <3>1. j \in 1 .. k - 4
      BY <1>4
    <3> QED
      BY <1>14, <1>15, <3>1
  <2>3. \A j \in 1 .. k - 4 - n : u[n + j] = w[j]
    <3> TAKE j \in 1 .. k - 4 - n
    <3>1. n + j \in 1 .. k - 4 /\ 4 + (n + j) = 4 + n + j
      BY <1>4
    <3>2. u[n + j] = d[4 + (n + j)]
      BY <1>14, <3>1
    <3> QED
      BY <1>16, <3>1, <3>2
  <2> QED
    BY <1>14, <1>15, <1>16, <2>1, <2>2, <2>3 DEF Halved
<1>18. u = v \o w
  BY <1>14, <1>15, <1>16, <1>17, HalvedIs
<1> QED
  BY <1>12, <1>18

LEMMA ResplitSteps ==
  ASSUME AclInv, Kept, air # << >>, NEW n \in Nat, Resplit(n)
  PROVE  Steps
<1>1. PICK left : Runs(air, left)
  BY DEF AclInv, Stream
<1>2. PICK m : Runs(Tail(air), m) /\ RunsAt(air, left, 1) /\ Head(air) = air[1]
  BY <1>1, RunsTail
<1>3. PICK p, t : p = Head(air) /\ t = Tail(air)
  OBVIOUS
<1>4. Proper(p) /\ air = <<p>> \o t
  <2>1. air \in Seq(Packets)
    BY <1>1 DEF Runs
  <2> QED
    BY <1>2, <1>3, <2>1, HeadAndTail DEF RunsAt
<1>5. PICK a, b : /\ Halves(p, n, a, b) /\ air' = <<a, b>> \o Tail(air)
  <2>1. PICK a, b :
          /\ a = [pb |-> p.pb,
                  length |-> Len(SubSeq(p.data, ACL_HDR_LEN + 1, ACL_HDR_LEN + n)),
                  data |-> Zeros(ACL_HDR_LEN)
                             \o SubSeq(p.data, ACL_HDR_LEN + 1, ACL_HDR_LEN + n)]
          /\ b = [pb |-> CONTINUATION,
                  length |-> Len(SubSeq(p.data, ACL_HDR_LEN + n + 1, Size(p))),
                  data |-> Zeros(ACL_HDR_LEN)
                             \o SubSeq(p.data, ACL_HDR_LEN + n + 1, Size(p))]
    OBVIOUS
  <2>2. air' = <<a, b>> \o Tail(air)
    BY <1>3, <2>1, Zenon DEF Resplit
  <2>3. Halves(p, n, a, b)
    BY <2>1, Zenon DEF Halves, IsPiece
  <2> QED
    BY <2>2, <2>3
<1>6. n \in 1 .. p.length - 1 /\ (IsStart(p) => n >= L2CAP_HDR_LEN)
  BY <1>3 DEF Resplit
<1>7. n >= 1 /\ n <= p.length - 1
  <2>1. p.length \in Nat
    BY <1>4, ProperIs
  <2> QED
    BY <1>6, <2>1
<1>8. /\ Proper(a) /\ Proper(b) /\ ~IsStart(b) /\ (IsStart(a) <=> IsStart(p))
  <2>1. IsStart(p) => n >= L2CAP_HDR_LEN
    BY <1>6
  <2> QED
    BY <1>4, <1>5, <1>7, <2>1, SplitInTwo
<1>9. Payload(p) = Payload(a) \o Payload(b)
  <2>1. IsStart(p) => n >= L2CAP_HDR_LEN
    BY <1>6
  <2> QED
    BY <1>4, <1>5, <1>7, <1>8, <2>1, SplitCarries
<1>10. PICK x, y : x = <<p>> /\ y = <<a, b>>
  OBVIOUS
<1>11. Chain(x) /\ Carried(x) = Payload(p) /\ Len(x) = 1 /\ x[1] = p
  BY <1>4, <1>10, ProperIs, CarriedOne
<1>12. y = Appended(<<a>>, b) /\ Len(y) = 2 /\ y[1] = a /\ y[2] = b
  <2>3. a \in Packets /\ b \in Packets
    BY <1>8, ProperIs
  <2>1. <<a>> \o <<b>> = <<a, b>>
    BY <2>3, PairIs
  <2>2. Len(<<a, b>>) = 2 /\ <<a, b>>[1] = a /\ <<a, b>>[2] = b
    OBVIOUS
  <2> QED
    BY <1>10, <2>1, <2>2 DEF Appended
<1>13. Chain(y) /\ Carried(y) = Payload(a) \o Payload(b)
  <2>1. Headed(a) /\ Headed(b)
    BY <1>8, ProperIs
  <2>2. Chain(<<a>>) /\ Carried(<<a>>) = Payload(a)
    BY <2>1, CarriedOne
  <2> QED
    BY <1>12, <2>1, <2>2, CarriedAppended
<1>14. (One(x) /\ One(y)) \/ (Follow(x) /\ Follow(y))
  <2>1. x # << >> /\ y # << >>
    BY <1>10
  <2>2. CASE IsStart(p)
    <3>1. One(x)
      BY <1>11, <2>1, <2>2 DEF One
    <3>2. One(y)
      <4>1. \A i \in 2 .. 2 : i = 2
        OBVIOUS
      <4> QED
        BY <1>8, <1>12, <2>1, <2>2, <4>1 DEF One
    <3> QED
      BY <3>1, <3>2
  <2>3. CASE ~IsStart(p)
    <3>1. Follow(x)
      <4>1. \A i \in 1 .. 1 : i = 1
        OBVIOUS
      <4> QED
        BY <1>11, <2>3, <4>1 DEF Follow
    <3>2. Follow(y)
      <4>1. \A i \in 1 .. 2 : i = 1 \/ i = 2
        OBVIOUS
      <4> QED
        BY <1>8, <1>12, <2>3, <4>1 DEF Follow
    <3> QED
      BY <3>1, <3>2
  <2> QED
    BY <2>2, <2>3
<1>15. PICK lead, rest : Parted(t, m, lead, rest)
  BY <1>2, <1>3, Parts
<1>16. t = lead \o rest /\ Chain(lead) /\ Follow(lead) /\ Chain(rest) /\ Begins(rest)
  BY <1>15 DEF Parted
<1>17. PICK h : h = InHost /\ Chain(h) /\ (h = << >> \/ One(h))
  BY HostIs, ChainNone DEF HostOne
<1>18. MessagesIn(h \o (x \o (lead \o rest))) = MessagesIn(h \o (y \o (lead \o rest)))
  <2>1. Carried(x) = Carried(y)
    BY <1>9, <1>11, <1>13
  <2>2. Between(h, x, lead, rest) /\ Between(h, y, lead, rest)
    BY <1>11, <1>13, <1>16, <1>17 DEF Between
  <2>3. Alike(h, x, y)
    BY <1>14, <1>17, <2>1 DEF Alike
  <2> QED
    BY <2>2, <2>3, SameThrough
<1>19. /\ InHost' = h /\ got' = got /\ open' = open /\ flushes' = flushes
  <2>1. UNCHANGED <<flushes, receiver, open>>
    BY DEF Resplit
  <2>2. UNCHANGED <<packet, fragmented_message>> /\ got' = got
    BY <2>1 DEF receiver
  <2> QED
    BY <1>17, <2>1, <2>2, HostSame
<1>20. Pending = MessagesIn(h \o (x \o (lead \o rest)))
  BY <1>4, <1>10, <1>16, <1>17 DEF Pending
<1>21. Pending' = MessagesIn(h \o (y \o (lead \o rest)))
  BY <1>3, <1>5, <1>10, <1>16, <1>19 DEF Pending
<1>22. Wholes(got)' = Wholes(got)
  BY <1>19
<1> QED
  BY <1>18, <1>19, <1>20, <1>21, <1>22, StepsSame

(* A flush takes first, what is left of a message.                         *)
FlushStep(first, rest) ==
  /\ air = first \o rest /\ air' = rest /\ Chain(first) /\ Chain(rest)
  /\ Begins(rest) /\ (One(first) \/ Follow(first)) /\ first # << >>

LEMMA FlushStepIs ==
  ASSUME Chain(air), Flush
  PROVE  \E first, rest : FlushStep(first, rest)
<1>1. air \in Seq(Packets) /\ Len(air) \in Nat /\ air # << >>
  BY ChainIs DEF Flush
<1>2. PICK n \in Nat : n = Len(air)
  BY <1>1
<1>3. n >= 1
  BY <1>1, <1>2
<1>4. PICK later : later = {i \in 2 .. Len(air) : IsStart(air[i])}
  OBVIOUS
<1>5. air' = IF later = {} THEN << >> ELSE SubSeq(air, Min(later), Len(air))
  BY <1>4, Zenon DEF Flush
<1>6. CASE later = {}
  <2>1. air = air \o << >> /\ air' = << >>
    BY <1>5, <1>6, NoneBefore
  <2>2. ASSUME NEW i \in 2 .. Len(air)
        PROVE  ~IsStart(air[i])
    BY <1>4, <1>6
  <2>3. One(air) \/ Follow(air)
    <3>1. CASE IsStart(air[1])
      BY <1>1, <2>2, <3>1 DEF One
    <3>2. CASE ~IsStart(air[1])
      <4>1. ASSUME NEW i \in 1 .. Len(air)
            PROVE  ~IsStart(air[i])
        <5>1. i = 1 \/ i \in 2 .. Len(air)
          BY <1>1
        <5> QED
          BY <2>2, <3>2, <5>1
      <4> QED
        BY <4>1 DEF Follow
    <3> QED
      BY <3>1, <3>2
  <2>4. FlushStep(air, << >>)
    BY <1>1, <2>1, <2>3, ChainNone DEF FlushStep
  <2> QED
    BY <2>4
<1>7. CASE later # {}
  <2>1. PICK k : k = Min(later) /\ k \in later /\ \A i \in later : k <= i
    <3>1. later \subseteq Nat
      BY <1>1, <1>4
    <3> QED
      BY <1>7, <3>1, MinIs
  <2>2. k \in 2 .. n /\ IsStart(air[k])
    BY <1>2, <1>4, <2>1
  <2>3. PICK first, rest : first = SubSeq(air, 1, k - 1) /\ rest = SubSeq(air, k, n)
    OBVIOUS
  <2>4. /\ Chain(first) /\ Len(first) = k - 1
        /\ \A i \in 1 .. k - 1 : first[i] = air[i]
    <3>1. 1 \in Nat /\ k - 1 \in Nat /\ 1 >= 1 /\ 1 <= (k - 1) + 1 /\ k - 1 <= Len(air)
      BY <1>2, <2>2
    <3>2. /\ Chain(SubSeq(air, 1, k - 1)) /\ Len(SubSeq(air, 1, k - 1)) = (k - 1) - 1 + 1
          /\ \A i \in 1 .. (k - 1) - 1 + 1 : SubSeq(air, 1, k - 1)[i] = air[1 + i - 1]
      BY <3>1, ChainSub
    <3>3. (k - 1) - 1 + 1 = k - 1 /\ \A i \in 1 .. k - 1 : 1 + i - 1 = i
      BY <2>2
    <3> QED
      BY <2>3, <3>2, <3>3
  <2>5. /\ Chain(rest) /\ Len(rest) = n - k + 1
        /\ \A i \in 1 .. n - k + 1 : rest[i] = air[k + i - 1]
    <3>1. k \in Nat /\ n \in Nat /\ k >= 1 /\ k <= n + 1 /\ n <= Len(air)
      BY <1>2, <2>2
    <3> QED
      BY <2>3, <3>1, ChainSub
  <2>6. air = first \o rest
    <3>1. Len(air) = Len(first) + Len(rest)
      BY <1>2, <2>2, <2>4, <2>5
    <3>2. \A i \in 1 .. Len(rest) : air[Len(first) + i] = rest[i]
      <4> TAKE i \in 1 .. Len(rest)
      <4>1. i \in 1 .. n - k + 1 /\ (k - 1) + i = k + i - 1
        BY <2>2, <2>5
      <4> QED
        BY <2>4, <2>5, <4>1
    <3>3. Halved(air, first, rest)
      BY <2>4, <3>1, <3>2 DEF Halved
    <3>4. first \in Seq(Packets) /\ rest \in Seq(Packets)
      BY <2>4, <2>5, ChainIs
    <3> QED
      BY <1>1, <3>3, <3>4, HalvedIs
  <2>7. air' = rest
    BY <1>2, <1>5, <1>7, <2>1, <2>3
  <2>8. IsStart(rest[1])
    <3>1. 1 \in 1 .. n - k + 1 /\ k + 1 - 1 = k
      BY <2>2
    <3> QED
      BY <2>2, <2>5, <3>1
  <2>9. ASSUME NEW i \in 2 .. k - 1
        PROVE  ~IsStart(first[i])
    <3>1. i \in 1 .. k - 1 /\ i \in 2 .. n /\ ~(k <= i)
      BY <2>2
    <3>2. i \notin later
      BY <2>1, <3>1
    <3> QED
      BY <1>2, <1>4, <2>4, <3>1, <3>2
  <2>10. first # << >>
    BY <2>2, <2>4
  <2>11. One(first) \/ Follow(first)
    <3>1. CASE IsStart(first[1])
      BY <2>4, <2>9, <2>10, <3>1 DEF One
    <3>2. CASE ~IsStart(first[1])
      <4>1. ASSUME NEW i \in 1 .. k - 1
            PROVE  ~IsStart(first[i])
        <5>1. i = 1 \/ i \in 2 .. k - 1
          BY <2>2
        <5> QED
          BY <2>9, <3>2, <5>1
      <4> QED
        BY <2>4, <4>1 DEF Follow
    <3> QED
      BY <3>1, <3>2
  <2>12. FlushStep(first, rest)
    BY <2>4, <2>5, <2>6, <2>7, <2>8, <2>10, <2>11 DEF FlushStep, Begins
  <2> QED
    BY <2>12
<1> QED
  BY <1>6, <1>7

LEMMA RemoveIs ==
  ASSUME NEW S, NEW a \in Seq(S), NEW m \in S, NEW q \in Seq(S)
  PROVE  RemoveAt(a \o (<<m>> \o q), Len(a) + 1) = a \o q
<1>1. PICK n \in Nat, l \in Nat : n = Len(a) /\ l = Len(q)
  OBVIOUS
<1>2. PICK r : r = <<m>> \o q
  OBVIOUS
<1>3. r \in Seq(S) /\ Len(r) = 1 + l /\ \A i \in 1 .. l : r[1 + i] = q[i]
  <2>1. <<m>> \in Seq(S) /\ Len(<<m>>) = 1
    OBVIOUS
  <2>2. /\ <<m>> \o q \in Seq(S) /\ Len(<<m>> \o q) = Len(<<m>>) + Len(q)
        /\ \A i \in 1 .. Len(q) : (<<m>> \o q)[Len(<<m>>) + i] = q[i]
    BY <2>1, ConcatIs
  <2> QED
    BY <1>1, <1>2, <2>1, <2>2
<1>4. PICK s : s = a \o r
  OBVIOUS
<1>5. /\ s \in Seq(S) /\ Len(s) = n + (1 + l)
      /\ \A i \in 1 .. n : s[i] = a[i]
      /\ \A i \in 1 .. 1 + l : s[n + i] = r[i]
  <2>1. /\ a \o r \in Seq(S) /\ Len(a \o r) = Len(a) + Len(r)
        /\ \A i \in 1 .. Len(a) : (a \o r)[i] = a[i]
        /\ \A i \in 1 .. Len(r) : (a \o r)[Len(a) + i] = r[i]
    <3>1. r \in Seq(S)
      BY <1>3
    <3>2. a \o r \in Seq(S) /\ Len(a \o r) = Len(a) + Len(r)
      BY <3>1, ConcatIs
    <3>3. \A i \in 1 .. Len(a) : (a \o r)[i] = a[i]
      BY <3>1, ConcatIs
    <3>4. \A i \in 1 .. Len(r) : (a \o r)[Len(a) + i] = r[i]
      BY <3>1, ConcatIs
    <3> QED
      BY <3>2, <3>3, <3>4
  <2> QED
    BY <1>1, <1>3, <1>4, <2>1
<1>6. PICK x, y : x = SubSeq(s, 1, n) /\ y = SubSeq(s, n + 2, n + (1 + l))
  OBVIOUS
<1>7. x = a
  <2>1. x \in Seq(S) /\ Len(x) = n /\ \A i \in 1 .. n : x[i] = s[i]
    BY <1>5, <1>6
  <2>2. \A i \in 1 .. n : x[i] = a[i]
    BY <1>5, <2>1
  <2> QED
    BY <1>1, <2>1, <2>2, SeqEqual
<1>8. y = q
  <2>1. y \in Seq(S) /\ Len(y) = l /\ \A i \in 1 .. l : y[i] = s[(n + 2) + i - 1]
    BY <1>5, <1>6
  <2>2. ASSUME NEW i \in 1 .. l
        PROVE  y[i] = q[i]
    <3>1. 1 + i \in 1 .. 1 + l /\ (n + 2) + i - 1 = n + (1 + i)
      OBVIOUS
    <3>2. s[n + (1 + i)] = r[1 + i]
      BY <1>5, <3>1
    <3> QED
      BY <1>3, <2>1, <3>1, <3>2
  <2> QED
    BY <1>1, <2>1, <2>2, SeqEqual
<1>9. RemoveAt(s, n + 1) = SubSeq(s, 1, (n + 1) - 1) \o SubSeq(s, (n + 1) + 1, Len(s))
  BY DEF RemoveAt
<1>10. (n + 1) - 1 = n /\ (n + 1) + 1 = n + 2
  OBVIOUS
<1> QED
  BY <1>1, <1>2, <1>4, <1>5, <1>6, <1>7, <1>8, <1>9, <1>10

LEMMA StepsRemoved ==
  ASSUME Wholes(got)' = Wholes(got), open' = open, flushes' = flushes + 1,
         \E i \in 1 .. 2 : i <= Len(Pending) /\ Pending' = RemoveAt(Pending, i)
  PROVE  Steps
<1>1. PICK i \in 1 .. 2 : i <= Len(Pending) /\ Pending' = RemoveAt(Pending, i)
  OBVIOUS
<1>2. RemoveAt(Pending, i) = Abstract!RemoveAt(Pending, i)
  BY DEF RemoveAt, Abstract!RemoveAt
<1>3. Abstract!Flush
  BY <1>1, <1>2 DEF Abstract!Flush
<1> QED
  BY <1>3 DEF Steps, Abstract!Next

LEMMA StepsFlush ==
  ASSUME Wholes(got)' = Wholes(got), open' = open, flushes' = flushes + 1,
         NEW a \in Seq(Arrived), NEW m \in Seq(Arrived), NEW q \in Seq(Arrived),
         Len(a) <= 1, m = << >> \/ \E e \in Arrived : m = <<e>>,
         Pending = a \o (m \o q), Pending' = a \o q
  PROVE  Steps
<1>1. CASE m = << >>
  <2>1. m \o q = q
    BY <1>1
  <2>2. Pending' = Pending
    BY <2>1
  <2> QED
    BY <2>2 DEF Steps, Abstract!Next, Abstract!Flush
<1>2. ASSUME NEW e \in Arrived, m = <<e>>
      PROVE  Steps
  <2>1. RemoveAt(Pending, Len(a) + 1) = Pending'
    BY <1>2, RemoveIs
  <2>2. PICK n \in Nat, l \in Nat : n = Len(a) /\ l = Len(q)
    OBVIOUS
  <2>3. Len(Pending) = n + (1 + l)
    <3>1. m \in Seq(Arrived) /\ Len(m) = 1
      BY <1>2
    <3>2. PICK r : r = m \o q
      OBVIOUS
    <3>3. r \in Seq(Arrived) /\ Len(r) = Len(m) + Len(q)
      BY <3>2, ConcatIs
    <3>4. Len(a \o r) = Len(a) + Len(r)
      BY <3>3, ConcatIs
    <3> QED
      BY <2>2, <3>1, <3>2, <3>3, <3>4
  <2>4. Len(a) + 1 \in 1 .. 2 /\ Len(a) + 1 <= Len(Pending)
    BY <2>2, <2>3
  <2>5. \E i \in 1 .. 2 : i <= Len(Pending) /\ Pending' = RemoveAt(Pending, i)
    BY <2>1, <2>4
  <2> QED
    BY <2>5, StepsRemoved
<1> QED
  BY <1>1, <1>2

LEMMA FlushSteps ==
  ASSUME AclInv, Kept, Flush
  PROVE  Steps
<1>1. PICK left : Runs(air, left) /\ Fits(left[0])
  BY DEF AclInv, Stream
<1>2. Chain(air)
  BY <1>1, RunsChain
<1>3. PICK first, rest : FlushStep(first, rest)
  BY <1>2, FlushStepIs
<1>4. /\ air = first \o rest /\ air' = rest /\ Chain(first) /\ Chain(rest)
      /\ Begins(rest) /\ (One(first) \/ Follow(first)) /\ first # << >>
  BY <1>3 DEF FlushStep
<1>5. PICK h : h = InHost /\ Chain(h) /\ (h = << >> \/ HostOne(h))
  BY HostIs, ChainNone DEF HostOne
<1>6. flushes' = flushes + 1 /\ UNCHANGED <<receiver, open>>
  BY DEF Flush
<1>7. InHost' = h /\ got' = got /\ open' = open
  <2>1. UNCHANGED <<packet, fragmented_message>> /\ got' = got
    BY <1>6 DEF receiver
  <2> QED
    BY <1>5, <1>6, <2>1, HostSame
<1>8. Wholes(got)' = Wholes(got)
  BY <1>7
<1>9. PICK q, a : q = MessagesIn(rest) /\ a = MessagesIn(h)
  OBVIOUS
<1>10. q \in Seq(Arrived) /\ a \in Seq(Arrived)
  BY <1>4, <1>5, <1>9, MessagesType
<1>11. Pending' = a \o q
  <2>1. Pending' = MessagesIn(h \o rest)
    BY <1>4, <1>7 DEF Pending
  <2> QED
    BY <1>4, <1>5, <1>9, <2>1, MessagesConcat
<1>12. Pending = MessagesIn(h \o (first \o rest))
  BY <1>4, <1>5 DEF Pending
<1>13. PICK none : none = << >> /\ none \in Seq(Arrived) /\ Len(none) = 0
  <2>1. << >> \in Seq(Arrived) /\ Len(<< >>) = 0
    OBVIOUS
  <2> QED
    BY <2>1
<1>14. (a = IfWhole(MessageOf(h)) /\ MessageOf(h) \in Arrived) \/ a = none
  <2>1. CASE h = << >>
    <3>1. MessagesIn(<< >>) = << >>
      BY ChainNone, MessagesNone
    <3> QED
      BY <1>9, <1>13, <2>1, <3>1
  <2>2. CASE HostOne(h)
    <3>1. Chain(h) /\ One(h)
      BY <2>2 DEF HostOne
    <3> QED
      BY <1>9, <3>1, MessagesOne, MessageIs DEF One
  <2> QED
    BY <1>5, <2>1, <2>2
<1>15. Len(a) <= 1
  BY <1>13, <1>14, IfWholeIs
<1>16. none \o q = q
  BY <1>10, <1>13
<1>17. CASE One(first)
  <2>1. PICK m : m = MessageOf(first)
    OBVIOUS
  <2>2. m \in Arrived
    BY <1>4, <1>17, <2>1, MessageIs DEF One
  <2>3. MessagesIn(first \o rest) = IfWhole(m) \o q
    BY <1>4, <1>9, <1>17, <2>1, MessagesConcat, MessagesOne
  <2>4. Begins(first \o rest) /\ Chain(first \o rest)
    <3>1. 1 \in 1 .. Len(first)
      BY <1>4, ChainIs
    <3>2. Chain(first \o rest) /\ (first \o rest)[1] = first[1]
      BY <1>4, <3>1, ChainConcat
    <3> QED
      BY <1>17, <3>2 DEF Begins, One
  <2>5. Pending = a \o (IfWhole(m) \o q)
    BY <1>5, <1>9, <1>12, <2>3, <2>4, MessagesConcat
  <2>6. PICK w : w = IfWhole(m)
    OBVIOUS
  <2>7. w \in Seq(Arrived) /\ (w = << >> \/ \E e \in Arrived : w = <<e>>)
    BY <2>2, <2>6, IfWholeIs
  <2> QED
    BY <1>6, <1>7, <1>8, <1>10, <1>11, <1>15, <2>5, <2>6, <2>7, StepsFlush
<1>18. CASE Follow(first) /\ h = << >>
  <2>1. Chain(first \o rest)
    BY <1>4, ChainConcat
  <2>2. h \o (first \o rest) = first \o rest
    BY <1>18, <2>1, NoneBefore
  <2>3. Pending = q
    BY <1>4, <1>9, <1>12, <1>18, <2>2, MessagesSkip
  <2>4. a = none
    BY <1>9, <1>13, <1>18, ChainNone, MessagesNone
  <2>5. Pending = none \o (none \o q) /\ Pending' = none \o q
    BY <1>11, <1>16, <2>3, <2>4
  <2>6. Len(none) <= 1
    BY <1>13
  <2> QED
    BY <1>6, <1>7, <1>8, <1>10, <1>13, <2>5, <2>6, StepsFlush
<1>19. CASE Follow(first) /\ HostOne(h)
  <2>1. /\ Chain(h) /\ One(h) /\ ~Turned /\ Len(Carried(h)) + Lacks = Total(h[1])
    BY <1>19 DEF HostOne
  <2>2. Lacks \in Nat /\ Lacks > 0
    <3>1. 1 \in 1 .. Len(first) /\ 1 \in 1 .. Len(air) /\ air[1] = first[1]
      <4>1. 1 \in 1 .. Len(first)
        BY <1>4, ChainIs
      <4>2. (first \o rest)[1] = first[1] /\ Len(first \o rest) = Len(first) + Len(rest)
        BY <1>4, <4>1, ChainConcat
      <4>3. PICK n \in Nat, l \in Nat : n = Len(first) /\ l = Len(rest)
        BY <1>4, ChainIs
      <4>4. 1 \in 1 .. n + l
        BY <4>1, <4>3
      <4> QED
        BY <1>4, <4>1, <4>2, <4>3, <4>4
    <3>2. ~IsStart(air[1]) /\ RunsAt(air, left, 1)
      BY <1>1, <1>19, <3>1 DEF Follow, Runs
    <3>3. left[0] = air[1].length + left[1] /\ Proper(air[1])
      BY <3>2 DEF RunsAt
    <3>4. left[1] \in Nat /\ left[0] \in Nat
      <4>1. Len(air) \in Nat
        BY <1>2, ChainIs
      <4>2. 1 \in 0 .. Len(air) /\ 0 \in 0 .. Len(air)
        BY <3>1, <4>1
      <4> QED
        BY <1>1, <4>2 DEF Runs
    <3>5. PICK k : k = air[1].length
      OBVIOUS
    <3>6. k \in Nat /\ k >= 1
      BY <3>3, <3>5, ProperIs
    <3>7. left[0] > 0
      BY <3>3, <3>4, <3>5, <3>6
    <3>8. left[0] \in {0, Lacks}
      BY <1>1, <2>1 DEF Fits
    <3> QED
      BY <3>4, <3>7, <3>8
  <2>3. ~IsWhole(MessageOf(h))
    <3>1. Len(Carried(h)) \in Nat
      BY <2>1, CarriedLen
    <3>2. Len(Carried(h)) # Total(h[1])
      BY <2>1, <2>2, <3>1
    <3> QED
      BY <2>1, <3>2, MessageHeader DEF One
  <2>4. MessageOf(h) \in Arrived
    BY <2>1, MessageIs DEF One
  <2>5. a = none
    BY <1>9, <1>13, <2>1, <2>3, <2>4, MessagesOne, WholeIs
  <2>6. PICK m, w : m = MessageOf(h \o first) /\ w = IfWhole(m)
    OBVIOUS
  <2>7. /\ MessagesIn(h \o (first \o rest))
             = IfWhole(MessageOf(h \o first)) \o MessagesIn(rest)
        /\ MessageOf(h \o first) \in Arrived
    <3>1. Chain(h) /\ One(h) /\ Chain(first) /\ Follow(first) /\ Chain(rest) /\ Begins(rest)
      BY <1>4, <1>19, <2>1
    <3> QED
      BY <3>1, MessagesAfter
  <2>8. Pending = w \o q /\ w \in Seq(Arrived)
        /\ (w = << >> \/ \E e \in Arrived : w = <<e>>)
    <3>1. m \in Arrived
      BY <2>6, <2>7
    <3> QED
      BY <1>9, <1>12, <2>6, <2>7, <3>1, IfWholeIs
  <2>9. none \o (w \o q) = w \o q
    <3>1. w \o q \in Seq(Arrived)
      BY <1>10, <2>8, ConcatIs
    <3> QED
      BY <1>13, <3>1
  <2>10. Pending = none \o (w \o q) /\ Pending' = none \o q /\ Len(none) <= 1
    BY <1>11, <1>13, <2>5, <2>8, <2>9
  <2> QED
    BY <1>6, <1>7, <1>8, <1>10, <1>13, <2>8, <2>10, StepsFlush
<1> QED
  BY <1>4, <1>5, <1>17, <1>18, <1>19

-----------------------------------------------------------------------------
(* What the writer has written.                                            *)
(* What the writer has put into its packets.                               *)
Filled(s, k, pos, m) ==
  \A i \in 1 .. k : \A j \in 5 .. Size(s[i]) :
    (i < k \/ j <= pos) /\ (i = 1 => j >= 9)
      => s[i].data[j] = Byte(m, Before(i) + j - 8)
FilledIn(w) ==
  /\ ChannelOf(w.chain[1]) = w.channel
  /\ Filled(w.chain, w.packet, w.pos, sent)
Inked == writer # None => sent \in 1 .. MaxMessages /\ FilledIn(writer)

LEMMA BodyBytes ==
  ASSUME NEW m, NEW n, NEW a, NEW k, NEW bytes, Piece(m, n, a, k, bytes)
  PROVE  \A j \in 1 .. k : bytes[j] = Byte(m, a + j)
<1> /\ m \in Nat /\ n \in Nat /\ a \in Nat /\ k \in Nat /\ a + k <= n
    /\ bytes = SubSeq(Body(m, n), a + 1, a + k)
  BY DEF Piece
<1>1. \A i \in 1 .. n : Byte(m, i) \in Nat
  BY DEF Byte
<1>2. Body(m, n) = [i \in 1 .. n |-> Byte(m, i)]
  BY DEF Body
<1>3. PICK b : b = Body(m, n)
  OBVIOUS
<1>4. b \in Seq(Nat) /\ Len(b) = n /\ \A i \in 1 .. n : b[i] = Byte(m, i)
  BY <1>1, <1>2, <1>3
<1>5. /\ a + 1 \in Nat /\ a + 1 >= 1 /\ a + 1 <= a + k + 1 /\ a + k <= Len(b)
      /\ a + k \in Nat
  BY <1>4
<1>6. \A i \in 1 .. (a + k) - (a + 1) + 1 :
        SubSeq(b, a + 1, a + k)[i] = b[(a + 1) + i - 1]
  BY <1>4, <1>5, SubIs
<1>7. ASSUME NEW j \in 1 .. k
      PROVE  bytes[j] = Byte(m, a + j)
  <2>1. /\ j \in 1 .. (a + k) - (a + 1) + 1 /\ (a + 1) + j - 1 = a + j
        /\ a + j \in 1 .. n
    OBVIOUS
  <2>2. SubSeq(b, a + 1, a + k)[j] = b[a + j]
    BY <1>6, <2>1
  <2> QED
    BY <1>3, <1>4, <2>1, <2>2
<1> QED
  BY <1>7

Spells(bytes, k, pos, m) ==
  \A j \in 1 .. Len(bytes) : bytes[j] = Byte(m, Before(k) + (pos + j) - 8)

LEMMA FilledPut ==
  ASSUME NEW s, NEW n, NEW k, NEW pos, NEW bytes, NEW t, NEW m,
         PutAt(s, n, k, pos, bytes, t), Filled(s, k, pos, m), k = 1 => pos >= 8,
         Spells(bytes, k, pos, m)
  PROVE  Filled(t, k, pos + Len(bytes), m) /\ ChannelOf(t[1]) = ChannelOf(s[1])
<1>1. /\ Len(t) = Len(s)
      /\ \A i \in 1 .. Len(s) : Size(t[i]) = Size(s[i])
      /\ \A i \in 1 .. Len(s) : i # k => t[i] = s[i]
      /\ \A j \in 1 .. pos : t[k].data[j] = s[k].data[j]
      /\ \A j \in 1 .. Len(bytes) : t[k].data[pos + j] = bytes[j]
  BY ShapedPut
<1>2. /\ k \in 1 .. Len(s) /\ s \in Seq(Packets) /\ pos \in Nat
      /\ bytes \in Seq(Nat)
  BY DEF PutAt, Shaped, Chain
<1>3. PICK l \in Nat, e \in Nat : l = Len(s) /\ e = Len(bytes)
  BY <1>2
<1>4. ASSUME NEW i \in 1 .. k, NEW j \in 5 .. Size(t[i]),
             i < k \/ j <= pos + e, i = 1 => j >= 9
      PROVE  t[i].data[j] = Byte(m, Before(i) + j - 8)
  <2>1. i \in 1 .. Len(s)
    BY <1>2, <1>3
  <2>2. j \in 5 .. Size(s[i])
    BY <1>1, <2>1
  <2>3. CASE i # k
    <3>1. i < k
      BY <1>2, <1>3, <2>3
    <3> QED
      BY <1>1, <1>4, <2>1, <2>2, <2>3, <3>1 DEF Filled
  <2>4. CASE i = k /\ j <= pos
    <3>1. j \in 1 .. pos
      BY <1>2, <2>4
    <3>2. s[i].data[j] = Byte(m, Before(i) + j - 8)
      BY <1>4, <2>2, <2>4 DEF Filled
    <3> QED
      BY <1>1, <2>4, <3>1, <3>2
  <2>5. CASE i = k /\ ~(j <= pos)
    <3>1. j - pos \in 1 .. e /\ pos + (j - pos) = j
      BY <1>2, <1>4, <2>5
    <3>2. t[k].data[pos + (j - pos)] = bytes[j - pos]
      BY <1>1, <1>3, <3>1
    <3>3. bytes[j - pos] = Byte(m, Before(k) + (pos + (j - pos)) - 8)
      BY <1>3, <3>1 DEF Spells
    <3> QED
      BY <2>5, <3>1, <3>2, <3>3
  <2> QED
    BY <2>3, <2>4, <2>5
<1>5. Filled(t, k, pos + Len(bytes), m)
  BY <1>3, <1>4 DEF Filled
<1>6. ChannelOf(t[1]) = ChannelOf(s[1])
  <2>1. CASE k = 1
    <3>1. 7 \in 1 .. pos /\ 8 \in 1 .. pos
      BY <1>2, <2>1
    <3>2. t[1].data[7] = s[1].data[7] /\ t[1].data[8] = s[1].data[8]
      BY <1>1, <2>1, <3>1
    <3> QED
      BY <3>2 DEF ChannelOf, Word
  <2>2. CASE k # 1
    <3>1. 1 \in 1 .. Len(s)
      BY <1>2
    <3> QED
      BY <1>1, <2>2, <3>1
  <2> QED
    BY <2>1, <2>2
<1> QED
  BY <1>5, <1>6

(* One turn of bte_buffer_writer_write: what it puts where, and where it   *)
(* stands then.                                                            *)
TurnOf(w, n, bytes, u) ==
  /\ n \in Nat /\ Piece(sent, w.size, w.done, n, bytes)
  /\ bytes \in Seq(Nat) /\ Len(bytes) = n
  /\ PutAt(w.chain, w.size, w.packet, w.pos, bytes, u.chain)
  /\ u.channel = w.channel
  /\ \/ u.packet = w.packet /\ u.pos = w.pos + n
     \/ /\ u.packet = w.packet + 1 /\ u.pos = 4
        /\ w.pos + n = Size(w.chain[w.packet])

LEMMA TurnIs ==
  ASSUME NEW w, Written(w), sent \in Nat, WriteTurn(w) # None
  PROVE  \E n, bytes : TurnOf(w, n, bytes, WriteTurn(w))
<1>1. /\ w.chain \in Seq(Packets) /\ Laid(w.chain, w.size)
      /\ w.size \in Nat /\ w.done \in Nat /\ w.todo \in Nat /\ w.packet \in Nat
      /\ w.pos \in Nat /\ Size(w.chain[w.packet]) \in Nat
      /\ w.packet \in 1 .. Len(w.chain) /\ w.done + w.todo <= w.size
      /\ w.pos >= 4 /\ w.pos <= Size(w.chain[w.packet])
  <2>1. /\ w.packet \in Nat /\ Len(w.chain) \in Nat
        /\ w.packet >= 1 /\ w.packet <= Len(w.chain)
    BY WrittenIs
  <2>2. w.packet \in 1 .. Len(w.chain)
    BY <2>1
  <2> QED
    BY <2>2, WrittenIs
<1>2. PICK n \in Nat : /\ n = Step(w, w.todo) /\ n <= w.todo
                       /\ w.pos + n <= Size(w.chain[w.packet])
                       /\ n < w.todo => w.pos + n = Size(w.chain[w.packet])
  BY <1>1, StepIs DEF Here
<1>3. PICK bytes : bytes = SubSeq(Body(sent, w.size), w.done + 1, w.done + n)
  OBVIOUS
<1>4. Piece(sent, w.size, w.done, n, bytes)
  <2>1. w.done + n <= w.size
    BY <1>1, <1>2
  <2> QED
    BY <1>1, <1>3, <2>1 DEF Piece
<1>5. bytes \in Seq(Nat) /\ Len(bytes) = n
  BY <1>4, BodyIs
<1>6. PICK chain : chain = [w.chain EXCEPT ![w.packet] = Put(w.chain[w.packet], w.pos, bytes)]
  OBVIOUS
<1>7. PutAt(w.chain, w.size, w.packet, w.pos, bytes, chain)
  BY <1>1, <1>2, <1>5, <1>6 DEF PutAt, Laid
<1>8. PICK v : v = [w EXCEPT !.chain[w.packet] = Put(@, w.pos, bytes),
                             !.pos = @ + n, !.done = @ + n, !.todo = @ - n]
  OBVIOUS
<1>9. v = [some |-> TRUE, channel |-> w.channel, size |-> w.size,
           done |-> w.done + n, todo |-> w.todo - n, packet |-> w.packet,
           pos |-> w.pos + n, chain |-> chain]
  <2>1. w = [some |-> TRUE, channel |-> w.channel, size |-> w.size,
             done |-> w.done, todo |-> w.todo, packet |-> w.packet,
             pos |-> w.pos, chain |-> w.chain]
    BY DEF Written, Writers
  <2>2. PICK ch, size, done, todo, k, pos, c :
          /\ ch = w.channel /\ size = w.size /\ done = w.done /\ todo = w.todo
          /\ k = w.packet /\ pos = w.pos /\ c = w.chain
    OBVIOUS
  <2>3. w = [some |-> TRUE, channel |-> ch, size |-> size, done |-> done,
             todo |-> todo, packet |-> k, pos |-> pos, chain |-> c]
    BY <2>1, <2>2, Zenon
  <2>4. v = [w EXCEPT !.chain[k] = Put(@, pos, bytes),
                      !.pos = @ + n, !.done = @ + n, !.todo = @ - n]
    BY <1>8, <2>2, Zenon
  <2>5. v = [some |-> TRUE, channel |-> ch, size |-> size, done |-> done + n,
             todo |-> todo - n, packet |-> k, pos |-> pos + n,
             chain |-> [c EXCEPT ![k] = Put(c[k], pos, bytes)]]
    BY <2>3, <2>4
  <2> QED
    BY <1>6, <2>2, <2>5, Zenon
<1>10. /\ v.chain = chain /\ v.channel = w.channel /\ v.packet = w.packet
       /\ v.pos = w.pos + n /\ v.todo = w.todo - n
  BY <1>9
<1>11. WriteTurn(w) = CASE v.todo = 0 -> v
                        [] v.todo > 0 /\ HasNext(w) -> MoveOn(v)
                        [] OTHER -> None
  BY <1>2, <1>3, <1>8, Zenon DEF WriteTurn
<1>12. v.todo \in Nat
  BY <1>1, <1>2, <1>10
<1>13. CASE v.todo = 0
  <2>1. WriteTurn(w) = v
    BY <1>11, <1>13
  <2>2. TurnOf(w, n, bytes, v)
    BY <1>4, <1>5, <1>7, <1>10 DEF TurnOf
  <2> QED
    BY <2>1, <2>2
<1>14. CASE v.todo > 0 /\ HasNext(w)
  <2>1. WriteTurn(w) = MoveOn(v)
    BY <1>11, <1>12, <1>14
  <2>2. PICK u : u = MoveOn(v)
    OBVIOUS
  <2>3. u = [some |-> TRUE, channel |-> w.channel, size |-> w.size,
             done |-> w.done + n, todo |-> w.todo - n, packet |-> w.packet + 1,
             pos |-> 4, chain |-> chain]
    BY <1>9, <2>2, Headers DEF MoveOn
  <2>4. /\ u.chain = chain /\ u.channel = w.channel /\ u.packet = w.packet + 1
        /\ u.pos = 4
    BY <2>3
  <2>5. w.pos + n = Size(w.chain[w.packet])
    <3>1. n < w.todo
      BY <1>1, <1>10, <1>14
    <3> QED
      BY <1>2, <3>1
  <2>6. TurnOf(w, n, bytes, u)
    BY <1>4, <1>5, <1>7, <2>4, <2>5 DEF TurnOf
  <2> QED
    BY <2>1, <2>2, <2>6
<1> QED
  BY <1>11, <1>12, <1>13, <1>14

LEMMA TurnFilled ==
  ASSUME NEW w, Written(w), sent \in Nat, FilledIn(w), WriteTurn(w) # None
  PROVE  FilledIn(WriteTurn(w))
<1>1. PICK n, bytes : TurnOf(w, n, bytes, WriteTurn(w))
  BY TurnIs
<1>2. PICK u : u = WriteTurn(w)
  OBVIOUS
<1>3. /\ n \in Nat /\ Piece(sent, w.size, w.done, n, bytes)
      /\ bytes \in Seq(Nat) /\ Len(bytes) = n
      /\ PutAt(w.chain, w.size, w.packet, w.pos, bytes, u.chain)
      /\ u.channel = w.channel
      /\ \/ u.packet = w.packet /\ u.pos = w.pos + n
         \/ /\ u.packet = w.packet + 1 /\ u.pos = 4
            /\ w.pos + n = Size(w.chain[w.packet])
  BY <1>1, <1>2 DEF TurnOf
<1>4. PICK k \in Nat, pos \in Nat, done \in Nat, before \in Nat :
        /\ k = w.packet /\ pos = w.pos /\ done = w.done /\ before = Before(k)
        /\ 4 + done = before + pos - 4 /\ (k = 1 => pos >= 8) /\ k >= 1
  BY WrittenIs
<1>5. ASSUME NEW j \in 1 .. n
      PROVE  bytes[j] = Byte(sent, Before(k) + (pos + j) - 8)
  <2>1. bytes[j] = Byte(sent, done + j)
    <3>1. Piece(sent, w.size, w.done, n, bytes)
      BY <1>3
    <3>2. bytes[j] = Byte(sent, w.done + j)
      BY <3>1, BodyBytes
    <3>3. w.done = done
      BY <1>4
    <3> QED
      BY <3>2, <3>3
  <2>2. done + j = before + (pos + j) - 8
    BY <1>4
  <2> QED
    BY <1>4, <2>1, <2>2
<1>6. PICK s, t : s = w.chain /\ t = u.chain
  OBVIOUS
<1>7. PutAt(s, w.size, k, pos, bytes, t) /\ Filled(s, k, pos, sent)
      /\ ChannelOf(s[1]) = w.channel
  BY <1>3, <1>4, <1>6 DEF FilledIn
<1>8. Filled(t, k, pos + n, sent) /\ ChannelOf(t[1]) = ChannelOf(s[1])
  <2>1. Spells(bytes, k, pos, sent)
    BY <1>3, <1>5 DEF Spells
  <2>2. Filled(t, k, pos + Len(bytes), sent) /\ ChannelOf(t[1]) = ChannelOf(s[1])
    <3>1. k = 1 => pos >= 8
      BY <1>4
    <3>2. PICK size, m : size = w.size /\ m = sent
      OBVIOUS
    <3>3. /\ PutAt(s, size, k, pos, bytes, t) /\ Filled(s, k, pos, m)
          /\ Spells(bytes, k, pos, m)
      BY <1>7, <2>1, <3>2
    <3>4. Filled(t, k, pos + Len(bytes), m) /\ ChannelOf(t[1]) = ChannelOf(s[1])
      BY <3>1, <3>3, FilledPut, Zenon
    <3> QED
      BY <3>2, <3>4
  <2> QED
    BY <1>3, <2>2
<1>9. CASE u.packet = w.packet /\ u.pos = w.pos + n
  BY <1>2, <1>3, <1>4, <1>6, <1>7, <1>8, <1>9 DEF FilledIn
<1>10. CASE /\ u.packet = w.packet + 1 /\ u.pos = 4
            /\ w.pos + n = Size(w.chain[w.packet])
  <2>1. Size(t[k]) = pos + n
    <3>1. /\ \A i \in 1 .. Len(s) : Size(t[i]) = Size(s[i])
      BY <1>7, ShapedPut
    <3>2. k \in 1 .. Len(s)
      BY <1>7 DEF PutAt
    <3> QED
      BY <1>4, <1>6, <1>10, <3>1, <3>2
  <2>2. ASSUME NEW i \in 1 .. k + 1, NEW j \in 5 .. Size(t[i]),
               i < k + 1 \/ j <= 4, i = 1 => j >= 9
        PROVE  t[i].data[j] = Byte(sent, Before(i) + j - 8)
    <3>1. i \in 1 .. k
      BY <1>4, <2>2
    <3>2. i < k \/ j <= pos + n
      <4>1. i = k \/ i < k
        BY <3>1
      <4>2. i = k => j <= pos + n
        BY <1>3, <1>4, <2>1
      <4> QED
        BY <4>1, <4>2
    <3> QED
      BY <1>8, <2>2, <3>1, <3>2 DEF Filled
  <2>3. Filled(t, k + 1, 4, sent)
    BY <2>2 DEF Filled
  <2> QED
    BY <1>2, <1>3, <1>4, <1>6, <1>7, <1>8, <1>10, <2>3 DEF FilledIn
<1> QED
  BY <1>3, <1>9, <1>10

LEMMA SentOne ==
  ASSUME NEW t, NEW w, NEW n, NEW k, NEW pos, Ended(t, w, n, k, pos)
  PROVE  Chain(t) /\ One(t)
<1>1. t \in Seq(Packets) /\ Len(t) = k /\ k \in Nat /\ k >= 1
  BY DEF Ended
<1>2. ASSUME NEW i \in 1 .. k
      PROVE  Headed(t[i]) /\ (IsStart(t[i]) <=> i = 1)
  BY ProperIs DEF Ended, EndedAt
<1>3. Chain(t)
  BY <1>1, <1>2 DEF Chain
<1>4. 1 \in 1 .. k /\ \A i \in 2 .. k : i \in 1 .. k /\ i # 1
  BY <1>1
<1>5. t # << >>
  BY <1>1
<1>6. IsStart(t[1]) /\ \A i \in 2 .. Len(t) : ~IsStart(t[i])
  BY <1>1, <1>2, <1>4
<1> QED
  BY <1>3, <1>5, <1>6 DEF One

Within(t, s, k) ==
  \A i \in 1 .. k : Size(t[i]) <= Size(s[i]) /\ Size(s[i]) \in Nat

(* The bytes that the packets carry, after the header.                     *)
LEMMA SentBytes ==
  ASSUME NEW t, NEW w, NEW n, NEW k, NEW pos, Ended(t, w, n, k, pos), NEW m,
         Within(t, w.chain, k), Filled(w.chain, k, pos, m)
  PROVE  /\ Carried(t) \in Seq(Nat) /\ Len(Carried(t)) = 4 + n
         /\ \A p \in 5 .. 4 + n : Carried(t)[p] = Byte(m, p - 4)
<1>1. /\ n \in Nat /\ k \in Nat /\ pos \in Nat /\ k >= 1 /\ pos > 4
      /\ t \in Seq(Packets) /\ Len(t) = k
      /\ Before(k) \in Nat /\ 4 + n = Before(k) + pos - 4
  BY DEF Ended
<1>2. Chain(t)
  BY SentOne, Zenon
<1>3. PICK f : Carries(f, t) /\ Carried(t) = f[k]
  BY <1>1, <1>2, CarriedIs
<1>4. \A i \in 0 .. k : f[i] \in Seq(Nat) /\ Len(f[i]) \in Nat
  <2>1. f \in [0 .. k -> Seq(Nat)]
    BY <1>1, <1>3, Zenon DEF Carries
  <2>2. \A i \in 0 .. k : f[i] \in Seq(Nat)
    BY <2>1, Zenon
  <2>3. \A c \in Seq(Nat) : Len(c) \in Nat
    OBVIOUS
  <2> QED
    BY <2>2, <2>3, Zenon
<1> DEFINE P(i) == /\ Len(f[i]) = IF i = k THEN 4 + n ELSE Before(i + 1)
                   /\ \A p \in 5 .. Len(f[i]) : f[i][p] = Byte(m, p - 4)
           T == {i \in 0 .. k : ~P(i)}
<1>5. P(0)
  <2>1. f[0] = << >> /\ Len(f[0]) = 0
    BY <1>3 DEF Carries
  <2>2. 0 # k /\ Before(0 + 1) = 0
    BY <1>1, BeforeIs
  <2>3. \A p \in 5 .. 0 : FALSE
    OBVIOUS
  <2> QED
    BY <2>1, <2>2, <2>3
<1>6. ASSUME NEW i \in 1 .. k, P(i - 1)
      PROVE  P(i)
  <2>1. i - 1 \in 0 .. k /\ i - 1 # k /\ (i - 1) + 1 = i /\ i \in 0 .. k /\ i \in Nat /\ i >= 1
    BY <1>1
  <2>2. PICK g, h, d : g = f[i - 1] /\ h = f[i] /\ d = Payload(t[i])
    OBVIOUS
  <2>3. g \in Seq(Nat) /\ h \in Seq(Nat) /\ h = g \o d
    BY <1>1, <1>3, <1>4, <2>1, <2>2 DEF Carries
  <2>4. PICK b \in Nat : b = Before(i)
    BY <2>1, BeforeIs
  <2>5. Len(g) = b /\ \A p \in 5 .. b : g[p] = Byte(m, p - 4)
    BY <1>6, <2>1, <2>2, <2>4
  <2>6. EndedAt(t, w, k, pos, i)
    BY DEF Ended
  <2>7. Proper(t[i])
    BY <2>6 DEF EndedAt
  <2>8. PICK z \in Nat : z = Size(t[i]) /\ z > 4
    BY <2>7, Headers DEF Proper, Headed, Packets, Size
  <2>9. d \in Seq(Nat) /\ Len(d) = z - 4 /\ \A j \in 1 .. z - 4 : d[j] = t[i].data[4 + j]
    BY <2>2, <2>7, <2>8, PayloadIs, Headers DEF Proper
  <2>10. /\ Len(h) = b + (z - 4)
         /\ \A p \in 1 .. b : h[p] = g[p]
         /\ \A p \in 1 .. z - 4 : h[b + p] = d[p]
    <3>1. /\ Len(g \o d) = Len(g) + Len(d)
          /\ \A j \in 1 .. Len(g) : (g \o d)[j] = g[j]
          /\ \A j \in 1 .. Len(d) : (g \o d)[Len(g) + j] = d[j]
      BY <2>3, <2>9, Concat
    <3> QED
      BY <2>3, <2>5, <2>9, <3>1
  <2>11. Len(f[i]) = IF i = k THEN 4 + n ELSE Before(i + 1)
    <3>1. CASE i = k
      <4>1. z = pos
        BY <2>6, <2>8, <3>1 DEF EndedAt
      <4>2. b + (z - 4) = 4 + n
        BY <1>1, <2>4, <3>1, <4>1
      <4> QED
        BY <2>2, <2>10, <3>1, <4>2
    <3>2. CASE i # k
      <4>1. z = PacketSize
        BY <2>6, <2>8, <3>2 DEF EndedAt
      <4>2. Before(i + 1) = b + Room
        BY <2>1, <2>4, BeforeIs
      <4>3. b + (z - 4) = b + Room
        BY <4>1, RoomIs
      <4> QED
        BY <2>2, <2>10, <3>2, <4>2, <4>3
    <3> QED
      BY <3>1, <3>2
  <2>12. ASSUME NEW p \in 5 .. Len(h)
         PROVE  h[p] = Byte(m, p - 4)
    <3>1. CASE p <= b
      <4>1. p \in 1 .. b /\ p \in 5 .. b
        BY <3>1
      <4> QED
        BY <2>5, <2>10, <4>1
    <3>2. CASE ~(p <= b)
      <4>1. PICK q \in 1 .. z - 4 : p = b + q
        <5>1. p - b \in 1 .. z - 4 /\ p = b + (p - b)
          BY <2>10, <3>2
        <5> QED
          BY <5>1
      <4>2. h[p] = t[i].data[4 + q]
        BY <2>9, <2>10, <4>1
      <4>3. 4 + q \in 1 .. z /\ 4 + q \in 5 .. z /\ (b + (4 + q)) - 8 = p - 4
        BY <4>1
      <4>4. t[i].data[4 + q] = w.chain[i].data[4 + q]
        BY <2>6, <2>8, <4>3 DEF EndedAt
      <4>5. 4 + q \in 5 .. Size(w.chain[i])
        <5>1. PICK y \in Nat : y = Size(w.chain[i]) /\ z <= y
          BY <2>8 DEF Within
        <5>2. 4 + q \in 5 .. y
          BY <4>3, <5>1
        <5> QED
          BY <5>1, <5>2
      <4>6. i < k \/ 4 + q <= pos
        <5>1. CASE i = k
          <6>1. z = pos
            BY <2>6, <2>8, <5>1 DEF EndedAt
          <6> QED
            BY <4>3, <6>1
        <5>2. CASE i # k
          BY <1>1, <2>1, <5>2
        <5> QED
          BY <5>1, <5>2
      <4>7. i = 1 => 4 + q >= 9
        <5>1. SUFFICES ASSUME i = 1 PROVE 4 + q >= 9
          OBVIOUS
        <5>2. b = 0
          BY <2>4, <5>1, BeforeIs
        <5>3. p = q
          BY <4>1, <5>2
        <5> QED
          BY <5>3
      <4>8. w.chain[i].data[4 + q] = Byte(m, Before(i) + (4 + q) - 8)
        BY <4>5, <4>6, <4>7 DEF Filled
      <4> QED
        BY <2>4, <4>2, <4>3, <4>4, <4>8
    <3> QED
      BY <3>1, <3>2
  <2> QED
    BY <2>2, <2>11, <2>12
<1>7. T = {}
  <2>1. SUFFICES ASSUME T # {} PROVE FALSE
    OBVIOUS
  <2>2. PICK i \in T : \A j \in T : i <= j
    <3>1. T \subseteq Nat
      BY <1>1
    <3> HIDE DEF T
    <3> QED
      BY <2>1, <3>1, LeastNat
  <2> HIDE DEF P
  <2>3. i \in 0 .. k /\ ~P(i) /\ i # 0
    BY <1>5
  <2>4. i \in 1 .. k /\ i - 1 \in 0 .. k /\ ~(i <= i - 1)
    BY <1>1, <2>3
  <2>5. P(i - 1)
    BY <2>2, <2>4
  <2> QED
    BY <1>6, <2>3, <2>4, <2>5
<1>8. P(k)
  <2>1. k \in 0 .. k
    BY <1>1
  <2> HIDE DEF P
  <2> QED
    BY <1>7, <2>1
<1>9. PICK c \in Seq(Nat) : c = Carried(t)
  <2>1. k \in 0 .. k
    BY <1>1
  <2> QED
    BY <1>3, <1>4, <2>1
<1>10. Len(c) = 4 + n /\ \A p \in 5 .. Len(c) : c[p] = Byte(m, p - 4)
  BY <1>3, <1>8, <1>9
<1> HIDE DEF P, T
<1> QED
  BY <1>9, <1>10

LEMMA HeaderChannel ==
  ASSUME NEW n \in Nat, NEW c \in Nat, NEW h, h = L2capHeader(n, c)
  PROVE  h \in Seq(Nat) /\ Len(h) = 4 /\ h[3] = c % 256 /\ h[4] = c \div 256
<1>1. PICK a \in Nat, b \in Nat : a = n % 256 /\ b = n \div 256
  BY Low
<1>2. PICK d \in Nat, e \in Nat : d = c % 256 /\ e = c \div 256
  BY Low
<1>3. h = <<a, b, d, e>>
  BY <1>1, <1>2, Zenon DEF L2capHeader
<1>4. h \in Seq(Nat) /\ Len(h) = 4 /\ h[3] = d /\ h[4] = e
  BY <1>3
<1> QED
  BY <1>2, <1>4

LEMMA HeaderPut ==
  ASSUME NEW s, NEW n, NEW h, NEW t, NEW k, NEW pos, PutAt(s, n, k, pos, h, t)
  PROVE  Len(h) = 4 => t[k].data[pos + 3] = h[3] /\ t[k].data[pos + 4] = h[4]
<1>1. \A j \in 1 .. Len(h) : t[k].data[pos + j] = h[j]
  BY ShapedPut
<1>2. 3 \in 1 .. 4 /\ 4 \in 1 .. 4
  OBVIOUS
<1> QED
  BY <1>1, <1>2

LEMMA CreatedPut ==
  ASSUME NEW c \in Channels, NEW n \in Sizes, NEW s,
         s = Layout(U16(L2CAP_HDR_LEN + n)), TakesHeaders(s), NEW t,
         t = [s EXCEPT ![1] = Put(@, ACL_HDR_LEN, L2capHeader(n, c))]
  PROVE  PutAt(s, n, 1, 4, L2capHeader(n, c), t)
<1>1. Shaped(s, n) /\ Len(s) \in Nat /\ Len(s) >= 1 /\ Size(s[1]) >= 8
  BY LayoutIs
<1>2. n \in Nat /\ c \in Nat
  BY SizeIs, ChannelIs
<1>3. PICK h \in Seq(Nat) : h = L2capHeader(n, c) /\ Len(h) = 4
  BY <1>2, HeaderChannel
<1>4. t = [s EXCEPT ![1] = Put(s[1], 4, h)]
  BY <1>3, Headers
<1>5. 1 \in 1 .. Len(s) /\ 4 \in Nat /\ 4 >= 4
  BY <1>1
<1>6. 4 + Len(h) <= Size(s[1])
  <2>1. Size(s[1]) \in Nat
    BY <1>1, <1>5, PayloadIs DEF Shaped, Chain
  <2> QED
    BY <1>1, <1>3, <2>1
<1>7. PutAt(s, n, 1, 4, h, t)
  BY <1>1, <1>4, <1>5, <1>6 DEF PutAt
<1> QED
  BY <1>3, <1>7

LEMMA CreatedFilled ==
  ASSUME NEW c \in Nat, NEW n \in Nat, NEW s, NEW t, NEW m,
         PutAt(s, n, 1, 4, L2capHeader(n, c), t)
  PROVE  ChannelOf(t[1]) = c /\ Filled(t, 1, 8, m)
<1>1. PICK h : h = L2capHeader(n, c)
  OBVIOUS
<1>2. Len(h) = 4 => t[1].data[4 + 3] = h[3] /\ t[1].data[4 + 4] = h[4]
  BY <1>1, HeaderPut
<1>3. Len(h) = 4 /\ h[3] = c % 256 /\ h[4] = c \div 256
  BY <1>1, HeaderChannel
<1>4. 4 + 3 = 7 /\ 4 + 4 = 8 /\ 7 + 1 = 8
  OBVIOUS
<1>5. ChannelOf(t[1]) = t[1].data[7] + 256 * t[1].data[8]
  BY <1>4 DEF ChannelOf, Word
<1>6. t[1].data[7] = c % 256 /\ t[1].data[8] = c \div 256
  BY <1>2, <1>3, <1>4, Zenon
<1>7. ChannelOf(t[1]) = (c % 256) + 256 * (c \div 256)
  BY <1>5, <1>6, Zenon
<1>8. c = (c % 256) + 256 * (c \div 256)
  BY Low
<1>9. ChannelOf(t[1]) = c
  BY <1>7, <1>8, Zenon
<1>10. ASSUME NEW i \in 1 .. 1, NEW j \in 5 .. Size(t[i]), i < 1 \/ j <= 8,
              i = 1 => j >= 9
       PROVE  FALSE
  BY <1>10
<1>11. Filled(t, 1, 8, m)
  BY <1>10 DEF Filled
<1> QED
  BY <1>9, <1>11

LEMMA InkedWrite ==
  ASSUME NEW w, Written(w), sent \in Nat, sent \in 1 .. MaxMessages, FilledIn(w),
         writer' = WriteTurn(w), sent' = sent
  PROVE  Inked'
<1>1. SUFFICES ASSUME writer' # None PROVE sent' \in 1 .. MaxMessages /\ FilledIn(writer)'
  BY DEF Inked
<1>2. PICK u : u = WriteTurn(w)
  OBVIOUS
<1>3. FilledIn(u)
  BY <1>1, <1>2, TurnFilled
<1> QED
  BY <1>2, <1>3 DEF FilledIn

LEMMA InkedNext ==
  ASSUME AclInv, Inked, [Next]_vars
  PROVE  Inked'
<1>1. ASSUME writer' = writer, sent' = sent
      PROVE  Inked'
  BY <1>1 DEF Inked, FilledIn
<1>2. sent \in Nat
  BY DEF AclInv
<1>3. ASSUME NEW c \in Channels, NEW n \in Sizes, CreateMessage(c, n)
      PROVE  Inked'
  <2>1. PICK s : s = Layout(U16(L2CAP_HDR_LEN + n))
    OBVIOUS
  <2>2. TakesHeaders(s)
    BY <1>3, <2>1 DEF CreateMessage
  <2>3. PICK t : t = [s EXCEPT ![1] = Put(@, ACL_HDR_LEN, L2capHeader(n, c))]
    OBVIOUS
  <2>4. writer' = [some |-> TRUE, channel |-> c, size |-> n, done |-> 0,
                   todo |-> 0, packet |-> 1, pos |-> ACL_HDR_LEN + L2CAP_HDR_LEN,
                   chain |-> t]
    BY <1>3, <2>1, <2>3, Zenon DEF CreateMessage
  <2>5. /\ writer'.channel = c /\ writer'.packet = 1 /\ writer'.chain = t
        /\ writer'.pos = ACL_HDR_LEN + L2CAP_HDR_LEN
    BY <2>4
  <2>6. PICK m : m = sent'
    OBVIOUS
  <2>7. ChannelOf(t[1]) = c /\ Filled(t, 1, ACL_HDR_LEN + L2CAP_HDR_LEN, m)
    <3>1. PutAt(s, n, 1, 4, L2capHeader(n, c), t)
      BY <2>1, <2>2, <2>3, CreatedPut
    <3>2. n \in Nat /\ c \in Nat
      BY SizeIs, ChannelIs
    <3>3. ACL_HDR_LEN + L2CAP_HDR_LEN = 8
      BY Headers
    <3> QED
      BY <3>1, <3>2, <3>3, CreatedFilled
  <2>8. sent' \in 1 .. MaxMessages
    <3>1. sent' = sent + 1 /\ sent < MaxMessages
      BY <1>3 DEF CreateMessage
    <3> QED
      BY <1>2, <3>1, BoundsAssumption
  <2> QED
    BY <2>5, <2>6, <2>7, <2>8 DEF Inked, FilledIn
<1>4. ASSUME NEW n \in Chunks, WriterWrite(n)
      PROVE  Inked'
  <2>1. /\ writer.some /\ writer.todo = 0 /\ n <= writer.size - writer.done
        /\ writer' = WriteTurn([writer EXCEPT !.todo = n]) /\ sent' = sent
    BY <1>4 DEF WriterWrite
  <2>2. Written(writer) /\ n \in Nat
    BY <2>1, WriterThere, ChunkIs
  <2>3. PICK w : w = [writer EXCEPT !.todo = n]
    OBVIOUS
  <2>4. Written(w)
    BY <2>1, <2>2, <2>3, Asked
  <2>5. writer # None
    BY <2>1 DEF None
  <2>6. sent \in 1 .. MaxMessages /\ FilledIn(writer)
    BY <2>5 DEF Inked
  <2>7. /\ w.chain = writer.chain /\ w.packet = writer.packet /\ w.pos = writer.pos
        /\ w.channel = writer.channel
    BY <2>2, <2>3 DEF Written, Writers
  <2>8. FilledIn(w)
    BY <2>6, <2>7 DEF FilledIn
  <2> QED
    BY <1>2, <2>1, <2>3, <2>4, <2>6, <2>8, InkedWrite
<1>5. CASE WriterWriteLoop
  <2>1. writer.some /\ writer' = WriteTurn(writer) /\ sent' = sent
    BY <1>5 DEF WriterWriteLoop
  <2>2. writer # None
    BY <2>1 DEF None
  <2>3. PICK w : w = writer
    OBVIOUS
  <2>4. Written(w) /\ sent \in 1 .. MaxMessages /\ FilledIn(w)
    BY <2>1, <2>2, <2>3, WriterThere DEF Inked
  <2> QED
    BY <1>2, <2>1, <2>3, <2>4, InkedWrite
<1>6. CASE SendMessage
  BY <1>6 DEF SendMessage, Inked
<1>7. ASSUME NEW n, ReaderRead(n) \/ ReaderReadN(n)
      PROVE  Inked'
  BY <1>1, <1>7 DEF ReaderRead, ReaderReadN, sender
<1>8. ASSUME NEW c, Unlink(c) \/ ChangeOpen(c)
      PROVE  Inked'
  BY <1>1, <1>8 DEF Unlink, ChangeOpen, sender
<1>9. ASSUME NEW n, Resplit(n)
      PROVE  Inked'
  BY <1>1, <1>9 DEF Resplit, sender
<1>10. CASE Flush
  BY <1>1, <1>10 DEF Flush, sender
<1>11. CASE OnDataReceived \/ OnStartWhilePending \/ OnStartResumed
  BY <1>1, <1>11 DEF OnDataReceived, OnStartWhilePending, OnStartResumed, sender
<1>12. CASE ReaderReadLoop \/ ReaderReadMax \/ ReaderDone
  BY <1>1, <1>12 DEF ReaderReadLoop, ReaderReadMax, ReaderDone, sender
<1>13. CASE UNCHANGED vars
  BY <1>1, <1>13 DEF vars
<1> QED
  BY <1>3, <1>4, <1>5, <1>6, <1>7, <1>8, <1>9, <1>10, <1>11, <1>12, <1>13, Zenon
    DEF Next

-----------------------------------------------------------------------------
(* Sending.                                                                *)
(* The message that was written is the one that the packets carry.         *)
LEMMA SentIs ==
  ASSUME NEW w, Written(w), w.todo = 0, w.done = w.size, FilledIn(w)
  PROVE  /\ Chain(WriterEnd(w)) /\ One(WriterEnd(w))
         /\ MessagesIn(WriterEnd(w))
              = <<[channel |-> w.channel, length |-> w.size,
                   body |-> Body(sent, w.size)]>>
<1>1. PICK t : t = WriterEnd(w)
  OBVIOUS
<1>2. PICK n, k, pos : Ended(t, w, n, k, pos)
  BY <1>1, SentEnds
<1>3. /\ n = w.size /\ k = w.packet /\ pos = w.pos
      /\ n \in Nat /\ k \in Nat /\ pos \in Nat /\ k >= 1
      /\ Len(t) = k /\ Total(t[1]) = 4 + n
      /\ (k = 1 => pos >= 8)
      /\ \A i \in 1 .. k : EndedAt(t, w, k, pos, i)
  BY <1>2 DEF Ended
<1>4. Chain(t) /\ One(t)
  BY <1>2, SentOne
<1>5. ASSUME NEW i \in 1 .. k
      PROVE  Size(t[i]) <= Size(w.chain[i]) /\ Size(w.chain[i]) \in Nat
  <2>7. PICK s : s = w.chain
    OBVIOUS
  <2>1. PICK l \in Nat : /\ s = w.chain /\ l = Len(s) /\ k <= l /\ Laid(s, n)
                         /\ n \in Sizes
    BY <1>3, <2>7, WrittenIs
  <2>2. i \in 1 .. l /\ i \in Nat /\ i >= 1
    BY <1>3, <2>1
  <2>3. Size(s[i]) \in Nat
    BY <2>1, <2>2, PayloadIs DEF Laid, Shaped, Chain
  <2>4. EndedAt(t, w, k, pos, i)
    BY <1>3
  <2>5. CASE i = k
    <3>1. Size(t[i]) = pos
      BY <2>4, <2>5 DEF EndedAt
    <3>2. pos <= Size(s[i])
      BY <1>3, <2>1, <2>5, WrittenIs
    <3> QED
      BY <2>1, <2>3, <3>1, <3>2
  <2>6. CASE i # k
    <3>1. Size(t[i]) = PacketSize
      BY <2>4, <2>6 DEF EndedAt
    <3>2. i < Len(s)
      BY <1>3, <2>1, <2>2, <2>6
    <3>3. Size(s[i]) = PacketSize
      BY <2>1, <2>2, <3>2, FullPacket
    <3> QED
      BY <2>1, <2>3, <3>1, <3>3
  <2> QED
    BY <2>5, <2>6
<1>6. PICK m : m = sent
  OBVIOUS
<1>7. Filled(w.chain, k, pos, m) /\ ChannelOf(w.chain[1]) = w.channel
  BY <1>3, <1>6 DEF FilledIn
<1>8. /\ Carried(t) \in Seq(Nat) /\ Len(Carried(t)) = 4 + n
      /\ \A p \in 5 .. 4 + n : Carried(t)[p] = Byte(m, p - 4)
  <2>1. Within(t, w.chain, k)
    BY <1>5 DEF Within
  <2> QED
    BY <1>2, <1>7, <2>1, SentBytes
<1>9. PICK c \in Seq(Nat) : c = Carried(t)
  BY <1>8
<1>10. PICK d, e : d = SubSeq(c, 5, 4 + n) /\ e = Body(m, n)
  OBVIOUS
<1>11. d = e
  <2>1. d \in Seq(Nat) /\ Len(d) = n /\ \A i \in 1 .. n : d[i] = c[4 + i]
    <3>1. 5 \in Nat /\ 4 + n \in Nat /\ 5 >= 1 /\ 5 <= (4 + n) + 1 /\ 4 + n <= Len(c)
      BY <1>3, <1>8, <1>9
    <3>2. /\ SubSeq(c, 5, 4 + n) \in Seq(Nat)
          /\ Len(SubSeq(c, 5, 4 + n)) = (4 + n) - 5 + 1
          /\ \A i \in 1 .. (4 + n) - 5 + 1 : SubSeq(c, 5, 4 + n)[i] = c[5 + i - 1]
      BY <3>1, SubIs
    <3>3. (4 + n) - 5 + 1 = n /\ \A i \in 1 .. n : 5 + i - 1 = 4 + i
      BY <1>3
    <3> QED
      BY <1>10, <3>2, <3>3
  <2>2. \A i \in 1 .. n : d[i] = Byte(m, i)
    <3> TAKE i \in 1 .. n
    <3>1. 4 + i \in 5 .. 4 + n /\ (4 + i) - 4 = i
      BY <1>3
    <3>2. c[4 + i] = Byte(m, (4 + i) - 4)
      BY <1>8, <1>9, <3>1
    <3> QED
      BY <2>1, <3>1, <3>2
  <2>3. e = [i \in 1 .. n |-> Byte(m, i)]
    BY <1>10 DEF Body
  <2>4. d = [i \in 1 .. n |-> d[i]]
    BY <1>3, <2>1
  <2> QED
    BY <2>2, <2>3, <2>4
<1>12. t # << >> /\ IsStart(t[1])
  BY <1>4 DEF One
<1>13. /\ MessageOf(t).channel = Word(t[1].data, 7)
       /\ MessageOf(t).length + 4 = Total(t[1])
       /\ MessageOf(t).length \in Nat
       /\ IsWhole(MessageOf(t)) <=> Len(Carried(t)) = Total(t[1])
  BY <1>4, <1>12, MessageHeader
<1>14. MessageOf(t).body = Body(m, n)
  <2>1. MessageOf(t).body = SubSeq(Carried(t), 5, Len(Carried(t)))
    BY <1>4, <1>12, MessageIs
  <2> QED
    BY <1>8, <1>9, <1>10, <1>11, <2>1
<1>15. MessageOf(t).length = n
  BY <1>3, <1>13
<1>16. MessageOf(t).channel = w.channel
  <2>1. /\ 1 \in 1 .. k /\ 7 \in 1 .. Size(t[1]) /\ 8 \in 1 .. Size(t[1])
    <3>1. 1 \in 1 .. k
      BY <1>3
    <3>2. EndedAt(t, w, k, pos, 1)
      BY <1>3, <3>1
    <3>3. Size(t[1]) \in Nat /\ Size(t[1]) >= 8
      BY <1>3, <3>2, RoomIs DEF EndedAt
    <3> QED
      BY <3>1, <3>3
  <2>2. \A j \in 1 .. Size(t[1]) : t[1].data[j] = w.chain[1].data[j]
    BY <1>3, <2>1 DEF EndedAt
  <2>3. Word(t[1].data, 7) = Word(w.chain[1].data, 7)
    BY <2>1, <2>2 DEF Word
  <2> QED
    BY <1>7, <1>13, <2>3 DEF ChannelOf
<1>17. IsWhole(MessageOf(t)) /\ MessageOf(t) \in Arrived
  BY <1>3, <1>4, <1>8, <1>12, <1>13, MessageIs
<1>18. MessageOf(t) = [channel |-> w.channel, length |-> n, body |-> Body(m, n)]
  <2>1. MessageOf(t) = [channel |-> MessageOf(t).channel, length |-> MessageOf(t).length,
                        body |-> MessageOf(t).body]
    BY <1>17 DEF Arrived
  <2> QED
    BY <1>14, <1>15, <1>16, <2>1, Zenon
<1>19. MessagesIn(t) = <<MessageOf(t)>>
  BY <1>4, <1>17, MessagesOne, WholeIs
<1> QED
  BY <1>1, <1>3, <1>4, <1>6, <1>18, <1>19

LEMMA StepsSend ==
  ASSUME NEW m \in AllMessages, m \in Arrived, Pending \in Seq(Arrived),
         Pending' = Pending \o <<m>>, Wholes(got)' = Wholes(got), open' = open,
         flushes' = flushes
  PROVE  Steps
<1>1. PICK q \in Seq(Arrived) : q = Pending
  OBVIOUS
<1>2. q \o <<m>> = Append(q, m) /\ q \o <<m>> # q
  <2>1. q \o <<m>> = Append(q, m)
    BY <1>1
  <2>2. Len(Append(q, m)) = Len(q) + 1 /\ Len(q) \in Nat
    BY <1>1
  <2>3. Append(q, m) # q
    BY <2>2
  <2> QED
    BY <2>1, <2>3
<1>3. Pending' = Append(Pending, m) /\ Pending' # Pending
  BY <1>1, <1>2
<1>4. Abstract!Send
  BY <1>3 DEF Abstract!Send
<1> QED
  BY <1>3, <1>4 DEF Steps, Abstract!Next

LEMMA SendSteps ==
  ASSUME AclInv, Kept, Inked, SendMessage
  PROVE  Steps
<1>1. /\ writer.some /\ writer.todo = 0 /\ writer.done = writer.size
      /\ UNCHANGED <<linked, sent, flushes, receiver, open>>
      /\ air' = IF writer.channel \in linked THEN air \o WriterEnd(writer) ELSE air
  BY DEF SendMessage
<1>2. /\ UNCHANGED <<packet, fragmented_message>> /\ got' = got /\ open' = open
      /\ flushes' = flushes
  BY <1>1 DEF receiver
<1>3. PICK h : h = InHost /\ InHost' = h /\ Chain(h)
  BY <1>2, HostIs, HostSame, ChainNone DEF HostOne
<1>4. Chain(air)
  BY RunsChain DEF AclInv, Stream
<1>5. CASE air' = air
  <2>1. Pending' = Pending
    BY <1>3, <1>5 DEF Pending
  <2> QED
    BY <1>2, <2>1, StepsSame
<1>6. CASE air' = air \o WriterEnd(writer)
  <2>1. writer # None
    BY <1>1 DEF None
  <2>2. PICK w : w = writer
    OBVIOUS
  <2>3. /\ Written(w) /\ FilledIn(w) /\ w.todo = 0 /\ w.done = w.size
        /\ sent \in 1 .. MaxMessages
    BY <1>1, <2>1, <2>2, WriterThere DEF Inked
  <2>4. PICK t, m : /\ t = WriterEnd(w)
                    /\ m = [channel |-> w.channel, length |-> w.size,
                            body |-> Body(sent, w.size)]
    OBVIOUS
  <2>5. Chain(t) /\ One(t) /\ MessagesIn(t) = <<m>>
    BY <2>3, <2>4, SentIs
  <2>6. w.channel \in Channels /\ w.size \in Sizes
    BY <2>3, WrittenIs
  <2>7. m \in AllMessages
    BY <2>3, <2>4, <2>6 DEF AllMessages
  <2>8. m \in Arrived
    <3>1. MessagesIn(t) \in Seq(Arrived)
      BY <2>5, MessagesType
    <3>2. PICK q \in Seq(Arrived) : q = <<m>>
      BY <2>5, <3>1
    <3>3. Len(q) = 1 /\ q[1] = m
      BY <3>2
    <3> QED
      BY <3>2, <3>3
  <2>9. PICK a : a = air
    OBVIOUS
  <2>10. PICK u : u = h \o a
    OBVIOUS
  <2>11. Chain(a) /\ Chain(u)
    BY <1>3, <1>4, <2>9, <2>10, ChainConcat
  <2>12. Pending = MessagesIn(u) /\ Pending \in Seq(Arrived)
    BY <1>3, <2>9, <2>10, <2>11, MessagesType DEF Pending
  <2>13. h \o (a \o t) = u \o t
    <3>1. h \in Seq(Packets) /\ a \in Seq(Packets) /\ t \in Seq(Packets)
      BY <1>3, <2>5, <2>11, ChainIs
    <3>2. (h \o a) \o t = h \o (a \o t)
      BY <3>1, Associative
    <3> QED
      BY <2>10, <3>2
  <2>14. Pending' = MessagesIn(h \o (a \o t))
    BY <1>3, <1>6, <2>2, <2>4, <2>9 DEF Pending
  <2>15. MessagesIn(u \o t) = MessagesIn(u) \o MessagesIn(t)
    BY <2>5, <2>11, MessagesConcat DEF Begins, One
  <2>16. Pending' = Pending \o <<m>>
    BY <2>5, <2>12, <2>13, <2>14, <2>15
  <2>17. Wholes(got)' = Wholes(got)
    BY <1>2
  <2> QED
    BY <1>2, <2>7, <2>8, <2>12, <2>16, <2>17, StepsSend
<1> QED
  BY <1>1, <1>5, <1>6

-----------------------------------------------------------------------------
(* The refinement.                                                         *)
LEMMA StepsOpen ==
  ASSUME Pending' = Pending, Wholes(got)' = Wholes(got), open' # open,
         flushes' = flushes
  PROVE  Steps
  BY DEF Steps, Abstract!Next, Abstract!ChangeChannels

(* A step that leaves the packets, what was received and the channels.     *)
LEMMA StepsElse ==
  ASSUME UNCHANGED <<air, flushes, packet, fragmented_message, got>>
  PROVE  /\ Pending' = Pending /\ Wholes(got)' = Wholes(got) /\ flushes' = flushes
         /\ open' = open => Steps
<1>1. Pending' = Pending
  BY HostSame DEF Pending
<1>2. Wholes(got)' = Wholes(got)
  OBVIOUS
<1> QED
  BY <1>1, <1>2, StepsSame

LEMMA NextSteps ==
  ASSUME AclInv, Kept, Inked, [Next]_vars
  PROVE  Steps
<1>1. ASSUME UNCHANGED <<air, flushes, packet, fragmented_message, got, open>>
      PROVE  Steps
  BY <1>1, StepsElse
<1>2. CASE OnDataReceived
  BY <1>2, DataSteps
<1>3. CASE OnStartWhilePending
  BY <1>3, HoldSteps
<1>4. CASE OnStartResumed
  BY <1>4, ResumedSteps
<1>5. CASE UNCHANGED vars
  BY <1>1, <1>5 DEF vars
<1>6. ASSUME NEW c, NEW size, CreateMessage(c, size)
      PROVE  Steps
  BY <1>1, <1>6 DEF CreateMessage, receiver
<1>7. ASSUME NEW n, WriterWrite(n) \/ ReaderRead(n) \/ ReaderReadN(n)
      PROVE  Steps
  BY <1>1, <1>7 DEF WriterWrite, ReaderRead, ReaderReadN, receiver
<1>8. CASE WriterWriteLoop
  BY <1>1, <1>8 DEF WriterWriteLoop, receiver
<1>9. CASE SendMessage
  BY <1>9, SendSteps
<1>10. ASSUME NEW c, Unlink(c)
       PROVE  Steps
  BY <1>1, <1>10 DEF Unlink, receiver
<1>11. ASSUME NEW c, ChangeOpen(c)
       PROVE  Steps
  <2>1. UNCHANGED <<air, flushes, packet, fragmented_message, got>>
    BY <1>11 DEF ChangeOpen, receiver
  <2>2. open' # open
    BY <1>11 DEF ChangeOpen
  <2> QED
    BY <2>1, <2>2, StepsElse, StepsOpen
<1>12. ASSUME NEW n \in 1 .. PacketSize, air # << >>, Resplit(n)
       PROVE  Steps
  <2>1. n \in Nat
    BY RoomIs
  <2> QED
    BY <1>12, <2>1, ResplitSteps
<1>13. CASE Flush
  BY <1>13, FlushSteps
<1>14. CASE ReaderReadLoop \/ ReaderReadMax \/ ReaderDone
  BY <1>1, <1>14 DEF ReaderReadLoop, ReaderReadMax, ReaderDone
<1> QED
  BY <1>2, <1>3, <1>4, <1>5, <1>6, <1>7, <1>8, <1>9, <1>10, <1>11, <1>12, <1>13,
     <1>14, Zenon DEF Next

LEMMA InitSteps ==
  ASSUME Init
  PROVE  Kept /\ Inked /\ Abstract!Init
<1>1. /\ writer = None /\ air = << >> /\ flushes = 0 /\ packet = None
      /\ fragmented_message = << >> /\ got = << >>
  BY DEF Init
<1>2. Kept /\ Inked
  BY <1>1 DEF Kept, Inked
<1>3. ~packet.some
  BY <1>1 DEF None
<1>4. << >> \o << >> = << >>
  BY ChainNone, NoneBefore
<1>5. InHost = << >>
  BY <1>1, <1>3, <1>4 DEF InHost
<1>6. Pending = << >>
  <2>1. Pending = MessagesIn(<< >>)
    BY <1>1, <1>4, <1>5 DEF Pending
  <2> QED
    BY <2>1, ChainNone, MessagesNone
<1>7. Wholes(got) = << >>
  <2>1. PICK g : g = got /\ g \in Seq(Arrived) /\ Len(g) = 0
    <3>1. << >> \in Seq(Arrived) /\ Len(<< >>) = 0
      OBVIOUS
    <3> QED
      BY <1>1, <3>1
  <2>2. Flattens(Wholes(g), WholeAt(g)) /\ Len(WholeAt(g)) = Len(g)
    BY <2>1, WholesAre
  <2> QED
    BY <2>1, <2>2, FlattensNone
<1> QED
  BY <1>1, <1>2, <1>6, <1>7 DEF Abstract!Init

(* bte_l2cap_create_message and what sends its packets, with the            *)
(* on_data_received of the other side, implement a queue of messages: each  *)
(* step of the code is a step of MessageChannel or changes nothing there.   *)
(* Messages arrive in order, once and unchanged, and one is lost only to a  *)
(* flush or because the receiver has no channel that takes it.              *)
THEOREM Implements == Spec => ImplementsMessageChannel
<1>1. AclInv /\ [Next]_vars => AclInv'
  BY NextInv, StutterInv, Zenon
<1>2. AclInv /\ Kept /\ [Next]_vars => Kept'
  BY KeptNext, Zenon
<1>3. AclInv /\ Inked /\ [Next]_vars => Inked'
  BY InkedNext, Zenon
<1>4. Init => Kept /\ Inked /\ Abstract!Init
  BY InitSteps, Zenon
<1>5. AclInv /\ Kept /\ Inked /\ [Next]_vars => [Abstract!Next]_(Abstract!vars)
  BY NextSteps, Zenon DEF Steps
<1> QED
  BY <1>1, <1>2, <1>3, <1>4, <1>5, InitInv, PTL
    DEF Spec, ImplementsMessageChannel, Abstract!Spec
=============================================================================

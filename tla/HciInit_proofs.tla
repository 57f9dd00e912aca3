-------------------------- MODULE HciInit_proofs ---------------------------
(***************************************************************************)
(* Proofs about HciInit, for any number of clients, any size of the table  *)
(* of clients, either driver, and whatever applications do in their        *)
(* callbacks.                                                              *)
(***************************************************************************)
EXTENDS HciInit, WellFoundedInduction, TLAPS

-----------------------------------------------------------------------------
(* The inductive invariant.                                                *)
Statuses == {"UNINITIALIZED", "INITIALIZING", "INITIALIZED", "FAILED"}
Known == {"buffer_size", "bd_addr", "features"}

InitTypes ==
  /\ chain \in {Generic, Wii}
  /\ init_status \in Statuses
  /\ clients \in [Slots -> Clients \cup {NoClient}]
  /\ client_cb \in [Clients -> {"none", "init", "other"}]
  /\ step \in 0 .. Len(chain)
  /\ info \subseteq Known
  /\ loop \in [on : BOOLEAN, i : Nat]
  /\ told \in [Apps -> Seq(BOOLEAN)]

(* What the driver knows once the replies before the one it waits for have *)
(* come.                                                                   *)
Before(s) == {chain[j] : j \in 1 .. s - 1}
ChainLearns ==
  /\ step # 0 => /\ init_status = "INITIALIZING"
                 /\ Before(step) \cap Known \subseteq info
  /\ ReadyMeansKnown

(* Before the initialization is over nobody is told anything.              *)
ToldAfter ==
  /\ ~Final(init_status) =>
       ~loop.on /\ late = {} /\ \A c \in Apps : told[c] = << >>
  /\ init_status = "UNINITIALIZED" => \A s \in Slots : clients[s] = NoClient

(* A client has one place in the table, and it was made before it did      *)
(* anything; the driver's never asks.                                      *)
OnePlace ==
  /\ \A s, t \in Slots : clients[s] = clients[t] /\ s # t => clients[s] = NoClient
  /\ \A c \in Apps :
       Live(c) \/ client_cb[c] # "none" \/ told[c] # << >> => c \in used
  /\ client_cb[Driver] = "none"

(* The loop has told whom it passed, and no one it has still to reach,     *)
(* except for those who asked while it was on.                             *)
LoopPassed ==
  loop.on =>
    \A s \in Slots : clients[s] \in Apps =>
      /\ s >= loop.i =>
           Len(told[clients[s]]) <= IF clients[s] \in late THEN 1 ELSE 0
      /\ s < loop.i /\ client_cb[clients[s]] = "init" =>
           told[clients[s]] # << >>

InitInv ==
  /\ InitTypes /\ ChainLearns /\ ToldAfter /\ OnePlace /\ LoopPassed
  /\ ToldOnce

-----------------------------------------------------------------------------
(* Places of the table.                                                    *)

(* A set of places that is not empty has a lowest one.                     *)
LEMMA LowestPlace ==
  ASSUME NEW S, S \subseteq Slots, S # {}
  PROVE  Lowest(S) \in S /\ \A j \in S : Lowest(S) <= j
<1> DEFINE R == OpToRel(<, Nat)
<1>0. S \subseteq Nat
  BY InitClientsAssumption DEF Slots
<1>1. IsWellFoundedOn(R, Nat)
  BY NatLessThanWellFounded
<1> HIDE DEF R
<1>2. PICK n \in S : \A m \in S : ~ (<<m, n>> \in R)
  BY <1>0, <1>1, WFMin
<1>3. \A m \in S : ~(m < n)
  BY <1>0, <1>2 DEF R, OpToRel
<1>4. \E n_1 \in S : \A m \in S : n_1 <= m
  BY <1>0, <1>3
<1> QED
  BY <1>4, Zenon DEF Lowest

(* _bte_hci_dev_add_client puts the client in a free place, or nowhere.    *)
LEMMA AddClientEffect ==
  ASSUME NEW table \in [Slots -> Clients \cup {NoClient}], NEW c \in Clients
  PROVE  /\ AddClient(table, c) \in [Slots -> Clients \cup {NoClient}]
         /\ \/ AddClient(table, c) = table
            \/ \E s \in Slots : /\ table[s] = NoClient
                                /\ AddClient(table, c) = [table EXCEPT ![s] = c]
<1> DEFINE free == {i \in Slots : table[i] = NoClient}
<1>1. CASE free = {}
  BY <1>1 DEF AddClient
<1>2. CASE free # {}
  <2>1. free \subseteq Slots
    OBVIOUS
  <2> HIDE DEF free
  <2>2. Lowest(free) \in free
    BY <1>2, <2>1, LowestPlace
  <2>3. AddClient(table, c) = [table EXCEPT ![Lowest(free)] = c]
    BY <1>2 DEF AddClient, free
  <2>4. Lowest(free) \in Slots /\ table[Lowest(free)] = NoClient
    BY <2>2 DEF free
  <2> QED
    BY <2>3, <2>4
<1> QED
  BY <1>1, <1>2

-----------------------------------------------------------------------------
(* The chains of the two drivers.                                          *)
LEMMA ChainLength ==
  ASSUME chain \in {Generic, Wii}
  PROVE  Len(chain) \in Nat /\ Len(chain) >= 4
<1>1. Len(Generic) = 4
  BY DEF Generic
<1>2. Len(Wii) = 9
  BY DEF Wii
<1> QED
  BY <1>1, <1>2

-----------------------------------------------------------------------------
(* Each action preserves the invariant.                                    *)

(* bte_client_new, after the first time.                                   *)
LEMMA LaterClientInv ==
  ASSUME InitInv, NEW c \in Apps, c \notin used, LaterClient(c)
  PROVE  InitInv'
<1>1. /\ init_status \in {"INITIALIZING", "INITIALIZED"}
      /\ clients' = AddClient(clients, c) /\ used' = used \cup {c}
      /\ UNCHANGED <<chain, init_status, backend, client_cb, step, pending,
                     owed, info, loop, told, late, confused>>
  BY DEF LaterClient, commandVars, toldVars
<1>2. /\ clients \in [Slots -> Clients \cup {NoClient}]
      /\ c \in Clients /\ c # NoClient /\ NoClient \notin Apps
  BY InitClientsAssumption DEF InitInv, InitTypes, Clients
<1>3. /\ clients' \in [Slots -> Clients \cup {NoClient}]
      /\ \/ clients' = clients
         \/ \E s \in Slots : /\ clients[s] = NoClient
                             /\ clients' = [clients EXCEPT ![s] = c]
  BY <1>1, <1>2, AddClientEffect
<1>4. /\ ~Live(c) /\ client_cb[c] = "none" /\ told[c] = << >>
  BY DEF InitInv, OnePlace
<1>5. \A t \in Slots : \/ clients'[t] = clients[t]
                       \/ clients[t] = NoClient /\ clients'[t] = c
  BY <1>2, <1>3
<1>6. InitTypes' /\ ChainLearns' /\ ToldAfter'
  BY <1>1, <1>3
     DEF InitInv, InitTypes, ChainLearns, Before, ReadyMeansKnown, ToldAfter,
         Final
<1>7. \A s, t \in Slots :
        clients'[s] = clients'[t] /\ s # t => clients'[s] = NoClient
  <2>1. \A s \in Slots : clients[s] # c
    BY <1>4 DEF Live
  <2> QED
    BY <1>2, <1>3, <2>1 DEF InitInv, OnePlace
<1>8. OnePlace'
  <2>1. \A k \in Apps :
          Live(k)' \/ client_cb[k] # "none" \/ told[k] # << >> => k \in used'
    BY <1>1, <1>2, <1>5 DEF InitInv, OnePlace, Live
  <2> QED
    BY <1>1, <1>7, <2>1 DEF InitInv, OnePlace
<1>9. LoopPassed'
  <2> SUFFICES ASSUME loop.on, NEW s \in Slots, clients'[s] \in Apps
               PROVE  /\ s >= loop.i =>
                           Len(told[clients'[s]])
                             <= IF clients'[s] \in late THEN 1 ELSE 0
                      /\ s < loop.i /\ client_cb[clients'[s]] = "init" =>
                           told[clients'[s]] # << >>
    BY <1>1 DEF LoopPassed
  <2>1. CASE clients'[s] = clients[s]
    BY <2>1 DEF InitInv, LoopPassed
  <2>2. CASE clients'[s] = c
    <3>1. Len(told[c]) = 0
      BY <1>4
    <3> QED
      BY <1>4, <2>2, <3>1
  <2> QED BY <1>5, <2>1, <2>2
<1>10. ToldOnce'
  <2>1. \A k \in Apps : k # c /\ Live(k)' => Live(k)
    BY <1>5 DEF Live
  <2> QED
    BY <1>1, <1>4, <2>1 DEF InitInv, ToldOnce, Final
<1> QED
  BY <1>6, <1>8, <1>9, <1>10 DEF InitInv

(* bte_client_new for the first time.                                      *)
LEMMA FirstClientInv ==
  ASSUME InitInv, NEW c \in Apps, c \notin used, FirstClient(c)
  PROVE  InitInv'
<1> DEFINE table == AddClient(clients, Driver)
<1>1. /\ init_status = "UNINITIALIZED" /\ init_status' = "INITIALIZING"
      /\ clients' = AddClient(table, c) /\ used' = used \cup {c} /\ step' = 1
      /\ UNCHANGED <<chain, client_cb, pending, info, loop, told, late,
                     confused>>
  BY DEF FirstClient, toldVars
<1>2. /\ clients \in [Slots -> Clients \cup {NoClient}]
      /\ c \in Clients /\ c # NoClient /\ NoClient \notin Apps
      /\ Driver \in Clients /\ Driver # NoClient /\ Driver # c
  BY InitClientsAssumption DEF InitInv, InitTypes, Clients
<1>3. /\ ~loop.on /\ late = {}
      /\ \A k \in Apps : told[k] = << >>
      /\ \A s \in Slots : clients[s] = NoClient
  BY <1>1 DEF InitInv, ToldAfter, Final
<1>4. /\ table \in [Slots -> Clients \cup {NoClient}]
      /\ \/ table = clients
         \/ \E s \in Slots : /\ clients[s] = NoClient
                             /\ table = [clients EXCEPT ![s] = Driver]
  BY <1>2, AddClientEffect
<1> HIDE DEF table
<1>5. /\ clients' \in [Slots -> Clients \cup {NoClient}]
      /\ \/ clients' = table
         \/ \E s \in Slots : /\ table[s] = NoClient
                             /\ clients' = [table EXCEPT ![s] = c]
  BY <1>1, <1>2, <1>4, AddClientEffect
<1>6. /\ \A s \in Slots : table[s] \in {NoClient, Driver}
      /\ \A s, t \in Slots : table[s] = table[t] /\ s # t => table[s] = NoClient
  BY <1>2, <1>3, <1>4
<1>7. /\ \A s \in Slots : clients'[s] \in {NoClient, Driver, c}
      /\ \A s, t \in Slots :
           clients'[s] = clients'[t] /\ s # t => clients'[s] = NoClient
  BY <1>2, <1>4, <1>5, <1>6
<1>8. InitTypes'
  <2>1. 1 \in 0 .. Len(chain)
    BY ChainLength DEF InitInv, InitTypes
  <2> QED
    BY <1>1, <1>5, <2>1 DEF InitInv, InitTypes, Statuses
<1>9. ChainLearns'
  <2>1. Before(step)' = {}
    BY <1>1 DEF Before
  <2> QED
    BY <1>1, <2>1 DEF ChainLearns, ReadyMeansKnown
<1>10. ToldAfter' /\ LoopPassed'
  BY <1>1, <1>3 DEF ToldAfter, LoopPassed, Final
<1>11. OnePlace'
  <2>1. \A k \in Apps :
          Live(k)' \/ client_cb[k] # "none" \/ told[k] # << >> => k \in used'
    <3>1. \A k \in Apps : Live(k)' => k = c
      BY <1>7, InitClientsAssumption DEF Live
    <3> QED
      BY <1>1, <3>1 DEF InitInv, OnePlace
  <2> QED
    BY <1>1, <1>7, <2>1 DEF InitInv, OnePlace
<1>12. ToldOnce'
  BY <1>1, <1>3 DEF ToldOnce, Final
<1> QED
  BY <1>8, <1>9, <1>10, <1>11, <1>12 DEF InitInv

(* The backend does not start.                                             *)
LEMMA BackendDoesNotStartInv ==
  ASSUME InitInv, BackendDoesNotStart
  PROVE  InitInv'
<1>1. /\ init_status = "UNINITIALIZED" /\ init_status' = "INITIALIZING"
      /\ UNCHANGED <<chain, clients, used, client_cb, step, info, loop, told,
                     late>>
  BY DEF BackendDoesNotStart, commandVars, toldVars
<1>2. InitTypes' /\ ToldAfter' /\ LoopPassed'
  BY <1>1
     DEF InitInv, InitTypes, ToldAfter, LoopPassed, Final, Statuses
<1>3. ChainLearns'
  BY <1>1 DEF InitInv, ChainLearns, ReadyMeansKnown
<1>4. OnePlace'
  BY <1>1 DEF InitInv, OnePlace, Live
<1>5. ToldOnce'
  BY <1>1 DEF InitInv, ToldAfter, ToldOnce, Final
<1> QED
  BY <1>2, <1>3, <1>4, <1>5 DEF InitInv

(* A client that goes takes nothing of the others with it.                 *)
LEMMA RemoveEffect ==
  ASSUME InitTypes, NEW c, RemoveClient(c)
  PROVE  /\ clients' \in [Slots -> Clients \cup {NoClient}]
         /\ \A s \in Slots : clients'[s] \in {clients[s], NoClient}
         /\ \A k \in Apps : Live(k)' => Live(k)
<1>1. clients' = [i \in Slots |-> IF clients[i] = c THEN NoClient
                                  ELSE clients[i]]
  BY DEF RemoveClient
<1>2. clients \in [Slots -> Clients \cup {NoClient}]
  BY DEF InitTypes
<1>3. \A s \in Slots : clients'[s] \in {clients[s], NoClient}
  BY <1>1
<1>4. NoClient \notin Apps
  BY InitClientsAssumption
<1> QED
  BY <1>1, <1>2, <1>3, <1>4 DEF Live

(* bte_client_unref.                                                       *)
LEMMA ClientLeavesInv ==
  ASSUME InitInv, NEW c \in Apps, ClientLeaves(c)
  PROVE  InitInv'
<1>1. /\ UNCHANGED <<chain, init_status, used, client_cb, step, owed, info,
                     loop, told, late, confused>>
      /\ RemoveClient(c)
  BY DEF ClientLeaves, toldVars
<1>2. /\ clients' \in [Slots -> Clients \cup {NoClient}]
      /\ \A s \in Slots : clients'[s] \in {clients[s], NoClient}
      /\ \A k \in Apps : Live(k)' => Live(k)
      /\ NoClient \notin Apps
  BY <1>1, RemoveEffect, InitClientsAssumption DEF InitInv
<1>3. InitTypes' /\ ChainLearns' /\ ToldAfter'
  BY <1>1, <1>2
     DEF InitInv, InitTypes, ChainLearns, Before, ReadyMeansKnown, ToldAfter,
         Final
<1>4. OnePlace'
  BY <1>1, <1>2 DEF InitInv, OnePlace
<1>5. LoopPassed'
  <2> SUFFICES ASSUME loop.on, NEW s \in Slots, clients'[s] \in Apps
               PROVE  /\ s >= loop.i =>
                           Len(told[clients'[s]])
                             <= IF clients'[s] \in late THEN 1 ELSE 0
                      /\ s < loop.i /\ client_cb[clients'[s]] = "init" =>
                           told[clients'[s]] # << >>
    BY <1>1 DEF LoopPassed
  <2>1. clients'[s] = clients[s]
    BY <1>2
  <2> QED
    BY <2>1 DEF InitInv, LoopPassed
<1>6. ToldOnce'
  BY <1>1, <1>2 DEF InitInv, ToldOnce, Final
<1> QED
  BY <1>3, <1>4, <1>5, <1>6 DEF InitInv

(* One element more.                                                       *)
LEMMA AppendEffect ==
  ASSUME NEW S, NEW s \in Seq(S), NEW e \in S
  PROVE  /\ Append(s, e) \in Seq(S)
         /\ Len(Append(s, e)) = Len(s) + 1 /\ Append(s, e) # << >>
         /\ \A i \in DOMAIN Append(s, e) :
              \/ Append(s, e)[i] = e
              \/ i \in DOMAIN s /\ Append(s, e)[i] = s[i]
  OBVIOUS

(* Telling a client appends the result of the device.                      *)
LEMMA TellEffect ==
  ASSUME told \in [Apps -> Seq(BOOLEAN)], NEW c \in Apps, NEW e \in BOOLEAN,
         told' = [told EXCEPT ![c] = Append(told[c], e)]
  PROVE  /\ told' \in [Apps -> Seq(BOOLEAN)]
         /\ \A k \in Apps : k # c => told'[k] = told[k]
         /\ Len(told'[c]) = Len(told[c]) + 1 /\ told'[c] # << >>
         /\ \A i \in DOMAIN told'[c] :
              \/ told'[c][i] = e
              \/ i \in DOMAIN told[c] /\ told'[c][i] = told[c][i]
<1>1. told[c] \in Seq(BOOLEAN)
  OBVIOUS
<1>2. told'[c] = Append(told[c], e)
  OBVIOUS
<1>3. /\ Append(told[c], e) \in Seq(BOOLEAN)
      /\ Len(Append(told[c], e)) = Len(told[c]) + 1
      /\ Append(told[c], e) # << >>
      /\ \A i \in DOMAIN Append(told[c], e) :
           \/ Append(told[c], e)[i] = e
           \/ i \in DOMAIN told[c] /\ Append(told[c], e)[i] = told[c][i]
  BY <1>1, AppendEffect
<1>4. /\ told' \in [Apps -> Seq(BOOLEAN)]
      /\ \A k \in Apps : k # c => told'[k] = told[k]
  BY <1>3
<1> QED
  BY <1>2, <1>3, <1>4

(* A client is told while the status is final: what it was told so far and *)
(* what it is told now is the result of the device.                        *)
LEMMA TellOne ==
  ASSUME InitInv, NEW c \in Apps, Tell(c), UNCHANGED init_status
  PROVE  /\ told' \in [Apps -> Seq(BOOLEAN)]
         /\ \A k \in Apps : k # c => told'[k] = told[k]
         /\ Len(told'[c]) = Len(told[c]) + 1 /\ told'[c] # << >>
         /\ Len(told[c]) \in Nat
         /\ \A k \in Apps : \A i \in DOMAIN told'[k] :
              told'[k][i] = (init_status' = "INITIALIZED")
<1>0. told \in [Apps -> Seq(BOOLEAN)]
  BY DEF InitInv, InitTypes
<1>1. PICK e \in BOOLEAN : e = (init_status = "INITIALIZED")
  OBVIOUS
<1>2. told' = [told EXCEPT ![c] = Append(told[c], e)]
  BY <1>1 DEF Tell
<1>3. /\ told' \in [Apps -> Seq(BOOLEAN)]
      /\ \A k \in Apps : k # c => told'[k] = told[k]
      /\ Len(told'[c]) = Len(told[c]) + 1 /\ told'[c] # << >>
      /\ \A i \in DOMAIN told'[c] :
           \/ told'[c][i] = e
           \/ i \in DOMAIN told[c] /\ told'[c][i] = told[c][i]
  BY <1>0, <1>2, TellEffect
<1>4. \A k \in Apps : \A i \in DOMAIN told[k] : told[k][i] = e
  BY <1>1 DEF InitInv, ToldOnce
<1>5. \A k \in Apps : \A i \in DOMAIN told'[k] : told'[k][i] = e
  BY <1>3, <1>4
<1>6. Len(told[c]) \in Nat
  BY <1>0
<1> QED
  BY <1>1, <1>3, <1>5, <1>6

(* bte_hci_on_initialized.                                                 *)
LEMMA OnInitializedInv ==
  ASSUME InitInv, NEW c \in Apps, OnInitialized(c)
  PROVE  InitInv'
<1>1. /\ Live(c) /\ told[c] = << >> /\ client_cb[c] # "init"
      /\ client_cb' = [client_cb EXCEPT ![c] = "init"]
      /\ IF Final(init_status) THEN Tell(c) ELSE UNCHANGED told
      /\ late' = IF loop.on THEN late \cup {c} ELSE late
      /\ UNCHANGED <<chain, init_status, clients, used, step, info, loop>>
  BY DEF OnInitialized, commandVars
<1>2. /\ c \in Clients /\ c # Driver /\ Driver \in Clients
      /\ Len(told[c]) = 0 /\ c \in used
  BY <1>1, InitClientsAssumption DEF Clients, InitInv, OnePlace
<1>3. /\ client_cb' \in [Clients -> {"none", "init", "other"}]
      /\ client_cb'[Driver] = client_cb[Driver]
      /\ \A k \in Apps : k # c => client_cb'[k] = client_cb[k]
  BY <1>1, <1>2 DEF InitInv, InitTypes, Clients
<1>4. ChainLearns'
  BY <1>1 DEF InitInv, ChainLearns, Before, ReadyMeansKnown
<1>5. CASE ~Final(init_status)
  <2>1. told' = told /\ ~loop.on /\ late' = late /\ late = {}
    BY <1>1, <1>5 DEF InitInv, ToldAfter
  <2>2. InitTypes' /\ ToldAfter' /\ LoopPassed'
    BY <1>1, <1>3, <1>5, <2>1
       DEF InitInv, InitTypes, ToldAfter, LoopPassed, Final
  <2>3. OnePlace'
    BY <1>1, <1>2, <1>3, <2>1 DEF InitInv, OnePlace, Live
  <2>4. ToldOnce'
    BY <1>1, <1>5, <2>1 DEF InitInv, ToldOnce, Final
  <2> QED
    BY <1>4, <2>2, <2>3, <2>4 DEF InitInv
<1>6. CASE Final(init_status)
  <2>1. /\ told' \in [Apps -> Seq(BOOLEAN)]
        /\ \A k \in Apps : k # c => told'[k] = told[k]
        /\ Len(told'[c]) = 1 /\ told'[c] # << >>
        /\ \A k \in Apps : \A i \in DOMAIN told'[k] :
             told'[k][i] = (init_status' = "INITIALIZED")
    <3>1. Tell(c) /\ UNCHANGED init_status
      BY <1>1, <1>6
    <3>2. Len(told'[c]) = 0 + 1
      BY <1>2, <3>1, TellOne
    <3> QED
      BY <3>1, <3>2, TellOne
  <2>2. InitTypes' /\ ToldAfter'
    BY <1>1, <1>3, <1>6, <2>1 DEF InitInv, InitTypes, ToldAfter, Final
  <2>3. OnePlace'
    BY <1>1, <1>2, <1>3, <2>1 DEF InitInv, OnePlace, Live
  <2>4. LoopPassed'
    <3> SUFFICES ASSUME loop.on, NEW s \in Slots, clients[s] \in Apps
                 PROVE  /\ s >= loop.i =>
                             Len(told'[clients[s]])
                               <= IF clients[s] \in late' THEN 1 ELSE 0
                        /\ s < loop.i /\ client_cb'[clients[s]] = "init" =>
                             told'[clients[s]] # << >>
      BY <1>1 DEF LoopPassed
    <3>1. CASE clients[s] = c
      BY <1>1, <2>1, <3>1
    <3>2. CASE clients[s] # c
      <4>1. /\ told'[clients[s]] = told[clients[s]]
            /\ client_cb'[clients[s]] = client_cb[clients[s]]
            /\ clients[s] \in late' <=> clients[s] \in late
        BY <1>1, <1>3, <2>1, <3>2
      <4> QED
        BY <4>1 DEF InitInv, LoopPassed
    <3> QED BY <3>1, <3>2
  <2>5. ToldOnce'
    <3> SUFFICES ASSUME NEW k \in Apps
                 PROVE  /\ Len(told'[k]) <= IF k \in late' THEN 2 ELSE 1
                        /\ /\ Final(init_status) /\ ~loop.on /\ Live(k)
                           /\ client_cb'[k] = "init"
                           => told'[k] # << >>
      BY <1>1, <2>1 DEF ToldOnce, Live, Final
    <3>1. CASE k = c
      BY <2>1, <3>1
    <3>2. CASE k # c
      <4>1. /\ told'[k] = told[k] /\ client_cb'[k] = client_cb[k]
            /\ k \in late' <=> k \in late
        BY <1>1, <1>3, <2>1, <3>2
      <4> QED
        BY <4>1 DEF InitInv, ToldOnce
    <3> QED BY <3>1, <3>2
  <2> QED
    BY <1>4, <2>2, <2>3, <2>4, <2>5 DEF InitInv
<1> QED
  BY <1>5, <1>6

(* A command that keeps its callback in the union.                         *)
LEMMA AsyncCommandInv ==
  ASSUME InitInv, NEW c \in Apps, AsyncCommand(c)
  PROVE  InitInv'
<1>1. /\ Live(c)
      /\ client_cb' = [client_cb EXCEPT ![c] = "other"]
      /\ UNCHANGED <<chain, init_status, clients, used, step, info, loop, told,
                     late>>
  BY DEF AsyncCommand, commandVars, toldVars
<1>2. c \in Clients /\ c # Driver /\ Driver \in Clients /\ c \in used
  BY <1>1, InitClientsAssumption DEF Clients, InitInv, OnePlace
<1>3. /\ client_cb' \in [Clients -> {"none", "init", "other"}]
      /\ client_cb'[Driver] = client_cb[Driver]
      /\ \A k \in Apps : client_cb'[k] = "init" => client_cb[k] = "init"
      /\ \A k \in Apps : k # c => client_cb'[k] = client_cb[k]
  BY <1>1, <1>2 DEF InitInv, InitTypes, Clients
<1>4. InitTypes' /\ ChainLearns' /\ ToldAfter'
  BY <1>1, <1>3
     DEF InitInv, InitTypes, ChainLearns, Before, ReadyMeansKnown, ToldAfter,
         Final
<1>5. OnePlace'
  BY <1>1, <1>2, <1>3 DEF InitInv, OnePlace, Live
<1>6. LoopPassed'
  BY <1>1, <1>3 DEF InitInv, LoopPassed
<1>7. ToldOnce'
  BY <1>1, <1>3 DEF InitInv, ToldOnce, Final, Live
<1> QED
  BY <1>4, <1>5, <1>6, <1>7 DEF InitInv

(* A turn of the loop in _bte_hci_dev_set_status.                          *)
LEMMA LoopTellsInv ==
  ASSUME InitInv, LoopTells
  PROVE  InitInv'
<1> DEFINE i == Lowest(ToTell(loop.i))
           c == clients[i]
<1>1. /\ loop.on /\ ToTell(loop.i) # {}
      /\ loop' = [loop EXCEPT !.i = After(i)]
      /\ IF client_cb[c] = "init" THEN Tell(c) ELSE UNCHANGED told
      /\ UNCHANGED <<chain, init_status, clients, used, client_cb, step, info,
                     late>>
  BY DEF LoopTells, commandVars
<1>2. ToTell(loop.i) \subseteq Slots
  BY DEF ToTell
<1>3. i \in ToTell(loop.i) /\ \A j \in ToTell(loop.i) : i <= j
  BY <1>1, <1>2, LowestPlace
<1> HIDE DEF i
<1>4. /\ i \in Slots /\ i >= loop.i /\ c # NoClient /\ client_cb[c] # "none"
  BY <1>3 DEF ToTell
<1>5. /\ clients \in [Slots -> Clients \cup {NoClient}]
      /\ loop \in [on : BOOLEAN, i : Nat]
      /\ Slots \subseteq Nat
      /\ Driver \notin Apps /\ NoClient \notin Apps
  BY InitClientsAssumption DEF InitInv, InitTypes, Slots
<1>6. c \in Apps
  <2>1. c \in Clients
    BY <1>4, <1>5
  <2>2. c # Driver
    BY <1>4 DEF InitInv, OnePlace
  <2> QED
    BY <2>1, <2>2 DEF Clients
<1>7. /\ loop' \in [on : BOOLEAN, i : Nat] /\ loop'.on /\ loop'.i = i + 1
  BY <1>1, <1>4, <1>5 DEF After
<1>8. Final(init_status)
  BY <1>1 DEF InitInv, ToldAfter
<1>9. Len(told[c]) \in Nat /\ Len(told[c]) <= IF c \in late THEN 1 ELSE 0
  BY <1>1, <1>4, <1>5, <1>6 DEF InitInv, InitTypes, LoopPassed
<1>10. \A s \in Slots : s # i => clients[s] # c
  BY <1>4 DEF InitInv, OnePlace
<1>11. /\ told' \in [Apps -> Seq(BOOLEAN)]
       /\ \A k \in Apps : k # c => told'[k] = told[k]
       /\ Len(told'[c]) <= IF c \in late THEN 2 ELSE 1
       /\ client_cb[c] = "init" => told'[c] # << >>
       /\ told[c] # << >> => told'[c] # << >>
       /\ \A k \in Apps : \A n \in DOMAIN told'[k] :
            told'[k][n] = (init_status' = "INITIALIZED")
  <2>1. CASE client_cb[c] = "init"
    <3>1. Tell(c) /\ UNCHANGED init_status
      BY <1>1, <2>1
    <3> HIDE DEF c
    <3>2. /\ told' \in [Apps -> Seq(BOOLEAN)]
          /\ \A k \in Apps : k # c => told'[k] = told[k]
          /\ Len(told'[c]) = Len(told[c]) + 1 /\ told'[c] # << >>
          /\ \A k \in Apps : \A n \in DOMAIN told'[k] :
               told'[k][n] = (init_status' = "INITIALIZED")
      BY <1>6, <3>1, TellOne
    <3>3. Len(told'[c]) <= IF c \in late THEN 2 ELSE 1
      BY <1>9, <3>2
    <3> QED
      BY <3>2, <3>3
  <2>2. CASE client_cb[c] # "init"
    <3>1. told' = told /\ init_status' = init_status
      BY <1>1, <2>2
    <3>2. Len(told[c]) <= IF c \in late THEN 2 ELSE 1
      BY <1>9
    <3> QED
      BY <2>2, <3>1, <3>2 DEF InitInv, InitTypes, ToldOnce
  <2> QED BY <2>1, <2>2
<1>12. InitTypes' /\ ChainLearns' /\ ToldAfter'
  BY <1>1, <1>7, <1>8, <1>11
     DEF InitInv, InitTypes, ChainLearns, Before, ReadyMeansKnown, ToldAfter,
         Final
<1>13. OnePlace'
  <2>1. c \in used
    BY <1>4, <1>6 DEF InitInv, OnePlace
  <2> QED
    BY <1>1, <1>11, <2>1 DEF InitInv, OnePlace, Live
<1>14. LoopPassed'
  <2> SUFFICES ASSUME NEW s \in Slots, clients[s] \in Apps
               PROVE  /\ s >= i + 1 =>
                           Len(told'[clients[s]])
                             <= IF clients[s] \in late THEN 1 ELSE 0
                      /\ s < i + 1 /\ client_cb[clients[s]] = "init" =>
                           told'[clients[s]] # << >>
    BY <1>1, <1>7 DEF LoopPassed
  <2>1. CASE s = i
    BY <1>4, <1>5, <1>11, <2>1
  <2>2. CASE s # i
    <3>1. told'[clients[s]] = told[clients[s]]
      BY <1>10, <1>11, <2>2
    <3>2. CASE s > i \/ s < loop.i
      BY <1>1, <1>4, <1>5, <3>1, <3>2 DEF InitInv, LoopPassed
    <3>3. CASE s < i /\ s >= loop.i
      <4>1. s \notin ToTell(loop.i)
        BY <1>3, <1>4, <1>5, <3>3
      <4>2. client_cb[clients[s]] = "none"
        BY <1>5, <3>3, <4>1 DEF ToTell
      <4> QED
        BY <1>4, <1>5, <3>3, <4>2
    <3> QED BY <1>4, <1>5, <2>2, <3>2, <3>3
  <2> QED BY <2>1, <2>2
<1>15. ToldOnce'
  <2>1. \A k \in Apps : Len(told'[k]) <= IF k \in late THEN 2 ELSE 1
    BY <1>6, <1>11 DEF InitInv, ToldOnce
  <2> QED
    BY <1>1, <1>7, <1>11, <2>1 DEF ToldOnce
<1> QED
  BY <1>12, <1>13, <1>14, <1>15 DEF InitInv

(* The end of the loop.                                                    *)
LEMMA LoopEndsInv ==
  ASSUME InitInv, LoopEnds
  PROVE  InitInv'
<1>1. /\ loop.on /\ ToTell(loop.i) = {} /\ loop' = NoLoop
      /\ RemoveClient(Driver) \/ clients' = clients
      /\ UNCHANGED <<chain, init_status, used, client_cb, step, info, told,
                     late>>
  BY DEF LoopEnds
<1>2. /\ clients' \in [Slots -> Clients \cup {NoClient}]
      /\ \A s \in Slots : clients'[s] \in {clients[s], NoClient}
      /\ \A k \in Apps : Live(k)' => Live(k)
      /\ NoClient \notin Apps
  <2>1. InitTypes /\ NoClient \notin Apps
    BY InitClientsAssumption DEF InitInv
  <2>2. CASE RemoveClient(Driver)
    BY <2>1, <2>2, RemoveEffect
  <2>3. CASE clients' = clients
    BY <2>1, <2>3 DEF InitTypes, Live
  <2> QED BY <1>1, <2>2, <2>3
<1>3. Final(init_status)
  BY <1>1 DEF InitInv, ToldAfter
<1>4. NoLoop \in [on : BOOLEAN, i : Nat] /\ ~NoLoop.on
  BY DEF NoLoop
<1>5. InitTypes' /\ ChainLearns' /\ ToldAfter'
  BY <1>1, <1>2, <1>3, <1>4
     DEF InitInv, InitTypes, ChainLearns, Before, ReadyMeansKnown, ToldAfter,
         Final
<1>6. OnePlace'
  BY <1>1, <1>2 DEF InitInv, OnePlace
<1>7. LoopPassed'
  BY <1>1, <1>4 DEF LoopPassed
<1>8. ASSUME NEW k \in Apps, Live(k), client_cb[k] = "init"
      PROVE  told[k] # << >>
  <2>1. PICK s \in Slots : clients[s] = k
    BY <1>8 DEF Live
  <2>2. s < loop.i
    BY <1>1, <1>2, <1>8, <2>1, InitClientsAssumption
       DEF ToTell, InitInv, InitTypes, Slots
  <2> QED
    BY <1>1, <1>8, <2>1, <2>2 DEF InitInv, LoopPassed
<1>9. ToldOnce'
  BY <1>1, <1>2, <1>8 DEF InitInv, ToldOnce
<1> QED
  BY <1>5, <1>6, <1>7, <1>9 DEF InitInv

(* A command of an application.                                            *)
LEMMA AppCommandInv ==
  ASSUME InitInv, NEW c \in Apps, NEW op \in AppOps, AppCommand(c, op)
  PROVE  InitInv'
<1>1. UNCHANGED <<chain, init_status, clients, used, client_cb, step, info,
                  loop, told, late>>
  BY DEF AppCommand, toldVars
<1> QED
  BY <1>1
     DEF InitInv, InitTypes, ChainLearns, Before, ReadyMeansKnown, ToldAfter,
         Final, OnePlace, Live, LoopPassed, ToldOnce

(* The reply to a command of an application: what is known only grows.     *)
LEMMA AppReplyInv ==
  ASSUME InitInv, NEW op, NEW ok, AppReply(op, ok)
  PROVE  InitInv'
<1>1. UNCHANGED <<chain, init_status, clients, used, client_cb, step, loop,
                  told, late>>
  BY DEF AppReply
<1>2. info \subseteq info' /\ info' \subseteq Known /\ info \subseteq Known
  <2>1. Learnt(op) \subseteq Known
    BY DEF Learnt, Known
  <2> QED
    BY <2>1 DEF AppReply, InitInv, InitTypes
<1>3. InitTypes' /\ ToldAfter' /\ LoopPassed'
  BY <1>1, <1>2 DEF InitInv, InitTypes, ToldAfter, Final, LoopPassed
<1>4. ChainLearns'
  <2>1. Before(step)' = Before(step)
    BY <1>1 DEF Before
  <2>2. init_status = "INITIALIZED" => info = Known
    BY DEF InitInv, ChainLearns, ReadyMeansKnown, Known
  <2> QED
    BY <1>1, <1>2, <2>1, <2>2
       DEF InitInv, ChainLearns, ReadyMeansKnown, Known
<1>5. OnePlace' /\ ToldOnce'
  BY <1>1 DEF InitInv, OnePlace, Live, ToldOnce, Final
<1> QED
  BY <1>3, <1>4, <1>5 DEF InitInv

(* Once the replies to the whole chain have come, everything is known.     *)
LEMMA ChainTeaches ==
  ASSUME chain \in {Generic, Wii}
  PROVE  Known \subseteq {chain[j] : j \in 1 .. Len(chain)}
<1>1. CASE chain = Generic
  <2>1. /\ Len(chain) = 4 /\ chain[2] = "buffer_size"
        /\ chain[3] = "bd_addr" /\ chain[4] = "features"
    BY <1>1 DEF Generic
  <2>2. \A j \in {2, 3, 4} : chain[j] \in {chain[k] : k \in 1 .. Len(chain)}
    BY <2>1
  <2> QED
    BY <2>1, <2>2 DEF Known
<1>2. CASE chain = Wii
  <2>1. /\ Len(chain) = 9 /\ chain[2] = "buffer_size"
        /\ chain[4] = "bd_addr" /\ chain[5] = "features"
    BY <1>2 DEF Wii
  <2>2. \A j \in {2, 4, 5} : chain[j] \in {chain[k] : k \in 1 .. Len(chain)}
    BY <2>1
  <2> QED
    BY <2>1, <2>2 DEF Known
<1> QED
  BY <1>1, <1>2

(* The reply to a command of the driver.                                   *)
LEMMA DriverReplyInv ==
  ASSUME InitInv, NEW op \in Ops, NEW ok \in BOOLEAN, ToDriver(op),
         DriverReply(op, ok)
  PROVE  InitInv'
<1>1. /\ step # 0 /\ chain[step] = op
      /\ UNCHANGED <<chain, used, client_cb, told, late>>
      /\ info' = info \cup Learnt(op)
                   \cup IF op = "buffer_size" /\ ok THEN {"buffer_size"} ELSE {}
  BY DEF ToDriver, DriverReply
<1>2. /\ init_status = "INITIALIZING" /\ ~loop.on /\ late = {}
      /\ \A c \in Apps : told[c] = << >> /\ Len(told[c]) = 0
      /\ Before(step) \cap Known \subseteq info
      /\ step \in 1 .. Len(chain) /\ Len(chain) \in Nat
      /\ chain \in {Generic, Wii}
  BY <1>1, ChainLength
     DEF InitInv, InitTypes, ChainLearns, ToldAfter, Final
<1>3. info' \subseteq Known /\ info \subseteq info'
  BY <1>1 DEF Learnt, Known, InitInv, InitTypes
<1>4. ~Stops(op, ok) /\ op \in Known => op \in info'
  BY <1>1 DEF Stops, Unchecked, Learnt, Known
<1>5. ~Stops(op, ok) =>
        {chain[j] : j \in 1 .. step} \cap Known \subseteq info'
  <2> SUFFICES ASSUME ~Stops(op, ok), NEW j \in 1 .. step, chain[j] \in Known
               PROVE  chain[j] \in info'
    OBVIOUS
  <2>1. CASE j = step
    BY <1>1, <1>4, <2>1
  <2>2. CASE j # step
    <3>1. chain[j] \in Before(step)
      BY <1>2, <2>2 DEF Before
    <3> QED
      BY <1>2, <1>3, <3>1
  <2> QED BY <2>1, <2>2
<1>6. /\ clients' \in [Slots -> Clients \cup {NoClient}]
      /\ \A s \in Slots : clients'[s] \in {clients[s], NoClient}
      /\ \A k \in Apps : Live(k)' => Live(k)
      /\ NoClient \notin Apps
  <2>1. InitTypes /\ NoClient \notin Apps
    BY InitClientsAssumption DEF InitInv
  <2>2. RemoveClient(Driver) \/ clients' = clients
    BY DEF DriverReply
  <2>3. CASE RemoveClient(Driver)
    BY <2>1, <2>3, RemoveEffect
  <2>4. CASE clients' = clients
    BY <2>1, <2>4 DEF InitTypes, Live
  <2> QED BY <2>2, <2>3, <2>4
<1>7. OnePlace'
  BY <1>1, <1>6 DEF InitInv, OnePlace
<1>8. ASSUME Final(init_status'), loop' = [on |-> TRUE, i |-> 0], step' = 0,
             init_status' = "INITIALIZED" => info' = Known
      PROVE  InitInv'
  <2>1. InitTypes'
    BY <1>1, <1>2, <1>3, <1>6, <1>8
       DEF InitInv, InitTypes, Final, Statuses
  <2>2. ChainLearns' /\ ToldAfter'
    BY <1>8 DEF ChainLearns, ReadyMeansKnown, Known, ToldAfter, Final
  <2>3. LoopPassed'
    BY <1>1, <1>2, <1>8, InitClientsAssumption DEF LoopPassed, Slots
  <2>4. ToldOnce'
    BY <1>1, <1>2, <1>8 DEF ToldOnce
  <2> QED
    BY <1>7, <2>1, <2>2, <2>3, <2>4 DEF InitInv
<1>9. CASE Stops(op, ok)
  BY <1>8, <1>9 DEF DriverReply, SetStatus, Final
<1>10. CASE ~Stops(op, ok) /\ IsLast(step)
  <2>1. /\ init_status' = "INITIALIZED" /\ loop' = [on |-> TRUE, i |-> 0]
        /\ step' = 0
    BY <1>10 DEF DriverReply, SetStatus
  <2>2. info' = Known
    <3>1. Known \subseteq {chain[j] : j \in 1 .. Len(chain)}
      BY <1>2, ChainTeaches
    <3>2. step = Len(chain)
      BY <1>10 DEF IsLast
    <3> QED
      BY <1>3, <1>5, <1>10, <3>1, <3>2
  <2> QED
    BY <1>8, <2>1, <2>2 DEF Final
<1>11. CASE ~Stops(op, ok) /\ ~IsLast(step)
  <2>1. step' = step + 1 /\ UNCHANGED <<clients, init_status, loop>>
    BY <1>11 DEF DriverReply
  <2>2. step' \in 0 .. Len(chain)
    BY <1>2, <1>11, <2>1 DEF IsLast
  <2>3. InitTypes'
    BY <1>1, <1>3, <2>1, <2>2 DEF InitInv, InitTypes
  <2>4. ChainLearns'
    <3>1. Before(step)' = {chain[j] : j \in 1 .. step}
      BY <1>1, <1>2, <2>1 DEF Before
    <3> QED
      BY <1>2, <1>5, <1>11, <2>1, <3>1 DEF ChainLearns, ReadyMeansKnown
  <2>5. ToldAfter' /\ LoopPassed' /\ ToldOnce'
    BY <1>1, <1>2, <2>1 DEF ToldAfter, LoopPassed, ToldOnce, Final
  <2> QED
    BY <1>7, <2>3, <2>4, <2>5 DEF InitInv
<1> QED
  BY <1>9, <1>10, <1>11

(* The invariant holds in every reachable state.                           *)
LEMMA InitInvariance == Spec => []InitInv
<1>1. Init => InitInv
  <2> SUFFICES ASSUME Init PROVE InitInv
    OBVIOUS
  <2>1. Len(chain) \in Nat /\ 0 \in 0 .. Len(chain)
    BY ChainLength DEF Init
  <2>2. InitTypes
    BY <2>1 DEF Init, InitTypes, Statuses, NoLoop
  <2>3. ChainLearns /\ ToldAfter /\ LoopPassed
    BY DEF Init, ChainLearns, ReadyMeansKnown, ToldAfter, LoopPassed, NoLoop
  <2>4. OnePlace
    BY InitClientsAssumption DEF Init, OnePlace, Live, Clients
  <2>5. ToldOnce
    BY DEF Init, ToldOnce, Final
  <2> QED
    BY <2>2, <2>3, <2>4, <2>5 DEF InitInv
<1>2. InitInv /\ [Next]_vars => InitInv'
  <2> SUFFICES ASSUME InitInv, [Next]_vars PROVE InitInv'
    OBVIOUS
  <2>1. CASE \E c \in Apps : ClientNew(c)
    BY <2>1, FirstClientInv, LaterClientInv DEF ClientNew
  <2>2. CASE Replies
    BY <2>2, DriverReplyInv, AppReplyInv DEF Replies, ControllerReplies
  <2>3. CASE UNCHANGED vars
    BY <2>3
       DEF vars, InitInv, InitTypes, ChainLearns, Before, ReadyMeansKnown,
           ToldAfter, Final, OnePlace, Live, LoopPassed, ToldOnce
  <2> QED
    BY <2>1, <2>2, <2>3, ClientLeavesInv, OnInitializedInv, AsyncCommandInv,
       AppCommandInv, BackendDoesNotStartInv, LoopTellsInv, LoopEndsInv
       DEF Next
<1> QED
  BY <1>1, <1>2, PTL DEF Spec

-----------------------------------------------------------------------------
(* What the initialization guarantees.                                     *)

(* With either driver, and whatever other commands the applications have   *)
(* under way, a device is INITIALIZED only when its buffers, its address   *)
(* and its features are known.                                             *)
THEOREM ReadyIsKnown == Spec => []ReadyMeansKnown
<1>1. InitInv => ReadyMeansKnown
  BY DEF InitInv, ChainLearns
<1> QED
  BY <1>1, InitInvariance, PTL

(* _bte_hci_dev_set_status and bte_hci_on_initialized tell a client the    *)
(* result of the device, once unless it asked in a callback of the loop,   *)
(* and have told everyone in the table who asked when the loop is over:    *)
(* for any number of clients that are made and dropped in the callbacks.   *)
THEOREM EachToldOnce == Spec => []ToldOnce
<1>1. InitInv => ToldOnce
  BY DEF InitInv
<1> QED
  BY <1>1, InitInvariance, PTL
=============================================================================

------------------------------ MODULE HciInit -------------------------------
(***************************************************************************)
(* How the device is initialized (hci_dev.c, client.c, drivers/): the      *)
(* first client starts the backend and the driver, the driver goes through *)
(* a chain of commands with a client of its own, and at the end every      *)
(* client that asked for it is told whether the device can be used.        *)
(*                                                                         *)
(* The clients are told in a loop over their table; whatever they do in    *)
(* their callbacks, making and dropping clients included, happens within   *)
(* that loop.  The application's clients are used once each.  The          *)
(* controller (external) answers the commands it gets, in any order and    *)
(* with any status.                                                        *)
(***************************************************************************)
EXTENDS Integers, Sequences, FiniteSets

CONSTANTS
  Apps,         \* the application's clients
  Driver,       \* the driver's client
  NoClient,     \* the NULL pointer
  MaxClients,   \* BTE_HCI_MAX_CLIENTS
  AppOps,       \* commands that applications send, too
  BackendFails, \* whether the backend may fail to start
  AppMay        \* what applications do: "leave", "command", "async"

ASSUME InitClientsAssumption ==
  /\ NoClient \notin Apps \cup {Driver} /\ Driver \notin Apps
  /\ MaxClients \in Nat \ {0}
ASSUME InitEnvironmentAssumption ==
  /\ BackendFails \in BOOLEAN
  /\ AppMay \subseteq {"leave", "command", "async"}

(* The commands of the two drivers in the order in which each callback     *)
(* sends the next.  The answers to the vendor commands are not checked.    *)
Generic == <<"reset", "buffer_size", "bd_addr", "features">>
Wii == <<"reset", "buffer_size", "version", "bd_addr", "features",
         "patch_start", "patch_cont", "patch_end", "reset">>
Unchecked == {"patch_start", "patch_cont", "patch_end"}

MaxOwed == 1  \* bound on the commands of one kind that applications leave behind
Slots == 0 .. MaxClients - 1
Clients == Apps \cup {Driver}
Ops == {Wii[i] : i \in DOMAIN Wii} \cup AppOps
NoLoop == [on |-> FALSE, i |-> 0]

VARIABLES
  chain,       \* the driver the library was built with
  init_status,
  backend,     \* whether the backend runs
  clients,     \* dev->clients
  used,        \* the application's clients that were made so far
  client_cb,   \* per client, what last_async_cmd_data holds as callback
  step,        \* the command of the chain the driver waits for, or 0
  pending,     \* the commands the applications wait for, with their client
  owed,        \* per command, how many answers the controller owes
  info,        \* what is known of the device
  loop,        \* _bte_hci_dev_set_status telling the clients
  told,        \* per client, the results its callback was given
  late,        \* clients that asked while the others were being told
  confused     \* clients told through a callback of another command
commandVars == <<step, pending, owed, info>>
toldVars == <<loop, told, late, confused>>
vars == <<chain, init_status, backend, clients, used, client_cb, step, pending,
          owed, info, loop, told, late, confused>>

Final(status) == status \in {"INITIALIZED", "FAILED"}
Live(c) == \E i \in Slots : clients[i] = c
Free == {i \in Slots : clients[i] = NoClient}
Lowest(S) == CHOOSE i \in S : \A j \in S : i <= j

Init ==
  /\ chain \in {Generic, Wii}
  /\ init_status = "UNINITIALIZED"
  /\ backend = FALSE
  /\ clients = [i \in Slots |-> NoClient]
  /\ used = {}
  /\ client_cb = [c \in Clients |-> "none"]
  /\ step = 0
  /\ pending = {}
  /\ owed = [op \in Ops |-> 0]
  /\ info = {}
  /\ loop = NoLoop
  /\ told = [c \in Apps |-> << >>]
  /\ late = {}
  /\ confused = {}

-----------------------------------------------------------------------------
(* Clients.                                                                *)

(* _bte_hci_dev_add_client: the first free place, if there is one.         *)
AddClient(table, c) ==
  LET free == {i \in Slots : table[i] = NoClient}
  IN IF free = {} THEN table ELSE [table EXCEPT ![Lowest(free)] = c]

(* bte_client_new by an application: the first one starts the backend and  *)
(* the driver, whose client comes before it.                               *)
FirstClient(c) ==
  /\ init_status = "UNINITIALIZED"
  /\ init_status' = "INITIALIZING"
  /\ backend' = TRUE
  /\ clients' = AddClient(AddClient(clients, Driver), c)
  /\ step' = 1
  /\ owed' = [owed EXCEPT ![chain[1]] = 1]
  /\ used' = used \cup {c}
  /\ UNCHANGED <<chain, client_cb, pending, info, toldVars>>

(* The backend does not start: no client is made, and the status stays as  *)
(* it is.                                                                  *)
BackendDoesNotStart ==
  /\ BackendFails
  /\ init_status = "UNINITIALIZED"
  /\ init_status' = "INITIALIZING"
  /\ UNCHANGED <<chain, backend, clients, used, client_cb, commandVars, toldVars>>

(* The others find the initialization under way or over.  When it failed,  *)
(* or there is no place left, bte_client_new returns no client.            *)
LaterClient(c) ==
  /\ init_status \in {"INITIALIZING", "INITIALIZED"}
  /\ Free # {}
  /\ clients' = AddClient(clients, c)
  /\ used' = used \cup {c}
  /\ UNCHANGED <<chain, init_status, backend, client_cb, commandVars, toldVars>>

ClientNew(c) == c \notin used /\ (FirstClient(c) \/ LaterClient(c))

(* _bte_hci_dev_remove_client: the entries of the client go from the table *)
(* of commands, and the last client stops the backend.                     *)
RemoveClient(c) ==
  /\ clients' = [i \in Slots |-> IF clients[i] = c THEN NoClient ELSE clients[i]]
  /\ backend' = (backend /\ \E i \in Slots : clients'[i] # NoClient)
  /\ pending' = {p \in pending : p.client # c}

(* bte_client_unref by an application.                                     *)
ClientLeaves(c) ==
  /\ "leave" \in AppMay
  /\ Live(c)
  /\ RemoveClient(c)
  /\ UNCHANGED <<chain, init_status, used, client_cb, step, owed, info, toldVars>>

-----------------------------------------------------------------------------
(* bte_hci_on_initialized: the callback is kept, and called at once when   *)
(* the initialization is over.                                             *)
Tell(c) ==
  told' = [told EXCEPT ![c] = Append(@, init_status = "INITIALIZED")]
OnInitialized(c) ==
  /\ Live(c) /\ told[c] = << >>
  /\ client_cb[c] # "init"
  /\ client_cb' = [client_cb EXCEPT ![c] = "init"]
  /\ IF Final(init_status) THEN Tell(c) ELSE UNCHANGED told
  /\ late' = IF loop.on THEN late \cup {c} ELSE late
  /\ UNCHANGED <<chain, init_status, backend, clients, used, commandVars, loop,
                 confused>>

(* Another command of the client that keeps its callback in the same       *)
(* union, such as bte_hci_create_connection.                               *)
AsyncCommand(c) ==
  /\ "async" \in AppMay
  /\ Live(c)
  /\ client_cb' = [client_cb EXCEPT ![c] = "other"]
  /\ UNCHANGED <<chain, init_status, backend, clients, used, commandVars, toldVars>>

(* _bte_hci_dev_set_status, to a final status: the loop starts.            *)
SetStatusOnly(status) ==  \* mutant: nobody is told
  init_status' = status /\ loop' = NoLoop
SetStatus(status) ==
  /\ init_status' = status
  /\ loop' = [on |-> TRUE, i |-> 0]

(* The clients that the loop will still call.                              *)
ToTell(from) ==
  {i \in Slots : i >= from /\ clients[i] # NoClient
                 /\ client_cb[clients[i]] # "none"}

AfterNext(i) == i + 2  \* mutant: a place is left out
After(i) == i + 1

(* One turn of the loop, with the callback of a client: what it calls is   *)
(* the client's callback, or that of another command.                      *)
LoopTells ==
  /\ loop.on
  /\ ToTell(loop.i) # {}
  /\ LET i == Lowest(ToTell(loop.i))
         c == clients[i]
     IN /\ loop' = [loop EXCEPT !.i = After(i)]
        /\ IF client_cb[c] = "init" THEN Tell(c) /\ UNCHANGED confused
           ELSE confused' = confused \cup {c} /\ UNCHANGED told
  /\ UNCHANGED <<chain, init_status, backend, clients, used, client_cb,
                 commandVars, late>>

(* The loop ends.  After a failure the driver drops its client only now.   *)
LoopEnds ==
  /\ loop.on
  /\ ToTell(loop.i) = {}
  /\ loop' = NoLoop
  /\ IF Live(Driver) THEN RemoveClient(Driver)
     ELSE UNCHANGED <<clients, backend, pending>>
  /\ UNCHANGED <<chain, init_status, used, client_cb, step, owed, info, told, late,
                 confused>>

-----------------------------------------------------------------------------
(* Commands.                                                               *)

(* A command of an application, like one of the driver's; it is refused    *)
(* when the same command is pending already.  (The search of the table     *)
(* stops at the first free entry, so after a hole the code may accept a    *)
(* second one: module HciDev has that table and what follows from it.)     *)
Waiting(op) == (step # 0 /\ chain[step] = op) \/ \E p \in pending : p.op = op
AppCommand(c, op) ==
  /\ "command" \in AppMay
  /\ Live(c) /\ backend
  /\ ~Waiting(op) /\ owed[op] < MaxOwed
  /\ pending' = pending \cup {[client |-> c, op |-> op]}
  /\ owed' = [owed EXCEPT ![op] = @ + 1]
  /\ UNCHANGED <<chain, init_status, backend, clients, used, client_cb, step, info,
                 toldVars>>

(* What a reply leaves behind, whoever gets it: handle_info_param and      *)
(* read_bd_addr_cb.  The latter does not look at the status.               *)
Learnt(op) ==
  CASE op = "features" -> {"features"}
    [] op = "bd_addr" -> {"bd_addr"}
    [] OTHER -> {}

(* The driver's callbacks for a reply.  The last one drops its client      *)
(* before the status is set; each of the others sends the next command.    *)
(* That is never refused: the driver's entry was the first of the table    *)
(* and is free again, and the search for a free one ends there.            *)
Stops(op, ok) == ~ok /\ op \notin Unchecked
IsEarly(s) == s = Len(chain) - 1  \* mutant: the last command is left out
IsLast(s) == s = Len(chain)

DriverReply(op, ok) ==
  /\ info' = info \cup Learnt(op)
               \cup IF op = "buffer_size" /\ ok THEN {"buffer_size"} ELSE {}
  /\ IF Stops(op, ok)
     THEN /\ SetStatus("FAILED")
          /\ step' = 0
          /\ owed' = [owed EXCEPT ![op] = @ - 1]
          /\ UNCHANGED <<clients, backend, pending>>
     ELSE IF IsLast(step)
     THEN /\ RemoveClient(Driver)
          /\ SetStatus("INITIALIZED")
          /\ step' = 0
          /\ owed' = [owed EXCEPT ![op] = @ - 1]
     ELSE /\ step' = step + 1
          /\ owed' = [o \in Ops |-> owed[o] + (IF o = chain[step + 1] THEN 1 ELSE 0)
                                            - (IF o = op THEN 1 ELSE 0)]
          /\ UNCHANGED <<clients, backend, pending, init_status, loop>>
  /\ UNCHANGED <<chain, used, client_cb, told, late, confused>>

(* deliver_reply_to_client: the driver's entry comes before that of an     *)
(* application for the same command.                                       *)
ToDriver(op) == step # 0 /\ chain[step] = op
AppReply(op, ok) ==
  /\ ~ToDriver(op)
  /\ info' = IF \E p \in pending : p.op = op THEN info \cup Learnt(op)
             ELSE info \cup (Learnt(op) \cap {"features"})
  /\ pending' = {p \in pending : p.op # op}
  /\ owed' = [owed EXCEPT ![op] = @ - 1]
  /\ UNCHANGED <<chain, init_status, backend, clients, used, client_cb, step, loop,
                 told, late, confused>>

ControllerReplies(op, ok) ==
  /\ ~loop.on
  /\ backend
  /\ owed[op] > 0
  /\ (ToDriver(op) /\ DriverReply(op, ok)) \/ AppReply(op, ok)

-----------------------------------------------------------------------------
Replies == \E op \in Ops, ok \in BOOLEAN : ControllerReplies(op, ok)
Next ==
  \/ \E c \in Apps : \/ ClientNew(c)
                     \/ ClientLeaves(c)
                     \/ OnInitialized(c)
                     \/ AsyncCommand(c)
                     \/ \E op \in AppOps : AppCommand(c, op)
  \/ BackendDoesNotStart
  \/ LoopTells
  \/ LoopEnds
  \/ Replies

(* The controller answers the commands it was sent, and a loop goes on     *)
(* when a callback returns.                                                *)
Fairness ==
  /\ \A op \in Ops : WF_vars(\E ok \in BOOLEAN : ControllerReplies(op, ok))
  /\ WF_vars(LoopTells) /\ WF_vars(LoopEnds)
Spec == Init /\ [][Next]_vars
FairSpec == Spec /\ Fairness

-----------------------------------------------------------------------------
(* Properties.                                                             *)

(* When clients are told that the device is initialized, its buffers, its  *)
(* address and its features are known.                                     *)
ReadyMeansKnown ==
  init_status = "INITIALIZED" => info = {"buffer_size", "bd_addr", "features"}

(* A client is told the result once, and the result is the one of the      *)
(* device; only a client that asks in a callback of the loop that tells    *)
(* the others can be told twice.  When the loop is over, every client in   *)
(* the table that asked was told.                                          *)
ToldOnce ==
  \A c \in Apps :
    /\ Len(told[c]) <= IF c \in late THEN 2 ELSE 1
    /\ \A i \in DOMAIN told[c] : told[c][i] = (init_status = "INITIALIZED")
    /\ Final(init_status) /\ ~loop.on /\ Live(c) /\ client_cb[c] = "init" =>
         told[c] # << >>

(* A client that asks is told in the end, unless it leaves, the backend    *)
(* did not start, or it sent another command that replaced its callback.   *)
EventuallyTold ==
  \A c \in Apps :
    client_cb[c] = "init" ~>
      told[c] # << >> \/ ~Live(c) \/ ~backend \/ client_cb[c] = "other"
=============================================================================

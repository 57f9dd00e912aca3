------------------------------- MODULE HciDev -------------------------------
(***************************************************************************)
(* The command dispatcher of bt-embedded: the fixed table of pending       *)
(* commands that every client of the single HCI device shares              *)
(* (hci_dev.c), and the commands and listeners of hci.c that put entries   *)
(* into it and take them out.                                              *)
(*                                                                         *)
(* The library has one thread: it runs when a client calls the API and     *)
(* when the event loop hands it an event of the controller.  An action is  *)
(* one such entry.  A callback that is the last thing its entry does needs *)
(* no state of its own, since whatever the client does in it is the next   *)
(* action; a callback the library returns from with work left to do (it    *)
(* still frees the entry it was called for) is the variable frame.         *)
(*                                                                         *)
(* The controller (external) answers the commands it was sent in any       *)
(* order.  Requests are numbered, so that an answer can be told from the   *)
(* answer of another request of the same command.                          *)
(***************************************************************************)
EXTENDS Integers, FiniteSets

CONSTANTS
  Clients,      \* the BteClient objects (their addresses: one may be reused)
  NoClient,     \* the NULL hci of the library's own commands
  Peers,        \* remote devices: their addresses and connection handles
  SyncOps,      \* opcodes answered by one Command Complete event
  AsyncOps,     \* opcodes answered by Command Status and a later event
  ListenEvents, \* events a client can listen to for one connection
  MaxPending,   \* BTE_HCI_MAX_PENDING_COMMANDS
  MaxClients,   \* BTE_HCI_MAX_CLIENTS
  MaxRequests,  \* bound on the commands issued in a behaviour
  StatusCbs,    \* whether status_cb is given (TRUE) or NULL (FALSE)
  Overlap,      \* which requests may be in flight together, see MayIssue
  CallbackMay,  \* what a callback may undo while its entry is still in use
  SendFails     \* whether the backend may fail to send a command

(* The asynchronous commands, by the function that handles their status.   *)
ConnOps == {"create_connection", "accept_connection", "reject_connection"}
ReadOps == {"auth_requested", "read_remote_features",
            "read_remote_version_info", "read_clock_offset"}
PlainOps == {"disconnect", "set_sniff_mode", "qos_setup"}
AsyncNames == ConnOps \cup ReadOps \cup PlainOps
                \cup {"inquiry", "read_remote_name"}
(* Commands that the library itself sends, for no client, when a request   *)
(* of the controller is not handled by any client.                         *)
NegativeReplies == {"reject_connection", "link_key_req_neg_reply",
                    "pin_code_req_neg_reply"}

ASSUME OpsAssumption ==
  /\ AsyncOps \subseteq AsyncNames
  /\ SyncOps \cap AsyncNames = {}
  /\ ListenEvents \subseteq {"MODE_CHANGE", "QOS_SETUP_COMPLETE"}
ASSUME SizeAssumption ==
  /\ MaxPending \in Nat \ {0} /\ MaxPending < 65536
  /\ MaxClients \in Nat \ {0}
  /\ MaxRequests \in Nat
ASSUME ClientAssumption == NoClient \notin Clients
ASSUME EnvironmentAssumption ==
  /\ StatusCbs \subseteq BOOLEAN
  /\ Overlap \subseteq {"opcode", "tmpdata", "event"}
  /\ CallbackMay \subseteq {"unref", "unlisten"}
  /\ SendFails \in BOOLEAN

Requests == 1 .. MaxRequests
NoReq == 0
Slots == 0 .. MaxPending - 1

-----------------------------------------------------------------------------
(* Matchers.  A BteDataMatcher holds the event code and the bytes that     *)
(* tell one answer from another: the opcode, the peer's address or the     *)
(* connection handle.  Every event code is matched with one layout, so     *)
(* comparing a matcher with a packet is equality of the two.               *)
NoKey == "no key"
Garbage == "garbage"
Matcher(ev, key) == [ev |-> ev, key |-> key]
NoMatcher == Matcher("none", NoKey)

(* The event that ends each asynchronous command.                          *)
EventOf(op) == IF op = "inquiry" THEN "INQUIRY_COMPLETE"
               ELSE IF op \in ConnOps THEN "CONNECTION_COMPLETE" ELSE op
FinalEvent(op, p) == Matcher(EventOf(op), IF op = "inquiry" THEN NoKey ELSE p)
ReplyTo(op) == Matcher(IF op \in SyncOps THEN "COMMAND_COMPLETE"
                       ELSE "COMMAND_STATUS", op)

Ops == SyncOps \cup AsyncOps
Keys == Ops \cup Peers \cup {NoKey, Garbage}
Events == {"COMMAND_COMPLETE", "COMMAND_STATUS", Garbage}
            \cup {EventOf(op) : op \in AsyncOps} \cup ListenEvents
Matchers == [ev : Events, key : Keys]

(* An entry of pending_commands: whose it is (hci), the request that the   *)
(* userdata names, the request whose callback is stored, and whether a     *)
(* status callback was given.                                              *)
Entry(m, c, user, cb, scb) ==
  [matcher |-> m, hci |-> c, user |-> user, cb |-> cb, scb |-> scb]
EmptyEntry == Entry(NoMatcher, NoClient, NoReq, NoReq, FALSE)
Entries == [matcher : Matchers \cup {NoMatcher}, hci : Clients \cup {NoClient},
            user : Requests \cup {NoReq}, cb : Requests \cup {NoReq},
            scb : BOOLEAN]

(* The union last_async_cmd_data of a client.  client_cb is the first      *)
(* member of every layout; the address and the {handle, event code} pair   *)
(* overlap, so that writing one leaves garbage in the other.               *)
Tmpdata == [cb : Requests \cup {NoReq}, addr : Peers \cup {Garbage},
            conn : Matchers]
GarbageConn == Matcher(Garbage, Garbage)
ZeroTmpdata == [cb |-> NoReq, addr |-> Garbage, conn |-> GarbageConn]

NoFrame == [slot |-> -1, hci |-> NoClient, kind |-> "none"]
Frames == [slot : Slots, hci : Clients, kind : {"status", "listener"}]
NoCall == [hci |-> NoClient, to |-> NoReq, cb |-> NoReq, of |-> NoReq]
Calls == [hci : Clients, to : Requests \cup {NoReq},
          cb : Requests \cup {NoReq}, of : Requests \cup {NoReq}]
Phases == {"unused", "sent", "waiting", "done", "silent", "gone"}
Commands == [req : Requests, op : Ops, peer : Peers,
             hci : Clients \cup {NoClient}]

VARIABLES
  pending_commands,     \* the table
  num_pending_commands, \* its uint16_t count of used entries
  tmpdata,              \* each client's last_async_cmd_data
  clients,              \* the live clients of dev->clients
  frame,                \* the callback in progress that holds an entry
  reqs,                 \* per request: its client and how far it got
  next,                 \* the number of the next request
  ctl,                  \* commands the controller has still to answer
  running,              \* procedures whose final event it still owes
  call                  \* the client callback made by the last step
table == <<pending_commands, num_pending_commands>>
world == <<ctl, running>>
vars == <<pending_commands, num_pending_commands, tmpdata, clients, frame,
          reqs, next, ctl, running, call>>

Init ==
  /\ pending_commands = [i \in Slots |-> EmptyEntry]
  /\ num_pending_commands = 0
  /\ tmpdata = [c \in Clients |-> ZeroTmpdata]
  /\ clients \in {S \in SUBSET Clients : Cardinality(S) = 1}
  /\ frame = NoFrame
  /\ reqs = [r \in Requests |-> [phase |-> "unused", hci |-> NoClient]]
  /\ next = 1
  /\ ctl = {} /\ running = {}
  /\ call = NoCall

-----------------------------------------------------------------------------
(* The table.                                                              *)
IsEmpty(e) == e.matcher = NoMatcher

AllocOneLess(m) ==  \* mutant: one entry is never used
  IF num_pending_commands < MaxPending - 1
  THEN {i \in Slots :
          /\ IsEmpty(pending_commands[i])
          /\ \A j \in 0 .. i - 1 : /\ ~IsEmpty(pending_commands[j])
                                   /\ pending_commands[j].matcher # m}
  ELSE {}
(* _bte_hci_dev_alloc_command: the entry that is handed out, if any.  The  *)
(* scan stops at the first free entry, so only the entries before it are   *)
(* searched for the same matcher.                                          *)
Alloc(m) ==
  IF num_pending_commands = 0 THEN {0}
  ELSE IF num_pending_commands < MaxPending
  THEN {i \in Slots :
          /\ IsEmpty(pending_commands[i])
          /\ \A j \in 0 .. i - 1 : /\ ~IsEmpty(pending_commands[j])
                                   /\ pending_commands[j].matcher # m}
  ELSE {}

FindByCode(m) ==  \* mutant: only the event code is compared
  {i \in Slots :
     /\ pending_commands[i].matcher.ev = m.ev
     /\ \A j \in 0 .. i - 1 : pending_commands[j].matcher.ev # m.ev}
(* _bte_hci_dev_find_pending_command: the first entry that matches.        *)
Find(m) ==
  {i \in Slots : /\ pending_commands[i].matcher = m
                 /\ \A j \in 0 .. i - 1 : pending_commands[j].matcher # m}

(* num_pending_commands is a uint16_t that is changed without a check.     *)
Count(n) == n % 65536

AddEntry(i, e) ==
  /\ pending_commands' = [pending_commands EXCEPT ![i] = e]
  /\ num_pending_commands' = Count(num_pending_commands + 1)
(* _bte_hci_dev_free_command                                               *)
FreeEntry(i) ==
  /\ pending_commands' = [pending_commands EXCEPT ![i] = EmptyEntry]
  /\ num_pending_commands' = Count(num_pending_commands - 1)
(* A status callback fills an entry for the final event, then frees its    *)
(* own.                                                                    *)
ReplaceEntry(i, j, e) ==
  /\ pending_commands' = [[pending_commands EXCEPT ![j] = e]
                             EXCEPT ![i] = EmptyEntry]
  /\ num_pending_commands' = Count(num_pending_commands)
AnyOwner(c) == {i \in Slots : ~IsEmpty(pending_commands[i])}  \* mutant
FirstOwnedBy(c) ==  \* mutant: the loop stops at the first entry of c
  {i \in Slots : /\ ~IsEmpty(pending_commands[i])
                 /\ \A j \in 0 .. i - 1 : pending_commands[j].hci # c
                 /\ pending_commands[i].hci = c}
(* hci_dev_dispose                                                         *)
OwnedBy(c) == {i \in Slots : /\ ~IsEmpty(pending_commands[i])
                             /\ pending_commands[i].hci = c}
DisposeUncounted(c) ==  \* mutant: entries are cleared, not freed
  /\ pending_commands' = [i \in Slots |-> IF i \in OwnedBy(c) THEN EmptyEntry
                                          ELSE pending_commands[i]]
  /\ UNCHANGED num_pending_commands
DisposeEntries(c) ==
  /\ pending_commands' = [i \in Slots |-> IF i \in OwnedBy(c) THEN EmptyEntry
                                          ELSE pending_commands[i]]
  /\ num_pending_commands' =
       Count(num_pending_commands - Cardinality(OwnedBy(c)))

(* How far a request got.  The client of one that has ended is forgotten.  *)
Waits(r) == reqs' = [reqs EXCEPT ![r].phase = "waiting"]
Ends(r, ph) == reqs' = [reqs EXCEPT ![r] = [phase |-> ph, hci |-> NoClient]]
Calling(c, to, cb, of) ==
  call' = IF c = NoClient THEN NoCall
          ELSE [hci |-> c, to |-> to, cb |-> cb, of |-> of]

-----------------------------------------------------------------------------
(* Commands.                                                               *)

(* What the clients do (not the library): which requests they have in      *)
(* flight together.  With all of Overlap there is no restriction; without  *)
(* "opcode" no command is issued while the same opcode awaits its first    *)
(* answer, without "tmpdata" no client issues an asynchronous command      *)
(* while another of its own awaits its status, and without "event" no two  *)
(* requests await the same final event.  The library issues its own        *)
(* negative replies (UnhandledRequest) whatever is pending; what the       *)
(* restriction says of them is about the controller: it reports no request *)
(* of a remote device while such a reply is already on its way.            *)
MayIssue(c, op, p) ==
  /\ "opcode" \in Overlap \/ \A k \in ctl : k.op # op
  /\ \/ "tmpdata" \in Overlap
     \/ op \in SyncOps
     \/ \A k \in ctl : k.op \in SyncOps \/ k.hci # c
  /\ \/ "event" \in Overlap
     \/ op \in SyncOps
     \/ /\ \A k \in ctl : FinalEvent(k.op, k.peer) # FinalEvent(op, p)
        /\ \A e \in running : e.event # FinalEvent(op, p)

SaveUnchecked(c, op, p) ==  \* mutant: no test for a NULL hci
  tmpdata' = IF op \in SyncOps THEN tmpdata
             ELSE [x \in Clients \cup {c} |->
                     IF x = c THEN [cb |-> next, addr |-> p,
                                    conn |-> FinalEvent(op, p)]
                     ELSE tmpdata[x]]
(* What an accepted command leaves in the union of its client.             *)
SaveTmpdata(c, op, p) ==
  tmpdata' =
    IF c = NoClient THEN tmpdata
    ELSE IF op \in ConnOps \cup {"read_remote_name"}
    THEN [tmpdata EXCEPT ![c] =
            [cb |-> next, addr |-> p, conn |-> GarbageConn]]
    ELSE IF op \in ReadOps
    THEN [tmpdata EXCEPT ![c] =
            [cb |-> next, addr |-> Garbage, conn |-> FinalEvent(op, p)]]
    ELSE IF op = "inquiry" THEN [tmpdata EXCEPT ![c].cb = next]
    ELSE tmpdata

(* _bte_hci_dev_add_command refuses the command: the client hears of it    *)
(* only through the callback of the first answer.                          *)
Refused(c, scb) ==
  /\ reqs' = [reqs EXCEPT ![next] =
                [phase |-> IF scb \/ c = NoClient THEN "done" ELSE "silent",
                 hci |-> NoClient]]
  /\ IF scb THEN Calling(c, next, next, next) ELSE call' = NoCall
  /\ UNCHANGED <<table, tmpdata, world>>

Accepted(c, op, p, scb, i) ==
  /\ AddEntry(i, Entry(ReplyTo(op), c, next, next, scb))
  /\ SaveTmpdata(c, op, p)
  /\ reqs' = [reqs EXCEPT ![next] = [phase |-> "sent", hci |-> c]]
  /\ \/ ctl' = ctl \cup {[req |-> next, op |-> op, peer |-> p, hci |-> c]}
     \/ SendFails /\ ctl' = ctl
  /\ call' = NoCall
  /\ UNCHANGED running

AddCommand(c, op, p, scb) ==
  /\ next <= MaxRequests
  /\ next' = next + 1
  /\ \/ Alloc(ReplyTo(op)) = {} /\ Refused(c, scb)
     \/ \E i \in Alloc(ReplyTo(op)) : Accepted(c, op, p, scb, i)
  /\ UNCHANGED <<clients, frame>>

(* A client calls one of the functions of hci.h that send a command.  The  *)
(* callback of a synchronous command is always given.                      *)
Command(c, op, p, scb) ==
  /\ c \in clients
  /\ op \in SyncOps => scb
  /\ MayIssue(c, op, p)
  /\ AddCommand(c, op, p, scb)

(* connection_request_event_cb and the two others of its kind, when no     *)
(* client handles the request.                                             *)
UnhandledRequest(op, p) ==
  /\ frame = NoFrame
  /\ op \in NegativeReplies
  /\ MayIssue(NoClient, op, p)
  /\ AddCommand(NoClient, op, p, FALSE)

-----------------------------------------------------------------------------
(* Answers of the controller.                                              *)

(* Free the entry, then call what was stored in it.                        *)
DeliverReplyKeeping(i, of) ==  \* mutant: the entry is not freed
  LET pc == pending_commands[i] IN
  /\ Ends(pc.user, "done")
  /\ Calling(pc.hci, pc.user, pc.cb, of)
  /\ UNCHANGED table
DeliverReply(i, of) ==
  LET pc == pending_commands[i] IN
  /\ FreeEntry(i)
  /\ Ends(pc.user, "done")
  /\ Calling(pc.hci, pc.user, pc.cb, of)

(* _bte_hci_dev_handle_event, deliver_reply_to_client                      *)
CommandComplete(k) ==
  /\ frame = NoFrame
  /\ k \in ctl /\ k.op \in SyncOps
  /\ ctl' = ctl \ {k}
  /\ \/ /\ Find(ReplyTo(k.op)) = {}
        /\ call' = NoCall
        /\ UNCHANGED <<table, reqs>>
     \/ \E i \in Find(ReplyTo(k.op)) : DeliverReply(i, k.req)
  /\ UNCHANGED <<tmpdata, clients, frame, next, running>>

(* The matcher a status callback builds from the union of its client.      *)
EventMatcher(op, c) ==
  IF op = "inquiry" THEN Matcher("INQUIRY_COMPLETE", NoKey)
  ELSE IF op \in ReadOps THEN tmpdata[c].conn
  ELSE Matcher(EventOf(op), tmpdata[c].addr)

(* Of the status callbacks, those of the reads report an error themselves, *)
(* through the final callback, when there is no status callback: pc is     *)
(* freed after the client's callback returns.                              *)
ReportsError(op, pc) ==
  /\ op \in ReadOps \cup {"read_remote_name"}
  /\ ~pc.scb

(* Nothing more is expected: free pc, then the status callback if any.     *)
StatusEnds(i, of) ==
  LET pc == pending_commands[i] IN
  /\ FreeEntry(i)
  /\ IF pc.scb THEN Calling(pc.hci, pc.user, pc.user, of) ELSE call' = NoCall
  /\ UNCHANGED frame

StatusOk(i, op, of) ==
  LET pc == pending_commands[i]
      m == EventMatcher(op, pc.hci)
      ev == Entry(m, pc.hci, pc.user, tmpdata[pc.hci].cb, FALSE)
  IN  \/ /\ Alloc(m) = {}
         /\ StatusEnds(i, of)
         /\ Ends(pc.user, "silent")
      \/ \E j \in Alloc(m) :
           /\ ReplaceEntry(i, j, ev)
           /\ Waits(pc.user)
           /\ IF pc.scb THEN Calling(pc.hci, pc.user, pc.user, of)
                        ELSE call' = NoCall
           /\ UNCHANGED frame

StatusError(i, op, of) ==
  LET pc == pending_commands[i] IN
  IF ReportsError(op, pc)
  THEN /\ frame' = [slot |-> i, hci |-> pc.hci, kind |-> "status"]
       /\ Calling(pc.hci, pc.user, tmpdata[pc.hci].cb, of)
       /\ Ends(pc.user, "done")
       /\ UNCHANGED table
  ELSE /\ StatusEnds(i, of)
       /\ Ends(pc.user, IF pc.scb THEN "done" ELSE "silent")

(* deliver_status_to_client                                                *)
DeliverStatus(i, op, of, ok) ==
  LET pc == pending_commands[i] IN
  IF op \in PlainOps \/ pc.hci = NoClient
  THEN StatusEnds(i, of) /\ Ends(pc.user, "done")
  ELSE IF ok THEN StatusOk(i, op, of) ELSE StatusError(i, op, of)

CommandStatus(k, ok) ==
  /\ frame = NoFrame
  /\ k \in ctl /\ k.op \in AsyncOps
  /\ ctl' = ctl \ {k}
  /\ running' = IF ok /\ k.op \notin PlainOps
                THEN running \cup {[req |-> k.req,
                                    event |-> FinalEvent(k.op, k.peer)]}
                ELSE running
  /\ \/ /\ Find(ReplyTo(k.op)) = {}
        /\ call' = NoCall
        /\ UNCHANGED <<table, reqs, frame>>
     \/ \E i \in Find(ReplyTo(k.op)) : DeliverStatus(i, k.op, k.req, ok)
  /\ UNCHANGED <<tmpdata, clients, next>>

(* The event that ends a procedure: conn_complete_event_cb and its like.   *)
CommandEvent(e) ==
  /\ frame = NoFrame
  /\ e \in running
  /\ running' = running \ {e}
  /\ \/ /\ Find(e.event) = {}
        /\ call' = NoCall
        /\ UNCHANGED <<table, reqs>>
     \/ \E i \in Find(e.event) : DeliverReply(i, e.req)
  /\ UNCHANGED <<tmpdata, clients, frame, next, ctl>>

-----------------------------------------------------------------------------
(* Listeners: on_mode_change and on_qos_setup_complete.                    *)
Listen(c, ev, p) ==
  /\ c \in clients
  /\ \E i \in Alloc(Matcher(ev, p)) :
       AddEntry(i, Entry(Matcher(ev, p), c, NoReq, NoReq, FALSE))
  /\ call' = NoCall
  /\ UNCHANGED <<tmpdata, clients, frame, reqs, next, world>>

Unlisten(c, ev, p) ==
  /\ c \in clients
  /\ \E i \in Find(Matcher(ev, p)) :
       /\ pending_commands[i].hci = c
       /\ i = frame.slot => "unlisten" \in CallbackMay
       /\ FreeEntry(i)
  /\ call' = NoCall
  /\ UNCHANGED <<tmpdata, clients, frame, reqs, next, world>>

ListenedEvent(ev, p) ==
  /\ frame = NoFrame
  /\ \E i \in Find(Matcher(ev, p)) :
       /\ frame' = [slot |-> i, hci |-> pending_commands[i].hci,
                    kind |-> "listener"]
       /\ Calling(pending_commands[i].hci, NoReq, NoReq, NoReq)
  /\ UNCHANGED <<table, tmpdata, clients, reqs, next, world>>

(* The callback that held an entry returns.  A listener stays when its     *)
(* callback returned false.                                                *)
CallbackReturns(remove) ==
  /\ frame # NoFrame
  /\ frame.kind = "status" => remove
  /\ frame' = NoFrame
  /\ IF remove THEN FreeEntry(frame.slot) ELSE UNCHANGED table
  /\ call' = NoCall
  /\ UNCHANGED <<tmpdata, clients, reqs, next, world>>

-----------------------------------------------------------------------------
(* Clients.  The last client of all is not removed here: that closes the   *)
(* backend.                                                                *)
ClientNew(c) ==
  /\ c \notin clients
  /\ Cardinality(clients) < MaxClients
  /\ clients' = clients \cup {c}
  /\ tmpdata' = [tmpdata EXCEPT ![c] = ZeroTmpdata]
  /\ call' = NoCall
  /\ UNCHANGED <<table, frame, reqs, next, world>>

(* The last reference to c is dropped.                                     *)
ClientFree(c) ==
  /\ c \in clients /\ clients # {c}
  /\ frame.hci = c => "unref" \in CallbackMay
  /\ DisposeEntries(c)
  /\ clients' = clients \ {c}
  /\ reqs' = [r \in Requests |->
                IF reqs[r].hci = c /\ reqs[r].phase \in {"sent", "waiting"}
                THEN [phase |-> "gone", hci |-> NoClient] ELSE reqs[r]]
  /\ call' = NoCall
  /\ UNCHANGED <<tmpdata, frame, next, world>>

Next ==
  \/ \E c \in Clients, op \in Ops, p \in Peers, scb \in StatusCbs \cup {TRUE} :
       /\ scb \in StatusCbs \/ op \in SyncOps
       /\ Command(c, op, p, scb)
  \/ \E op \in NegativeReplies \cap Ops, p \in Peers : UnhandledRequest(op, p)
  \/ \E k \in ctl : CommandComplete(k)
  \/ \E k \in ctl, ok \in BOOLEAN : CommandStatus(k, ok)
  \/ \E e \in running : CommandEvent(e)
  \/ \E c \in Clients, ev \in ListenEvents, p \in Peers : Listen(c, ev, p)
  \/ \E c \in Clients, ev \in ListenEvents, p \in Peers : Unlisten(c, ev, p)
  \/ \E ev \in ListenEvents, p \in Peers : ListenedEvent(ev, p)
  \/ \E remove \in BOOLEAN : CallbackReturns(remove)
  \/ \E c \in Clients : ClientNew(c)
  \/ \E c \in Clients : ClientFree(c)

Spec == Init /\ [][Next]_vars

(* The controller answers what it accepted, and callbacks return.  Strong  *)
(* fairness: an event waits in the queue of the event loop while a         *)
(* callback runs, and is dispatched after it.                              *)
Fairness ==
  /\ WF_vars(\E remove \in BOOLEAN : CallbackReturns(remove))
  /\ \A r \in Requests :
       SF_vars(\/ \E k \in ctl : /\ k.req = r
                                 /\ \/ CommandComplete(k)
                                    \/ \E ok \in BOOLEAN : CommandStatus(k, ok)
               \/ \E e \in running : e.req = r /\ CommandEvent(e))
FairSpec == Spec /\ Fairness

-----------------------------------------------------------------------------
(* Every variable has its type.                                            *)
TypeOK ==
  /\ pending_commands \in [Slots -> Entries]
  /\ num_pending_commands \in Nat /\ num_pending_commands < 65536
  /\ tmpdata \in [Clients -> Tmpdata]
  /\ clients \subseteq Clients
  /\ frame \in Frames \cup {NoFrame}
  /\ reqs \in [Requests -> [phase : Phases, hci : Clients \cup {NoClient}]]
  /\ next \in 1 .. MaxRequests + 1
  /\ ctl \subseteq Commands
  /\ running \subseteq [req : Requests, event : Matchers]
  /\ call \in Calls \cup {NoCall}

(* The count that decides between the fast track, the scan and the refusal *)
(* of alloc_command is the number of used entries, whatever the order of   *)
(* commands, answers, listeners and removed clients.                       *)
Used == {i \in Slots : ~IsEmpty(pending_commands[i])}
CountMatchesTable == num_pending_commands = Cardinality(Used)

(* Every used entry belongs to a live client, or to none: no callback is   *)
(* ever made with the hci of a client that was freed.                      *)
OwnersAlive ==
  /\ \A i \in Used : pending_commands[i].hci \in clients \cup {NoClient}
  /\ call # NoCall => call.hci \in clients

(* While a callback that was handed an entry runs, the entry stays its     *)
(* client's: what is freed when the callback returns is what it held.      *)
HeldEntryStays ==
  frame # NoFrame => /\ frame.slot \in Used
                     /\ pending_commands[frame.slot].hci = frame.hci
                     /\ frame.hci \in clients

(* A client that issued a request hears nothing of it any more once it has *)
(* had the last callback for it, or was refused, or was freed.             *)
NoCallAfterEnd ==
  [][\A r \in Requests :
       (call' # NoCall /\ call'.to = r)
         => reqs[r].phase \in {"unused", "sent", "waiting"}]_vars

(* README, "the result will be delivered to the correct client": every     *)
(* callback is made for the request whose answer came, with the callback   *)
(* and the userdata of that request.                                       *)
DeliveredToRequester == call.to = call.of /\ call.cb = call.of

(* With a status callback given, a request never ends without its client   *)
(* being told, but for the full table at the moment of its status.         *)
SilentOnlyWhenFull ==
  [][\A r \in Requests :
       (reqs[r].phase # "silent" /\ reqs'[r].phase = "silent")
         => num_pending_commands = MaxPending]_vars

(* Every accepted command gets its first answer, and every one whose       *)
(* status was good gets its final event, unless its client is freed.       *)
AnsweredEventually ==
  \A r \in Requests : reqs[r].phase \in {"sent", "waiting"}
                        ~> reqs[r].phase \in {"done", "silent", "gone"}
=============================================================================

---- MODULE WsHub ----
(* The WebSocket hub of the gateway (gateway/ws_router.py): one task reads two  *)
(* streams in turn, several dispatchers send from bounded queues, one per       *)
(* client. A step runs from one await to the next. The reader is assumed never  *)
(* to lag by as much as the streams keep.                                       *)
EXTENDS Integers, Sequences, FiniteSets, Selection

CONSTANTS
  Clients, Dispatchers, HubCameras,
  FilterOf,        \* camera a client asked for, or "all"
  InboxSize,       \* _CLIENT_QUEUE_SIZE
  ReadCount,       \* count of XREAD
  MaxLoad          \* bound: clients that come and entries of both streams, together

HubStreams == {"behavior", "incident"}
Other(s) == IF s = "behavior" THEN "incident" ELSE "behavior"

ASSUME HubAssumption ==
  /\ FilterOf \in [Clients -> HubCameras \cup {"all"}]
  /\ {InboxSize, ReadCount} \subseteq Nat \ {0} /\ MaxLoad \in Nat

VARIABLES
  entries,    \* per stream: cameras of the entries added
  cursor,     \* last_beh, last_inc; -1 stands for "$"
  reading,    \* the stream being read, and from which entry on; or handled
  toSend,     \* numbers of the entries read and not enqueued yet
  members,    \* _clients
  sockets,    \* per client: "new", "open", "stalled" (sends do not return) or "closed"
  inbox,      \* per client: numbers of messages queued
  held,       \* per dispatcher: the client and message it is sending, or Nothing
  running,    \* start has been called, and not stop
  left,       \* per dispatcher: clients its round has still to visit
  failed,     \* per dispatcher: clients of this round whose sending raised
  serial,     \* history: messages made
  wasRead,    \* history, per stream: entries read
  due,        \* history, per client: messages made for it, in order
  got,        \* history, per client: messages that arrived, in order
  missed      \* history, per client: messages lost in sending or in stop

hubVars == <<entries, cursor, reading, toSend, members, sockets, inbox, held, left, failed, running, serial, wasRead, due, got, missed>>

Nothing == [client |-> "none", message |-> 0]
Idle(s) == [stream |-> s, from |-> -1]

HubInit ==
  /\ entries = [s \in HubStreams |-> <<>>] /\ running = TRUE
  /\ cursor = [s \in HubStreams |-> -1]
  /\ reading = Idle("behavior") /\ toSend = <<>>
  /\ members = <<>> /\ sockets = [c \in Clients |-> "new"]
  /\ inbox = [c \in Clients |-> <<>>]
  /\ held = [d \in Dispatchers |-> Nothing]
  /\ left = [d \in Dispatchers |-> <<>>] /\ failed = [d \in Dispatchers |-> {}]
  /\ serial = 0 /\ wasRead = [s \in HubStreams |-> {}]
  /\ due = [c \in Clients |-> <<>>]
  /\ got = [c \in Clients |-> <<>>] /\ missed = [c \in Clients |-> {}]

readerVars == <<cursor, reading, toSend, serial, wasRead, due>>
senderVars == <<held, left, failed, got, running>>

Load == Len(entries["behavior"]) + Len(entries["incident"]) + Cardinality({c \in Clients : sockets[c] # "new"})

(* The behavior and risk services add entries. *)
AddEntry(s, cam) ==
  /\ Load < MaxLoad
  /\ entries' = [entries EXCEPT ![s] = Append(@, cam)]
  /\ UNCHANGED <<readerVars, senderVars, members, sockets, inbox, missed>>

\* Mutant: always "$".
ReadNew(s) == Len(entries[s])
ReadFrom(s) == IF cursor[s] = -1 THEN Len(entries[s]) ELSE cursor[s]

(* XREAD is sent: "$" means what is added from now on, in every read until  *)
(* one returned an entry.                                                       *)
BeginRead ==
  /\ reading.from = -1 /\ toSend = <<>>
  /\ reading' = [reading EXCEPT !.from = ReadFrom(reading.stream)]
  /\ UNCHANGED <<entries, cursor, toSend, serial, wasRead, due, senderVars, members, sockets, inbox, missed>>

(* XREAD returns entries; the last id read is the next to read from. *)
EndRead ==
  /\ reading.from >= 0 /\ Len(entries[reading.stream]) > reading.from
  /\ LET s == reading.stream
         n == IF Len(entries[s]) - reading.from < ReadCount THEN Len(entries[s]) - reading.from ELSE ReadCount
     IN /\ toSend' = [i \in 1..n |-> reading.from + i]
        /\ cursor' = [cursor EXCEPT ![s] = reading.from + n]
        /\ wasRead' = [wasRead EXCEPT ![s] = @ \cup {reading.from + i : i \in 1..n}]
        /\ reading' = Idle(s)
  /\ UNCHANGED <<entries, serial, due, senderVars, members, sockets, inbox, missed>>

(* It times out, or raises. *)
ReadNothing ==
  /\ reading.from >= 0
  /\ reading' = Idle(Other(reading.stream))
  /\ UNCHANGED <<entries, cursor, toSend, serial, wasRead, due, senderVars, members, sockets, inbox, missed>>

(* _enqueue: one step, as it does not await. *)
Wants(c, cam) == FilterOf[c] \in {"all", cam}
Receivers(cam) == {members[i] : i \in {j \in DOMAIN members : Wants(members[j], cam)}}

\* Mutant: the last place of the queue is never used.
PutShort(q, m) == Append(IF q # <<>> /\ Len(q) >= InboxSize - 1 THEN Tail(q) ELSE q, m)
\* A full queue drops its oldest message.
Put(q, m) == Append(IF Len(q) >= InboxSize THEN Tail(q) ELSE q, m)

Enqueue(cam) ==
  LET to == Receivers(cam)
  IN /\ serial' = serial + 1
     /\ inbox' = [c \in Clients |-> IF c \in to THEN Put(inbox[c], serial + 1) ELSE inbox[c]]
     /\ due' = [c \in Clients |-> IF c \in to THEN Append(due[c], serial + 1) ELSE due[c]]

(* Before a behavior event is enqueued its risk is fetched, an await for every  *)
(* entry. The batch of incidents has no await, but is taken here entry by       *)
(* entry, which only adds interleavings.                                        *)
NextReading == IF Len(toSend) = 1 THEN Idle(Other(reading.stream)) ELSE reading

EnqueueEntry ==
  /\ toSend # <<>>
  /\ Enqueue(entries[reading.stream][Head(toSend)])
  /\ toSend' = Tail(toSend)
  /\ reading' = NextReading
  /\ UNCHANGED <<entries, cursor, wasRead, senderVars, members, sockets, missed>>

(* An entry cannot be decoded (those of the demo generator cannot), or its risk *)
(* cannot be had.                                                               *)
SkipEntry ==
  /\ toSend # <<>>
  /\ toSend' = Tail(toSend)
  /\ reading' = NextReading
  /\ UNCHANGED <<entries, cursor, serial, wasRead, due, senderVars, members, sockets, inbox, missed>>

Connect(c) ==
  /\ sockets[c] = "new" /\ Load < MaxLoad
  /\ sockets' = [sockets EXCEPT ![c] = "open"]
  /\ members' = Append(members, c)
  /\ UNCHANGED <<entries, readerVars, senderVars, inbox, missed>>

Stall(c) ==
  /\ sockets[c] = "open"
  /\ sockets' = [sockets EXCEPT ![c] = "stalled"]
  /\ UNCHANGED <<entries, readerVars, senderVars, members, inbox, missed>>

Close(c) ==
  /\ sockets[c] \in {"open", "stalled"}
  /\ sockets' = [sockets EXCEPT ![c] = "closed"]
  /\ UNCHANGED <<entries, readerVars, senderVars, members, inbox, missed>>

Without(out) == Selected(members, Clients \ out)

(* The route of a closed socket ends (disconnect in its finally), or the        *)
(* heartbeat finds it closed.                                                   *)
Disconnect(c) ==
  /\ sockets[c] = "closed" /\ \E i \in DOMAIN members : members[i] = c
  /\ members' = Without({c})
  /\ UNCHANGED <<entries, readerVars, senderVars, sockets, inbox, missed>>

(* A dispatcher visits the clients of its round up to the first with a message, *)
(* which it takes and starts to send; a round that finds none disconnects those *)
(* whose sending raised.                                                        *)
Rest(q) == Tail(q)

\* Mutant: the first client is skipped.
FirstBusyButOne(round) == {i \in DOMAIN round : i > 1 /\ inbox[round[i]] # <<>>}
FirstBusy(round) == {i \in DOMAIN round : inbox[round[i]] # <<>> /\ \A j \in 1..i - 1 : inbox[round[j]] = <<>>}

Visit(d, round, dead) ==
  IF FirstBusy(round) # {}
  THEN \E i \in FirstBusy(round) :
         LET q == inbox[round[i]]
         IN /\ held' = [held EXCEPT ![d] = [client |-> round[i], message |-> Head(q)]]
            /\ inbox' = [inbox EXCEPT ![round[i]] = Rest(q)]
            /\ left' = [left EXCEPT ![d] = SubSeq(round, i + 1, Len(round))]
            /\ failed' = [failed EXCEPT ![d] = dead]
            /\ members' = members
  ELSE /\ held' = [held EXCEPT ![d] = Nothing]
       /\ left' = [left EXCEPT ![d] = <<>>] /\ failed' = [failed EXCEPT ![d] = {}]
       /\ members' = Without(dead)
       /\ inbox' = inbox

BeginRound(d) ==
  /\ held[d] = Nothing /\ FirstBusy(members) # {}
  /\ Visit(d, members, {})
  /\ UNCHANGED <<entries, running, readerVars, sockets, got, missed>>

Sent(d) ==
  LET c == held[d].client
  IN /\ held[d] # Nothing /\ sockets[c] = "open"
     /\ got' = [got EXCEPT ![c] = Append(@, held[d].message)]
     /\ Visit(d, left[d], failed[d])
     /\ UNCHANGED <<entries, running, readerVars, sockets, missed>>

SendRaises(d) ==
  LET c == held[d].client
  IN /\ held[d] # Nothing /\ sockets[c] = "closed"
     /\ missed' = [missed EXCEPT ![c] = @ \cup {held[d].message}]
     /\ Visit(d, left[d], failed[d] \cup {c})
     /\ UNCHANGED <<entries, running, readerVars, sockets, got>>

Dispatch(d) == running /\ (BeginRound(d) \/ Sent(d) \/ SendRaises(d))

HandedTo(c) == {held[d].message : d \in {e \in Dispatchers : held[e].client = c}}

(* stop cancels every task where it waits; what is being sent is lost. *)
StopHub ==
  /\ running' = FALSE
  /\ members' = <<>>
  /\ held' = [d \in Dispatchers |-> Nothing]
  /\ missed' = [c \in Clients |-> missed[c] \cup HandedTo(c)]
  /\ left' = [d \in Dispatchers |-> <<>>] /\ failed' = [d \in Dispatchers |-> {}]
  /\ UNCHANGED <<entries, readerVars, sockets, inbox, got>>

HubNext ==
  \/ \E s \in HubStreams, cam \in HubCameras : AddEntry(s, cam)
  \/ running /\ (BeginRead \/ EndRead \/ ReadNothing \/ EnqueueEntry \/ SkipEntry \/ StopHub)
  \/ \E c \in Clients : (running /\ Connect(c)) \/ Stall(c) \/ Close(c) \/ Disconnect(c)
  \/ \E d \in Dispatchers : Dispatch(d)

HubSpec == HubInit /\ [][HubNext]_hubVars
(* A dispatcher takes its next step whenever a send returns; nothing is assumed *)
(* of the reader and of the clients.                                            *)
HubFairness == \A d \in Dispatchers : WF_hubVars(Dispatch(d))

(* A client may get messages out of order, as several dispatchers send to it;   *)
(* but one is overtaken only in a dispatcher's hands, never in the queue, none  *)
(* comes twice, and none made for a client is gone unless its sending raised,   *)
(* stop came, or as many newer ones as the queue holds have been made for that  *)
(* client (ws_router.py:166-170).                                               *)
OvertakenOnlyInHand ==
  \A c \in Clients :
    /\ \A i, j \in DOMAIN inbox[c] : i < j => inbox[c][i] < inbox[c][j]
    /\ \A i \in DOMAIN got[c], j \in DOMAIN inbox[c] : got[c][i] < inbox[c][j]
    /\ \A i, j \in DOMAIN got[c] : i # j => got[c][i] # got[c][j]
    /\ \A m \in HandedTo(c) : \A i \in DOMAIN got[c] : got[c][i] # m
    /\ \A m \in missed[c], i \in DOMAIN got[c] : got[c][i] # m
    /\ \A j \in DOMAIN due[c] :
         \/ \E i \in DOMAIN inbox[c] : inbox[c][i] = due[c][j]
         \/ \E i \in DOMAIN got[c] : got[c][i] = due[c][j]
         \/ due[c][j] \in HandedTo(c) \cup missed[c]
         \/ Len(due[c]) >= j + InboxSize

(* Once a stream has given an entry no later one is left out, whatever the      *)
(* reader waits for in between; before, "$" moves with the stream               *)
(* (ws_router.py:105).                                                          *)
ReadWithoutGap ==
  \A s \in HubStreams : \A i, j \in wasRead[s] : i..j \subseteq wasRead[s]

HeldByStalled(d) == held[d] # Nothing /\ sockets[held[d].client] = "stalled"

(* Until stop, the queue of a client whose socket is not closed is served as    *)
(* long as one dispatcher is free of stalled clients: one that stalls takes a   *)
(* dispatcher with each message (ws_router.py:195), and only when it has taken  *)
(* them all does another client wait for it.                                    *)
ServedUnlessStalled ==
  \A c \in Clients :
    inbox[c] # <<>> ~> (inbox[c] = <<>> \/ sockets[c] = "closed" \/ ~running \/ \A d \in Dispatchers : HeldByStalled(d))

(* ws_router.py:7 and 10-11: the queues never block a dispatcher, and a slow    *)
(* client stalls nobody else: an open client with messages queued always has a  *)
(* dispatcher that does not wait for a stalled one. Refuted: with each further  *)
(* message the stalled client takes one more dispatcher.                        *)
OthersNotHeldUp ==
  \A c \in Clients :
    sockets[c] = "open" /\ inbox[c] # <<>> => \E d \in Dispatchers : ~HeldByStalled(d)
====

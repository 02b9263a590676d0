----------------------------- MODULE RealtimeHub -----------------------------
(***************************************************************************)
(* The WebSocket and SSE hub (realtime/hub.go) and its in-memory resume    *)
(* store (realtime/resume.go): connections that come and go, the fan-out   *)
(* of bus events into each client's bounded buffer, the replay after a     *)
(* reconnect, the kick of a slow client, and shutdown.                     *)
(*                                                                         *)
(* Events are numbered as the store numbers them.  A frame is the number   *)
(* of an event, or Resync.  A client has one connection at a time, and one *)
(* subscription on it: a WebSocket client subscribes by a message, an SSE  *)
(* client by connecting.  The events match its patterns, and its           *)
(* visibility hook lets them pass, or none of them does.                   *)
(***************************************************************************)
EXTENDS Integers, Sequences, FiniteSets

CONSTANTS Clients,         \* client programs
          SSE,             \* those that connect to SSEHandler
          SendBuffer,      \* frames a connection's buffer holds
          ResumeBuffer,    \* events the store retains
          Interests,       \* sets of clients whose subscriptions events match
          MaxConnections,  \* 0: unlimited
          MaxEvents,       \* bounds on the events of each hub
          MaxRestarts      \* bound on restarts of the process

ASSUME ClientsAssumption == SSE \subseteq Clients /\ IsFiniteSet(Clients)
ASSUME InterestsAssumption == Interests \subseteq SUBSET Clients /\ Interests # {}
ASSUME BuffersAssumption == SendBuffer \in Nat \ {0} /\ ResumeBuffer \in Nat \ {0}
ASSUME BoundsAssumption == /\ MaxConnections \in Nat
                           /\ MaxRestarts \in Nat
                           /\ MaxEvents \in [1 .. MaxRestarts + 1 -> Nat]

VARIABLES matched,  \* the clients whose subscriptions the events match
          head,     \* the store's seq: the number of the newest event
          epoch,    \* which hub this is: a restart makes a new store
          todo,     \* the clients the running fan-out has still to visit
          clients,  \* the hub's clients map
          connN,    \* the counter of connections
          wg,       \* the WaitGroup of pumps and SSE handlers
          shut,     \* the progress of Shutdown
          conn,     \* each client's connection, as the server has it
          client,   \* what each client program knows
          lost,     \* the clients that went past an event they never got
          excused   \* those that met a window the hub leaves open (NoSilentGap);
                    \* lost and excused speak of a client's latest connection

vars == <<matched, head, epoch, todo, clients, connN, wg, shut, conn, client, lost, excused>>
hub == <<matched, head, epoch, todo, shut>>
counts == <<clients, connN, wg>>
known == <<client, lost, excused>>

WS == Clients \ SSE
Resync == 0
Frames == Nat
\* A client that never got an event has no cursor.
NoCursor == [epoch |-> 0, seq |-> 0]
\* What a client knows of a hub it has not met.
Unknown == -1

\* ph: where the handler is; reader and writer: the WebSocket pumps; sub: a
\* subscription exists; kicked: kickCh or shutdownCh is signalled; dropped: an
\* event found the buffer full; closed: the socket was closed here; up: the
\* client's end is still there.
ConnType == [ph : {"off", "admitted", "replay", "backlog", "run", "open"},
             reader : {"gone", "idle", "replay", "backlog"},
             writer : {"gone", "top", "select"},
             out : Seq(Frames), backlog : Seq(Frames),
             sub : BOOLEAN, kicked : BOOLEAN, dropped : BOOLEAN,
             closed : BOOLEAN, up : BOOLEAN]

\* cur: the cursor it would resume from; seen: the newest event its state
\* reflects.
ClientType == [cur : [epoch : Nat, seq : Nat], seen : Int]

TypeOK == /\ matched \subseteq Clients
          /\ head \in Nat
          /\ epoch \in 1 .. MaxRestarts + 1
          /\ todo \subseteq Clients
          /\ clients \subseteq Clients
          /\ connN \in Int
          /\ wg \in Int
          /\ shut \in {"open", "closed", "waiting", "drained"}
          /\ conn \in [Clients -> ConnType]
          /\ client \in [Clients -> ClientType]
          /\ lost \subseteq Clients
          /\ excused \subseteq Clients

Off == [ph |-> "off", reader |-> "gone", writer |-> "gone", out |-> <<>>,
        backlog |-> <<>>, sub |-> FALSE, kicked |-> FALSE, dropped |-> FALSE,
        closed |-> FALSE, up |-> FALSE]

Init == /\ matched \in Interests
        /\ head = 0 /\ epoch = 1 /\ todo = {} /\ clients = {}
        /\ connN = 0 /\ wg = 0 /\ shut = "open"
        /\ conn = [c \in Clients |-> Off]
        /\ client = [c \in Clients |-> [cur |-> NoCursor, seen |-> 0]]
        /\ lost = {} /\ excused = {}

-----------------------------------------------------------------------------
(* What a client makes of a frame.                                         *)

\* It adds an event to its state; EventSource takes the latest id it saw for
\* its cursor, a WebSocket client drops what its cursor says it has.  On resync
\* it fetches the current state.  A client that is gone gets nothing.
Stale(c, f) == /\ c \in WS /\ f # Resync
               /\ client[c].cur.epoch = epoch /\ f <= client[c].cur.seq
Receive(c, f) ==
  \/ /\ ~conn[c].up \/ Stale(c, f)
     /\ UNCHANGED known
  \/ /\ conn[c].up /\ f = Resync
     /\ client' = [client EXCEPT ![c].seen = head]
     /\ UNCHANGED <<lost, excused>>
  \/ /\ conn[c].up /\ f # Resync /\ ~Stale(c, f)
     /\ client' = [client EXCEPT ![c] =
          [cur |-> [epoch |-> epoch, seq |-> f],
           seen |-> IF f > client[c].seen THEN f ELSE client[c].seen]]
     /\ lost' = IF f > client[c].seen + 1 THEN lost \cup {c} ELSE lost
     /\ UNCHANGED excused

\* A client without a cursor fetched the current state before it subscribed.
Fresh(c) == client[c].cur = NoCursor
Fetched(c) == IF Fresh(c) THEN [client EXCEPT ![c].seen = head] ELSE client

-----------------------------------------------------------------------------
(* Coming up.                                                              *)

\* The handler's checks, and admit.
Dial(c) ==
  /\ conn[c].ph = "off" /\ shut = "open"
  /\ MaxConnections > 0 => connN < MaxConnections
  /\ connN' = connN + 1
  /\ conn' = [conn EXCEPT ![c] = [Off EXCEPT !.ph = "admitted", !.up = TRUE]]
  /\ lost' = lost \ {c} /\ excused' = excused \ {c}
  /\ UNCHANGED <<hub, clients, wg, client>>

\* release: the hijack or the handshake failed, or the hub was shut down.
Release(c) ==
  /\ connN' = connN - 1
  /\ conn' = [conn EXCEPT ![c] = Off]
  /\ UNCHANGED <<clients, wg, todo, known>>

HandshakeFails(c) == /\ conn[c].ph = "admitted" /\ c \in WS
                     /\ Release(c)
                     /\ UNCHANGED <<matched, head, epoch, shut>>

\* A fan-out that is under way may or may not meet the new client.
Enter(c) ==
  /\ clients' = clients \cup {c}
  /\ todo' \in {todo, IF todo = {} THEN {} ELSE todo \cup {c}}
  /\ IF c \in SSE
     THEN /\ wg' = wg + 1
          /\ conn' = [conn EXCEPT ![c] = [conn[c] EXCEPT !.ph = "replay", !.sub = TRUE]]
          /\ client' = Fetched(c) /\ UNCHANGED <<lost, excused>>
     ELSE /\ wg' = wg + 2
          /\ conn' = [conn EXCEPT ![c] = [conn[c] EXCEPT !.ph = "open",
                                           !.reader = "idle", !.writer = "top"]]
          /\ UNCHANGED known
  /\ UNCHANGED connN

\* Mutant: the hub is only looked at before the upgrade.
RegisterUnchecked(c) ==
  /\ conn[c].ph = "admitted"
  /\ Enter(c)
  /\ UNCHANGED <<matched, head, epoch, shut>>

\* register: one step with Shutdown's walk over the clients.
Register(c) ==
  /\ conn[c].ph = "admitted"
  /\ IF shut = "open" THEN Enter(c) ELSE Release(c)
  /\ UNCHANGED <<matched, head, epoch, shut>>

-----------------------------------------------------------------------------
(* Fan-out.                                                                *)

Matches(c) == c \in matched /\ conn[c].sub
Room(c) == Len(conn[c].out) < SendBuffer

\* One bus event: the store appends it, and the walk over the clients begins.
Fanout ==
  /\ shut = "open" /\ todo = {} /\ head < MaxEvents[epoch]
  /\ head' = head + 1
  /\ todo' = clients
  /\ UNCHANGED <<matched, epoch, counts, shut, conn, known>>

Kicked(c) == [conn[c] EXCEPT !.kicked = TRUE, !.dropped = TRUE]

\* The event gets ahead of one that was dropped, or is still to be replayed.
Overtakes(c) == \/ c \in SSE /\ conn[c].dropped
                \/ c \in WS /\ conn[c].reader \in {"replay", "backlog"}

\* enqueueWS and deliverSSE never wait: a client without room is kicked.
Deliver(c) ==
  /\ c \in todo
  /\ todo' = todo \ {c}
  /\ \/ /\ ~Matches(c)
        /\ UNCHANGED <<conn, excused>>
     \/ /\ Matches(c) /\ Room(c)
        /\ conn' = [conn EXCEPT ![c].out = Append(conn[c].out, head)]
        /\ excused' = IF Overtakes(c) THEN excused \cup {c} ELSE excused
     \/ /\ Matches(c) /\ ~Room(c)
        /\ conn' = [conn EXCEPT ![c] = Kicked(c)]
        /\ UNCHANGED excused
  /\ UNCHANGED <<matched, head, epoch, counts, shut, client, lost>>

-----------------------------------------------------------------------------
(* Replay.                                                                 *)

Oldest == IF head > ResumeBuffer THEN head - ResumeBuffer + 1 ELSE 1

\* Mutant: off by one, the oldest event the client misses may be gone.
ReplayableOne(cur) == cur.epoch = epoch /\ cur.seq + 2 >= Oldest

\* The store can prove what a cursor misses.
Replayable(cur) == cur.epoch = epoch /\ cur.seq + 1 >= Oldest

\* The retained events after the cursor, oldest first.
Before(cur) == IF cur.seq >= Oldest THEN cur.seq ELSE Oldest - 1
Missed(c) == IF c \in matched
             THEN [i \in 1 .. head - Before(client[c].cur) |-> Before(client[c].cur) + i]
             ELSE <<>>

\* replaySSE, before the live loop.
ReplaySSE(c) ==
  /\ conn[c].ph = "replay"
  /\ conn' = [conn EXCEPT ![c] = [conn[c] EXCEPT
       !.ph = "backlog",
       !.backlog = CASE Fresh(c) -> <<>>
                     [] ~Fresh(c) /\ Replayable(client[c].cur) -> Missed(c)
                     [] OTHER -> <<Resync>>]]
  /\ UNCHANGED <<hub, counts, known>>

\* The backlog goes straight to the wire, up to the first write that fails.
WriteBacklog(c) ==
  /\ conn[c].ph = "backlog"
  /\ IF conn[c].backlog # <<>> /\ conn[c].up
     THEN /\ Receive(c, Head(conn[c].backlog))
          /\ conn' = [conn EXCEPT ![c].backlog = Tail(conn[c].backlog)]
     ELSE /\ conn' = [conn EXCEPT ![c] = [conn[c] EXCEPT !.ph = "run", !.backlog = <<>>]]
          /\ UNCHANGED known
  /\ UNCHANGED <<hub, counts>>

\* handleSubscribe: the subscription is live before its replay.
Subscribe(c) ==
  /\ conn[c].reader = "idle" /\ conn[c].up /\ ~conn[c].sub
  /\ conn' = [conn EXCEPT ![c] = [conn[c] EXCEPT
       !.sub = TRUE, !.reader = IF Fresh(c) THEN "idle" ELSE "replay"]]
  /\ client' = Fetched(c)
  /\ UNCHANGED <<hub, counts, lost, excused>>

Unsubscribe(c) ==
  /\ conn[c].reader = "idle" /\ conn[c].up /\ conn[c].sub
  /\ conn' = [conn EXCEPT ![c].sub = FALSE]
  /\ UNCHANGED <<hub, counts, known>>

\* replayWS; sendJSON drops the resync message when the buffer is full.
ReplayWS(c) ==
  /\ conn[c].reader = "replay"
  /\ IF Replayable(client[c].cur)
     THEN /\ conn' = [conn EXCEPT ![c] = [conn[c] EXCEPT
               !.reader = "backlog", !.backlog = Missed(c)]]
          /\ UNCHANGED known
     ELSE /\ conn' = [conn EXCEPT ![c] = [conn[c] EXCEPT
               !.reader = "idle",
               !.out = IF Room(c) THEN Append(conn[c].out, Resync) ELSE conn[c].out]]
          /\ excused' = IF Room(c) THEN excused ELSE excused \cup {c}
          /\ UNCHANGED <<client, lost>>
  /\ UNCHANGED <<hub, counts>>

EnqueueBacklog(c) ==
  /\ conn[c].reader = "backlog"
  /\ \/ /\ conn[c].backlog = <<>>
        /\ conn' = [conn EXCEPT ![c].reader = "idle"]
     \/ /\ conn[c].backlog # <<>> /\ Room(c)
        /\ conn' = [conn EXCEPT ![c] = [conn[c] EXCEPT
             !.out = Append(conn[c].out, Head(conn[c].backlog)),
             !.backlog = Tail(conn[c].backlog)]]
     \/ /\ conn[c].backlog # <<>> /\ ~Room(c)
        /\ conn' = [conn EXCEPT ![c] = [Kicked(c) EXCEPT !.reader = "idle",
                                                         !.backlog = <<>>]]
  /\ UNCHANGED <<hub, counts, known>>

-----------------------------------------------------------------------------
(* The SSE loop and the WebSocket pumps.                                   *)

\* select takes any case that is ready, also when the client was told to go.
RunWrites(c) ==
  /\ conn[c].ph = "run" /\ conn[c].out # <<>>
  /\ Receive(c, Head(conn[c].out))
  /\ conn' = [conn EXCEPT ![c].out = Tail(conn[c].out)]
  /\ UNCHANGED <<hub, counts>>

\* The handler's deferred cleanup, after its loop or a panic of a hook.
CleanUp(c) ==
  /\ clients' = clients \ {c}
  /\ todo' = todo \ {c}
  /\ connN' = connN - 1
  /\ wg' = wg - 1
  /\ conn' = [conn EXCEPT ![c] = Off]
  /\ UNCHANGED <<matched, head, epoch, shut, known>>

RunEnds(c) == /\ conn[c].ph = "run" /\ (conn[c].kicked \/ ~conn[c].up)
              /\ CleanUp(c)

HookPanics(c) == /\ conn[c].ph \in {"replay", "backlog"} /\ CleanUp(c)

\* Mutant: without removeOnce.
PumpEndsTwice(c, rest) ==
  /\ clients' = clients \ {c}
  /\ todo' = todo \ {c}
  /\ connN' = connN - 1
  /\ wg' = wg - 1
  /\ conn' = [conn EXCEPT ![c] =
       IF rest.reader = "gone" /\ rest.writer = "gone" THEN Off
       ELSE [rest EXCEPT !.closed = TRUE, !.up = FALSE]]
  /\ UNCHANGED <<matched, head, epoch, shut, known>>

\* Mutant: the socket is left to the other pump.
PumpEndsOpen(c, rest) ==
  /\ clients' = clients \ {c}
  /\ todo' = todo \ {c}
  /\ connN' = IF c \in clients THEN connN - 1 ELSE connN
  /\ wg' = wg - 1
  /\ conn' = [conn EXCEPT ![c] =
       IF rest.reader = "gone" /\ rest.writer = "gone" THEN Off ELSE rest]
  /\ UNCHANGED <<matched, head, epoch, shut, known>>

\* A pump that ends closes the socket, removes the client, once, and counts
\* itself out.
PumpEnds(c, rest) ==
  /\ clients' = clients \ {c}
  /\ todo' = todo \ {c}
  /\ connN' = IF c \in clients THEN connN - 1 ELSE connN
  /\ wg' = wg - 1
  /\ conn' = [conn EXCEPT ![c] =
       IF rest.reader = "gone" /\ rest.writer = "gone" THEN Off
       ELSE [rest EXCEPT !.closed = TRUE, !.up = FALSE]]
  /\ UNCHANGED <<matched, head, epoch, shut, known>>

\* readLoop: the peer or this side closed, a deadline passed, or a frame broke
\* the protocol.
ReaderEnds(c) == /\ conn[c].reader = "idle"
                 /\ PumpEnds(c, [conn[c] EXCEPT !.reader = "gone"])

\* writeLoop looks for a kick first.
WriterTop(c) == /\ conn[c].writer = "top" /\ ~conn[c].kicked
                /\ conn' = [conn EXCEPT ![c].writer = "select"]
                /\ UNCHANGED <<hub, counts, known>>

WriterWrites(c) ==
  /\ conn[c].writer = "select" /\ conn[c].out # <<>>
  /\ ~conn[c].closed
  /\ Receive(c, Head(conn[c].out))
  /\ conn' = [conn EXCEPT ![c] = [conn[c] EXCEPT !.writer = "top",
                                                 !.out = Tail(conn[c].out)]]
  /\ UNCHANGED <<hub, counts>>

\* It was kicked, the socket is closed, or a write or ping failed.
WriterEnds(c) ==
  /\ \/ conn[c].writer = "top" /\ conn[c].kicked
     \/ conn[c].writer = "select" /\ (conn[c].kicked \/ conn[c].closed \/ ~conn[c].up)
  /\ PumpEnds(c, [conn[c] EXCEPT !.writer = "gone"])

\* The client goes away, or its network does.
Leave(c) == /\ conn[c].up
            /\ conn' = [conn EXCEPT ![c].up = FALSE]
            /\ UNCHANGED <<hub, counts, known>>

-----------------------------------------------------------------------------
(* Shutdown.                                                               *)

\* signalClients: sendClose, or the SSE shutdown channel.
Signalled == [c \in Clients |->
                CASE c \in clients \cap WS -> [conn[c] EXCEPT !.closed = TRUE, !.up = FALSE]
                  [] c \in clients \cap SSE -> [conn[c] EXCEPT !.kicked = TRUE]
                  [] OTHER -> conn[c]]

\* HubConfig.ShuttingDown: the clients are told, the hub stays open.
ServerDrains == /\ shut = "open"
                /\ conn' = Signalled
                /\ UNCHANGED <<hub, counts, known>>

Close == /\ shut = "open"
         /\ shut' = "closed"
         /\ UNCHANGED <<matched, head, epoch, todo, counts, conn, known>>

SignalClients == /\ shut = "closed"
                 /\ shut' = "waiting"
                 /\ conn' = Signalled
                 /\ UNCHANGED <<matched, head, epoch, todo, counts, known>>

\* wg.Wait returned before ctx ran out.
Drained == /\ shut = "waiting" /\ wg = 0
           /\ shut' = "drained"
           /\ UNCHANGED <<matched, head, epoch, todo, counts, conn, known>>

\* The process stops, in order or not, and another takes its place.
Restart == /\ epoch <= MaxRestarts
           /\ epoch' = epoch + 1
           /\ head' = 0 /\ todo' = {} /\ clients' = {}
           /\ connN' = 0 /\ wg' = 0 /\ shut' = "open"
           /\ conn' = [c \in Clients |-> Off]
           /\ client' = [c \in Clients |-> [client[c] EXCEPT !.seen = Unknown]]
           /\ UNCHANGED <<matched, lost, excused>>

Step(c) == \/ Dial(c) \/ HandshakeFails(c) \/ Register(c)
           \/ Deliver(c)
           \/ ReplaySSE(c) \/ WriteBacklog(c) \/ RunWrites(c) \/ RunEnds(c)
           \/ HookPanics(c)
           \/ Subscribe(c) \/ Unsubscribe(c) \/ ReplayWS(c) \/ EnqueueBacklog(c)
           \/ ReaderEnds(c) \/ WriterTop(c) \/ WriterWrites(c) \/ WriterEnds(c)
           \/ Leave(c)

Next == \/ \E c \in Clients : Step(c)
        \/ Fanout \/ ServerDrains \/ Close \/ SignalClients \/ Drained
        \/ Restart

Spec == Init /\ [][Next]_vars

\* Goroutines are scheduled, and every read and write has a deadline.
Handler(c) == \/ Register(c) \/ ReplaySSE(c) \/ WriteBacklog(c) \/ RunEnds(c)
              \/ ReplayWS(c) \/ EnqueueBacklog(c)
              \/ ReaderEnds(c) /\ conn[c].closed
Writer(c) == WriterTop(c) \/ WriterEnds(c)
FairSpec == /\ Spec
            /\ \A c \in Clients : WF_vars(Handler(c))
            /\ \A c \in WS : WF_vars(Writer(c))
            /\ WF_vars(SignalClients)

-----------------------------------------------------------------------------
(* Properties.                                                             *)

\* A client never gets past an event it did not get without being told to
\* resync, through disconnects, kicks, evictions and restarts (realtime.md:
\* "instead of silently missing events"), outside of three windows: an SSE
\* buffer that takes events again after it dropped one, live events that reach
\* a WebSocket ahead of its replay, and a resync message that finds its buffer
\* full.
NoSilentGap == lost \subseteq excused

Coming == {c \in Clients : conn[c].ph = "admitted"}

\* The hub never has more connections than MaxConnections, however they fail to
\* come up, end, or end twice (admit, release, remove).
CapHolds == MaxConnections > 0 => Cardinality(Coming \cup clients) <= MaxConnections

\* Once Shutdown returned without an error nothing is open, and nothing opens
\* any more (register).
NoneLeftOpen == shut = "drained" => \A c \in Clients : conn[c].ph \in {"off", "admitted"}

\* Every connection ends once Shutdown was called: no pump is left to wait for
\* the other (hubClient.close).
ShutdownEnds == shut # "open" ~> \A c \in Clients : conn[c].ph \in {"off", "admitted"}

-----------------------------------------------------------------------------
(* The inductive invariant behind CapHolds and NoneLeftOpen.               *)

SSELoops == {c \in Clients : conn[c].ph \in {"replay", "backlog", "run"}}
Open == {c \in Clients : conn[c].ph = "open"}
Readers == {c \in Clients : conn[c].reader # "gone"}
Writers == {c \in Clients : conn[c].writer # "gone"}

\* What the handler of each transport runs, and whom the hub knows.
ShapeInv ==
  \A c \in Clients :
    /\ c \in SSE => /\ c \notin Open \cup Readers \cup Writers
                    /\ c \in clients <=> c \in SSELoops
    /\ c \in WS => /\ c \notin SSELoops
                   /\ c \in Open <=> c \in Readers \cup Writers
                   /\ c \in clients <=> c \in Readers \cap Writers

CountInv ==
  /\ connN = Cardinality(Coming \cup clients)
  /\ wg = Cardinality(SSELoops) + Cardinality(Readers) + Cardinality(Writers)

IInv == TypeOK /\ ShapeInv /\ CountInv /\ CapHolds /\ NoneLeftOpen
=============================================================================

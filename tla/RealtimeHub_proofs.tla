------------------------- MODULE RealtimeHub_proofs -------------------------
(***************************************************************************)
(* The counters of the hub, its connection cap and its shutdown, and what  *)
(* reaches a client without a gap, for any clients, buffers and bounds.    *)
(***************************************************************************)
EXTENDS RealtimeHub, FiniteSetTheorems, TLAPS

Assumptions == /\ ClientsAssumption /\ InterestsAssumption
               /\ BuffersAssumption /\ BoundsAssumption

-----------------------------------------------------------------------------
(* Types.                                                                  *)

LEMMA OffType == Off \in ConnType
BY SMT DEF Off, ConnType

\* What a connection receives, replays or forgets keeps its type.
LEMMA MissedType ==
  ASSUME NEW c \in Clients, TypeOK PROVE Missed(c) \in Seq(Frames)
<1> DEFINE cur == client[c].cur
           n == head - Before(cur)
<1>1. cur.seq \in Nat /\ head \in Nat
  BY SMT DEF TypeOK, ClientType
<1>2. Oldest \in Nat /\ Oldest >= 1
  BY <1>1, BuffersAssumption, SMT DEF Oldest
<1>3. Before(cur) \in Nat
  BY <1>1, <1>2, SMT DEF Before
<1> HIDE DEF cur
<1>4. \A b, m \in Nat : [i \in 1 .. m |-> b + i] \in Seq(Nat)
  OBVIOUS
<1>5. n \in Nat \/ 1 .. n = 1 .. 0
  BY <1>1, <1>3, SMT
<1>6. [i \in 1 .. n |-> Before(cur) + i] \in Seq(Nat)
  <2>1. CASE n \in Nat
    BY <1>3, <1>4, <2>1
  <2>2. CASE 1 .. n = 1 .. 0
    BY <1>3, <1>4, <2>2
  <2> QED BY <1>5, <2>1, <2>2
<1>7. <<>> \in Seq(Nat)
  OBVIOUS
<1> QED BY <1>6, <1>7 DEF Missed, Frames, cur

LEMMA Queues ==
  /\ <<>> \in Seq(Frames) /\ <<Resync>> \in Seq(Frames)
  /\ \A s \in Seq(Frames) : s # <<>> => Tail(s) \in Seq(Frames) /\ Head(s) \in Frames
  /\ \A s \in Seq(Frames), f \in Frames : Append(s, f) \in Seq(Frames)
BY SMT DEF Frames, Resync

LEMMA ReceiveType ==
  ASSUME NEW c \in Clients, NEW f \in Frames, TypeOK, Receive(c, f)
  PROVE /\ client' \in [Clients -> ClientType]
        /\ lost' \subseteq Clients /\ excused' \subseteq Clients
BY SMT DEF Receive, TypeOK, ClientType, Frames, known

LEMMA InitType == ASSUME Assumptions, Init PROVE TypeOK
<1>1. conn \in [Clients -> ConnType]
  BY OffType, SMT DEF Init
<1>2. client \in [Clients -> ClientType]
  BY SMT DEF Init, ClientType, NoCursor
<1>3. epoch \in 1 .. MaxRestarts + 1
  BY SMT DEF Init, Assumptions, BoundsAssumption
<1> QED BY <1>1, <1>2, <1>3, SMT DEF Init, TypeOK, Assumptions, InterestsAssumption

\* The updates of a connection keep its type.
LEMMA PhTyped ==
  ASSUME NEW k \in ConnType, NEW v \in {"off", "admitted", "replay", "backlog", "run", "open"} PROVE [k EXCEPT !.ph = v] \in ConnType
BY SMT DEF ConnType

LEMMA ReaderTyped ==
  ASSUME NEW k \in ConnType, NEW v \in {"gone", "idle", "replay", "backlog"} PROVE [k EXCEPT !.reader = v] \in ConnType
BY SMT DEF ConnType

LEMMA WriterTyped ==
  ASSUME NEW k \in ConnType, NEW v \in {"gone", "top", "select"} PROVE [k EXCEPT !.writer = v] \in ConnType
BY SMT DEF ConnType

LEMMA OutTyped ==
  ASSUME NEW k \in ConnType, NEW v \in Seq(Frames) PROVE [k EXCEPT !.out = v] \in ConnType
BY SMTT(30) DEF ConnType

LEMMA BacklogTyped ==
  ASSUME NEW k \in ConnType, NEW v \in Seq(Frames) PROVE [k EXCEPT !.backlog = v] \in ConnType
BY SMTT(30) DEF ConnType

LEMMA SubTyped ==
  ASSUME NEW k \in ConnType, NEW v \in BOOLEAN PROVE [k EXCEPT !.sub = v] \in ConnType
BY SMT DEF ConnType

LEMMA KickedTyped ==
  ASSUME NEW k \in ConnType, NEW v \in BOOLEAN PROVE [k EXCEPT !.kicked = v] \in ConnType
BY SMT DEF ConnType

LEMMA DroppedTyped ==
  ASSUME NEW k \in ConnType, NEW v \in BOOLEAN PROVE [k EXCEPT !.dropped = v] \in ConnType
BY SMT DEF ConnType

LEMMA ClosedTyped ==
  ASSUME NEW k \in ConnType, NEW v \in BOOLEAN PROVE [k EXCEPT !.closed = v] \in ConnType
BY SMT DEF ConnType

LEMMA UpTyped ==
  ASSUME NEW k \in ConnType, NEW v \in BOOLEAN PROVE [k EXCEPT !.up = v] \in ConnType
BY SMT DEF ConnType

LEMMA Updates ==
  ASSUME NEW k \in ConnType, NEW q \in Seq(Frames), NEW b \in Seq(Frames)
  PROVE
    /\ [k EXCEPT !.ph = "admitted", !.up = TRUE] \in ConnType
    /\ [k EXCEPT !.ph = "replay", !.sub = TRUE] \in ConnType
    /\ [k EXCEPT !.ph = "open", !.reader = "idle", !.writer = "top"] \in ConnType
    /\ [k EXCEPT !.out = q] \in ConnType
    /\ [k EXCEPT !.kicked = TRUE, !.dropped = TRUE] \in ConnType
    /\ [k EXCEPT !.ph = "backlog", !.backlog = b] \in ConnType
    /\ [k EXCEPT !.backlog = b] \in ConnType
    /\ [k EXCEPT !.ph = "run", !.backlog = b] \in ConnType
    /\ [k EXCEPT !.sub = TRUE, !.reader = "idle"] \in ConnType
    /\ [k EXCEPT !.sub = TRUE, !.reader = "replay"] \in ConnType
    /\ [k EXCEPT !.sub = FALSE] \in ConnType
    /\ [k EXCEPT !.reader = "backlog", !.backlog = b] \in ConnType
    /\ [k EXCEPT !.reader = "idle", !.out = q] \in ConnType
    /\ [k EXCEPT !.reader = "idle"] \in ConnType
    /\ [k EXCEPT !.out = q, !.backlog = b] \in ConnType
    /\ [k EXCEPT !.reader = "idle", !.backlog = b] \in ConnType
    /\ [k EXCEPT !.reader = "gone"] \in ConnType
    /\ [k EXCEPT !.writer = "gone"] \in ConnType
    /\ [k EXCEPT !.closed = TRUE, !.up = FALSE] \in ConnType
    /\ [k EXCEPT !.writer = "select"] \in ConnType
    /\ [k EXCEPT !.writer = "top", !.out = q] \in ConnType
    /\ [k EXCEPT !.up = FALSE] \in ConnType
    /\ [k EXCEPT !.kicked = TRUE] \in ConnType
<1>1. [k EXCEPT !.ph = "admitted", !.up = TRUE] \in ConnType
  <2>1. [k EXCEPT !.ph = "admitted"] \in ConnType
    BY PhTyped
  <2>2. [[k EXCEPT !.ph = "admitted"] EXCEPT !.up = TRUE] \in ConnType
    BY <2>1, UpTyped
  <2>3. [k EXCEPT !.ph = "admitted", !.up = TRUE] = [[k EXCEPT !.ph = "admitted"] EXCEPT !.up = TRUE]
    OBVIOUS
  <2> QED BY <2>2, <2>3
<1>2. [k EXCEPT !.ph = "replay", !.sub = TRUE] \in ConnType
  <2>1. [k EXCEPT !.ph = "replay"] \in ConnType
    BY PhTyped
  <2>2. [[k EXCEPT !.ph = "replay"] EXCEPT !.sub = TRUE] \in ConnType
    BY <2>1, SubTyped
  <2>3. [k EXCEPT !.ph = "replay", !.sub = TRUE] = [[k EXCEPT !.ph = "replay"] EXCEPT !.sub = TRUE]
    OBVIOUS
  <2> QED BY <2>2, <2>3
<1>3. [k EXCEPT !.ph = "open", !.reader = "idle", !.writer = "top"] \in ConnType
  <2>1. [k EXCEPT !.ph = "open"] \in ConnType
    BY PhTyped
  <2>2. [[k EXCEPT !.ph = "open"] EXCEPT !.reader = "idle"] \in ConnType
    BY <2>1, ReaderTyped
  <2>3. [[[k EXCEPT !.ph = "open"] EXCEPT !.reader = "idle"] EXCEPT !.writer = "top"] \in ConnType
    BY <2>2, WriterTyped
  <2>4. [k EXCEPT !.ph = "open", !.reader = "idle", !.writer = "top"] = [[[k EXCEPT !.ph = "open"] EXCEPT !.reader = "idle"] EXCEPT !.writer = "top"]
    OBVIOUS
  <2> QED BY <2>3, <2>4
<1>4. [k EXCEPT !.out = q] \in ConnType
  BY OutTyped
<1>5. [k EXCEPT !.kicked = TRUE, !.dropped = TRUE] \in ConnType
  <2>1. [k EXCEPT !.kicked = TRUE] \in ConnType
    BY KickedTyped
  <2>2. [[k EXCEPT !.kicked = TRUE] EXCEPT !.dropped = TRUE] \in ConnType
    BY <2>1, DroppedTyped
  <2>3. [k EXCEPT !.kicked = TRUE, !.dropped = TRUE] = [[k EXCEPT !.kicked = TRUE] EXCEPT !.dropped = TRUE]
    OBVIOUS
  <2> QED BY <2>2, <2>3
<1>6. [k EXCEPT !.ph = "backlog", !.backlog = b] \in ConnType
  <2>1. [k EXCEPT !.ph = "backlog"] \in ConnType
    BY PhTyped
  <2>2. [[k EXCEPT !.ph = "backlog"] EXCEPT !.backlog = b] \in ConnType
    BY <2>1, BacklogTyped
  <2>3. [k EXCEPT !.ph = "backlog", !.backlog = b] = [[k EXCEPT !.ph = "backlog"] EXCEPT !.backlog = b]
    OBVIOUS
  <2> QED BY <2>2, <2>3
<1>7. [k EXCEPT !.backlog = b] \in ConnType
  BY BacklogTyped
<1>8. [k EXCEPT !.ph = "run", !.backlog = b] \in ConnType
  <2>1. [k EXCEPT !.ph = "run"] \in ConnType
    BY PhTyped
  <2>2. [[k EXCEPT !.ph = "run"] EXCEPT !.backlog = b] \in ConnType
    BY <2>1, BacklogTyped
  <2>3. [k EXCEPT !.ph = "run", !.backlog = b] = [[k EXCEPT !.ph = "run"] EXCEPT !.backlog = b]
    OBVIOUS
  <2> QED BY <2>2, <2>3
<1>9. [k EXCEPT !.sub = TRUE, !.reader = "idle"] \in ConnType
  <2>1. [k EXCEPT !.sub = TRUE] \in ConnType
    BY SubTyped
  <2>2. [[k EXCEPT !.sub = TRUE] EXCEPT !.reader = "idle"] \in ConnType
    BY <2>1, ReaderTyped
  <2>3. [k EXCEPT !.sub = TRUE, !.reader = "idle"] = [[k EXCEPT !.sub = TRUE] EXCEPT !.reader = "idle"]
    OBVIOUS
  <2> QED BY <2>2, <2>3
<1>10. [k EXCEPT !.sub = TRUE, !.reader = "replay"] \in ConnType
  <2>1. [k EXCEPT !.sub = TRUE] \in ConnType
    BY SubTyped
  <2>2. [[k EXCEPT !.sub = TRUE] EXCEPT !.reader = "replay"] \in ConnType
    BY <2>1, ReaderTyped
  <2>3. [k EXCEPT !.sub = TRUE, !.reader = "replay"] = [[k EXCEPT !.sub = TRUE] EXCEPT !.reader = "replay"]
    OBVIOUS
  <2> QED BY <2>2, <2>3
<1>11. [k EXCEPT !.sub = FALSE] \in ConnType
  BY SubTyped
<1>12. [k EXCEPT !.reader = "backlog", !.backlog = b] \in ConnType
  <2>1. [k EXCEPT !.reader = "backlog"] \in ConnType
    BY ReaderTyped
  <2>2. [[k EXCEPT !.reader = "backlog"] EXCEPT !.backlog = b] \in ConnType
    BY <2>1, BacklogTyped
  <2>3. [k EXCEPT !.reader = "backlog", !.backlog = b] = [[k EXCEPT !.reader = "backlog"] EXCEPT !.backlog = b]
    OBVIOUS
  <2> QED BY <2>2, <2>3
<1>13. [k EXCEPT !.reader = "idle", !.out = q] \in ConnType
  <2>1. [k EXCEPT !.reader = "idle"] \in ConnType
    BY ReaderTyped
  <2>2. [[k EXCEPT !.reader = "idle"] EXCEPT !.out = q] \in ConnType
    BY <2>1, OutTyped
  <2>3. [k EXCEPT !.reader = "idle", !.out = q] = [[k EXCEPT !.reader = "idle"] EXCEPT !.out = q]
    OBVIOUS
  <2> QED BY <2>2, <2>3
<1>14. [k EXCEPT !.reader = "idle"] \in ConnType
  BY ReaderTyped
<1>15. [k EXCEPT !.out = q, !.backlog = b] \in ConnType
  <2>1. [k EXCEPT !.out = q] \in ConnType
    BY OutTyped
  <2>2. [[k EXCEPT !.out = q] EXCEPT !.backlog = b] \in ConnType
    BY <2>1, BacklogTyped
  <2>3. [k EXCEPT !.out = q, !.backlog = b] = [[k EXCEPT !.out = q] EXCEPT !.backlog = b]
    OBVIOUS
  <2> QED BY <2>2, <2>3
<1>16. [k EXCEPT !.reader = "idle", !.backlog = b] \in ConnType
  <2>1. [k EXCEPT !.reader = "idle"] \in ConnType
    BY ReaderTyped
  <2>2. [[k EXCEPT !.reader = "idle"] EXCEPT !.backlog = b] \in ConnType
    BY <2>1, BacklogTyped
  <2>3. [k EXCEPT !.reader = "idle", !.backlog = b] = [[k EXCEPT !.reader = "idle"] EXCEPT !.backlog = b]
    OBVIOUS
  <2> QED BY <2>2, <2>3
<1>17. [k EXCEPT !.reader = "gone"] \in ConnType
  BY ReaderTyped
<1>18. [k EXCEPT !.writer = "gone"] \in ConnType
  BY WriterTyped
<1>19. [k EXCEPT !.closed = TRUE, !.up = FALSE] \in ConnType
  <2>1. [k EXCEPT !.closed = TRUE] \in ConnType
    BY ClosedTyped
  <2>2. [[k EXCEPT !.closed = TRUE] EXCEPT !.up = FALSE] \in ConnType
    BY <2>1, UpTyped
  <2>3. [k EXCEPT !.closed = TRUE, !.up = FALSE] = [[k EXCEPT !.closed = TRUE] EXCEPT !.up = FALSE]
    OBVIOUS
  <2> QED BY <2>2, <2>3
<1>20. [k EXCEPT !.writer = "select"] \in ConnType
  BY WriterTyped
<1>21. [k EXCEPT !.writer = "top", !.out = q] \in ConnType
  <2>1. [k EXCEPT !.writer = "top"] \in ConnType
    BY WriterTyped
  <2>2. [[k EXCEPT !.writer = "top"] EXCEPT !.out = q] \in ConnType
    BY <2>1, OutTyped
  <2>3. [k EXCEPT !.writer = "top", !.out = q] = [[k EXCEPT !.writer = "top"] EXCEPT !.out = q]
    OBVIOUS
  <2> QED BY <2>2, <2>3
<1>22. [k EXCEPT !.up = FALSE] \in ConnType
  BY UpTyped
<1>23. [k EXCEPT !.kicked = TRUE] \in ConnType
  BY KickedTyped
<1> QED
  BY <1>1, <1>2, <1>3, <1>4, <1>5, <1>6, <1>7, <1>8, <1>9, <1>10, <1>11, <1>12, <1>13, <1>14, <1>15, <1>16, <1>17, <1>18, <1>19, <1>20, <1>21, <1>22, <1>23

LEMMA NextType == ASSUME Assumptions, TypeOK, [Next]_vars PROVE TypeOK'
<1> USE DEF hub, counts, known
<1> DEFINE Becomes(c, k) == conn' = [conn EXCEPT ![c] = k]
<1>0. ASSUME NEW c \in Clients, NEW k \in ConnType, Becomes(c, k)
      PROVE conn' \in [Clients -> ConnType]
  BY <1>0, SMT DEF TypeOK
<1>1. ASSUME NEW c \in Clients, Dial(c) PROVE TypeOK'
  <2>1. conn[c] \in ConnType
    BY DEF TypeOK
  <2>2. Off \in ConnType
    BY OffType
  <2>3. [Off EXCEPT !.ph = "admitted", !.up = TRUE] \in ConnType
    BY OffType, Queues, Updates
  <2>4. \/ Becomes(c, Off)
        \/ Becomes(c, [Off EXCEPT !.ph = "admitted", !.up = TRUE])
    BY <1>1, SMT DEF Dial
  <2>5. conn' \in [Clients -> ConnType]
    BY <1>0, <2>2, <2>3, <2>4
  <2> QED BY <1>1, <2>5, SMT DEF TypeOK, Dial
<1>2. ASSUME NEW c \in Clients, HandshakeFails(c) PROVE TypeOK'
  <2>1. conn[c] \in ConnType
    BY DEF TypeOK
  <2>2. Off \in ConnType
    BY OffType
  <2>3. Becomes(c, Off)
    BY <1>2, SMT DEF HandshakeFails, Release
  <2>4. conn' \in [Clients -> ConnType]
    BY <1>0, <2>2, <2>3
  <2> QED BY <1>2, <2>4, SMT DEF TypeOK, HandshakeFails, Release
<1>3. ASSUME NEW c \in Clients, Register(c) PROVE TypeOK'
  <2>1. conn[c] \in ConnType
    BY DEF TypeOK
  <2>2. Off \in ConnType
    BY OffType
  <2>3. [conn[c] EXCEPT !.ph = "replay", !.sub = TRUE] \in ConnType
    BY <2>1, Queues, Updates
  <2>4. [conn[c] EXCEPT !.ph = "open", !.reader = "idle", !.writer = "top"] \in ConnType
    BY <2>1, Queues, Updates
  <2>5. \/ Becomes(c, Off)
        \/ Becomes(c, [conn[c] EXCEPT !.ph = "replay", !.sub = TRUE])
        \/ Becomes(c, [conn[c] EXCEPT !.ph = "open", !.reader = "idle", !.writer = "top"])
    BY <1>3, SMT DEF Register, Enter, Release
  <2>6. conn' \in [Clients -> ConnType]
    BY <1>0, <2>2, <2>3, <2>4, <2>5
  <2> QED BY <1>3, <2>6, SMT DEF TypeOK, Register, Enter, Release, Fetched, ClientType
<1>4. ASSUME NEW c \in Clients, Deliver(c) PROVE TypeOK'
  <2>1. conn[c] \in ConnType
    BY DEF TypeOK
  <2>2. conn[c].out \in Seq(Frames) /\ conn[c].backlog \in Seq(Frames)
    BY <2>1, SMT DEF ConnType
  <2>3. head \in Frames
    BY DEF TypeOK, Frames
  <2>4. [conn[c] EXCEPT !.out = Append(conn[c].out, head)] \in ConnType
    BY <2>1, <2>2, Queues, <2>3, Updates
  <2>5. Kicked(c) \in ConnType
    BY <2>1, <2>2, Queues, <2>3, Updates DEF Kicked
  <2>6. \/ Becomes(c, [conn[c] EXCEPT !.out = Append(conn[c].out, head)])
        \/ Becomes(c, Kicked(c))
        \/ conn' = conn
    BY <1>4, SMT DEF Deliver
  <2>7. conn' \in [Clients -> ConnType]
    BY <1>0, <2>4, <2>5, <2>6 DEF TypeOK, Deliver
  <2> QED BY <1>4, <2>7, SMT DEF TypeOK, Deliver
<1>5. ASSUME NEW c \in Clients, ReplaySSE(c) PROVE TypeOK'
  <2>1. conn[c] \in ConnType
    BY DEF TypeOK
  <2>2. conn[c].out \in Seq(Frames) /\ conn[c].backlog \in Seq(Frames)
    BY <2>1, SMT DEF ConnType
  <2>3. Missed(c) \in Seq(Frames)
    BY MissedType
  <2>4. [conn[c] EXCEPT !.ph = "backlog", !.backlog = <<>>] \in ConnType
    BY <2>1, <2>2, Queues, <2>3, Updates
  <2>5. [conn[c] EXCEPT !.ph = "backlog", !.backlog = Missed(c)] \in ConnType
    BY <2>1, <2>2, Queues, <2>3, Updates
  <2>6. [conn[c] EXCEPT !.ph = "backlog", !.backlog = <<Resync>>] \in ConnType
    BY <2>1, <2>2, Queues, <2>3, Updates
  <2>7. \/ Becomes(c, [conn[c] EXCEPT !.ph = "backlog", !.backlog = <<>>])
        \/ Becomes(c, [conn[c] EXCEPT !.ph = "backlog", !.backlog = Missed(c)])
        \/ Becomes(c, [conn[c] EXCEPT !.ph = "backlog", !.backlog = <<Resync>>])
    BY <1>5 DEF ReplaySSE
  <2>8. conn' \in [Clients -> ConnType]
    BY <1>0, <2>4, <2>5, <2>6, <2>7
  <2> QED BY <1>5, <2>8, SMT DEF TypeOK, ReplaySSE
<1>6. ASSUME NEW c \in Clients, WriteBacklog(c) PROVE TypeOK'
  <2>1. conn[c] \in ConnType
    BY DEF TypeOK
  <2>2. conn[c].out \in Seq(Frames) /\ conn[c].backlog \in Seq(Frames)
    BY <2>1, SMT DEF ConnType
  <2>3. conn[c].backlog # <<>> => [conn[c] EXCEPT !.backlog = Tail(conn[c].backlog)] \in ConnType
    BY <2>1, <2>2, Queues, Updates
  <2>4. [conn[c] EXCEPT !.ph = "run", !.backlog = <<>>] \in ConnType
    BY <2>1, <2>2, Queues, Updates
  <2>5. \/ Becomes(c, [conn[c] EXCEPT !.backlog = Tail(conn[c].backlog)])
        \/ Becomes(c, [conn[c] EXCEPT !.ph = "run", !.backlog = <<>>])
    BY <1>6, SMT DEF WriteBacklog
  <2>6. conn' \in [Clients -> ConnType]
    BY <1>6, <1>0, <2>3, <2>4, <2>5 DEF TypeOK, WriteBacklog
  <2>7. \/ UNCHANGED known
        \/ /\ client' \in [Clients -> ClientType]
           /\ lost' \subseteq Clients /\ excused' \subseteq Clients
    BY <1>6, <2>2, Queues, ReceiveType DEF WriteBacklog
  <2> QED BY <1>6, <2>6, <2>7, SMT DEF TypeOK, WriteBacklog
<1>7. ASSUME NEW c \in Clients, RunWrites(c) PROVE TypeOK'
  <2>1. conn[c] \in ConnType
    BY DEF TypeOK
  <2>2. conn[c].out \in Seq(Frames) /\ conn[c].backlog \in Seq(Frames)
    BY <2>1, SMT DEF ConnType
  <2>3. conn[c].out # <<>> => [conn[c] EXCEPT !.out = Tail(conn[c].out)] \in ConnType
    BY <2>1, <2>2, Queues, Updates
  <2>4. Becomes(c, [conn[c] EXCEPT !.out = Tail(conn[c].out)])
    BY <1>7, SMT DEF RunWrites
  <2>5. conn' \in [Clients -> ConnType]
    BY <1>7, <1>0, <2>3, <2>4 DEF TypeOK, RunWrites
  <2>6. /\ client' \in [Clients -> ClientType]
        /\ lost' \subseteq Clients /\ excused' \subseteq Clients
    BY <1>7, <2>2, Queues, ReceiveType DEF RunWrites
  <2> QED BY <1>7, <2>5, <2>6, SMT DEF TypeOK, RunWrites
<1>8. ASSUME NEW c \in Clients, RunEnds(c) PROVE TypeOK'
  <2>1. conn[c] \in ConnType
    BY DEF TypeOK
  <2>2. Off \in ConnType
    BY OffType
  <2>3. Becomes(c, Off)
    BY <1>8, SMT DEF RunEnds, CleanUp
  <2>4. conn' \in [Clients -> ConnType]
    BY <1>0, <2>2, <2>3
  <2> QED BY <1>8, <2>4, SMT DEF TypeOK, RunEnds, CleanUp
<1>9. ASSUME NEW c \in Clients, HookPanics(c) PROVE TypeOK'
  <2>1. conn[c] \in ConnType
    BY DEF TypeOK
  <2>2. Off \in ConnType
    BY OffType
  <2>3. Becomes(c, Off)
    BY <1>9, SMT DEF HookPanics, CleanUp
  <2>4. conn' \in [Clients -> ConnType]
    BY <1>0, <2>2, <2>3
  <2> QED BY <1>9, <2>4, SMT DEF TypeOK, HookPanics, CleanUp
<1>10. ASSUME NEW c \in Clients, Subscribe(c) PROVE TypeOK'
  <2>1. conn[c] \in ConnType
    BY DEF TypeOK
  <2>2. [conn[c] EXCEPT !.sub = TRUE, !.reader = IF Fresh(c) THEN "idle" ELSE "replay"] \in ConnType
    BY <2>1, Queues, Updates
  <2>3. Becomes(c, [conn[c] EXCEPT !.sub = TRUE, !.reader = IF Fresh(c) THEN "idle" ELSE "replay"])
    BY <1>10, SMT DEF Subscribe
  <2>4. conn' \in [Clients -> ConnType]
    BY <1>0, <2>2, <2>3
  <2> QED BY <1>10, <2>4, SMT DEF TypeOK, Subscribe, Fetched, ClientType
<1>11. ASSUME NEW c \in Clients, Unsubscribe(c) PROVE TypeOK'
  <2>1. conn[c] \in ConnType
    BY DEF TypeOK
  <2>2. [conn[c] EXCEPT !.sub = FALSE] \in ConnType
    BY <2>1, Queues, Updates
  <2>3. Becomes(c, [conn[c] EXCEPT !.sub = FALSE])
    BY <1>11, SMT DEF Unsubscribe
  <2>4. conn' \in [Clients -> ConnType]
    BY <1>0, <2>2, <2>3
  <2> QED BY <1>11, <2>4, SMT DEF TypeOK, Unsubscribe
<1>12. ASSUME NEW c \in Clients, ReplayWS(c) PROVE TypeOK'
  <2>1. conn[c] \in ConnType
    BY DEF TypeOK
  <2>2. conn[c].out \in Seq(Frames) /\ conn[c].backlog \in Seq(Frames)
    BY <2>1, SMT DEF ConnType
  <2>3. Missed(c) \in Seq(Frames)
    BY MissedType
  <2>4. Resync \in Frames
    BY DEF Resync, Frames
  <2>5. [conn[c] EXCEPT !.reader = "backlog", !.backlog = Missed(c)] \in ConnType
    BY <2>1, <2>2, Queues, <2>3, <2>4, Updates
  <2>6. [conn[c] EXCEPT !.reader = "idle", !.out = IF Room(c) THEN Append(conn[c].out, Resync) ELSE conn[c].out] \in ConnType
    BY <2>1, <2>2, Queues, <2>3, <2>4, Updates
  <2>7. \/ Becomes(c, [conn[c] EXCEPT !.reader = "backlog", !.backlog = Missed(c)])
        \/ Becomes(c, [conn[c] EXCEPT !.reader = "idle", !.out = IF Room(c) THEN Append(conn[c].out, Resync) ELSE conn[c].out])
    BY <1>12, SMT DEF ReplayWS
  <2>8. conn' \in [Clients -> ConnType]
    BY <1>0, <2>5, <2>6, <2>7
  <2> QED BY <1>12, <2>8, SMT DEF TypeOK, ReplayWS
<1>13. ASSUME NEW c \in Clients, EnqueueBacklog(c) PROVE TypeOK'
  <2>1. conn[c] \in ConnType
    BY DEF TypeOK
  <2>2. conn[c].out \in Seq(Frames) /\ conn[c].backlog \in Seq(Frames)
    BY <2>1, SMT DEF ConnType
  <2>3. [conn[c] EXCEPT !.reader = "idle"] \in ConnType
    BY <2>1, <2>2, Queues, Updates
  <2>4. conn[c].backlog # <<>> => [conn[c] EXCEPT !.out = Append(conn[c].out, Head(conn[c].backlog)), !.backlog = Tail(conn[c].backlog)] \in ConnType
    BY <2>1, <2>2, Queues, Updates
  <2>5. [Kicked(c) EXCEPT !.reader = "idle", !.backlog = <<>>] \in ConnType
    BY <2>1, <2>2, Queues, Updates DEF Kicked
  <2>6. \/ Becomes(c, [conn[c] EXCEPT !.reader = "idle"])
        \/ Becomes(c, [conn[c] EXCEPT !.out = Append(conn[c].out, Head(conn[c].backlog)), !.backlog = Tail(conn[c].backlog)])
        \/ Becomes(c, [Kicked(c) EXCEPT !.reader = "idle", !.backlog = <<>>])
    BY <1>13, SMT DEF EnqueueBacklog
  <2>7. conn' \in [Clients -> ConnType]
    BY <1>13, <1>0, <2>3, <2>4, <2>5, <2>6 DEF TypeOK, EnqueueBacklog
  <2> QED BY <1>13, <2>7, SMT DEF TypeOK, EnqueueBacklog
<1>14. ASSUME NEW c \in Clients, ReaderEnds(c) PROVE TypeOK'
  <2>1. conn[c] \in ConnType
    BY DEF TypeOK
  <2>2. Off \in ConnType
    BY OffType
  <2>3. [[conn[c] EXCEPT !.reader = "gone"] EXCEPT !.closed = TRUE, !.up = FALSE] \in ConnType
    BY <2>1, Queues, Updates
  <2>4. \/ Becomes(c, Off)
        \/ Becomes(c, [[conn[c] EXCEPT !.reader = "gone"] EXCEPT !.closed = TRUE, !.up = FALSE])
    BY <1>14 DEF ReaderEnds, PumpEnds
  <2>5. conn' \in [Clients -> ConnType]
    BY <1>0, <2>2, <2>3, <2>4
  <2> QED BY <1>14, <2>5, SMT DEF TypeOK, ReaderEnds, PumpEnds
<1>15. ASSUME NEW c \in Clients, WriterTop(c) PROVE TypeOK'
  <2>1. conn[c] \in ConnType
    BY DEF TypeOK
  <2>2. [conn[c] EXCEPT !.writer = "select"] \in ConnType
    BY <2>1, Queues, Updates
  <2>3. Becomes(c, [conn[c] EXCEPT !.writer = "select"])
    BY <1>15, SMT DEF WriterTop
  <2>4. conn' \in [Clients -> ConnType]
    BY <1>0, <2>2, <2>3
  <2> QED BY <1>15, <2>4, SMT DEF TypeOK, WriterTop
<1>16. ASSUME NEW c \in Clients, WriterWrites(c) PROVE TypeOK'
  <2>1. conn[c] \in ConnType
    BY DEF TypeOK
  <2>2. conn[c].out \in Seq(Frames) /\ conn[c].backlog \in Seq(Frames)
    BY <2>1, SMT DEF ConnType
  <2>3. conn[c].out # <<>> => [conn[c] EXCEPT !.writer = "top", !.out = Tail(conn[c].out)] \in ConnType
    BY <2>1, <2>2, Queues, Updates
  <2>4. Becomes(c, [conn[c] EXCEPT !.writer = "top", !.out = Tail(conn[c].out)])
    BY <1>16, SMT DEF WriterWrites
  <2>5. conn' \in [Clients -> ConnType]
    BY <1>16, <1>0, <2>3, <2>4 DEF TypeOK, WriterWrites
  <2>6. /\ client' \in [Clients -> ClientType]
        /\ lost' \subseteq Clients /\ excused' \subseteq Clients
    BY <1>16, <2>2, Queues, ReceiveType DEF WriterWrites
  <2> QED BY <1>16, <2>5, <2>6, SMT DEF TypeOK, WriterWrites
<1>17. ASSUME NEW c \in Clients, WriterEnds(c) PROVE TypeOK'
  <2>1. conn[c] \in ConnType
    BY DEF TypeOK
  <2>2. Off \in ConnType
    BY OffType
  <2>3. [[conn[c] EXCEPT !.writer = "gone"] EXCEPT !.closed = TRUE, !.up = FALSE] \in ConnType
    BY <2>1, Queues, Updates
  <2>4. \/ Becomes(c, Off)
        \/ Becomes(c, [[conn[c] EXCEPT !.writer = "gone"] EXCEPT !.closed = TRUE, !.up = FALSE])
    BY <1>17 DEF WriterEnds, PumpEnds
  <2>5. conn' \in [Clients -> ConnType]
    BY <1>0, <2>2, <2>3, <2>4
  <2> QED BY <1>17, <2>5, SMT DEF TypeOK, WriterEnds, PumpEnds
<1>18. ASSUME NEW c \in Clients, Leave(c) PROVE TypeOK'
  <2>1. conn[c] \in ConnType
    BY DEF TypeOK
  <2>2. [conn[c] EXCEPT !.up = FALSE] \in ConnType
    BY <2>1, Queues, Updates
  <2>3. Becomes(c, [conn[c] EXCEPT !.up = FALSE])
    BY <1>18, SMT DEF Leave
  <2>4. conn' \in [Clients -> ConnType]
    BY <1>0, <2>2, <2>3
  <2> QED BY <1>18, <2>4, SMT DEF TypeOK, Leave
<1>19. CASE Fanout
  BY <1>19, SMT DEF TypeOK, Fanout
<1>20. CASE ServerDrains
  <2>1. \A c \in Clients : /\ conn[c] \in ConnType
                          /\ [conn[c] EXCEPT !.closed = TRUE, !.up = FALSE] \in ConnType
                          /\ [conn[c] EXCEPT !.kicked = TRUE] \in ConnType
    BY Updates, Queues DEF TypeOK
  <2>2. Signalled \in [Clients -> ConnType]
    BY <2>1 DEF Signalled
  <2> QED BY <1>20, <2>2, SMT DEF TypeOK, ServerDrains
<1>21. CASE Close
  BY <1>21, SMT DEF TypeOK, Close
<1>22. CASE SignalClients
  <2>1. \A c \in Clients : /\ conn[c] \in ConnType
                          /\ [conn[c] EXCEPT !.closed = TRUE, !.up = FALSE] \in ConnType
                          /\ [conn[c] EXCEPT !.kicked = TRUE] \in ConnType
    BY Updates, Queues DEF TypeOK
  <2>2. Signalled \in [Clients -> ConnType]
    BY <2>1 DEF Signalled
  <2> QED BY <1>22, <2>2, SMT DEF TypeOK, SignalClients
<1>23. CASE Drained
  BY <1>23, SMT DEF TypeOK, Drained
<1>24. CASE Restart
  <2>1. conn' \in [Clients -> ConnType]
    BY <1>24, OffType DEF Restart
  <2>2. client' \in [Clients -> ClientType]
    BY <1>24, SMTT(30) DEF Restart, TypeOK, ClientType, Unknown
  <2>3. epoch' \in 1 .. MaxRestarts + 1
    BY <1>24, SMT DEF Restart, TypeOK, Assumptions, BoundsAssumption
  <2> QED BY <1>24, <2>1, <2>2, <2>3, SMT DEF TypeOK, Restart
<1>25. CASE UNCHANGED vars
  BY <1>25, SMT DEF TypeOK, vars
<1> QED
  BY <1>1, <1>2, <1>3, <1>4, <1>5, <1>6, <1>7, <1>8, <1>9, <1>10, <1>11, <1>12, <1>13, <1>14, <1>15, <1>16, <1>17, <1>18, <1>19, <1>20, <1>21, <1>22, <1>23, <1>24, <1>25 DEF Next, Step

-----------------------------------------------------------------------------
(* Who is where: what a step does to the sets the counters count.          *)

\* No connection changes its place.
Stays == /\ Coming' = Coming /\ SSELoops' = SSELoops /\ Open' = Open
         /\ Readers' = Readers /\ Writers' = Writers

\* Only c's connection changes.
Only(c) == \A d \in Clients \ {c} : conn'[d] = conn[d]

\* c's connection keeps its place.
KeepsPlace(c) ==
  /\ conn'[c].ph = "admitted" <=> conn[c].ph = "admitted"
  /\ conn'[c].ph = "open" <=> conn[c].ph = "open"
  /\ conn'[c].ph \in {"replay", "backlog", "run"} <=> conn[c].ph \in {"replay", "backlog", "run"}
  /\ conn'[c].reader = "gone" <=> conn[c].reader = "gone"
  /\ conn'[c].writer = "gone" <=> conn[c].writer = "gone"

LEMMA Update ==
  ASSUME TypeOK, NEW c \in Clients, NEW k, conn' = [conn EXCEPT ![c] = k]
  PROVE Only(c) /\ conn'[c] = k
BY SMT DEF TypeOK, Only

LEMMA Staying ==
  ASSUME NEW c \in Clients, Only(c), KeepsPlace(c)
  PROVE Stays
<1>1. Coming' = Coming /\ SSELoops' = SSELoops
  BY SMT DEF Only, KeepsPlace, Coming, SSELoops
<1>2. Open' = Open /\ Readers' = Readers /\ Writers' = Writers
  BY SMT DEF Only, KeepsPlace, Open, Readers, Writers
<1> QED BY <1>1, <1>2 DEF Stays

\* The steps of a connection that leave it where it is.
Quiet(c) == \/ Deliver(c) \/ ReplaySSE(c) \/ WriteBacklog(c) \/ RunWrites(c)
            \/ Subscribe(c) \/ Unsubscribe(c) \/ ReplayWS(c) \/ EnqueueBacklog(c)
            \/ WriterTop(c) \/ WriterWrites(c) \/ Leave(c)

LEMMA QuietStays ==
  ASSUME TypeOK, NEW c \in Clients, Quiet(c) PROVE Stays
<1>1. conn[c] \in ConnType /\ conn \in [Clients -> ConnType]
  BY DEF TypeOK
<1>2. ASSUME Deliver(c) PROVE Only(c) /\ KeepsPlace(c)
  <2>1. CASE conn' = conn
    BY <1>1, <2>1, SMT DEF Only, KeepsPlace, ConnType
  <2>2. CASE conn' = [conn EXCEPT ![c].out = Append(conn[c].out, head)]
    BY <1>1, <2>2, SMT DEF Only, KeepsPlace, ConnType
  <2>3. CASE conn' = [conn EXCEPT ![c] = Kicked(c)]
    BY <1>1, <1>2, <2>3, SMT DEF Only, KeepsPlace, ConnType, Kicked
  <2> QED BY <1>2, <2>1, <2>2, <2>3 DEF Deliver
<1>3. ASSUME ReplaySSE(c) PROVE Only(c) /\ KeepsPlace(c)
  <2>1. PICK b : conn' = [conn EXCEPT ![c] = [conn[c] EXCEPT !.ph = "backlog", !.backlog = b]]
    BY <1>3 DEF ReplaySSE
  <2>2. conn[c].ph = "replay"
    BY <1>3 DEF ReplaySSE
  <2>3. Only(c) /\ conn'[c] = [conn[c] EXCEPT !.ph = "backlog", !.backlog = b]
    BY <2>1, Update
  <2>4. /\ conn'[c].ph = "backlog"
        /\ conn'[c].reader = conn[c].reader /\ conn'[c].writer = conn[c].writer
    BY <1>1, <2>3, SMT DEF ConnType
  <2> QED BY <2>2, <2>3, <2>4, SMT DEF KeepsPlace
<1>4. ASSUME WriteBacklog(c) PROVE Only(c) /\ KeepsPlace(c)
  <2>1. PICK b :
          \/ conn' = [conn EXCEPT ![c].backlog = b]
          \/ conn' = [conn EXCEPT ![c] = [conn[c] EXCEPT !.ph = "run", !.backlog = <<>>]]
    BY <1>4 DEF WriteBacklog
  <2>2. conn[c].ph = "backlog"
    BY <1>4 DEF WriteBacklog
  <2>3. CASE conn' = [conn EXCEPT ![c].backlog = b]
    BY <1>1, <2>2, <2>3, SMT DEF Only, KeepsPlace, ConnType
  <2>4. CASE conn' = [conn EXCEPT ![c] = [conn[c] EXCEPT !.ph = "run", !.backlog = <<>>]]
    BY <1>1, <2>2, <2>4, SMT DEF Only, KeepsPlace, ConnType
  <2> QED BY <2>1, <2>3, <2>4
<1>5. ASSUME RunWrites(c) PROVE Only(c) /\ KeepsPlace(c)
  BY <1>1, <1>5, SMT DEF RunWrites, Only, KeepsPlace, ConnType
<1>6. ASSUME Subscribe(c) PROVE Only(c) /\ KeepsPlace(c)
  BY <1>1, <1>6, SMT DEF Subscribe, Only, KeepsPlace, ConnType
<1>7. ASSUME Unsubscribe(c) PROVE Only(c) /\ KeepsPlace(c)
  BY <1>1, <1>7, SMT DEF Unsubscribe, Only, KeepsPlace, ConnType
<1>8. ASSUME ReplayWS(c) PROVE Only(c) /\ KeepsPlace(c)
  <2>1. PICK b, q :
          \/ conn' = [conn EXCEPT ![c] = [conn[c] EXCEPT !.reader = "backlog", !.backlog = b]]
          \/ conn' = [conn EXCEPT ![c] = [conn[c] EXCEPT !.reader = "idle", !.out = q]]
    BY <1>8 DEF ReplayWS
  <2>2. conn[c].reader = "replay"
    BY <1>8 DEF ReplayWS
  <2>3. /\ Only(c)
        /\ \/ conn'[c] = [conn[c] EXCEPT !.reader = "backlog", !.backlog = b]
           \/ conn'[c] = [conn[c] EXCEPT !.reader = "idle", !.out = q]
    BY <2>1, Update
  <2>4. /\ conn'[c].reader \in {"backlog", "idle"}
        /\ conn'[c].ph = conn[c].ph /\ conn'[c].writer = conn[c].writer
    <3>1. CASE conn'[c] = [conn[c] EXCEPT !.reader = "backlog", !.backlog = b]
      BY <1>1, <3>1, SMT DEF ConnType
    <3>2. CASE conn'[c] = [conn[c] EXCEPT !.reader = "idle", !.out = q]
      BY <1>1, <3>2, SMT DEF ConnType
    <3> QED BY <2>3, <3>1, <3>2
  <2> QED BY <2>2, <2>3, <2>4, SMT DEF KeepsPlace
<1>9. ASSUME EnqueueBacklog(c) PROVE Only(c) /\ KeepsPlace(c)
  <2>1. PICK b, q :
          \/ conn' = [conn EXCEPT ![c].reader = "idle"]
          \/ conn' = [conn EXCEPT ![c] = [conn[c] EXCEPT !.out = q, !.backlog = b]]
          \/ conn' = [conn EXCEPT ![c] = [Kicked(c) EXCEPT !.reader = "idle", !.backlog = <<>>]]
    BY <1>9 DEF EnqueueBacklog
  <2>2. conn[c].reader = "backlog"
    BY <1>9 DEF EnqueueBacklog
  <2>3. CASE conn' = [conn EXCEPT ![c].reader = "idle"]
    BY <1>1, <2>2, <2>3, SMT DEF Only, KeepsPlace, ConnType
  <2>4. CASE conn' = [conn EXCEPT ![c] = [conn[c] EXCEPT !.out = q, !.backlog = b]]
    BY <1>1, <2>2, <2>4, SMT DEF Only, KeepsPlace, ConnType
  <2>5. CASE conn' = [conn EXCEPT ![c] = [Kicked(c) EXCEPT !.reader = "idle", !.backlog = <<>>]]
    BY <1>1, <2>2, <2>5, SMT DEF Only, KeepsPlace, ConnType, Kicked
  <2> QED BY <2>1, <2>3, <2>4, <2>5
<1>10. ASSUME WriterTop(c) PROVE Only(c) /\ KeepsPlace(c)
  BY <1>1, <1>10, SMT DEF WriterTop, Only, KeepsPlace, ConnType
<1>11. ASSUME WriterWrites(c) PROVE Only(c) /\ KeepsPlace(c)
  BY <1>1, <1>11, SMT DEF WriterWrites, Only, KeepsPlace, ConnType
<1>12. ASSUME Leave(c) PROVE Only(c) /\ KeepsPlace(c)
  BY <1>1, <1>12, SMT DEF Leave, Only, KeepsPlace, ConnType
<1> QED BY Staying, <1>2, <1>3, <1>4, <1>5, <1>6, <1>7, <1>8, <1>9, <1>10, <1>11, <1>12 DEF Quiet

LEMMA Moving ==
  ASSUME NEW c \in Clients, Only(c)
  PROVE /\ conn'[c].ph = "off" =>
             Coming' = Coming \ {c} /\ Open' = Open \ {c} /\ SSELoops' = SSELoops \ {c}
        /\ conn'[c].ph = "admitted" =>
             Coming' = Coming \cup {c} /\ Open' = Open \ {c} /\ SSELoops' = SSELoops \ {c}
        /\ conn'[c].ph = "replay" =>
             Coming' = Coming \ {c} /\ Open' = Open \ {c} /\ SSELoops' = SSELoops \cup {c}
        /\ conn'[c].ph = "open" =>
             Coming' = Coming \ {c} /\ Open' = Open \cup {c} /\ SSELoops' = SSELoops \ {c}
        /\ conn'[c].reader = "gone" => Readers' = Readers \ {c}
        /\ conn'[c].reader # "gone" => Readers' = Readers \cup {c}
        /\ conn'[c].writer = "gone" => Writers' = Writers \ {c}
        /\ conn'[c].writer # "gone" => Writers' = Writers \cup {c}
<1>1. conn'[c].ph = "off" =>
      Coming' = Coming \ {c} /\ Open' = Open \ {c} /\ SSELoops' = SSELoops \ {c}
  <2>1. conn'[c].ph = "off" => Coming' = Coming \ {c}
    BY SMT DEF Only, Coming
  <2>2. conn'[c].ph = "off" => Open' = Open \ {c}
    BY SMT DEF Only, Open
  <2>3. conn'[c].ph = "off" => SSELoops' = SSELoops \ {c}
    BY SMT DEF Only, SSELoops
  <2> QED BY <2>1, <2>2, <2>3
<1>2. conn'[c].ph = "admitted" =>
      Coming' = Coming \cup {c} /\ Open' = Open \ {c} /\ SSELoops' = SSELoops \ {c}
  <2>1. conn'[c].ph = "admitted" => Coming' = Coming \cup {c}
    BY SMT DEF Only, Coming
  <2>2. conn'[c].ph = "admitted" => Open' = Open \ {c}
    BY SMT DEF Only, Open
  <2>3. conn'[c].ph = "admitted" => SSELoops' = SSELoops \ {c}
    BY SMT DEF Only, SSELoops
  <2> QED BY <2>1, <2>2, <2>3
<1>3. conn'[c].ph = "replay" =>
      Coming' = Coming \ {c} /\ Open' = Open \ {c} /\ SSELoops' = SSELoops \cup {c}
  <2>1. conn'[c].ph = "replay" => Coming' = Coming \ {c}
    BY SMT DEF Only, Coming
  <2>2. conn'[c].ph = "replay" => Open' = Open \ {c}
    BY SMT DEF Only, Open
  <2>3. conn'[c].ph = "replay" => SSELoops' = SSELoops \cup {c}
    BY SMT DEF Only, SSELoops
  <2> QED BY <2>1, <2>2, <2>3
<1>4. conn'[c].ph = "open" =>
      Coming' = Coming \ {c} /\ Open' = Open \cup {c} /\ SSELoops' = SSELoops \ {c}
  <2>1. conn'[c].ph = "open" => Coming' = Coming \ {c}
    BY SMT DEF Only, Coming
  <2>2. conn'[c].ph = "open" => Open' = Open \cup {c}
    BY SMT DEF Only, Open
  <2>3. conn'[c].ph = "open" => SSELoops' = SSELoops \ {c}
    BY SMT DEF Only, SSELoops
  <2> QED BY <2>1, <2>2, <2>3
<1>5. conn'[c].reader = "gone" => Readers' = Readers \ {c}
  BY SMT DEF Only, Readers
<1>6. conn'[c].reader # "gone" => Readers' = Readers \cup {c}
  BY SMT DEF Only, Readers
<1>7. conn'[c].writer = "gone" => Writers' = Writers \ {c}
  BY SMT DEF Only, Writers
<1>8. conn'[c].writer # "gone" => Writers' = Writers \cup {c}
  BY SMT DEF Only, Writers
<1> QED BY <1>1, <1>2, <1>3, <1>4, <1>5, <1>6, <1>7, <1>8

\* A handler that has not started its loops runs none.
LEMMA NotIn ==
  ASSUME ShapeInv, NEW c \in Clients, conn[c].ph \in {"off", "admitted"}
  PROVE c \notin clients \cup SSELoops \cup Open \cup Readers \cup Writers
<1>1. c \notin SSELoops \cup Open
  BY SMT DEF SSELoops, Open
<1>2. c \in SSE \/ c \in WS
  BY DEF WS
<1>3. c \in SSE => c \notin clients \cup Readers \cup Writers
  BY <1>1 DEF ShapeInv
<1>4. c \in WS => c \notin clients \cup Readers \cup Writers
  BY <1>1 DEF ShapeInv
<1> QED BY <1>1, <1>2, <1>3, <1>4

\* The seven moves, and the place a connection has before each.
Admitted(c) ==
  /\ c \notin Coming \cup clients
  /\ connN' = connN + 1 /\ wg' = wg /\ (MaxConnections > 0 => connN < MaxConnections)
  /\ Coming' = Coming \cup {c} /\ clients' = clients
  /\ SSELoops' = SSELoops /\ Open' = Open /\ Readers' = Readers /\ Writers' = Writers

Released(c) ==
  /\ c \in Coming /\ c \notin clients
  /\ connN' = connN - 1 /\ wg' = wg
  /\ Coming' = Coming \ {c} /\ clients' = clients
  /\ SSELoops' = SSELoops /\ Open' = Open /\ Readers' = Readers /\ Writers' = Writers

LoopStarted(c) ==
  /\ shut = "open" /\ c \in Coming /\ c \in SSE /\ c \notin SSELoops
  /\ connN' = connN /\ wg' = wg + 1
  /\ Coming' = Coming \ {c} /\ clients' = clients \cup {c}
  /\ SSELoops' = SSELoops \cup {c} /\ Open' = Open /\ Readers' = Readers /\ Writers' = Writers

PumpsStarted(c) ==
  /\ shut = "open" /\ c \in Coming /\ c \in WS /\ c \notin Readers \cup Writers
  /\ connN' = connN /\ wg' = wg + 2
  /\ Coming' = Coming \ {c} /\ clients' = clients \cup {c}
  /\ SSELoops' = SSELoops /\ Open' = Open \cup {c}
  /\ Readers' = Readers \cup {c} /\ Writers' = Writers \cup {c}

LoopEnded(c) ==
  /\ c \in SSELoops /\ c \in clients /\ c \in SSE /\ c \notin Coming
  /\ connN' = connN - 1 /\ wg' = wg - 1
  /\ Coming' = Coming /\ clients' = clients \ {c}
  /\ SSELoops' = SSELoops \ {c} /\ Open' = Open /\ Readers' = Readers /\ Writers' = Writers

ReaderEnded(c) ==
  /\ c \in Readers /\ c \in WS /\ c \notin Coming
  /\ connN' = (IF c \in clients THEN connN - 1 ELSE connN) /\ wg' = wg - 1
  /\ Coming' = Coming /\ clients' = clients \ {c}
  /\ SSELoops' = SSELoops /\ Open' = (IF c \in Writers THEN Open ELSE Open \ {c})
  /\ Readers' = Readers \ {c} /\ Writers' = Writers

WriterEnded(c) ==
  /\ c \in Writers /\ c \in WS /\ c \notin Coming
  /\ connN' = (IF c \in clients THEN connN - 1 ELSE connN) /\ wg' = wg - 1
  /\ Coming' = Coming /\ clients' = clients \ {c}
  /\ SSELoops' = SSELoops /\ Open' = (IF c \in Readers THEN Open ELSE Open \ {c})
  /\ Readers' = Readers /\ Writers' = Writers \ {c}

LEMMA DialMoves ==
  ASSUME TypeOK, ShapeInv, NEW c \in Clients, Dial(c) PROVE Admitted(c)
<1>1. c \notin Coming /\ c \notin clients \cup SSELoops \cup Open \cup Readers \cup Writers
  BY NotIn, SMT DEF Dial, Coming
<1>2. Only(c) /\ conn'[c] = [Off EXCEPT !.ph = "admitted", !.up = TRUE]
  BY Update DEF Dial
<1>3. conn'[c].ph = "admitted" /\ conn'[c].reader = "gone" /\ conn'[c].writer = "gone"
  BY <1>2, SMT DEF Off
<1>4. /\ Coming' = Coming \cup {c} /\ Open' = Open \ {c} /\ SSELoops' = SSELoops \ {c}
      /\ Readers' = Readers \ {c} /\ Writers' = Writers \ {c}
  BY <1>2, <1>3, Moving
<1>5. connN' = connN + 1 /\ wg' = wg /\ (MaxConnections > 0 => connN < MaxConnections) /\ clients' = clients
  BY DEF Dial
<1> QED BY <1>1, <1>4, <1>5 DEF Admitted

LEMMA ReleaseMoves ==
  ASSUME TypeOK, ShapeInv, NEW c \in Clients, conn[c].ph = "admitted", Release(c)
  PROVE Released(c)
<1>1. c \in Coming /\ c \notin clients \cup SSELoops \cup Open \cup Readers \cup Writers
  BY NotIn, SMT DEF Coming
<1>2. Only(c) /\ conn'[c] = Off
  BY Update DEF Release
<1>3. conn'[c].ph = "off" /\ conn'[c].reader = "gone" /\ conn'[c].writer = "gone"
  BY <1>2, SMT DEF Off
<1>4. /\ Coming' = Coming \ {c} /\ Open' = Open \ {c} /\ SSELoops' = SSELoops \ {c}
      /\ Readers' = Readers \ {c} /\ Writers' = Writers \ {c}
  BY <1>2, <1>3, Moving
<1>5. connN' = connN - 1 /\ wg' = wg /\ clients' = clients
  BY DEF Release
<1> QED BY <1>1, <1>4, <1>5 DEF Released

LEMMA EnterMoves ==
  ASSUME TypeOK, ShapeInv, shut = "open",
         NEW c \in Clients, conn[c].ph = "admitted", Enter(c)
  PROVE LoopStarted(c) \/ PumpsStarted(c)
<1>1. c \in Coming /\ c \notin clients \cup SSELoops \cup Open \cup Readers \cup Writers
  BY NotIn, SMT DEF Coming
<1>2. conn[c] \in ConnType
  BY DEF TypeOK
<1>3. connN' = connN /\ clients' = clients \cup {c}
  BY DEF Enter
<1>4. CASE c \in SSE
  <2>1. Only(c) /\ conn'[c] = [conn[c] EXCEPT !.ph = "replay", !.sub = TRUE]
    BY <1>4, Update DEF Enter
  <2>2. conn'[c].ph = "replay" /\ conn'[c].reader = conn[c].reader /\ conn'[c].writer = conn[c].writer
    BY <1>2, <2>1, SMT DEF ConnType
  <2>3. conn'[c].reader = "gone" /\ conn'[c].writer = "gone"
    BY <1>1, <2>2 DEF Readers, Writers
  <2>4. /\ Coming' = Coming \ {c} /\ Open' = Open \ {c} /\ SSELoops' = SSELoops \cup {c}
        /\ Readers' = Readers \ {c} /\ Writers' = Writers \ {c}
    BY <2>1, <2>2, <2>3, Moving
  <2>5. wg' = wg + 1
    BY <1>4 DEF Enter
  <2> QED BY <1>1, <1>3, <1>4, <2>4, <2>5 DEF LoopStarted
<1>5. CASE c \notin SSE
  <2>1. Only(c) /\ conn'[c] = [conn[c] EXCEPT !.ph = "open", !.reader = "idle", !.writer = "top"]
    BY <1>5, Update DEF Enter
  <2>2. conn'[c].ph = "open" /\ conn'[c].reader # "gone" /\ conn'[c].writer # "gone"
    BY <1>2, <2>1, SMT DEF ConnType
  <2>3. /\ Coming' = Coming \ {c} /\ Open' = Open \cup {c} /\ SSELoops' = SSELoops \ {c}
        /\ Readers' = Readers \cup {c} /\ Writers' = Writers \cup {c}
    BY <2>1, <2>2, Moving
  <2>4. wg' = wg + 2 /\ c \in WS
    BY <1>5 DEF Enter, WS
  <2> QED BY <1>1, <1>3, <2>3, <2>4 DEF PumpsStarted
<1> QED BY <1>4, <1>5

LEMMA CleanUpMoves ==
  ASSUME TypeOK, ShapeInv, NEW c \in Clients, c \in SSELoops, CleanUp(c)
  PROVE LoopEnded(c)
<1>1. c \in SSE
  BY DEF ShapeInv, WS
<1>2. /\ c \in clients /\ c \notin Readers \cup Writers
  BY <1>1 DEF ShapeInv
<1>3. c \notin Coming /\ c \notin Open
  BY SMT DEF SSELoops, Coming, Open
<1>4. Only(c) /\ conn'[c] = Off
  BY Update DEF CleanUp
<1>5. conn'[c].ph = "off" /\ conn'[c].reader = "gone" /\ conn'[c].writer = "gone"
  BY <1>4, SMT DEF Off
<1>6. /\ Coming' = Coming \ {c} /\ Open' = Open \ {c} /\ SSELoops' = SSELoops \ {c}
      /\ Readers' = Readers \ {c} /\ Writers' = Writers \ {c}
  BY <1>4, <1>5, Moving
<1>7. connN' = connN - 1 /\ wg' = wg - 1 /\ clients' = clients \ {c}
  BY DEF CleanUp
<1> QED BY <1>1, <1>2, <1>3, <1>6, <1>7 DEF LoopEnded

LEMMA ReaderEndsMoves ==
  ASSUME TypeOK, ShapeInv, NEW c \in Clients, ReaderEnds(c) PROVE ReaderEnded(c)
<1> DEFINE rest == [conn[c] EXCEPT !.reader = "gone"]
<1>1. c \in Readers
  BY SMT DEF ReaderEnds, Readers
<1>2. c \in WS /\ c \notin SSELoops
  BY <1>1 DEF ShapeInv, WS
<1>3. conn[c].ph = "open" /\ c \in Open /\ c \notin Coming
  <2>1. c \in Open
    BY <1>1, <1>2 DEF ShapeInv
  <2> QED BY <2>1, SMT DEF Open, Coming
<1>4. conn[c] \in ConnType /\ rest \in ConnType
  BY ReaderTyped DEF TypeOK
<1>5. rest.reader = "gone" /\ rest.writer = conn[c].writer /\ rest.ph = conn[c].ph
  BY <1>4, SMT DEF ConnType
<1> HIDE DEF rest
<1>6. /\ connN' = IF c \in clients THEN connN - 1 ELSE connN
      /\ wg' = wg - 1 /\ clients' = clients \ {c}
      /\ conn' = [conn EXCEPT ![c] = IF rest.reader = "gone" /\ rest.writer = "gone" THEN Off
                                     ELSE [rest EXCEPT !.closed = TRUE, !.up = FALSE]]
  BY DEF ReaderEnds, PumpEnds, rest
<1>7. CASE conn[c].writer = "gone"
  <2>1. Only(c) /\ conn'[c] = Off
    BY <1>5, <1>6, <1>7, Update
  <2>2. conn'[c].ph = "off" /\ conn'[c].reader = "gone" /\ conn'[c].writer = "gone"
    BY <2>1, SMT DEF Off
  <2>3. /\ Coming' = Coming \ {c} /\ Open' = Open \ {c} /\ SSELoops' = SSELoops \ {c}
        /\ Readers' = Readers \ {c} /\ Writers' = Writers \ {c}
    BY <2>1, <2>2, Moving
  <2>4. c \notin Writers
    BY <1>7 DEF Writers
  <2> QED BY <1>1, <1>2, <1>3, <1>6, <2>3, <2>4 DEF ReaderEnded
<1>8. CASE conn[c].writer # "gone"
  <2>1. Only(c) /\ conn'[c] = [rest EXCEPT !.closed = TRUE, !.up = FALSE]
    BY <1>5, <1>6, <1>8, Update
  <2>2. conn'[c].ph = "open" /\ conn'[c].reader = "gone" /\ conn'[c].writer = conn[c].writer
    BY <1>3, <1>4, <1>5, <2>1, SMT DEF ConnType
  <2>3. /\ Coming' = Coming \ {c} /\ Open' = Open \cup {c} /\ SSELoops' = SSELoops \ {c}
        /\ Readers' = Readers \ {c} /\ Writers' = Writers \cup {c}
    BY <1>8, <2>1, <2>2, Moving
  <2>4. c \in Writers
    BY <1>8 DEF Writers
  <2> QED BY <1>1, <1>2, <1>3, <1>6, <2>3, <2>4 DEF ReaderEnded
<1> QED BY <1>7, <1>8

LEMMA WriterEndsMoves ==
  ASSUME TypeOK, ShapeInv, NEW c \in Clients, WriterEnds(c) PROVE WriterEnded(c)
<1> DEFINE rest == [conn[c] EXCEPT !.writer = "gone"]
<1>1. c \in Writers
  BY SMT DEF WriterEnds, Writers
<1>2. c \in WS /\ c \notin SSELoops
  BY <1>1 DEF ShapeInv, WS
<1>3. conn[c].ph = "open" /\ c \in Open /\ c \notin Coming
  <2>1. c \in Open
    BY <1>1, <1>2 DEF ShapeInv
  <2> QED BY <2>1, SMT DEF Open, Coming
<1>4. conn[c] \in ConnType /\ rest \in ConnType
  BY WriterTyped DEF TypeOK
<1>5. rest.writer = "gone" /\ rest.reader = conn[c].reader /\ rest.ph = conn[c].ph
  BY <1>4, SMT DEF ConnType
<1> HIDE DEF rest
<1>6. /\ connN' = IF c \in clients THEN connN - 1 ELSE connN
      /\ wg' = wg - 1 /\ clients' = clients \ {c}
      /\ conn' = [conn EXCEPT ![c] = IF rest.writer = "gone" /\ rest.reader = "gone" THEN Off
                                     ELSE [rest EXCEPT !.closed = TRUE, !.up = FALSE]]
  BY DEF WriterEnds, PumpEnds, rest
<1>7. CASE conn[c].reader = "gone"
  <2>1. Only(c) /\ conn'[c] = Off
    BY <1>5, <1>6, <1>7, Update
  <2>2. conn'[c].ph = "off" /\ conn'[c].writer = "gone" /\ conn'[c].reader = "gone"
    BY <2>1, SMT DEF Off
  <2>3. /\ Coming' = Coming \ {c} /\ Open' = Open \ {c} /\ SSELoops' = SSELoops \ {c}
        /\ Writers' = Writers \ {c} /\ Readers' = Readers \ {c}
    BY <2>1, <2>2, Moving
  <2>4. c \notin Readers
    BY <1>7 DEF Readers
  <2> QED BY <1>1, <1>2, <1>3, <1>6, <2>3, <2>4 DEF WriterEnded
<1>8. CASE conn[c].reader # "gone"
  <2>1. Only(c) /\ conn'[c] = [rest EXCEPT !.closed = TRUE, !.up = FALSE]
    BY <1>5, <1>6, <1>8, Update
  <2>2. conn'[c].ph = "open" /\ conn'[c].writer = "gone" /\ conn'[c].reader = conn[c].reader
    BY <1>3, <1>4, <1>5, <2>1, SMT DEF ConnType
  <2>3. /\ Coming' = Coming \ {c} /\ Open' = Open \cup {c} /\ SSELoops' = SSELoops \ {c}
        /\ Writers' = Writers \ {c} /\ Readers' = Readers \cup {c}
    BY <1>8, <2>1, <2>2, Moving
  <2>4. c \in Readers
    BY <1>8 DEF Readers
  <2> QED BY <1>1, <1>2, <1>3, <1>6, <2>3, <2>4 DEF WriterEnded
<1> QED BY <1>7, <1>8

\* The moves of a connection.
Move(c) == \/ Admitted(c) \/ Released(c) \/ LoopStarted(c) \/ PumpsStarted(c)
           \/ LoopEnded(c) \/ ReaderEnded(c) \/ WriterEnded(c)

LEMMA SignalStays ==
  ASSUME TypeOK, conn' = Signalled PROVE Stays
<1>1. \A c \in Clients : /\ conn'[c].ph = conn[c].ph /\ conn'[c].reader = conn[c].reader
                         /\ conn'[c].writer = conn[c].writer
  <2> SUFFICES ASSUME NEW c \in Clients
               PROVE /\ conn'[c].ph = conn[c].ph /\ conn'[c].reader = conn[c].reader
                     /\ conn'[c].writer = conn[c].writer
    OBVIOUS
  <2>1. conn[c] \in ConnType
    BY DEF TypeOK
  <2>2. \/ conn'[c] = [conn[c] EXCEPT !.closed = TRUE, !.up = FALSE]
        \/ conn'[c] = [conn[c] EXCEPT !.kicked = TRUE]
        \/ conn'[c] = conn[c]
    <3>1. CASE c \in clients \cap WS
      BY <3>1 DEF Signalled, WS
    <3>2. CASE c \notin clients \cap WS /\ c \in clients \cap SSE
      BY <3>2 DEF Signalled
    <3>3. CASE c \notin clients \cap WS /\ c \notin clients \cap SSE
      BY <3>3 DEF Signalled
    <3> QED BY <3>1, <3>2, <3>3
  <2>3. CASE conn'[c] = [conn[c] EXCEPT !.closed = TRUE, !.up = FALSE]
    BY <2>1, <2>3, SMT DEF ConnType
  <2>4. CASE conn'[c] = [conn[c] EXCEPT !.kicked = TRUE]
    BY <2>1, <2>4, SMT DEF ConnType
  <2> QED BY <2>2, <2>3, <2>4
<1>2. Coming' = Coming /\ SSELoops' = SSELoops /\ Open' = Open
  BY <1>1 DEF Coming, SSELoops, Open
<1>3. Readers' = Readers /\ Writers' = Writers
  BY <1>1 DEF Readers, Writers
<1> QED BY <1>2, <1>3 DEF Stays

\* Every step is a move of one connection, a restart, or none of the two; and
\* the hub is drained by Shutdown only.
LEMMA Steps ==
  ASSUME TypeOK, ShapeInv, [Next]_vars
  PROVE /\ \/ Stays /\ UNCHANGED <<clients, connN, wg>>
           \/ \E c \in Clients : Move(c)
           \/ Restart
        /\ shut' = "drained" => shut = "drained" \/ Drained
<1> USE DEF Move
<1> DEFINE Still == Stays /\ UNCHANGED <<clients, connN, wg>>
<1>1. ASSUME NEW c \in Clients, Quiet(c) PROVE Still /\ shut' = shut
  <2>1. UNCHANGED <<clients, connN, wg>> /\ shut' = shut
    BY <1>1 DEF Quiet, Deliver, ReplaySSE, WriteBacklog, RunWrites, Subscribe, Unsubscribe,
                ReplayWS, EnqueueBacklog, WriterTop, WriterWrites, Leave, hub, counts
  <2> QED BY <1>1, <2>1, QuietStays
<1>2. ASSUME NEW c \in Clients, Dial(c) PROVE Move(c) /\ shut' = shut
  <2>1. shut' = shut
    BY <1>2 DEF Dial, hub
  <2> QED BY <1>2, <2>1, DialMoves
<1>3. ASSUME NEW c \in Clients, HandshakeFails(c) PROVE Move(c) /\ shut' = shut
  <2>1. conn[c].ph = "admitted" /\ Release(c) /\ shut' = shut
    BY <1>3 DEF HandshakeFails
  <2> QED BY <2>1, ReleaseMoves
<1>4. ASSUME NEW c \in Clients, Register(c) PROVE Move(c) /\ shut' = shut
  <2>1. conn[c].ph = "admitted" /\ shut' = shut /\ ((shut = "open" /\ Enter(c)) \/ Release(c))
    BY <1>4 DEF Register
  <2> QED BY <2>1, ReleaseMoves, EnterMoves
<1>5. ASSUME NEW c \in Clients, RunEnds(c) \/ HookPanics(c) PROVE Move(c) /\ shut' = shut
  <2>1. c \in SSELoops
    BY <1>5, SMT DEF RunEnds, HookPanics, SSELoops
  <2>2. CleanUp(c) /\ shut' = shut
    BY <1>5 DEF RunEnds, HookPanics, CleanUp
  <2> QED BY <2>1, <2>2, CleanUpMoves
<1>6. ASSUME NEW c \in Clients, ReaderEnds(c) \/ WriterEnds(c) PROVE Move(c) /\ shut' = shut
  <2>1. shut' = shut
    BY <1>6 DEF ReaderEnds, WriterEnds, PumpEnds
  <2> QED BY <1>6, <2>1, ReaderEndsMoves, WriterEndsMoves
<1>7. CASE Fanout
  <2>1. conn' = conn /\ shut' = shut /\ UNCHANGED <<clients, connN, wg>>
    BY <1>7 DEF Fanout, counts
  <2>2. Stays
    BY <2>1 DEF Stays, Coming, SSELoops, Open, Readers, Writers
  <2> QED BY <2>1, <2>2
<1>8. CASE ServerDrains
  <2>1. conn' = Signalled /\ shut' = shut /\ UNCHANGED <<clients, connN, wg>>
    BY <1>8 DEF ServerDrains, hub, counts
  <2> QED BY <2>1, SignalStays
<1>9. CASE Close
  <2>1. conn' = conn /\ shut' = "closed" /\ UNCHANGED <<clients, connN, wg>>
    BY <1>9 DEF Close, counts
  <2>2. Stays
    BY <2>1 DEF Stays, Coming, SSELoops, Open, Readers, Writers
  <2> QED BY <2>1, <2>2
<1>10. CASE SignalClients
  <2>1. conn' = Signalled /\ shut' = "waiting" /\ UNCHANGED <<clients, connN, wg>>
    BY <1>10 DEF SignalClients, counts
  <2> QED BY <2>1, SignalStays
<1>11. CASE Drained
  <2>1. conn' = conn /\ UNCHANGED <<clients, connN, wg>>
    BY <1>11 DEF Drained, counts
  <2>2. Stays
    BY <2>1 DEF Stays, Coming, SSELoops, Open, Readers, Writers
  <2> QED BY <1>11, <2>1, <2>2
<1>12. CASE Restart
  <2>1. shut' = "open"
    BY <1>12 DEF Restart
  <2> QED BY <1>12, <2>1
<1>13. CASE UNCHANGED vars
  <2>1. conn' = conn /\ shut' = shut /\ UNCHANGED <<clients, connN, wg>>
    BY <1>13 DEF vars
  <2>2. Stays
    BY <2>1 DEF Stays, Coming, SSELoops, Open, Readers, Writers
  <2> QED BY <2>1, <2>2
<1>14. ASSUME NEW c \in Clients, Step(c) PROVE (Still \/ Move(c)) /\ shut' = shut
  BY <1>1, <1>2, <1>3, <1>4, <1>5, <1>6, <1>14 DEF Step, Quiet
<1> HIDE DEF Move, Still
<1>15. CASE \E c \in Clients : Step(c)
  <2>1. PICK c \in Clients : Step(c)
    BY <1>15
  <2> QED BY <1>14, <2>1 DEF Still
<1> QED
  BY <1>7, <1>8, <1>9, <1>10, <1>11, <1>12, <1>13, <1>15 DEF Next

-----------------------------------------------------------------------------
(* The counters.                                                           *)

LEMMA Finite ==
  ASSUME Assumptions, TypeOK
  PROVE /\ \A S \in SUBSET Clients : IsFiniteSet(S) /\ Cardinality(S) \in Nat
        /\ Coming \cup clients \in SUBSET Clients
        /\ SSELoops \in SUBSET Clients /\ Readers \in SUBSET Clients /\ Writers \in SUBSET Clients
<1>1. IsFiniteSet(Clients)
  BY DEF Assumptions, ClientsAssumption
<1>2. \A S \in SUBSET Clients : IsFiniteSet(S)
  BY <1>1, FS_Subset
<1>3. \A S \in SUBSET Clients : Cardinality(S) \in Nat
  BY <1>2, FS_CardinalityType
<1>4. /\ Coming \cup clients \in SUBSET Clients
      /\ SSELoops \in SUBSET Clients /\ Readers \in SUBSET Clients /\ Writers \in SUBSET Clients
  BY DEF Coming, SSELoops, Readers, Writers, TypeOK
<1> QED BY <1>2, <1>3, <1>4

LEMMA Plus ==
  ASSUME Assumptions, TypeOK, NEW S \in SUBSET Clients, NEW c \in Clients
  PROVE /\ c \notin S => Cardinality(S \cup {c}) = Cardinality(S) + 1
        /\ c \in S => Cardinality(S \ {c}) = Cardinality(S) - 1
BY Finite, FS_AddElement, FS_RemoveElement

LEMMA MoveCounts ==
  ASSUME Assumptions, TypeOK, ShapeInv, CountInv, NEW c \in Clients, Move(c)
  PROVE CountInv' /\ (connN' <= connN \/ (MaxConnections > 0 => connN < MaxConnections /\ connN' = connN + 1))
<1> DEFINE U == Coming \cup clients
           N == Cardinality(SSELoops) + Cardinality(Readers) + Cardinality(Writers)
<1>1. /\ U \in SUBSET Clients /\ SSELoops \in SUBSET Clients
      /\ Readers \in SUBSET Clients /\ Writers \in SUBSET Clients
  BY Finite
<1>2. /\ Cardinality(U) \in Nat /\ Cardinality(SSELoops) \in Nat
      /\ Cardinality(Readers) \in Nat /\ Cardinality(Writers) \in Nat
  BY <1>1, Finite
<1>3. connN = Cardinality(U) /\ wg = N
  BY DEF CountInv
<1>4. /\ connN' = Cardinality(U') => connN' = Cardinality(Coming \cup clients)'
      /\ wg' = N' => wg' = (Cardinality(SSELoops) + Cardinality(Readers) + Cardinality(Writers))'
  OBVIOUS
<1>5. CASE Admitted(c)
  <2>1. U' = U \cup {c} /\ c \notin U /\ SSELoops' = SSELoops /\ Readers' = Readers /\ Writers' = Writers
    BY <1>5 DEF Admitted
  <2>2. Cardinality(U') = Cardinality(U) + 1
    BY <1>1, <2>1, Plus
  <2>3. connN' = connN + 1 /\ wg' = wg /\ (MaxConnections > 0 => connN < MaxConnections)
    BY <1>5 DEF Admitted
  <2> QED BY <1>3, <2>1, <2>2, <2>3 DEF CountInv
<1>6. CASE Released(c)
  <2>1. U' = U \ {c} /\ c \in U /\ SSELoops' = SSELoops /\ Readers' = Readers /\ Writers' = Writers
    BY <1>6 DEF Released
  <2>2. Cardinality(U') = Cardinality(U) - 1
    BY <1>1, <2>1, Plus
  <2>3. connN' = connN - 1 /\ wg' = wg
    BY <1>6 DEF Released
  <2>4. connN' <= connN
    BY <1>2, <1>3, <2>3
  <2> QED BY <1>3, <2>1, <2>2, <2>3, <2>4 DEF CountInv
<1>7. CASE LoopStarted(c)
  <2>1. U' = U /\ SSELoops' = SSELoops \cup {c} /\ c \notin SSELoops /\ Readers' = Readers /\ Writers' = Writers
    BY <1>7 DEF LoopStarted
  <2>2. Cardinality(SSELoops') = Cardinality(SSELoops) + 1
    BY <1>1, <2>1, Plus
  <2>3. connN' = connN /\ wg' = wg + 1
    BY <1>7 DEF LoopStarted
  <2>4. wg' = N'
    BY <1>2, <1>3, <2>1, <2>2, <2>3
  <2>5. connN' <= connN
    BY <1>2, <1>3, <2>3
  <2> QED BY <1>3, <2>1, <2>3, <2>4, <2>5 DEF CountInv
<1>8. CASE PumpsStarted(c)
  <2>1. /\ U' = U /\ SSELoops' = SSELoops
        /\ Readers' = Readers \cup {c} /\ c \notin Readers
        /\ Writers' = Writers \cup {c} /\ c \notin Writers
    BY <1>8 DEF PumpsStarted
  <2>2. Cardinality(Readers') = Cardinality(Readers) + 1 /\ Cardinality(Writers') = Cardinality(Writers) + 1
    BY <1>1, <2>1, Plus
  <2>3. connN' = connN /\ wg' = wg + 2
    BY <1>8 DEF PumpsStarted
  <2>4. wg' = N'
    BY <1>2, <1>3, <2>1, <2>2, <2>3
  <2>5. connN' <= connN
    BY <1>2, <1>3, <2>3
  <2> QED BY <1>3, <2>1, <2>3, <2>4, <2>5 DEF CountInv
<1>9. CASE LoopEnded(c)
  <2>1. /\ U' = U \ {c} /\ c \in U /\ SSELoops' = SSELoops \ {c} /\ c \in SSELoops
        /\ Readers' = Readers /\ Writers' = Writers
    BY <1>9 DEF LoopEnded
  <2>2. Cardinality(U') = Cardinality(U) - 1 /\ Cardinality(SSELoops') = Cardinality(SSELoops) - 1
    BY <1>1, <2>1, Plus
  <2>3. connN' = connN - 1 /\ wg' = wg - 1
    BY <1>9 DEF LoopEnded
  <2>4. wg' = N'
    BY <1>2, <1>3, <2>1, <2>2, <2>3
  <2>5. connN' <= connN
    BY <1>2, <1>3, <2>3
  <2> QED BY <1>3, <2>1, <2>2, <2>3, <2>4, <2>5 DEF CountInv
<1>10. CASE ReaderEnded(c)
  <2>1. /\ U' = U \ {c} /\ (c \in U <=> c \in clients) /\ SSELoops' = SSELoops
        /\ Readers' = Readers \ {c} /\ c \in Readers /\ Writers' = Writers
    BY <1>10 DEF ReaderEnded
  <2>2. Cardinality(Readers') = Cardinality(Readers) - 1
    BY <1>1, <2>1, Plus
  <2>3. wg' = wg - 1 /\ connN' = IF c \in clients THEN connN - 1 ELSE connN
    BY <1>10 DEF ReaderEnded
  <2>4. wg' = N'
    BY <1>2, <1>3, <2>1, <2>2, <2>3
  <2>5. connN' = Cardinality(U')
    <3>1. CASE c \in clients
      BY <1>1, <1>3, <2>1, <2>3, <3>1, Plus
    <3>2. CASE c \notin clients
      <4>1. U' = U
        BY <2>1, <3>2
      <4> QED BY <1>3, <2>3, <3>2, <4>1
    <3> QED BY <3>1, <3>2
  <2>6. connN' <= connN
    BY <1>2, <1>3, <2>3
  <2> QED BY <2>4, <2>5, <2>6 DEF CountInv
<1>11. CASE WriterEnded(c)
  <2>1. /\ U' = U \ {c} /\ (c \in U <=> c \in clients) /\ SSELoops' = SSELoops
        /\ Writers' = Writers \ {c} /\ c \in Writers /\ Readers' = Readers
    BY <1>11 DEF WriterEnded
  <2>2. Cardinality(Writers') = Cardinality(Writers) - 1
    BY <1>1, <2>1, Plus
  <2>3. wg' = wg - 1 /\ connN' = IF c \in clients THEN connN - 1 ELSE connN
    BY <1>11 DEF WriterEnded
  <2>4. wg' = N'
    BY <1>2, <1>3, <2>1, <2>2, <2>3
  <2>5. connN' = Cardinality(U')
    <3>1. CASE c \in clients
      BY <1>1, <1>3, <2>1, <2>3, <3>1, Plus
    <3>2. CASE c \notin clients
      <4>1. U' = U
        BY <2>1, <3>2
      <4> QED BY <1>3, <2>3, <3>2, <4>1
    <3> QED BY <3>1, <3>2
  <2>6. connN' <= connN
    BY <1>2, <1>3, <2>3
  <2> QED BY <2>4, <2>5, <2>6 DEF CountInv
<1> QED BY <1>5, <1>6, <1>7, <1>8, <1>9, <1>10, <1>11 DEF Move

-----------------------------------------------------------------------------
(* The invariant.                                                          *)

LEMMA MoveShape ==
  ASSUME ShapeInv, NEW c \in Clients, Move(c) PROVE ShapeInv'
<1> DEFINE Shape(d) ==
      /\ d \in SSE => /\ d \notin Open \cup Readers \cup Writers
                      /\ d \in clients <=> d \in SSELoops
      /\ d \in WS => /\ d \notin SSELoops
                     /\ d \in Open <=> d \in Readers \cup Writers
                     /\ d \in clients <=> d \in Readers \cap Writers
<1>1. \A d \in Clients : Shape(d)
  BY DEF ShapeInv
<1>2. ASSUME NEW d \in Clients PROVE Shape(d)'
  <2>1. c \in SSE <=> c \notin WS
    BY DEF WS
  <2>2. Shape(d)
    BY <1>1
  <2>3. CASE Admitted(c)
    BY <2>2, <2>3 DEF Admitted, WS
  <2>4. CASE Released(c)
    BY <2>2, <2>4 DEF Released, WS
  <2>5. CASE LoopStarted(c)
    BY <2>1, <2>2, <2>5 DEF LoopStarted, WS
  <2>6. CASE PumpsStarted(c)
    BY <2>1, <2>2, <2>6 DEF PumpsStarted, WS
  <2>7. CASE LoopEnded(c)
    BY <2>1, <2>2, <2>7 DEF LoopEnded, WS
  <2>8. CASE ReaderEnded(c)
    BY <2>1, <2>2, <2>8 DEF ReaderEnded, WS
  <2>9. CASE WriterEnded(c)
    BY <2>1, <2>2, <2>9 DEF WriterEnded, WS
  <2> QED BY <2>3, <2>4, <2>5, <2>6, <2>7, <2>8, <2>9 DEF Move
<1> QED BY <1>2 DEF ShapeInv, WS

\* After a restart, and at the start, there is nothing.
LEMMA Nothing ==
  ASSUME Assumptions, conn = [c \in Clients |-> Off], clients = {}, connN = 0, wg = 0, shut = "open"
  PROVE ShapeInv /\ CountInv /\ CapHolds /\ NoneLeftOpen
<1>1. /\ Off.ph = "off" /\ Off.reader = "gone" /\ Off.writer = "gone"
  BY SMT DEF Off
<1>2. /\ Coming = {} /\ SSELoops = {} /\ Open = {} /\ Readers = {} /\ Writers = {}
  BY <1>1, SMT DEF Coming, SSELoops, Open, Readers, Writers
<1>3. Cardinality({}) = 0
  BY FS_EmptySet
<1>4. ShapeInv
  BY <1>2 DEF ShapeInv
<1>5. Coming \cup clients = {}
  BY <1>2
<1>6. CountInv
  BY <1>2, <1>3, <1>5, SMT DEF CountInv
<1>7. CapHolds
  <2>1. Cardinality(Coming \cup clients) = 0
    BY <1>3, <1>5
  <2>2. MaxConnections > 0 => 0 <= MaxConnections
    BY SMT DEF Assumptions, BoundsAssumption
  <2> QED BY <2>1, <2>2 DEF CapHolds
<1>8. NoneLeftOpen
  BY SMT DEF NoneLeftOpen
<1> QED BY <1>4, <1>6, <1>7, <1>8

\* A connection that is neither admitted nor off has a loop or a pump.
LEMMA Ended ==
  ASSUME TypeOK
  PROVE NoneLeftOpen <=> (shut = "drained" => SSELoops = {} /\ Open = {})
<1>1. \A c \in Clients : conn[c].ph \in {"off", "admitted", "replay", "backlog", "run", "open"}
  BY SMT DEF TypeOK, ConnType
<1>2. (\A c \in Clients : conn[c].ph \in {"off", "admitted"}) <=> (SSELoops = {} /\ Open = {})
  BY <1>1, SMT DEF SSELoops, Open
<1> QED BY <1>2 DEF NoneLeftOpen

LEMMA EndedNext ==
  ASSUME TypeOK', SSELoops' = {}, Open' = {} PROVE NoneLeftOpen'
<1>1. \A c \in Clients : conn'[c].ph \in {"off", "admitted", "replay", "backlog", "run", "open"}
  BY SMT DEF TypeOK, ConnType
<1>2. \A c \in Clients : conn'[c].ph \in {"off", "admitted"}
  BY <1>1, SMT DEF SSELoops, Open
<1> QED BY <1>2 DEF NoneLeftOpen

\* The WaitGroup is at zero when there is nothing to wait for.
LEMMA NoneCounted ==
  ASSUME Assumptions, TypeOK, CountInv, wg = 0
  PROVE SSELoops = {} /\ Readers = {} /\ Writers = {}
<1>1. /\ Cardinality(SSELoops) \in Nat /\ Cardinality(Readers) \in Nat /\ Cardinality(Writers) \in Nat
      /\ IsFiniteSet(SSELoops) /\ IsFiniteSet(Readers) /\ IsFiniteSet(Writers)
  BY Finite
<1>2. /\ Cardinality(SSELoops) = 0 /\ Cardinality(Readers) = 0 /\ Cardinality(Writers) = 0
  BY <1>1, SMT DEF CountInv
<1> QED BY <1>1, <1>2, FS_EmptySet

LEMMA NextInv == ASSUME Assumptions, IInv, [Next]_vars PROVE IInv'
<1>1. TypeOK' /\ TypeOK /\ ShapeInv /\ CountInv /\ CapHolds /\ NoneLeftOpen
  BY NextType DEF IInv
<1>2. CASE Restart
  <2>1. conn' = [c \in Clients |-> Off] /\ clients' = {} /\ connN' = 0 /\ wg' = 0 /\ shut' = "open"
    BY <1>2 DEF Restart
  <2>2. /\ Off.ph = "off" /\ Off.reader = "gone" /\ Off.writer = "gone"
    BY SMT DEF Off
  <2>3. /\ Coming' = {} /\ SSELoops' = {} /\ Open' = {} /\ Readers' = {} /\ Writers' = {}
    BY <2>1, <2>2, SMT DEF Coming, SSELoops, Open, Readers, Writers
  <2>4. Cardinality({}) = 0
    BY FS_EmptySet
  <2>5. ShapeInv'
    BY <2>1, <2>3 DEF ShapeInv
  <2>6. (Coming \cup clients)' = {}
    BY <2>1, <2>3
  <2>7. CountInv'
    BY <2>1, <2>3, <2>4, <2>6, SMT DEF CountInv
  <2>8. CapHolds'
    <3>1. Cardinality(Coming \cup clients)' = 0
      BY <2>4, <2>6
    <3>2. MaxConnections > 0 => 0 <= MaxConnections
      BY SMT DEF Assumptions, BoundsAssumption
    <3> QED BY <3>1, <3>2 DEF CapHolds
  <2>9. NoneLeftOpen'
    BY <2>1, SMT DEF NoneLeftOpen
  <2> QED BY <1>1, <2>5, <2>7, <2>8, <2>9 DEF IInv
<1>3. CASE Stays /\ UNCHANGED <<clients, connN, wg>>
  <2>1. ShapeInv'
    BY <1>1, <1>3 DEF ShapeInv, Stays
  <2>2. CountInv' /\ CapHolds'
    BY <1>1, <1>3 DEF CountInv, CapHolds, Stays
  <2>3. NoneLeftOpen'
    <3>1. CASE shut' # "drained"
      BY <3>1 DEF NoneLeftOpen
    <3>2. CASE shut = "drained"
      BY <1>1, <1>3, <3>2, Ended, EndedNext DEF Stays
    <3>3. CASE Drained
      <4>1. wg = 0
        BY <3>3 DEF Drained
      <4>2. SSELoops = {} /\ Readers = {} /\ Writers = {}
        BY <1>1, <4>1, NoneCounted
      <4>3. Open = {}
        BY <1>1, <4>2 DEF ShapeInv, Open, WS
      <4> QED BY <1>1, <1>3, <4>2, <4>3, EndedNext DEF Stays
    <3> QED BY <1>1, <3>1, <3>2, <3>3, Steps
  <2> QED BY <1>1, <2>1, <2>2, <2>3 DEF IInv
<1>4. CASE \E c \in Clients : Move(c)
  <2>1. PICK c \in Clients : Move(c)
    BY <1>4
  <2>2. ShapeInv'
    BY <1>1, <2>1, MoveShape
  <2>3. CountInv'
    BY <1>1, <2>1, MoveCounts
  <2>4. CapHolds'
    <3>1. connN = Cardinality(Coming \cup clients) /\ connN' = Cardinality((Coming \cup clients)')
      BY <1>1, <2>3 DEF CountInv
    <3>2. connN' <= connN \/ (MaxConnections > 0 => connN < MaxConnections /\ connN' = connN + 1)
      BY <1>1, <2>1, MoveCounts
    <3>3. connN \in Int /\ connN' \in Int /\ MaxConnections \in Nat
      BY <1>1 DEF TypeOK, Assumptions, BoundsAssumption
    <3>4. MaxConnections > 0 => connN <= MaxConnections
      BY <1>1, <3>1 DEF CapHolds
    <3>5. MaxConnections > 0 => connN' <= MaxConnections
      BY <3>2, <3>3, <3>4, SMT
    <3> QED BY <3>1, <3>5 DEF CapHolds
  <2>5. NoneLeftOpen'
    <3>1. CASE shut' # "drained"
      BY <3>1 DEF NoneLeftOpen
    <3>2. CASE shut = "drained"
      <4>1. SSELoops = {} /\ Open = {}
        BY <1>1, <3>2, Ended
      <4>2. SSELoops' = {} /\ Open' = {}
        <5>1. ~LoopStarted(c) /\ ~PumpsStarted(c)
          BY <3>2, SMT DEF LoopStarted, PumpsStarted
        <5> QED BY <2>1, <4>1, <5>1 DEF Move, Admitted, Released, LoopEnded, ReaderEnded, WriterEnded
      <4> QED BY <1>1, <4>2, EndedNext
    <3>3. CASE Drained
      <4>1. wg = 0
        BY <3>3 DEF Drained
      <4>2. SSELoops = {} /\ Readers = {} /\ Writers = {}
        BY <1>1, <4>1, NoneCounted
      <4>3. Open = {} /\ conn' = conn
        BY <1>1, <3>3, <4>2 DEF ShapeInv, Open, WS, Drained
      <4> QED BY <1>1, <4>2, <4>3, EndedNext DEF SSELoops, Open
    <3> QED BY <1>1, <3>1, <3>2, <3>3, Steps
  <2> QED BY <1>1, <2>2, <2>3, <2>4, <2>5 DEF IInv
<1> QED BY <1>1, <1>2, <1>3, <1>4, Steps

LEMMA InitInv == ASSUME Assumptions, Init PROVE IInv
<1>1. ShapeInv /\ CountInv /\ CapHolds /\ NoneLeftOpen
  BY Nothing DEF Init
<1> QED BY <1>1, InitType DEF IInv

\* Types, the place of every connection and the two counters, in every state.
THEOREM Invariant == Spec => []IInv
<1>1. Assumptions
  BY ClientsAssumption, InterestsAssumption, BuffersAssumption, BoundsAssumption DEF Assumptions
<1>2. Init => IInv
  BY <1>1, InitInv
<1>3. IInv /\ [Next]_vars => IInv'
  BY <1>1, NextInv
<1> QED BY <1>2, <1>3, PTL DEF Spec

\* The cap of admit and release holds however connections fail and end.
THEOREM CapKept == Spec => []CapHolds
<1>1. IInv => CapHolds
  BY DEF IInv
<1> QED BY <1>1, Invariant, PTL

\* After a shutdown that returned nothing is open, nor opens any more.
THEOREM NothingLeft == Spec => []NoneLeftOpen
<1>1. IInv => NoneLeftOpen
  BY DEF IInv
<1> QED BY <1>1, Invariant, PTL
-----------------------------------------------------------------------------
(* No silent gap.  A client is sent the frames of two queues, one after the  *)
(* other: over SSE its backlog and then its buffer, over a WebSocket its     *)
(* buffer and then the backlog that is still to be put there.                *)

Within(q) == {q[i] : i \in 1 .. Len(q)}

\* To one who got x before, f is not a gap.
Leads(x, f) == x = Resync \/ x = f - 1

\* Who has seen n, and is sent P before q, meets no gap in q at i, or anywhere.
Led(n, q, P, i) == \/ q[i] = Resync \/ q[i] <= n + 1
                   \/ \E j \in 1 .. i - 1 : Leads(q[j], q[i])
                   \/ \E x \in P : Leads(x, q[i])
Chain(n, q, P) == \A i \in 1 .. Len(q) : Led(n, q, P, i)
Line(n, a, b) == Chain(n, a, {}) /\ Chain(n, b, Within(a))

\* And gets as far as f.
Has(n, a, b, f) == n >= f \/ \E x \in Within(a) \cup Within(b) : x \in {Resync, f}

Front(c) == IF c \in SSE THEN conn[c].backlog ELSE conn[c].out
Behind(c) == IF c \in SSE THEN conn[c].out ELSE conn[c].backlog
\* The newest event that was offered to the client.
Due(c) == IF c \in todo THEN head - 1 ELSE head

\* A cursor does not run ahead of what its client has seen, nor that of the hub; frames are events so far.
CursorInv(c) ==
  /\ client[c].cur.epoch <= epoch
  /\ client[c].cur.epoch = epoch => client[c].cur.seq <= client[c].seen
  /\ client[c].seen >= Unknown /\ client[c].seen <= head
  /\ \A f \in Within(conn[c].out) \cup Within(conn[c].backlog) : f <= head /\ (c \notin matched => f = Resync)

\* Which queues a connection uses when, and that its client is met by the fan-out.
QueuesInv(c) ==
  /\ conn[c].ph \in {"off", "admitted"} => conn[c].out = <<>> /\ conn[c].backlog = <<>> /\ ~conn[c].sub
  /\ c \in SSE /\ conn[c].ph # "backlog" => conn[c].backlog = <<>>
  /\ c \in WS /\ conn[c].reader # "backlog" => conn[c].backlog = <<>>
  /\ conn[c].dropped => conn[c].kicked
  /\ conn[c].up /\ conn[c].ph \notin {"off", "admitted"} => c \in clients

\* An SSE client's backlog is still to come.
Pending(c) == c \in SSE /\ conn[c].ph = "replay" /\ ~Fresh(c)

\* A client is sent no gap, and what was offered reaches it; unless an event was
\* dropped: then a WebSocket gets one more frame at most.
StreamInv(c) ==
  conn[c].up /\ c \notin excused =>
    /\ ~Pending(c) /\ (c \in SSE \/ ~conn[c].dropped) =>
         Line(client[c].seen, Front(c), Behind(c))
    /\ c \in WS /\ conn[c].dropped /\ conn[c].writer = "select" =>
         conn[c].out # <<>> /\ (conn[c].out[1] = Resync \/ conn[c].out[1] <= client[c].seen + 1)
    /\ /\ ~Pending(c) /\ conn[c].reader # "replay" /\ ~conn[c].dropped
       /\ conn[c].sub /\ c \in matched
       => Has(client[c].seen, Front(c), Behind(c), Due(c))

GapInv == NoSilentGap /\ \A c \in Clients : CursorInv(c) /\ QueuesInv(c) /\ StreamInv(c)

-----------------------------------------------------------------------------
(* Frames in a queue, and a queue behind another.                            *)

LEMMA InWithin == ASSUME NEW q \in Seq(Frames), NEW i \in 1 .. Len(q) PROVE q[i] \in Within(q) /\ q[i] \in Nat
BY DEF Within, Frames

LEMMA NoneWithin == Within(<<>>) = {}
BY DEF Within

LEMMA TailWithin ==
  ASSUME NEW q \in Seq(Frames), q # <<>>
  PROVE  Within(q) = {q[1]} \cup Within(Tail(q)) /\ q[1] \in Nat /\ Head(q) = q[1]
<1>1. Len(q) \in Nat /\ Len(q) >= 1 /\ Tail(q) \in Seq(Frames) /\ Len(Tail(q)) = Len(q) - 1
  OBVIOUS
<1>2. \A i \in 1 .. Len(q) - 1 : Tail(q)[i] = q[i + 1]
  BY <1>1
<1>3. ASSUME NEW i \in 1 .. Len(q) PROVE q[i] \in {q[1]} \cup Within(Tail(q))
  <2>1. CASE i = 1
    BY <2>1
  <2>2. CASE i # 1
    <3>1. i - 1 \in 1 .. Len(Tail(q)) /\ Tail(q)[i - 1] = q[i]
      BY <1>1, <1>2, <2>2
    <3> QED BY <3>1 DEF Within
  <2> QED BY <2>1, <2>2
<1>4. ASSUME NEW i \in 1 .. Len(Tail(q)) PROVE Tail(q)[i] \in Within(q)
  <2>1. i + 1 \in 1 .. Len(q) /\ Tail(q)[i] = q[i + 1]
    BY <1>1, <1>2
  <2> QED BY <2>1 DEF Within
<1>5. Within(Tail(q)) \subseteq Within(q)
  BY <1>4 DEF Within
<1>6. Within(q) \subseteq {q[1]} \cup Within(Tail(q))
  BY <1>3 DEF Within
<1>7. q[1] \in Within(q) /\ q[1] \in Nat
  BY <1>1, InWithin
<1> QED BY <1>5, <1>6, <1>7

LEMMA AppendWithin ==
  ASSUME NEW q \in Seq(Frames), NEW f \in Frames
  PROVE  Within(Append(q, f)) = Within(q) \cup {f}
<1>1. Len(q) \in Nat /\ Append(q, f) \in Seq(Frames) /\ Len(Append(q, f)) = Len(q) + 1
  OBVIOUS
<1>2. Append(q, f)[Len(q) + 1] = f /\ \A i \in 1 .. Len(q) : Append(q, f)[i] = q[i]
  OBVIOUS
<1>3. ASSUME NEW i \in 1 .. Len(Append(q, f)) PROVE Append(q, f)[i] \in Within(q) \cup {f}
  BY <1>1, <1>2 DEF Within
<1>4. ASSUME NEW i \in 1 .. Len(q) PROVE q[i] \in Within(Append(q, f))
  <2>1. i \in 1 .. Len(Append(q, f)) /\ Append(q, f)[i] = q[i]
    BY <1>1, <1>2
  <2> QED BY <2>1 DEF Within
<1>5. f \in Within(Append(q, f))
  <2>1. Len(q) + 1 \in 1 .. Len(Append(q, f)) /\ Append(q, f)[Len(q) + 1] = f
    BY <1>1, <1>2
  <2> QED BY <2>1 DEF Within
<1>6. Within(Append(q, f)) \subseteq Within(q) \cup {f}
  BY <1>3 DEF Within
<1>7. Within(q) \subseteq Within(Append(q, f))
  BY <1>4 DEF Within
<1> QED BY <1>5, <1>6, <1>7

\* Chains grow with what was seen and sent before.
LEMMA ChainMore ==
  ASSUME NEW n \in Int, NEW m \in Int, n <= m, NEW q \in Seq(Frames), NEW P, NEW R, P \subseteq R, Chain(n, q, P)
  PROVE  Chain(m, q, R)
<1> SUFFICES ASSUME NEW i \in 1 .. Len(q) PROVE Led(m, q, R, i)
  BY DEF Chain
<1>1. q[i] \in Nat
  BY InWithin
<1>2. q[i] <= n + 1 => q[i] <= m + 1
  BY <1>1
<1>c. Led(n, q, P, i)
  BY DEF Chain
<1> QED BY <1>2, <1>c DEF Led

\* Nothing is a chain.
LEMMA ChainNone == ASSUME NEW n, NEW P PROVE Chain(n, <<>>, P)
BY DEF Chain

\* A frame that does not leave a gap behind the others.
Follows(n, W, f) == f = Resync \/ f <= n + 1 \/ \E x \in W : Leads(x, f)

LEMMA ChainAppend ==
  ASSUME NEW n \in Int, NEW q \in Seq(Frames), NEW P, Chain(n, q, P), NEW f \in Frames,
         Follows(n, Within(q) \cup P, f)
  PROVE  Chain(n, Append(q, f), P)
<1> DEFINE s == Append(q, f)
<1>1. Len(q) \in Nat /\ Len(s) = Len(q) + 1 /\ s[Len(q) + 1] = f /\ \A i \in 1 .. Len(q) : s[i] = q[i]
  OBVIOUS
<1> HIDE DEF s
<1> SUFFICES ASSUME NEW i \in 1 .. Len(s) PROVE Led(n, s, P, i)
  BY DEF Chain, s
<1>2. CASE i \in 1 .. Len(q)
  <2>1. s[i] = q[i] /\ \A j \in 1 .. i - 1 : s[j] = q[j]
    BY <1>1, <1>2
  <2>2. Led(n, q, P, i)
    BY <1>2 DEF Chain
  <2> QED BY <2>1, <2>2 DEF Led
<1>3. CASE i = Len(q) + 1
  <2>1. s[i] = f
    BY <1>1, <1>3
  <2>2. ASSUME NEW x \in Within(q), Leads(x, f) PROVE \E j \in 1 .. i - 1 : Leads(s[j], s[i])
    <3>1. PICK j \in 1 .. Len(q) : x = q[j]
      BY DEF Within
    <3>2. j \in 1 .. i - 1 /\ s[j] = x
      BY <1>1, <1>3, <3>1
    <3> QED BY <2>1, <2>2, <3>2
  <2>3. f = Resync \/ f <= n + 1 \/ \E x \in Within(q) \cup P : Leads(x, f)
    BY DEF Follows
  <2> QED BY <2>1, <2>2, <2>3 DEF Led
<1> QED BY <1>1, <1>2, <1>3

\* Once its first frame was received, the rest is one.
Got(n, m, x, W) == n <= m /\ x <= m /\ (x = Resync => \A f \in W : f <= m)

LEMMA GotLed ==
  ASSUME NEW n \in Int, NEW m \in Int, NEW x \in Nat, NEW f \in Nat, NEW W, f \in W, Got(n, m, x, W), Leads(x, f)
  PROVE  f <= m + 1
BY SMT DEF Got, Leads

LEMMA ChainTail ==
  ASSUME NEW n \in Int, NEW m \in Int, NEW q \in Seq(Frames), q # <<>>, NEW P, Chain(n, q, P),
         NEW W, Within(q) \subseteq W, Got(n, m, q[1], W)
  PROVE  Chain(m, Tail(q), P)
<1> DEFINE s == Tail(q)
<1>1. Len(q) \in Nat /\ Len(s) = Len(q) - 1 /\ \A i \in 1 .. Len(s) : s[i] = q[i + 1]
  OBVIOUS
<1> HIDE DEF s
<1> SUFFICES ASSUME NEW i \in 1 .. Len(s) PROVE Led(m, s, P, i)
  BY DEF Chain, s
<1>2. i + 1 \in 1 .. Len(q) /\ s[i] = q[i + 1]
  BY <1>1
<1>3. q[i + 1] \in Nat /\ q[i + 1] \in W /\ q[1] \in Nat
  BY <1>2, InWithin, TailWithin
<1>4. ASSUME q[i + 1] <= n + 1 PROVE s[i] <= m + 1
  BY <1>2, <1>3, <1>4 DEF Got
<1>5. ASSUME NEW j \in 1 .. (i + 1) - 1, Leads(q[j], q[i + 1])
      PROVE  s[i] <= m + 1 \/ \E k \in 1 .. i - 1 : Leads(s[k], s[i])
  <2>1. CASE j = 1
    BY <1>2, <1>3, <1>5, <2>1, GotLed
  <2>2. CASE j # 1
    <3>1. j - 1 \in 1 .. i - 1 /\ s[j - 1] = q[j]
      BY <1>1, <2>2
    <3> QED BY <1>2, <1>5, <3>1
  <2> QED BY <2>1, <2>2
<1>c. Led(n, q, P, i + 1)
  BY <1>2 DEF Chain
<1> QED BY <1>2, <1>4, <1>5, <1>c DEF Led

\* And so is what was to follow it.
LEMMA ChainBehind ==
  ASSUME NEW n \in Int, NEW m \in Int, NEW q \in Seq(Frames), NEW x \in Nat, NEW P, Chain(n, q, P \cup {x}),
         NEW W, Within(q) \subseteq W, Got(n, m, x, W)
  PROVE  Chain(m, q, P)
<1> SUFFICES ASSUME NEW i \in 1 .. Len(q) PROVE Led(m, q, P, i)
  BY DEF Chain
<1>1. q[i] \in Nat /\ q[i] \in W
  BY InWithin
<1>2. q[i] <= n + 1 => q[i] <= m + 1
  BY <1>1 DEF Got
<1>3. Leads(x, q[i]) => q[i] <= m + 1
  BY <1>1, GotLed
<1>c. Led(n, q, P \cup {x}, i)
  BY DEF Chain
<1> QED BY <1>2, <1>3, <1>c DEF Led

LEMMA ChainShift ==
  ASSUME NEW n \in Int, NEW q \in Seq(Frames), q # <<>>, NEW P, Chain(n, q, P)
  PROVE  Chain(n, Tail(q), P \cup {q[1]})
<1> DEFINE s == Tail(q)
<1>1. Len(q) \in Nat /\ Len(s) = Len(q) - 1 /\ \A i \in 1 .. Len(s) : s[i] = q[i + 1]
  OBVIOUS
<1> HIDE DEF s
<1> SUFFICES ASSUME NEW i \in 1 .. Len(s) PROVE Led(n, s, P \cup {q[1]}, i)
  BY DEF Chain, s
<1>2. i + 1 \in 1 .. Len(q) /\ s[i] = q[i + 1]
  BY <1>1
<1>3. Led(n, q, P, i + 1)
  BY <1>2 DEF Chain
<1>4. ASSUME NEW j \in 1 .. (i + 1) - 1, Leads(q[j], q[i + 1])
      PROVE  Leads(q[1], s[i]) \/ \E k \in 1 .. i - 1 : Leads(s[k], s[i])
  <2>1. CASE j = 1
    BY <1>2, <1>4, <2>1
  <2>2. CASE j # 1
    <3>1. j - 1 \in 1 .. i - 1 /\ s[j - 1] = q[j]
      BY <1>1, <2>2
    <3> QED BY <1>2, <1>4, <3>1
  <2> QED BY <2>1, <2>2
<1> QED BY <1>2, <1>3, <1>4 DEF Led

LEMMA ChainFirst ==
  ASSUME NEW n \in Int, NEW q \in Seq(Frames), q # <<>>, NEW P, Chain(n, q, P)
  PROVE  Follows(n, P, q[1])
<1>1. 1 \in 1 .. Len(q)
  OBVIOUS
<1>2. Led(n, q, P, 1)
  BY <1>1 DEF Chain
<1>3. 1 .. 1 - 1 = {}
  OBVIOUS
<1> QED BY <1>2, <1>3 DEF Led, Follows

\* The two queues together.
LEMMA LineTail ==
  ASSUME NEW n \in Int, NEW m \in Int, NEW a \in Seq(Frames), a # <<>>, NEW b \in Seq(Frames), Line(n, a, b),
         Got(n, m, a[1], Within(a) \cup Within(b))
  PROVE  Line(m, Tail(a), b)
<1> DEFINE W == Within(a) \cup Within(b)
<1>1. Within(a) = Within(Tail(a)) \cup {a[1]} /\ a[1] \in Nat
  BY TailWithin
<1>2. Within(a) \subseteq W /\ Within(b) \subseteq W /\ Got(n, m, a[1], W)
  OBVIOUS
<1> HIDE DEF W
<1>3. Chain(m, Tail(a), {})
  BY <1>2, ChainTail DEF Line
<1>4. Chain(n, b, Within(Tail(a)) \cup {a[1]})
  BY <1>1 DEF Line
<1>5. Chain(m, b, Within(Tail(a)))
  BY <1>1, <1>2, <1>4, ChainBehind
<1> QED BY <1>3, <1>5 DEF Line

LEMMA LineRest ==
  ASSUME NEW n \in Int, NEW m \in Int, NEW b \in Seq(Frames), b # <<>>, Line(n, <<>>, b), Got(n, m, b[1], Within(b))
  PROVE  Line(m, <<>>, Tail(b))
<1>1. Chain(n, b, {})
  BY NoneWithin DEF Line
<1>2. Chain(m, Tail(b), {})
  BY <1>1, ChainTail
<1> QED BY <1>2, NoneWithin, ChainNone DEF Line

LEMMA LineMore ==
  ASSUME NEW n \in Int, NEW m \in Int, n <= m, NEW a \in Seq(Frames), NEW b \in Seq(Frames), Line(n, a, b)
  PROVE  Line(m, a, b)
BY ChainMore DEF Line

LEMMA LineNone == ASSUME NEW n PROVE Line(n, <<>>, <<>>)
BY ChainNone DEF Line

LEMMA LineFront ==
  ASSUME NEW n \in Int, NEW a \in Seq(Frames), NEW f \in Frames, Line(n, a, <<>>), Follows(n, Within(a), f)
  PROVE  Line(n, Append(a, f), <<>>)
<1>1. Chain(n, a, {}) /\ Within(a) \cup {} = Within(a)
  BY DEF Line
<1>2. Chain(n, Append(a, f), {})
  BY <1>1, ChainAppend
<1> QED BY <1>2, ChainNone DEF Line

LEMMA LineBehind ==
  ASSUME NEW n \in Int, NEW a \in Seq(Frames), NEW b \in Seq(Frames), NEW f \in Frames, Line(n, a, b),
         Follows(n, Within(b) \cup Within(a), f)
  PROVE  Line(n, a, Append(b, f))
BY ChainAppend DEF Line

LEMMA LineShift ==
  ASSUME NEW n \in Int, NEW a \in Seq(Frames), NEW b \in Seq(Frames), b # <<>>, Line(n, a, b)
  PROVE  /\ Line(n, Append(a, b[1]), Tail(b))
         /\ Within(Append(a, b[1])) \cup Within(Tail(b)) = Within(a) \cup Within(b)
<1>1. b[1] \in Frames /\ Within(b) = {b[1]} \cup Within(Tail(b)) /\ Tail(b) \in Seq(Frames)
  BY TailWithin DEF Frames
<1>2. Within(Append(a, b[1])) = Within(a) \cup {b[1]}
  BY <1>1, AppendWithin
<1>3. Follows(n, Within(a), b[1])
  BY ChainFirst DEF Line
<1>4. Chain(n, a, {}) /\ Within(a) \cup {} = Within(a)
  BY DEF Line
<1>5. Chain(n, Append(a, b[1]), {})
  BY <1>1, <1>3, <1>4, ChainAppend
<1>6. Chain(n, Tail(b), Within(a) \cup {b[1]})
  BY ChainShift DEF Line
<1> QED BY <1>1, <1>2, <1>5, <1>6 DEF Line

LEMMA LineFirst ==
  ASSUME NEW n \in Int, NEW a \in Seq(Frames), NEW b \in Seq(Frames), Line(n, a, b)
  PROVE  /\ a # <<>> => a[1] = Resync \/ a[1] <= n + 1
         /\ a = <<>> /\ b # <<>> => b[1] = Resync \/ b[1] <= n + 1
<1>1. a # <<>> => Follows(n, {}, a[1])
  BY ChainFirst DEF Line
<1>2. a = <<>> /\ b # <<>> => Follows(n, {}, b[1])
  BY ChainFirst, NoneWithin DEF Line
<1> QED BY <1>1, <1>2 DEF Follows

LEMMA HasTail ==
  ASSUME NEW n \in Int, NEW m \in Int, NEW a \in Seq(Frames), a # <<>>, NEW b \in Seq(Frames), NEW f \in Int,
         n <= m, a[1] <= m, a[1] = Resync => f <= m
  PROVE  /\ Has(n, a, b, f) => Has(m, Tail(a), b, f)
         /\ Has(n, b, a, f) => Has(m, b, Tail(a), f)
<1>1. Within(a) = {a[1]} \cup Within(Tail(a)) /\ a[1] \in Nat
  BY TailWithin
<1>2. n >= f => m >= f
  OBVIOUS
<1> QED BY <1>1, <1>2 DEF Has

LEMMA HasMore ==
  ASSUME NEW n \in Int, NEW m \in Int, n <= m, NEW a, NEW b, NEW f \in Int, Has(n, a, b, f)
  PROVE  Has(m, a, b, f)
BY DEF Has

LEMMA HasNext ==
  ASSUME NEW n \in Int, NEW a, NEW b, NEW f \in Nat, Has(n, a, b, f - 1)
  PROVE  Follows(n, Within(a) \cup Within(b), f)
BY DEF Has, Follows, Leads

\* A replay: the events after the cursor, which the client has seen up to there.
LEMMA MissedRun ==
  ASSUME BuffersAssumption, TypeOK, NEW c \in Clients, CursorInv(c), Replayable(client[c].cur)
  PROVE  /\ c \notin matched => Missed(c) = <<>>
         /\ c \in matched => /\ Len(Missed(c)) = head - client[c].cur.seq
                             /\ \A i \in 1 .. Len(Missed(c)) : Missed(c)[i] = client[c].cur.seq + i
         /\ client[c].cur.seq \in Nat /\ client[c].cur.seq <= client[c].seen /\ client[c].seen <= head
<1>1. client[c].cur.seq \in Nat /\ head \in Nat /\ ResumeBuffer \in Nat /\ client[c].seen \in Int
  BY DEF TypeOK, ClientType, BuffersAssumption
<1>2. client[c].cur.seq <= client[c].seen /\ client[c].seen <= head
  BY DEF CursorInv, Replayable
<1>3. Oldest \in Nat /\ client[c].cur.seq + 1 >= Oldest
  BY <1>1 DEF Oldest, Replayable
<1>4. Before(client[c].cur) = client[c].cur.seq
  BY <1>1, <1>3 DEF Before
<1> DEFINE k == client[c].cur.seq
           q == [i \in 1 .. head - k |-> k + i]
<1>5. c \in matched => Missed(c) = q
  BY <1>4 DEF Missed
<1>6. head - k \in Nat
  BY <1>1, <1>2
<1>7. Len(q) = head - k /\ \A i \in 1 .. head - k : q[i] = k + i
  BY <1>6
<1> QED BY <1>1, <1>2, <1>5, <1>7 DEF Missed

LEMMA MissedWithin ==
  ASSUME BuffersAssumption, TypeOK, NEW c \in Clients, CursorInv(c), Replayable(client[c].cur), c \in matched
  PROVE  Within(Missed(c)) = client[c].cur.seq + 1 .. head
<1> DEFINE k == client[c].cur.seq
           q == Missed(c)
<1>1. Len(q) = head - k /\ (\A i \in 1 .. Len(q) : q[i] = k + i) /\ k \in Nat /\ head \in Nat /\ k <= head
  BY MissedRun DEF TypeOK, ClientType
<1> HIDE DEF k, q
<1>2. ASSUME NEW f \in k + 1 .. head PROVE f \in Within(q)
  <2>1. f - k \in 1 .. Len(q) /\ q[f - k] = f
    BY <1>1
  <2> QED BY <2>1 DEF Within
<1>3. Within(q) \subseteq k + 1 .. head
  BY <1>1 DEF Within
<1> QED BY <1>2, <1>3 DEF k, q

LEMMA MissedLine ==
  ASSUME BuffersAssumption, TypeOK, NEW c \in Clients, CursorInv(c), Replayable(client[c].cur)
  PROVE  /\ \A P : Chain(client[c].seen, Missed(c), P)
         /\ c \in matched => \A q \in Seq(Frames) :
                (\A f \in Within(q) : f <= head) => Chain(client[c].seen, q, Within(Missed(c)))
         /\ c \in matched => \A f \in {head - 1, head} :
                client[c].seen >= f \/ f \in Within(Missed(c))
<1> DEFINE k == client[c].cur.seq
           n == client[c].seen
           s == Missed(c)
<1>1. k \in Nat /\ n \in Int /\ head \in Nat /\ k <= n /\ n <= head
  BY MissedRun DEF TypeOK, ClientType
<1>2. c \notin matched => s = <<>>
  BY MissedRun
<1>3. c \in matched => Len(s) = head - k /\ \A i \in 1 .. Len(s) : s[i] = k + i
  BY MissedRun
<1>4. c \in matched => Within(s) = k + 1 .. head
  BY MissedWithin
<1> HIDE DEF k, n, s
<1>5. ASSUME c \in matched, NEW P, NEW i \in 1 .. Len(s) PROVE Led(n, s, P, i)
  <2>1. s[i] = k + i /\ Len(s) = head - k
    BY <1>3, <1>5
  <2>2. CASE i = 1
    BY <1>1, <2>1, <2>2 DEF Led
  <2>3. CASE i # 1
    <3>1. i - 1 \in 1 .. i - 1 /\ i - 1 \in 1 .. Len(s)
      BY <1>1, <2>1, <2>3
    <3>2. s[i - 1] = s[i] - 1
      BY <1>1, <1>3, <1>5, <2>1, <3>1
    <3> QED BY <3>1, <3>2 DEF Led, Leads
  <2> QED BY <2>2, <2>3
<1>6. ASSUME NEW P PROVE Chain(n, s, P)
  BY <1>2, <1>5, ChainNone DEF Chain
<1>7. ASSUME c \in matched, NEW q \in Seq(Frames), \A f \in Within(q) : f <= head, NEW i \in 1 .. Len(q)
      PROVE  Led(n, q, Within(s), i)
  <2>1. q[i] \in Nat /\ q[i] <= head
    BY <1>7, InWithin
  <2>2. CASE q[i] <= n + 1
    BY <2>2 DEF Led
  <2>3. CASE ~(q[i] <= n + 1)
    <3>1. q[i] - 1 \in k + 1 .. head
      BY <1>1, <2>1, <2>3
    <3>2. q[i] - 1 \in Within(s) /\ Leads(q[i] - 1, q[i])
      BY <1>4, <1>7, <3>1 DEF Leads
    <3> QED BY <3>2 DEF Led
  <2> QED BY <2>2, <2>3
<1>8. ASSUME c \in matched, NEW f \in {head - 1, head} PROVE n >= f \/ f \in Within(s)
  BY <1>1, <1>4, <1>8
<1>9. c \in matched => \A q \in Seq(Frames) : (\A f \in Within(q) : f <= head) => Chain(n, q, Within(s))
  BY <1>7 DEF Chain
<1> QED BY <1>6, <1>8, <1>9 DEF n, s

-----------------------------------------------------------------------------
(* What a step of one client may do.                                         *)

LEMMA Here ==
  ASSUME TypeOK, NEW c \in Clients
  PROVE  /\ conn[c] \in ConnType /\ conn[c].out \in Seq(Frames) /\ conn[c].backlog \in Seq(Frames)
         /\ client[c].seen \in Int /\ client[c].cur.seq \in Nat /\ client[c].cur.epoch \in Nat
         /\ head \in Nat /\ epoch \in Nat /\ epoch >= 1 /\ Due(c) \in {head - 1, head}
<1>1. conn[c] \in ConnType /\ client[c] \in ClientType
  BY DEF TypeOK
<1>2. head \in Nat /\ epoch \in Nat /\ epoch >= 1
  BY BoundsAssumption DEF TypeOK
<1> QED BY <1>1, <1>2 DEF ConnType, ClientType, Due

\* A step about c leaves the other clients as they are, and c in order.
Acts(c) ==
  /\ \A d \in Clients \ {c} : /\ conn'[d] = conn[d] /\ client'[d] = client[d]
                              /\ d \in excused' <=> d \in excused
                              /\ d \in todo' <=> d \in todo
                              /\ d \in clients' <=> d \in clients
  /\ matched' = matched /\ head' = head /\ epoch' = epoch
  /\ NoSilentGap'
  /\ CursorInv(c)' /\ QueuesInv(c)' /\ StreamInv(c)'

LEMMA ActsGap == ASSUME GapInv, NEW c \in Clients, Acts(c) PROVE GapInv'
<1> SUFFICES ASSUME NEW d \in Clients \ {c} PROVE CursorInv(d)' /\ QueuesInv(d)' /\ StreamInv(d)'
  BY DEF GapInv, Acts
<1>1. /\ conn'[d] = conn[d] /\ client'[d] = client[d]
      /\ d \in excused' <=> d \in excused
      /\ d \in todo' <=> d \in todo
      /\ d \in clients' <=> d \in clients
      /\ matched' = matched /\ head' = head /\ epoch' = epoch
  BY DEF Acts
<1>2. CursorInv(d) /\ QueuesInv(d) /\ StreamInv(d)
  BY DEF GapInv
<1>3. CursorInv(d)'
  BY <1>1, <1>2 DEF CursorInv
<1>4. QueuesInv(d)'
  BY <1>1, <1>2 DEF QueuesInv
<1>5. Front(d)' = Front(d) /\ Behind(d)' = Behind(d) /\ Due(d)' = Due(d) /\ Pending(d)' = Pending(d)
  BY <1>1 DEF Front, Behind, Due, Pending, Fresh
<1>6. StreamInv(d)'
  BY <1>1, <1>2, <1>5 DEF StreamInv
<1> QED BY <1>3, <1>4, <1>6

\* Receiving a frame that is no gap.
LEMMA Reception ==
  ASSUME TypeOK, NEW c \in Clients, CursorInv(c), NEW f \in Frames, f <= head, Receive(c, f), epoch' = epoch
  PROVE  /\ \A d \in Clients \ {c} : client'[d] = client[d]
         /\ excused' = excused /\ lost' \subseteq lost \cup {c}
         /\ ~conn[c].up => UNCHANGED known
         /\ f = Resync \/ f <= client[c].seen + 1 => lost' = lost
         /\ client[c].seen <= client'[c].seen /\ client'[c].seen <= head
         /\ client'[c].cur.epoch <= epoch
         /\ client'[c].cur.epoch = epoch => client'[c].cur.seq <= client'[c].seen
         /\ conn[c].up => /\ f <= client'[c].seen
                          /\ f = Resync => client'[c].seen = head
<1>1. /\ client \in [Clients -> ClientType] /\ client[c].seen \in Int /\ client[c].cur.seq \in Nat
      /\ client[c].cur.epoch \in Nat /\ head \in Nat /\ epoch \in Nat /\ client[c] \in ClientType
  BY Here DEF TypeOK
<1>2. /\ client[c].cur.epoch <= epoch
      /\ client[c].cur.epoch = epoch => client[c].cur.seq <= client[c].seen
      /\ client[c].seen >= -1 /\ client[c].seen <= head
  BY DEF CursorInv, Unknown
<1>3. CASE (~conn[c].up \/ Stale(c, f)) /\ UNCHANGED known
  <2>1. client' = client /\ lost' = lost /\ excused' = excused
    BY <1>3 DEF known
  <2>2. Stale(c, f) => f # Resync /\ f \in Nat /\ f <= client[c].seen
    BY <1>1, <1>2 DEF Stale, Frames
  <2> QED BY <1>1, <1>2, <1>3, <2>1, <2>2
<1>4. CASE conn[c].up /\ f = Resync /\ client' = [client EXCEPT ![c].seen = head] /\ UNCHANGED <<lost, excused>>
  <2>1. client'[c].seen = head /\ client'[c].cur = client[c].cur /\ \A d \in Clients \ {c} : client'[d] = client[d]
    BY <1>1, <1>4 DEF ClientType
  <2> QED BY <1>1, <1>2, <1>4, <2>1 DEF Resync
<1>5. CASE /\ conn[c].up /\ f # Resync
           /\ client' = [client EXCEPT ![c] =
                [cur |-> [epoch |-> epoch, seq |-> f],
                 seen |-> IF f > client[c].seen THEN f ELSE client[c].seen]]
           /\ lost' = IF f > client[c].seen + 1 THEN lost \cup {c} ELSE lost
           /\ UNCHANGED excused
  <2>1. /\ client'[c].cur.epoch = epoch /\ client'[c].cur.seq = f
        /\ client'[c].seen = IF f > client[c].seen THEN f ELSE client[c].seen
        /\ \A d \in Clients \ {c} : client'[d] = client[d]
    BY <1>1, <1>5
  <2>2. f \in Nat
    BY DEF Frames
  <2> QED BY <1>1, <1>2, <1>5, <2>1, <2>2
<1> QED BY <1>3, <1>4, <1>5 DEF Receive

\* A step of c's connection that leaves the clients and the hub alone.
LEMMA Local ==
  ASSUME TypeOK, TypeOK', GapInv, NEW c \in Clients, NEW k, conn' = [conn EXCEPT ![c] = k],
         \A d \in Clients \ {c} : /\ d \in excused' <=> d \in excused
                                  /\ d \in todo' <=> d \in todo
                                  /\ d \in clients' <=> d \in clients,
         UNCHANGED <<matched, head, epoch, client, lost>>, excused \subseteq excused',
         \A f \in Within(conn'[c].out) \cup Within(conn'[c].backlog) : f <= head /\ (c \notin matched => f = Resync),
         QueuesInv(c)', StreamInv(c)'
  PROVE  Acts(c)
<1>1. \A d \in Clients \ {c} : conn'[d] = conn[d]
  BY DEF TypeOK
<1>2. CursorInv(c)'
  BY DEF GapInv, CursorInv
<1>3. NoSilentGap'
  BY DEF GapInv, NoSilentGap
<1> QED BY <1>1, <1>2, <1>3 DEF Acts

\* Its queues are gone, or its client is.
LEMMA Ending ==
  ASSUME TypeOK, TypeOK', GapInv, NEW c \in Clients, NEW k, conn' = [conn EXCEPT ![c] = k],
         \A d \in Clients \ {c} : /\ d \in todo' <=> d \in todo
                                  /\ d \in clients' <=> d \in clients,
         UNCHANGED <<matched, head, epoch, client, lost, excused>>,
         k = Off \/ (k.up = FALSE /\ k.out = conn[c].out /\ k.backlog = conn[c].backlog /\ QueuesInv(c)')
  PROVE  Acts(c)
<1>1. conn'[c] = k
  BY DEF TypeOK
<1>2. \A f \in Within(conn'[c].out) \cup Within(conn'[c].backlog) : f <= head /\ (c \notin matched => f = Resync)
  BY <1>1, NoneWithin DEF Off, GapInv, CursorInv
<1>3. QueuesInv(c)'
  BY <1>1 DEF Off, QueuesInv
<1>4. StreamInv(c)'
  BY <1>1 DEF Off, StreamInv
<1> QED BY <1>2, <1>3, <1>4, Local

-----------------------------------------------------------------------------
(* The steps of a client.                                                    *)

LEMMA EndingGap ==
  ASSUME IInv, TypeOK', GapInv, NEW c \in Clients,
         HandshakeFails(c) \/ RunEnds(c) \/ HookPanics(c) \/ ReaderEnds(c) \/ WriterEnds(c) \/ Leave(c)
  PROVE  Acts(c)
<1>1. TypeOK /\ conn[c] \in ConnType /\ conn \in [Clients -> ConnType] /\ QueuesInv(c)
  BY DEF IInv, TypeOK, GapInv
<1>2. CASE HandshakeFails(c)
  BY <1>1, <1>2, Ending DEF HandshakeFails, Release, known
<1>3. CASE RunEnds(c) \/ HookPanics(c)
  BY <1>1, <1>3, Ending DEF RunEnds, HookPanics, CleanUp, known
<1>4. ASSUME NEW rest, PumpEnds(c, rest),
             \/ rest = [conn[c] EXCEPT !.reader = "gone"] /\ conn[c].reader = "idle"
             \/ rest = [conn[c] EXCEPT !.writer = "gone"]
      PROVE  Acts(c)
  <2>1. /\ UNCHANGED <<matched, head, epoch, client, lost, excused>>
        /\ clients' = clients \ {c} /\ todo' = todo \ {c}
    BY <1>4 DEF PumpEnds, known
  <2>2. CASE conn' = [conn EXCEPT ![c] = Off]
    BY <1>1, <2>1, <2>2, Ending
  <2>3. CASE conn' = [conn EXCEPT ![c] = [rest EXCEPT !.closed = TRUE, !.up = FALSE]]
    <3> DEFINE k == [rest EXCEPT !.closed = TRUE, !.up = FALSE]
    <3>1. /\ k.up = FALSE /\ k.out = conn[c].out /\ k.backlog = conn[c].backlog /\ k.ph = conn[c].ph
          /\ k.sub = conn[c].sub /\ k.dropped = conn[c].dropped /\ k.kicked = conn[c].kicked
          /\ k.reader = conn[c].reader \/ (conn[c].reader = "idle" /\ k.reader = "gone")
      BY <1>1, <1>4 DEF ConnType
    <3>2. conn' = [conn EXCEPT ![c] = k]
      BY <2>3
    <3> HIDE DEF k
    <3>3. conn'[c] = k
      BY <1>1, <3>2
    <3>4. QueuesInv(c)'
      BY <1>1, <3>1, <3>3 DEF QueuesInv
    <3> QED BY <1>1, <2>1, <3>1, <3>2, <3>4, Ending
  <2> QED BY <1>4, <2>2, <2>3 DEF PumpEnds
<1>5. CASE ReaderEnds(c)
  BY <1>4, <1>5 DEF ReaderEnds
<1>6. CASE WriterEnds(c)
  BY <1>4, <1>6 DEF WriterEnds
<1>7. CASE Leave(c)
  <2> DEFINE k == [conn[c] EXCEPT !.up = FALSE]
  <2>1. /\ k.up = FALSE /\ k.out = conn[c].out /\ k.backlog = conn[c].backlog /\ k.ph = conn[c].ph
        /\ k.sub = conn[c].sub /\ k.dropped = conn[c].dropped /\ k.kicked = conn[c].kicked
        /\ k.reader = conn[c].reader
    BY <1>1 DEF ConnType
  <2>2. conn' = [conn EXCEPT ![c] = k]
    BY <1>7 DEF Leave
  <2> HIDE DEF k
  <2>3. conn'[c] = k
    BY <1>1, <2>2
  <2>4. QueuesInv(c)'
    BY <1>1, <1>7, <2>1, <2>3 DEF QueuesInv, Leave, counts
  <2> QED BY <1>1, <1>7, <2>1, <2>2, <2>4, Ending DEF Leave, hub, counts, known
<1> QED BY <1>2, <1>3, <1>5, <1>6, <1>7

LEMMA ComingUpGap ==
  ASSUME IInv, IInv', GapInv, NEW c \in Clients, Dial(c) \/ Register(c)
  PROVE  Acts(c)
<1>1. /\ TypeOK /\ TypeOK' /\ conn[c] \in ConnType /\ conn \in [Clients -> ConnType]
      /\ QueuesInv(c) /\ CursorInv(c) /\ NoSilentGap
  BY DEF IInv, TypeOK, GapInv
<1>2. CASE Dial(c)
  <2> DEFINE k == [Off EXCEPT !.ph = "admitted", !.up = TRUE]
  <2>1. /\ k.ph = "admitted" /\ k.out = <<>> /\ k.backlog = <<>> /\ k.sub = FALSE /\ k.dropped = FALSE
        /\ k.reader = "gone"
    BY DEF Off
  <2>2. conn' = [conn EXCEPT ![c] = k]
    BY <1>2 DEF Dial
  <2> HIDE DEF k
  <2>3. conn'[c] = k
    BY <1>1, <2>2
  <2>4. QueuesInv(c)'
    BY <2>1, <2>3 DEF QueuesInv
  <2>5. Line(client[c].seen, <<>>, <<>>)
    BY LineNone
  <2>6. StreamInv(c)'
    BY <1>2, <2>1, <2>3, <2>5 DEF StreamInv, Front, Behind, Dial, known
  <2>7. \A f \in Within(conn'[c].out) \cup Within(conn'[c].backlog) : f <= head /\ (c \notin matched => f = Resync)
    BY <2>1, <2>3, NoneWithin
  <2>8. /\ UNCHANGED <<matched, head, epoch, todo, clients, client>>
        /\ lost' = lost \ {c} /\ excused' = excused \ {c}
    BY <1>2 DEF Dial, hub
  <2>9. CursorInv(c)'
    BY <1>1, <2>7, <2>8 DEF CursorInv
  <2>10. NoSilentGap'
    BY <1>1, <2>8 DEF NoSilentGap
  <2>11. \A d \in Clients \ {c} : conn'[d] = conn[d]
    BY <1>1, <2>2
  <2> QED BY <2>4, <2>6, <2>8, <2>9, <2>10, <2>11 DEF Acts
<1>3. CASE Register(c) /\ Release(c)
  BY <1>1, <1>3, Ending DEF Release, Register, known
<1>4. CASE Register(c) /\ Enter(c)
  <2>1. /\ conn[c].ph = "admitted" /\ conn[c].out = <<>> /\ conn[c].backlog = <<>>
        /\ UNCHANGED <<matched, head, epoch, lost, excused>>
        /\ clients' = clients \cup {c} /\ todo' \in {todo, todo \cup {c}}
    BY <1>1, <1>4 DEF QueuesInv, Register, Enter, known
  <2>2. /\ \A d \in Clients \ {c} : conn'[d] = conn[d] /\ client'[d] = client[d]
        /\ conn'[c].out = <<>> /\ conn'[c].backlog = <<>> /\ conn'[c].dropped = conn[c].dropped
        /\ conn'[c].kicked = conn[c].kicked
        /\ c \in SSE => conn'[c].ph = "replay" /\ client' = Fetched(c)
        /\ c \notin SSE => conn'[c].ph = "open" /\ conn'[c].reader = "idle" /\ conn'[c].sub = conn[c].sub
                           /\ conn'[c].writer = "top" /\ client' = client
    <3>1. CASE c \in SSE
      <4> DEFINE k == [conn[c] EXCEPT !.ph = "replay", !.sub = TRUE]
      <4>1. conn' = [conn EXCEPT ![c] = k] /\ client' = Fetched(c)
        BY <1>4, <3>1 DEF Enter
      <4>2. /\ k.out = conn[c].out /\ k.backlog = conn[c].backlog /\ k.dropped = conn[c].dropped
            /\ k.kicked = conn[c].kicked /\ k.ph = "replay"
        BY <1>1 DEF ConnType
      <4> HIDE DEF k
      <4>3. conn'[c] = k /\ \A d \in Clients \ {c} : conn'[d] = conn[d]
        BY <1>1, <4>1
      <4>4. \A d \in Clients \ {c} : Fetched(c)[d] = client[d]
        BY <1>1 DEF TypeOK, Fetched
      <4> QED BY <2>1, <3>1, <4>1, <4>2, <4>3, <4>4
    <3>2. CASE c \notin SSE
      <4> DEFINE k == [conn[c] EXCEPT !.ph = "open", !.reader = "idle", !.writer = "top"]
      <4>1. conn' = [conn EXCEPT ![c] = k] /\ client' = client
        BY <1>4, <3>2 DEF Enter, known
      <4>2. /\ k.out = conn[c].out /\ k.backlog = conn[c].backlog /\ k.dropped = conn[c].dropped
            /\ k.kicked = conn[c].kicked /\ k.ph = "open" /\ k.reader = "idle" /\ k.writer = "top"
            /\ k.sub = conn[c].sub
        BY <1>1 DEF ConnType
      <4> HIDE DEF k
      <4>3. conn'[c] = k /\ \A d \in Clients \ {c} : conn'[d] = conn[d]
        BY <1>1, <4>1
      <4> QED BY <2>1, <3>2, <4>1, <4>2, <4>3
    <3> QED BY <3>1, <3>2
  <2>3. QueuesInv(c)'
    BY <1>1, <2>1, <2>2 DEF QueuesInv, WS
  <2>4. /\ client'[c].cur = client[c].cur /\ client'[c].seen \in {client[c].seen, head}
        /\ c \in SSE /\ Fresh(c) => client'[c].seen = head
    <3>1. client[c] \in ClientType /\ client \in [Clients -> ClientType]
      BY <1>1 DEF TypeOK
    <3> QED BY <2>2, <3>1 DEF Fetched, ClientType
  <2>5. CursorInv(c)'
    <3>1. \A f \in Within(conn'[c].out) \cup Within(conn'[c].backlog) : FALSE
      BY <2>2, NoneWithin
    <3> QED BY <1>1, <2>1, <2>4, <3>1, Here DEF CursorInv, Unknown
  <2>6. StreamInv(c)'
    <3>1. Line(client'[c].seen, <<>>, <<>>)
      BY LineNone
    <3>2. Front(c)' = <<>> /\ Behind(c)' = <<>>
      BY <2>2 DEF Front, Behind
    <3>3. Fresh(c)' <=> Fresh(c)
      BY <2>4 DEF Fresh
    <3>4. CASE c \in SSE
      <4>1. Fresh(c) => client'[c].seen >= Due(c)'
        BY <1>1, <2>1, <2>4, <3>4, Here DEF Due
      <4> QED BY <2>2, <3>1, <3>2, <3>3, <3>4, <4>1 DEF StreamInv, Pending, Has, WS
    <3>5. CASE c \notin SSE
      <4>1. conn'[c].sub = FALSE /\ conn'[c].writer = "top"
        BY <1>1, <2>1, <2>2, <3>5 DEF QueuesInv, ConnType
      <4> QED BY <3>1, <3>2, <3>5, <4>1 DEF StreamInv
    <3> QED BY <3>4, <3>5
  <2>7. NoSilentGap'
    BY <1>1, <2>1 DEF NoSilentGap
  <2> QED BY <2>1, <2>2, <2>3, <2>5, <2>6, <2>7 DEF Acts
<1> QED BY <1>2, <1>3, <1>4 DEF Register

LEMMA AppendFirst ==
  ASSUME NEW q \in Seq(Frames), q # <<>>, NEW f \in Frames
  PROVE  Append(q, f) # <<>> /\ Append(q, f)[1] = q[1]
<1>1. Len(q) >= 1 /\ Len(q) \in Nat /\ Len(Append(q, f)) = Len(q) + 1
  OBVIOUS
<1>2. \A i \in 1 .. Len(q) : Append(q, f)[i] = q[i]
  OBVIOUS
<1> QED BY <1>1, <1>2

LEMMA DeliverGap ==
  ASSUME IInv, IInv', GapInv, NEW c \in Clients, Deliver(c)
  PROVE  Acts(c)
<1>1. /\ TypeOK /\ TypeOK' /\ conn[c] \in ConnType /\ conn \in [Clients -> ConnType]
      /\ QueuesInv(c) /\ CursorInv(c) /\ StreamInv(c) /\ ShapeInv
  BY DEF IInv, TypeOK, GapInv
<1>2. /\ UNCHANGED <<matched, head, epoch, clients, client, lost>> /\ c \in todo /\ todo' = todo \ {c}
      /\ \A d \in Clients \ {c} : d \in excused' <=> d \in excused
      /\ excused \subseteq excused'
  BY <1>1 DEF Deliver, counts
<1>3. Due(c) = head - 1 /\ Due(c)' = head /\ head \in Frames /\ head \in Nat /\ (Fresh(c)' <=> Fresh(c))
  BY <1>1, <1>2, Here DEF Due, Frames, Fresh
<1> DEFINE n == client[c].seen
           a == Front(c)
           b == Behind(c)
<1>4. /\ n \in Int /\ a \in Seq(Frames) /\ b \in Seq(Frames)
      /\ conn[c].out \in Seq(Frames) /\ conn[c].backlog \in Seq(Frames)
  BY <1>1, Here DEF Front, Behind
<1>5. CASE ~Matches(c) /\ UNCHANGED <<conn, excused>>
  <2>1. conn' = [conn EXCEPT ![c] = conn[c]]
    BY <1>1, <1>5
  <2>2. QueuesInv(c)'
    BY <1>1, <1>2, <1>5 DEF QueuesInv
  <2>3. StreamInv(c)'
    BY <1>1, <1>2, <1>3, <1>5 DEF StreamInv, Front, Behind, Pending, Matches
  <2>4. \A f \in Within(conn'[c].out) \cup Within(conn'[c].backlog) : f <= head /\ (c \notin matched => f = Resync)
    BY <1>1, <1>5 DEF CursorInv
  <2> QED BY <1>1, <1>2, <2>1, <2>2, <2>3, <2>4, Local
<1>6. CASE /\ Matches(c) /\ Room(c)
           /\ conn' = [conn EXCEPT ![c].out = Append(conn[c].out, head)]
           /\ excused' = IF Overtakes(c) THEN excused \cup {c} ELSE excused
  <2> DEFINE k == [conn[c] EXCEPT !.out = Append(conn[c].out, head)]
  <2>1. /\ k.out = Append(conn[c].out, head) /\ k.backlog = conn[c].backlog /\ k.ph = conn[c].ph /\ k.sub = conn[c].sub
        /\ k.reader = conn[c].reader /\ k.writer = conn[c].writer /\ k.kicked = conn[c].kicked
        /\ k.dropped = conn[c].dropped /\ k.up = conn[c].up
    BY <1>1 DEF ConnType
  <2>2. conn' = [conn EXCEPT ![c] = k]
    BY <1>1, <1>6
  <2> HIDE DEF k
  <2>3. conn'[c] = k
    BY <1>1, <2>2
  <2>4. Within(conn'[c].out) = Within(conn[c].out) \cup {head} /\ c \in matched /\ conn[c].sub
    BY <1>3, <1>4, <1>6, <2>1, <2>3, AppendWithin DEF Matches
  <2>5. \A f \in Within(conn'[c].out) \cup Within(conn'[c].backlog) : f <= head /\ (c \notin matched => f = Resync)
    BY <1>1, <1>3, <2>1, <2>3, <2>4 DEF CursorInv
  <2>6. QueuesInv(c)'
    BY <1>1, <1>2, <2>1, <2>3, <2>4 DEF QueuesInv
  <2>7. ASSUME conn[c].up, c \notin excused' PROVE
          /\ ~Pending(c) /\ (c \in SSE \/ ~conn[c].dropped) => Line(n, Front(c)', Behind(c)')
          /\ c \in WS /\ conn[c].dropped /\ conn[c].writer = "select" =>
               conn'[c].out # <<>> /\ (conn'[c].out[1] = Resync \/ conn'[c].out[1] <= n + 1)
          /\ Has(n, Front(c)', Behind(c)', head)
    <3>1. ~Overtakes(c) /\ c \notin excused
      BY <1>6, <2>7
    <3>2. head \in Within(Front(c)') \cup Within(Behind(c)')
      BY <2>1, <2>3, <2>4 DEF Front, Behind
    <3>3. CASE c \in SSE
      <4>1. Front(c)' = a /\ Behind(c)' = Append(b, head) /\ conn[c].reader = "gone"
        BY <1>1, <2>1, <2>3, <3>3 DEF Front, Behind, ShapeInv, Readers
      <4>2. ~conn[c].dropped /\ c \notin WS
        BY <3>1, <3>3 DEF Overtakes, WS
      <4>3. ASSUME ~Pending(c) PROVE Line(n, a, Append(b, head))
        <5>1. Line(n, a, b) /\ Has(n, a, b, head - 1)
          BY <1>1, <1>3, <2>4, <2>7, <3>1, <3>3, <4>1, <4>2, <4>3 DEF StreamInv
        <5>2. Follows(n, Within(a) \cup Within(b), head)
          BY <1>3, <1>4, <5>1, HasNext
        <5>3. Within(a) \cup Within(b) = Within(b) \cup Within(a)
          OBVIOUS
        <5> QED BY <1>3, <1>4, <5>1, <5>2, <5>3, LineBehind
      <4> QED BY <3>2, <4>1, <4>2, <4>3 DEF Has
    <3>4. CASE c \notin SSE
      <4>1. c \in WS /\ Front(c)' = Append(a, head) /\ conn[c].reader \notin {"replay", "backlog"} /\ ~Pending(c)
        BY <2>1, <2>3, <3>1, <3>4 DEF Front, WS, Overtakes, Pending
      <4>2. b = <<>> /\ Behind(c)' = <<>> /\ a = conn[c].out
        BY <1>1, <2>1, <2>3, <3>4, <4>1 DEF QueuesInv, Behind, Front
      <4>3. ASSUME ~conn[c].dropped PROVE Line(n, Append(a, head), <<>>)
        <5>1. Line(n, a, <<>>) /\ Has(n, a, <<>>, head - 1)
          BY <1>1, <1>3, <2>4, <2>7, <3>1, <4>1, <4>2, <4>3 DEF StreamInv
        <5>2. Follows(n, Within(a), head)
          <6>1. Within(a) \cup Within(<<>>) = Within(a)
            BY NoneWithin
          <6>2. Follows(n, Within(a) \cup Within(<<>>), head)
            BY <1>3, <1>4, <5>1, HasNext
          <6> QED BY <6>1, <6>2
        <5> QED BY <1>3, <1>4, <5>1, <5>2, LineFront
      <4>4. ASSUME conn[c].dropped, conn[c].writer = "select"
            PROVE  conn'[c].out # <<>> /\ (conn'[c].out[1] = Resync \/ conn'[c].out[1] <= n + 1)
        <5>1. conn[c].out # <<>> /\ (conn[c].out[1] = Resync \/ conn[c].out[1] <= n + 1)
          BY <1>1, <2>7, <3>1, <4>1, <4>4 DEF StreamInv
        <5>2. conn'[c].out # <<>> /\ conn'[c].out[1] = conn[c].out[1]
          BY <1>3, <1>4, <2>1, <2>3, <5>1, AppendFirst
        <5> QED BY <5>1, <5>2
      <4> QED BY <3>2, <3>4, <4>1, <4>2, <4>3, <4>4 DEF Has
    <3> QED BY <3>3, <3>4
  <2>8. Pending(c)' <=> Pending(c)
    BY <1>3, <2>1, <2>3 DEF Pending
  <2>9. StreamInv(c)'
    BY <1>2, <1>3, <2>1, <2>3, <2>7, <2>8 DEF StreamInv
  <2> QED BY <1>1, <1>2, <2>2, <2>5, <2>6, <2>9, Local
<1>7. CASE Matches(c) /\ ~Room(c) /\ conn' = [conn EXCEPT ![c] = Kicked(c)] /\ UNCHANGED excused
  <2> DEFINE k == Kicked(c)
  <2>1. /\ k.out = conn[c].out /\ k.backlog = conn[c].backlog /\ k.ph = conn[c].ph /\ k.sub = conn[c].sub
        /\ k.reader = conn[c].reader /\ k.writer = conn[c].writer /\ k.kicked = TRUE
        /\ k.dropped = TRUE /\ k.up = conn[c].up
    BY <1>1 DEF ConnType, Kicked
  <2> HIDE DEF k
  <2>2. conn'[c] = k /\ conn' = [conn EXCEPT ![c] = k]
    BY <1>1, <1>7 DEF k
  <2>3. QueuesInv(c)'
    BY <1>1, <1>2, <2>1, <2>2 DEF QueuesInv
  <2>4. Front(c)' = a /\ Behind(c)' = b /\ (Pending(c)' <=> Pending(c))
    BY <1>3, <2>1, <2>2 DEF Front, Behind, Pending
  <2>5. conn[c].out # <<>>
    <3>1. Len(conn[c].out) >= SendBuffer /\ SendBuffer >= 1
      BY <1>4, <1>7, BuffersAssumption DEF Room
    <3> QED BY <3>1, BuffersAssumption
  <2>6. ASSUME conn[c].up, c \notin excused, c \in WS, conn[c].writer = "select"
        PROVE  conn[c].out[1] = Resync \/ conn[c].out[1] <= n + 1
    <3>1. CASE conn[c].dropped
      BY <1>1, <2>6, <3>1 DEF StreamInv
    <3>2. CASE ~conn[c].dropped
      <4>1. a = conn[c].out /\ ~Pending(c)
        BY <2>6 DEF Front, WS, Pending
      <4>2. Line(n, a, b)
        BY <1>1, <2>6, <3>2, <4>1 DEF StreamInv
      <4>3. a # <<>>
        BY <2>5, <4>1
      <4> HIDE DEF a, b, n
      <4>4. a[1] = Resync \/ a[1] <= n + 1
        BY <1>4, <4>2, <4>3, LineFirst
      <4> QED BY <4>1, <4>4 DEF n
    <3> QED BY <3>1, <3>2
  <2>7. StreamInv(c)'
    BY <1>1, <1>2, <1>7, <2>1, <2>2, <2>4, <2>5, <2>6 DEF StreamInv, WS
  <2>8. \A f \in Within(conn'[c].out) \cup Within(conn'[c].backlog) : f <= head /\ (c \notin matched => f = Resync)
    BY <1>1, <2>1, <2>2 DEF CursorInv
  <2> QED BY <1>1, <1>2, <2>2, <2>3, <2>7, <2>8, Local
<1> QED BY <1>5, <1>6, <1>7 DEF Deliver

\* A replay that starts, over SSE or a WebSocket.
LEMMA ReplaySSEGap ==
  ASSUME IInv, IInv', GapInv, NEW c \in Clients, ReplaySSE(c)
  PROVE  Acts(c)
<1>1. /\ TypeOK /\ TypeOK' /\ conn[c] \in ConnType /\ conn \in [Clients -> ConnType]
      /\ QueuesInv(c) /\ CursorInv(c) /\ StreamInv(c) /\ ShapeInv
  BY DEF IInv, TypeOK, GapInv
<1>2. /\ UNCHANGED <<matched, head, epoch, todo, clients, client, lost, excused>> /\ conn[c].ph = "replay"
  BY DEF ReplaySSE, hub, counts, known
<1>3. c \in SSE /\ c \notin WS /\ conn[c].reader = "gone"
  BY <1>1, <1>2 DEF ShapeInv, SSELoops, WS, Readers
<1>4. /\ client[c].seen \in Int /\ conn[c].out \in Seq(Frames) /\ head \in Nat /\ Due(c) \in {head - 1, head}
      /\ Due(c)' = Due(c) /\ Due(c) \in Int
  BY <1>1, <1>2, Here DEF Due
<1>5. conn[c].backlog = <<>> /\ Front(c) = <<>> /\ Behind(c) = conn[c].out
  BY <1>1, <1>2, <1>3 DEF QueuesInv, Front, Behind
<1>6. PICK q : /\ conn' = [conn EXCEPT ![c] = [conn[c] EXCEPT !.ph = "backlog", !.backlog = q]]
               /\ q = CASE Fresh(c) -> <<>>
                        [] ~Fresh(c) /\ Replayable(client[c].cur) -> Missed(c)
                        [] OTHER -> <<Resync>>
  BY DEF ReplaySSE
<1> DEFINE k == [conn[c] EXCEPT !.ph = "backlog", !.backlog = q]
<1>7. /\ k.out = conn[c].out /\ k.backlog = q /\ k.ph = "backlog" /\ k.sub = conn[c].sub
      /\ k.reader = conn[c].reader /\ k.writer = conn[c].writer /\ k.kicked = conn[c].kicked
      /\ k.dropped = conn[c].dropped /\ k.up = conn[c].up
  BY <1>1 DEF ConnType
<1>8. conn' = [conn EXCEPT ![c] = k]
  BY <1>6
<1> HIDE DEF k
<1>9. conn'[c] = k
  BY <1>1, <1>8
<1>10. \A f \in Within(conn[c].out) : f <= head /\ (c \notin matched => f = Resync)
  BY <1>1 DEF CursorInv
<1>11. /\ \A f \in Within(q) : f <= head /\ (c \notin matched => f = Resync)
       /\ conn[c].up /\ c \notin excused =>
            /\ Line(client[c].seen, q, conn[c].out)
            /\ conn[c].sub /\ c \in matched /\ ~conn[c].dropped => Has(client[c].seen, q, conn[c].out, Due(c))
  <2>1. CASE Fresh(c)
    <3>1. q = <<>>
      BY <1>6, <2>1
    <3>2. ~Pending(c)
      BY <2>1 DEF Pending
    <3>3. conn[c].reader # "replay"
      BY <1>3
    <3> QED BY <1>1, <1>3, <1>5, <3>1, <3>2, <3>3, NoneWithin DEF StreamInv
  <2>2. CASE ~Fresh(c) /\ Replayable(client[c].cur)
    <3>1. q = Missed(c)
      BY <1>6, <2>2
    <3>2. Chain(client[c].seen, q, {})
      BY <1>1, <2>2, <3>1, MissedLine, BuffersAssumption
    <3>3. CASE c \in matched
      <4>1. Within(q) = client[c].cur.seq + 1 .. head
        BY <1>1, <2>2, <3>1, <3>3, MissedWithin, BuffersAssumption
      <4>2. Chain(client[c].seen, conn[c].out, Within(q))
        BY <1>1, <1>4, <1>10, <2>2, <3>1, <3>3, MissedLine, BuffersAssumption
      <4>3. client[c].seen >= Due(c) \/ Due(c) \in Within(q)
        BY <1>1, <1>4, <2>2, <3>1, <3>3, MissedLine, BuffersAssumption
      <4>4. \A f \in Within(q) : f <= head
        BY <1>1, <1>4, <4>1, Here
      <4> QED BY <3>2, <3>3, <4>2, <4>3, <4>4 DEF Line, Has
    <3>4. CASE c \notin matched
      <4>1. q = <<>>
        BY <1>1, <2>2, <3>1, <3>4, MissedRun, BuffersAssumption
      <4>2. Chain(client[c].seen, conn[c].out, Within(q))
        <5>1. ASSUME NEW i \in 1 .. Len(conn[c].out) PROVE conn[c].out[i] = Resync
          BY <1>4, <1>10, <3>4, InWithin
        <5> QED BY <5>1 DEF Chain, Led
      <4> QED BY <3>2, <3>4, <4>1, <4>2, NoneWithin DEF Line
    <3> QED BY <3>3, <3>4
  <2>3. CASE ~Fresh(c) /\ ~Replayable(client[c].cur)
    <3>1. q = <<Resync>>
      BY <1>6, <2>3
    <3>2. Within(q) = {Resync} /\ Len(q) = 1 /\ q[1] = Resync
      BY <3>1 DEF Within
    <3>3. Chain(client[c].seen, q, {})
      BY <3>2 DEF Chain, Led
    <3>4. Chain(client[c].seen, conn[c].out, Within(q))
      BY <3>2 DEF Chain, Led, Leads
    <3> QED BY <1>4, <3>2, <3>3, <3>4 DEF Line, Has, Resync
  <2> QED BY <2>1, <2>2, <2>3
<1>12. QueuesInv(c)'
  BY <1>1, <1>2, <1>3, <1>7, <1>9 DEF QueuesInv
<1>13. Front(c)' = q /\ Behind(c)' = conn[c].out
  BY <1>3, <1>7, <1>9 DEF Front, Behind
<1>14. StreamInv(c)'
  BY <1>2, <1>3, <1>4, <1>7, <1>9, <1>11, <1>13 DEF StreamInv
<1>15. \A f \in Within(conn'[c].out) \cup Within(conn'[c].backlog) : f <= head /\ (c \notin matched => f = Resync)
  BY <1>7, <1>9, <1>10, <1>11
<1> QED BY <1>1, <1>2, <1>8, <1>12, <1>14, <1>15, Local

LEMMA ReplayWSGap ==
  ASSUME IInv, IInv', GapInv, NEW c \in Clients, ReplayWS(c)
  PROVE  Acts(c)
<1>1. /\ TypeOK /\ TypeOK' /\ conn[c] \in ConnType /\ conn \in [Clients -> ConnType]
      /\ QueuesInv(c) /\ CursorInv(c) /\ StreamInv(c) /\ ShapeInv
  BY DEF IInv, TypeOK, GapInv
<1>2. /\ UNCHANGED <<matched, head, epoch, todo, clients, client, lost>> /\ conn[c].reader = "replay"
      /\ excused' \in {excused, excused \cup {c}}
  BY DEF ReplayWS, hub, counts, known
<1>3. c \notin SSE /\ c \in WS /\ ~Pending(c) /\ ~Pending(c)'
  BY <1>1, <1>2 DEF ShapeInv, WS, Readers, Pending
<1> DEFINE n == client[c].seen
           a == conn[c].out
<1>4. /\ n \in Int /\ a \in Seq(Frames) /\ head \in Nat /\ Due(c) \in {head - 1, head}
      /\ Due(c)' = Due(c) /\ Due(c) \in Int
  BY <1>1, <1>2, Here DEF Due
<1>5. conn[c].backlog = <<>> /\ Front(c) = a /\ Behind(c) = <<>>
  BY <1>1, <1>2, <1>3 DEF QueuesInv, Front, Behind
<1>6. \A f \in Within(a) : f <= head /\ (c \notin matched => f = Resync)
  BY <1>1 DEF CursorInv
<1>7. CASE Replayable(client[c].cur) /\ UNCHANGED known
           /\ conn' = [conn EXCEPT ![c] = [conn[c] EXCEPT !.reader = "backlog", !.backlog = Missed(c)]]
  <2> DEFINE q == Missed(c)
             k == [conn[c] EXCEPT !.reader = "backlog", !.backlog = q]
  <2>1. /\ k.out = a /\ k.backlog = q /\ k.ph = conn[c].ph /\ k.sub = conn[c].sub
        /\ k.reader = "backlog" /\ k.writer = conn[c].writer /\ k.kicked = conn[c].kicked
        /\ k.dropped = conn[c].dropped /\ k.up = conn[c].up
    BY <1>1 DEF ConnType
  <2>2. conn' = [conn EXCEPT ![c] = k] /\ excused' = excused
    BY <1>7 DEF known
  <2> HIDE DEF k, q
  <2>3. conn'[c] = k
    BY <1>1, <2>2
  <2>4. \A P : Chain(n, q, P)
    BY <1>1, <1>7, MissedLine, BuffersAssumption DEF q
  <2>5. c \in matched => n >= Due(c) \/ Due(c) \in Within(q)
    BY <1>1, <1>4, <1>7, MissedLine, BuffersAssumption DEF q
  <2>6. \A f \in Within(q) : f <= head /\ (c \notin matched => f = Resync)
    <3>1. CASE c \in matched
      <4>1. Within(q) = client[c].cur.seq + 1 .. head
        BY <1>1, <1>7, <3>1, MissedWithin, BuffersAssumption DEF q
      <4> QED BY <1>1, <1>4, <3>1, <4>1, Here
    <3>2. CASE c \notin matched
      <4>1. q = <<>>
        BY <1>1, <1>7, <3>2, MissedRun, BuffersAssumption DEF q
      <4> QED BY <4>1, NoneWithin
    <3> QED BY <3>1, <3>2
  <2>7. Front(c)' = a /\ Behind(c)' = q
    BY <1>3, <2>1, <2>3 DEF Front, Behind
  <2>8. ASSUME Line(n, a, <<>>) PROVE Line(n, a, q)
    BY <2>4, <2>8 DEF Line
  <2>9. StreamInv(c)'
    BY <1>1, <1>2, <1>3, <1>4, <1>5, <2>1, <2>2, <2>3, <2>5, <2>7, <2>8 DEF StreamInv, Has
  <2>10. QueuesInv(c)'
    BY <1>1, <1>2, <1>3, <2>1, <2>3 DEF QueuesInv, ShapeInv, Open, Readers
  <2>11. \A f \in Within(conn'[c].out) \cup Within(conn'[c].backlog) : f <= head /\ (c \notin matched => f = Resync)
    BY <1>6, <2>1, <2>3, <2>6
  <2> QED BY <1>1, <1>2, <2>2, <2>9, <2>10, <2>11, Local
<1>8. CASE /\ conn' = [conn EXCEPT ![c] = [conn[c] EXCEPT
               !.reader = "idle", !.out = IF Room(c) THEN Append(conn[c].out, Resync) ELSE conn[c].out]]
           /\ excused' = IF Room(c) THEN excused ELSE excused \cup {c}
  <2> DEFINE q == IF Room(c) THEN Append(conn[c].out, Resync) ELSE conn[c].out
             k == [conn[c] EXCEPT !.reader = "idle", !.out = q]
  <2>1. /\ k.out = q /\ k.backlog = <<>> /\ k.ph = conn[c].ph /\ k.sub = conn[c].sub
        /\ k.reader = "idle" /\ k.writer = conn[c].writer /\ k.kicked = conn[c].kicked
        /\ k.dropped = conn[c].dropped /\ k.up = conn[c].up
    BY <1>1, <1>5 DEF ConnType
  <2>2. conn' = [conn EXCEPT ![c] = k]
    BY <1>8
  <2>3. Resync \in Frames /\ Resync <= head
    BY <1>4 DEF Resync, Frames
  <2>4. /\ Room(c) => q = Append(a, Resync) /\ Within(q) = Within(a) \cup {Resync}
        /\ ~Room(c) => q = a
    BY <1>4, <2>3, AppendWithin
  <2> HIDE DEF k, q
  <2>5. conn'[c] = k
    BY <1>1, <2>2
  <2>6. Front(c)' = q /\ Behind(c)' = <<>>
    BY <1>3, <2>1, <2>5 DEF Front, Behind
  <2>7. StreamInv(c)'
    <3>1. CASE ~Room(c)
      BY <1>8, <3>1 DEF StreamInv
    <3>2. CASE Room(c)
      <4>1. ASSUME Line(n, a, <<>>) PROVE Line(n, q, <<>>)
        BY <1>4, <2>3, <2>4, <3>2, <4>1, LineFront DEF Follows
      <4>2. Has(n, q, <<>>, Due(c))
        BY <2>4, <3>2 DEF Has
      <4>3. a # <<>> => q # <<>> /\ q[1] = a[1]
        BY <1>4, <2>3, <2>4, <3>2, AppendFirst
      <4> QED BY <1>1, <1>2, <1>3, <1>4, <1>5, <1>8, <2>1, <2>5, <2>6, <3>2, <4>1, <4>2, <4>3 DEF StreamInv
    <3> QED BY <3>1, <3>2
  <2>8. QueuesInv(c)'
    BY <1>1, <1>2, <1>3, <2>1, <2>5 DEF QueuesInv, ShapeInv, Open, Readers
  <2>9. \A f \in Within(conn'[c].out) \cup Within(conn'[c].backlog) : f <= head /\ (c \notin matched => f = Resync)
    BY <1>6, <2>1, <2>3, <2>4, <2>5, NoneWithin
  <2> QED BY <1>1, <1>2, <2>2, <2>7, <2>8, <2>9, Local
<1> QED BY <1>7, <1>8 DEF ReplayWS

\* A frame goes to the wire.
LEMMA Taken ==
  ASSUME TypeOK, TypeOK', GapInv, NEW c \in Clients,
         NEW f \in Within(conn[c].out) \cup Within(conn[c].backlog), Receive(c, f),
         UNCHANGED <<hub, counts>>,
         conn[c].up /\ c \notin excused => f = Resync \/ f <= client[c].seen + 1,
         NEW k, conn' = [conn EXCEPT ![c] = k], k.up = conn[c].up,
         Within(k.out) \subseteq Within(conn[c].out), Within(k.backlog) \subseteq Within(conn[c].backlog)
  PROVE  /\ QueuesInv(c)' /\ StreamInv(c)' => Acts(c)
         /\ conn[c].up => Got(client[c].seen, client'[c].seen, f, Within(conn[c].out) \cup Within(conn[c].backlog))
         /\ f = Resync /\ conn[c].up => client'[c].seen = head
         /\ excused' = excused /\ conn'[c] = k /\ Due(c)' = Due(c)
<1>1. /\ CursorInv(c) /\ NoSilentGap /\ client[c].seen \in Int /\ client'[c].seen \in Int /\ head \in Nat
      /\ head' = head /\ epoch' = epoch /\ matched' = matched /\ todo' = todo /\ clients' = clients
  BY Here, TypeOK' DEF GapInv, hub, counts, TypeOK, ClientType
<1>2. conn'[c] = k /\ \A d \in Clients \ {c} : conn'[d] = conn[d]
  BY DEF TypeOK
<1>3. f <= head /\ f \in Frames
  <2>1. conn[c].out \in Seq(Frames) /\ conn[c].backlog \in Seq(Frames)
    BY Here
  <2>2. f \in Nat
    BY <2>1, InWithin DEF Within
  <2> QED BY <1>1, <2>2 DEF CursorInv, Frames
<1>4. /\ \A d \in Clients \ {c} : client'[d] = client[d]
      /\ excused' = excused /\ lost' \subseteq lost \cup {c}
      /\ ~conn[c].up => UNCHANGED known
      /\ f = Resync \/ f <= client[c].seen + 1 => lost' = lost
      /\ client[c].seen <= client'[c].seen /\ client'[c].seen <= head
      /\ client'[c].cur.epoch <= epoch
      /\ client'[c].cur.epoch = epoch => client'[c].cur.seq <= client'[c].seen
      /\ conn[c].up => f <= client'[c].seen /\ (f = Resync => client'[c].seen = head)
  BY <1>1, <1>3, Reception
<1>5. NoSilentGap'
  <2>1. CASE conn[c].up /\ c \notin excused
    BY <1>1, <1>4, <2>1 DEF NoSilentGap
  <2>2. CASE ~conn[c].up
    BY <1>1, <1>4, <2>2 DEF NoSilentGap, known
  <2>3. CASE c \in excused
    BY <1>1, <1>4, <2>3 DEF NoSilentGap
  <2> QED BY <2>1, <2>2, <2>3
<1>6. CursorInv(c)'
  <2>1. client[c].seen >= Unknown
    BY <1>1 DEF CursorInv
  <2>2. client'[c].seen >= Unknown
    BY <1>1, <1>4, <2>1 DEF Unknown
  <2>3. \A g \in Within(conn'[c].out) \cup Within(conn'[c].backlog) : g <= head /\ (c \notin matched => g = Resync)
    BY <1>1, <1>2 DEF CursorInv
  <2> QED BY <1>1, <1>4, <2>2, <2>3 DEF CursorInv
<1>7. ASSUME QueuesInv(c)', StreamInv(c)' PROVE Acts(c)
  BY <1>1, <1>2, <1>4, <1>5, <1>6, <1>7 DEF Acts
<1>8. conn[c].up => Got(client[c].seen, client'[c].seen, f, Within(conn[c].out) \cup Within(conn[c].backlog))
  BY <1>1, <1>4 DEF Got, CursorInv
<1> QED BY <1>1, <1>2, <1>4, <1>7, <1>8 DEF Due

LEMMA WriterWritesGap ==
  ASSUME IInv, IInv', GapInv, NEW c \in Clients, WriterWrites(c)
  PROVE  Acts(c)
<1>1. /\ TypeOK /\ TypeOK' /\ conn[c] \in ConnType /\ conn \in [Clients -> ConnType]
      /\ QueuesInv(c) /\ CursorInv(c) /\ StreamInv(c) /\ ShapeInv
  BY DEF IInv, TypeOK, GapInv
<1>2. conn[c].writer = "select" /\ conn[c].out # <<>> /\ UNCHANGED <<hub, counts>>
  BY DEF WriterWrites
<1>3. c \in WS /\ c \notin SSE /\ ~Pending(c) /\ ~Pending(c)'
  BY <1>1, <1>2 DEF ShapeInv, WS, Writers, Pending
<1> DEFINE n == client[c].seen
           m == client'[c].seen
           a == conn[c].out
           b == conn[c].backlog
<1>4. /\ n \in Int /\ m \in Int /\ a \in Seq(Frames) /\ b \in Seq(Frames)
      /\ head \in Nat /\ Due(c) \in Int /\ Due(c) <= head
  <2>1. m \in Int
    BY <1>1 DEF TypeOK, ClientType
  <2> QED BY <1>1, <2>1, Here
<1>5. Within(a) = {a[1]} \cup Within(Tail(a)) /\ a[1] \in Nat /\ Head(a) = a[1]
  BY <1>2, <1>4, TailWithin
<1> DEFINE k == [conn[c] EXCEPT !.writer = "top", !.out = Tail(a)]
<1>6. /\ k.out = Tail(a) /\ k.backlog = b /\ k.ph = conn[c].ph /\ k.sub = conn[c].sub
      /\ k.reader = conn[c].reader /\ k.writer = "top" /\ k.kicked = conn[c].kicked
      /\ k.dropped = conn[c].dropped /\ k.up = conn[c].up
  BY <1>1 DEF ConnType
<1>7. conn' = [conn EXCEPT ![c] = k] /\ Receive(c, a[1])
  BY <1>5 DEF WriterWrites
<1> HIDE DEF k
<1>8. conn[c].up /\ c \notin excused => a[1] = Resync \/ a[1] <= n + 1
  <2>1. ASSUME Line(n, a, b) PROVE a[1] = Resync \/ a[1] <= n + 1
    BY <1>2, <1>4, <2>1, LineFirst
  <2> QED BY <1>1, <1>2, <1>3, <2>1 DEF StreamInv, Front, Behind
<1>9. /\ QueuesInv(c)' /\ StreamInv(c)' => Acts(c)
      /\ conn[c].up => Got(n, m, a[1], Within(a) \cup Within(b))
      /\ a[1] = Resync /\ conn[c].up => m = head
      /\ excused' = excused /\ conn'[c] = k /\ Due(c)' = Due(c)
  BY <1>1, <1>2, <1>5, <1>6, <1>7, <1>8, Taken
<1>10. QueuesInv(c)'
  <2>1. conn[c].ph \notin {"off", "admitted"}
    BY <1>1, <1>2 DEF QueuesInv
  <2> QED BY <1>1, <1>2, <1>3, <1>6, <1>9, <2>1 DEF QueuesInv, hub, counts
<1>11. Front(c)' = Tail(a) /\ Behind(c)' = b
  BY <1>3, <1>6, <1>9 DEF Front, Behind
<1>12. ASSUME conn[c].up, Line(n, a, b) PROVE Line(m, Tail(a), b)
  BY <1>2, <1>4, <1>9, <1>12, LineTail
<1>13. ASSUME conn[c].up, Has(n, a, b, Due(c)) PROVE Has(m, Tail(a), b, Due(c))
  BY <1>2, <1>4, <1>9, <1>13, HasTail DEF Got
<1>14. StreamInv(c)'
  BY <1>1, <1>2, <1>3, <1>6, <1>9, <1>11, <1>12, <1>13 DEF StreamInv, Front, Behind, hub
<1> QED BY <1>9, <1>10, <1>14

LEMMA RunWritesGap ==
  ASSUME IInv, IInv', GapInv, NEW c \in Clients, RunWrites(c)
  PROVE  Acts(c)
<1>1. /\ TypeOK /\ TypeOK' /\ conn[c] \in ConnType /\ conn \in [Clients -> ConnType]
      /\ QueuesInv(c) /\ CursorInv(c) /\ StreamInv(c) /\ ShapeInv
  BY DEF IInv, TypeOK, GapInv
<1>2. conn[c].ph = "run" /\ conn[c].out # <<>> /\ UNCHANGED <<hub, counts>>
  BY DEF RunWrites
<1>3. c \notin WS /\ c \in SSE /\ conn[c].backlog = <<>>
  BY <1>1, <1>2 DEF ShapeInv, WS, SSELoops, QueuesInv
<1> DEFINE n == client[c].seen
           m == client'[c].seen
           b == conn[c].out
<1>4. /\ n \in Int /\ m \in Int /\ b \in Seq(Frames) /\ <<>> \in Seq(Frames)
      /\ head \in Nat /\ Due(c) \in Int /\ Due(c) <= head
  <2>1. m \in Int
    BY <1>1 DEF TypeOK, ClientType
  <2> QED BY <1>1, <2>1, Here
<1>5. Within(b) = {b[1]} \cup Within(Tail(b)) /\ b[1] \in Nat /\ Head(b) = b[1]
  BY <1>2, <1>4, TailWithin
<1> DEFINE k == [conn[c] EXCEPT !.out = Tail(b)]
<1>6. /\ k.out = Tail(b) /\ k.backlog = <<>> /\ k.ph = "run" /\ k.sub = conn[c].sub
      /\ k.reader = conn[c].reader /\ k.writer = conn[c].writer /\ k.kicked = conn[c].kicked
      /\ k.dropped = conn[c].dropped /\ k.up = conn[c].up
  BY <1>1, <1>2, <1>3 DEF ConnType
<1>7. conn' = [conn EXCEPT ![c] = k] /\ Receive(c, b[1])
  BY <1>1, <1>5 DEF RunWrites
<1> HIDE DEF k
<1>8. Front(c) = <<>> /\ Behind(c) = b /\ ~Pending(c)
  BY <1>2, <1>3 DEF Front, Behind, Pending
<1>9. conn[c].up /\ c \notin excused => Line(n, <<>>, b)
  BY <1>1, <1>3, <1>8 DEF StreamInv
<1>10. conn[c].up /\ c \notin excused => b[1] = Resync \/ b[1] <= n + 1
  BY <1>2, <1>4, <1>9, LineFirst
<1>11. Within(b) \cup Within(conn[c].backlog) = Within(b)
  BY <1>3, NoneWithin
<1>12. /\ QueuesInv(c)' /\ StreamInv(c)' => Acts(c)
       /\ conn[c].up => Got(n, m, b[1], Within(b))
       /\ b[1] = Resync /\ conn[c].up => m = head
       /\ excused' = excused /\ conn'[c] = k /\ Due(c)' = Due(c)
  BY <1>1, <1>2, <1>3, <1>5, <1>6, <1>7, <1>10, <1>11, Taken
<1>13. QueuesInv(c)'
  BY <1>1, <1>2, <1>3, <1>6, <1>12 DEF QueuesInv, hub, counts
<1>14. Front(c)' = <<>> /\ Behind(c)' = Tail(b) /\ ~Pending(c)'
  BY <1>3, <1>6, <1>12 DEF Front, Behind, Pending
<1>15. ASSUME conn[c].up, Line(n, <<>>, b) PROVE Line(m, <<>>, Tail(b))
  BY <1>2, <1>4, <1>12, <1>15, LineRest
<1>16. ASSUME conn[c].up, Has(n, <<>>, b, Due(c)) PROVE Has(m, <<>>, Tail(b), Due(c))
  BY <1>2, <1>4, <1>12, <1>16, HasTail DEF Got
<1>17. StreamInv(c)'
  BY <1>1, <1>2, <1>3, <1>6, <1>8, <1>9, <1>12, <1>14, <1>15, <1>16 DEF StreamInv, hub
<1> QED BY <1>12, <1>13, <1>17

LEMMA WriteBacklogGap ==
  ASSUME IInv, IInv', GapInv, NEW c \in Clients, WriteBacklog(c)
  PROVE  Acts(c)
<1>1. /\ TypeOK /\ TypeOK' /\ conn[c] \in ConnType /\ conn \in [Clients -> ConnType]
      /\ QueuesInv(c) /\ CursorInv(c) /\ StreamInv(c) /\ ShapeInv
  BY DEF IInv, TypeOK, GapInv
<1>2. conn[c].ph = "backlog" /\ UNCHANGED <<hub, counts>>
  BY DEF WriteBacklog
<1>3. c \notin WS /\ c \in SSE /\ ~Pending(c)
  BY <1>1, <1>2 DEF ShapeInv, WS, SSELoops, Pending
<1> DEFINE n == client[c].seen
           m == client'[c].seen
           a == conn[c].backlog
           b == conn[c].out
<1>4. /\ n \in Int /\ m \in Int /\ a \in Seq(Frames) /\ b \in Seq(Frames)
      /\ head \in Nat /\ Due(c) \in Int /\ Due(c) <= head
  <2>1. m \in Int
    BY <1>1 DEF TypeOK, ClientType
  <2> QED BY <1>1, <2>1, Here
<1>5. Front(c) = a /\ Behind(c) = b
  BY <1>3 DEF Front, Behind
<1>6. CASE a # <<>> /\ conn[c].up
  <2>1. Within(a) = {a[1]} \cup Within(Tail(a)) /\ a[1] \in Nat /\ Head(a) = a[1]
    BY <1>4, <1>6, TailWithin
  <2> DEFINE k == [conn[c] EXCEPT !.backlog = Tail(a)]
  <2>2. /\ k.out = b /\ k.backlog = Tail(a) /\ k.ph = "backlog" /\ k.sub = conn[c].sub
        /\ k.reader = conn[c].reader /\ k.writer = conn[c].writer /\ k.kicked = conn[c].kicked
        /\ k.dropped = conn[c].dropped /\ k.up = conn[c].up
    BY <1>1, <1>2 DEF ConnType
  <2>3. conn' = [conn EXCEPT ![c] = k] /\ Receive(c, a[1])
    BY <1>1, <1>6, <2>1 DEF WriteBacklog
  <2> HIDE DEF k
  <2>4. c \notin excused => Line(n, a, b)
    BY <1>1, <1>3, <1>5, <1>6 DEF StreamInv
  <2>5. c \notin excused => a[1] = Resync \/ a[1] <= n + 1
    BY <1>4, <1>6, <2>4, LineFirst
  <2>6. Within(b) \cup Within(a) = Within(a) \cup Within(b)
    OBVIOUS
  <2>7. /\ QueuesInv(c)' /\ StreamInv(c)' => Acts(c)
        /\ Got(n, m, a[1], Within(a) \cup Within(b))
        /\ a[1] = Resync => m = head
        /\ excused' = excused /\ conn'[c] = k /\ Due(c)' = Due(c)
    BY <1>1, <1>2, <1>6, <2>1, <2>2, <2>3, <2>5, <2>6, Taken
  <2>8. QueuesInv(c)'
    BY <1>1, <1>2, <1>3, <2>2, <2>7 DEF QueuesInv, hub, counts
  <2>9. Front(c)' = Tail(a) /\ Behind(c)' = b /\ ~Pending(c)'
    BY <1>3, <2>2, <2>7 DEF Front, Behind, Pending
  <2>10. ASSUME Line(n, a, b) PROVE Line(m, Tail(a), b)
    BY <1>4, <1>6, <2>7, <2>10, LineTail
  <2>11. ASSUME Has(n, a, b, Due(c)) PROVE Has(m, Tail(a), b, Due(c))
    BY <1>4, <1>6, <2>7, <2>11, HasTail DEF Got
  <2>12. StreamInv(c)'
    BY <1>1, <1>2, <1>3, <1>5, <1>6, <2>2, <2>4, <2>7, <2>9, <2>10, <2>11 DEF StreamInv, hub
  <2> QED BY <2>7, <2>8, <2>12
<1>7. CASE ~(a # <<>> /\ conn[c].up)
  <2> DEFINE k == [conn[c] EXCEPT !.ph = "run", !.backlog = <<>>]
  <2>1. /\ k.out = b /\ k.backlog = <<>> /\ k.ph = "run" /\ k.sub = conn[c].sub
        /\ k.reader = conn[c].reader /\ k.writer = conn[c].writer /\ k.kicked = conn[c].kicked
        /\ k.dropped = conn[c].dropped /\ k.up = conn[c].up
    BY <1>1 DEF ConnType
  <2>2. conn' = [conn EXCEPT ![c] = k] /\ UNCHANGED known
    BY <1>7 DEF WriteBacklog
  <2> HIDE DEF k
  <2>3. conn'[c] = k
    BY <1>1, <2>2
  <2>4. QueuesInv(c)'
    BY <1>1, <1>2, <1>3, <2>1, <2>3 DEF QueuesInv, hub, counts
  <2>5. Front(c)' = <<>> /\ Behind(c)' = b /\ ~Pending(c)' /\ Due(c)' = Due(c)
    BY <1>2, <1>3, <2>1, <2>3 DEF Front, Behind, Pending, Due, hub
  <2>6. StreamInv(c)'
    BY <1>1, <1>2, <1>3, <1>5, <1>7, <2>1, <2>2, <2>3, <2>5 DEF StreamInv, hub, known
  <2>7. \A f \in Within(conn'[c].out) \cup Within(conn'[c].backlog) : f <= head /\ (c \notin matched => f = Resync)
    BY <1>1, <2>1, <2>3, NoneWithin DEF CursorInv
  <2> QED BY <1>1, <1>2, <2>2, <2>4, <2>6, <2>7, Local DEF hub, counts, known
<1> QED BY <1>6, <1>7

LEMMA SubscribeGap ==
  ASSUME IInv, IInv', GapInv, NEW c \in Clients, Subscribe(c)
  PROVE  Acts(c)
<1>1. /\ TypeOK /\ TypeOK' /\ conn[c] \in ConnType /\ conn \in [Clients -> ConnType] /\ client[c] \in ClientType
      /\ client \in [Clients -> ClientType] /\ QueuesInv(c) /\ CursorInv(c) /\ StreamInv(c) /\ ShapeInv /\ NoSilentGap
  BY DEF IInv, TypeOK, GapInv
<1>2. /\ UNCHANGED <<matched, head, epoch, todo, clients, lost, excused>> /\ client' = Fetched(c)
      /\ conn[c].reader = "idle" /\ conn[c].up
  BY DEF Subscribe, hub, counts
<1>3. c \in WS /\ c \notin SSE /\ ~Pending(c) /\ ~Pending(c)' /\ c \in Open
  BY <1>1, <1>2 DEF ShapeInv, WS, Readers, Pending
<1> DEFINE n == client[c].seen
           m == client'[c].seen
           a == conn[c].out
           b == conn[c].backlog
<1>4. /\ n \in Int /\ a \in Seq(Frames) /\ b \in Seq(Frames) /\ n <= head
      /\ head \in Nat /\ Due(c) \in Int /\ Due(c) <= head
  BY <1>1, Here DEF CursorInv
<1>5. /\ client'[c].cur = client[c].cur /\ m \in {n, head} /\ (Fresh(c) => m = head)
      /\ \A d \in Clients \ {c} : client'[d] = client[d]
  BY <1>1, <1>2 DEF Fetched, ClientType
<1>6. PICK r : /\ conn' = [conn EXCEPT ![c] = [conn[c] EXCEPT !.sub = TRUE, !.reader = r]]
               /\ r \in {"idle", "replay"} /\ (r = "idle" => Fresh(c))
  <2>1. CASE Fresh(c)
    <3>1. conn' = [conn EXCEPT ![c] = [conn[c] EXCEPT !.sub = TRUE, !.reader = "idle"]]
      BY <2>1 DEF Subscribe
    <3> QED BY <2>1, <3>1
  <2>2. CASE ~Fresh(c)
    <3>1. conn' = [conn EXCEPT ![c] = [conn[c] EXCEPT !.sub = TRUE, !.reader = "replay"]]
      BY <2>2 DEF Subscribe
    <3>2. "replay" # "idle"
      OBVIOUS
    <3> QED BY <3>1, <3>2, Zenon
  <2> QED BY <2>1, <2>2
<1> DEFINE k == [conn[c] EXCEPT !.sub = TRUE, !.reader = r]
<1>7. /\ k.out = a /\ k.backlog = b /\ k.ph = conn[c].ph /\ k.sub = TRUE
      /\ k.reader = r /\ k.writer = conn[c].writer /\ k.kicked = conn[c].kicked
      /\ k.dropped = conn[c].dropped /\ k.up = conn[c].up
  BY <1>1 DEF ConnType
<1>8. conn' = [conn EXCEPT ![c] = k]
  BY <1>6
<1> HIDE DEF k
<1>9. conn'[c] = k /\ \A d \in Clients \ {c} : conn'[d] = conn[d]
  BY <1>1, <1>8
<1>10. QueuesInv(c)'
  <2>1. conn[c].ph = "open"
    BY <1>3 DEF Open
  <2> QED BY <1>1, <1>2, <1>3, <1>6, <1>7, <1>9, <2>1 DEF QueuesInv
<1>11. CursorInv(c)'
  BY <1>1, <1>2, <1>4, <1>5, <1>7, <1>9, Here DEF CursorInv, Unknown
<1>12. Front(c)' = a /\ Behind(c)' = b /\ Front(c) = a /\ Behind(c) = b /\ Due(c)' = Due(c)
  BY <1>2, <1>3, <1>7, <1>9 DEF Front, Behind, Due
<1>13. n <= m
  BY <1>4, <1>5
<1>14. ASSUME Line(n, a, b) PROVE Line(m, a, b)
  BY <1>4, <1>5, <1>13, <1>14, LineMore
<1>15. Fresh(c) => Has(m, a, b, Due(c))
  BY <1>4, <1>5 DEF Has
<1>16. conn[c].dropped /\ conn[c].writer = "select" /\ c \notin excused =>
         a # <<>> /\ (a[1] = Resync \/ a[1] <= m + 1)
  <2>1. a # <<>> => a[1] \in Nat
    BY <1>4, TailWithin
  <2> QED BY <1>1, <1>2, <1>3, <1>4, <1>5, <1>13, <2>1 DEF StreamInv
<1>17. StreamInv(c)'
  BY <1>1, <1>2, <1>3, <1>6, <1>7, <1>9, <1>12, <1>14, <1>15, <1>16 DEF StreamInv
<1>18. NoSilentGap'
  BY <1>1, <1>2 DEF NoSilentGap
<1> QED BY <1>2, <1>5, <1>9, <1>10, <1>11, <1>17, <1>18 DEF Acts

LEMMA ReaderGap ==
  ASSUME IInv, IInv', GapInv, NEW c \in Clients, Unsubscribe(c) \/ WriterTop(c)
  PROVE  Acts(c)
<1>1. /\ TypeOK /\ TypeOK' /\ conn[c] \in ConnType /\ conn \in [Clients -> ConnType]
      /\ QueuesInv(c) /\ CursorInv(c) /\ StreamInv(c) /\ ShapeInv
  BY DEF IInv, TypeOK, GapInv
<1>2. UNCHANGED <<matched, head, epoch, todo, clients, client, lost, excused>>
  BY DEF Unsubscribe, WriterTop, hub, counts, known
<1>3. c \in WS /\ c \notin SSE
  BY <1>1 DEF ShapeInv, WS, Readers, Writers, Unsubscribe, WriterTop
<1>4. PICK k : /\ conn' = [conn EXCEPT ![c] = k]
               /\ k.out = conn[c].out /\ k.backlog = conn[c].backlog /\ k.ph = conn[c].ph
               /\ k.reader = conn[c].reader /\ k.kicked = conn[c].kicked
               /\ k.dropped = conn[c].dropped /\ k.up = conn[c].up
               /\ \/ k.sub = FALSE /\ k.writer = conn[c].writer
                  \/ k.sub = conn[c].sub /\ ~conn[c].dropped
  <2>1. CASE Unsubscribe(c)
    <3> DEFINE k == [conn[c] EXCEPT !.sub = FALSE]
    <3>1. /\ k.out = conn[c].out /\ k.backlog = conn[c].backlog /\ k.ph = conn[c].ph
          /\ k.reader = conn[c].reader /\ k.kicked = conn[c].kicked
          /\ k.dropped = conn[c].dropped /\ k.up = conn[c].up
          /\ k.sub = FALSE /\ k.writer = conn[c].writer
      BY <1>1 DEF ConnType
    <3>2. conn' = [conn EXCEPT ![c] = k]
      BY <2>1 DEF Unsubscribe
    <3> HIDE DEF k
    <3> QED BY <3>1, <3>2
  <2>2. CASE WriterTop(c)
    <3> DEFINE k == [conn[c] EXCEPT !.writer = "select"]
    <3>1. /\ k.out = conn[c].out /\ k.backlog = conn[c].backlog /\ k.ph = conn[c].ph
          /\ k.reader = conn[c].reader /\ k.kicked = conn[c].kicked
          /\ k.dropped = conn[c].dropped /\ k.up = conn[c].up
          /\ k.sub = conn[c].sub
      BY <1>1 DEF ConnType
    <3>2. conn' = [conn EXCEPT ![c] = k] /\ ~conn[c].kicked
      BY <2>2 DEF WriterTop
    <3>3. ~conn[c].dropped
      BY <1>1, <3>2 DEF QueuesInv
    <3> HIDE DEF k
    <3> QED BY <3>1, <3>2, <3>3
  <2> QED BY <2>1, <2>2
<1>5. conn'[c] = k
  BY <1>1, <1>4
<1>6. QueuesInv(c)'
  BY <1>1, <1>2, <1>4, <1>5 DEF QueuesInv
<1>7. /\ Front(c)' = Front(c) /\ Behind(c)' = Behind(c) /\ Due(c)' = Due(c)
      /\ ~Pending(c) /\ ~Pending(c)'
  BY <1>2, <1>3, <1>4, <1>5 DEF Front, Behind, Due, Pending
<1>8. StreamInv(c)'
  BY <1>1, <1>2, <1>3, <1>4, <1>5, <1>7 DEF StreamInv
<1>9. \A f \in Within(conn'[c].out) \cup Within(conn'[c].backlog) : f <= head /\ (c \notin matched => f = Resync)
  BY <1>1, <1>4, <1>5 DEF CursorInv
<1> QED BY <1>1, <1>2, <1>4, <1>6, <1>8, <1>9, Local

\* The backlog goes over to the buffer.
LEMMA EnqueueGap ==
  ASSUME IInv, IInv', GapInv, NEW c \in Clients, EnqueueBacklog(c)
  PROVE  Acts(c)
<1>1. /\ TypeOK /\ TypeOK' /\ conn[c] \in ConnType /\ conn \in [Clients -> ConnType]
      /\ QueuesInv(c) /\ CursorInv(c) /\ StreamInv(c) /\ ShapeInv
  BY DEF IInv, TypeOK, GapInv
<1>2. UNCHANGED <<matched, head, epoch, todo, clients, client, lost, excused>> /\ conn[c].reader = "backlog"
  BY DEF EnqueueBacklog, hub, counts, known
<1>3. c \in WS /\ c \notin SSE /\ ~Pending(c) /\ ~Pending(c)' /\ Due(c)' = Due(c) /\ c \in Open
  BY <1>1, <1>2 DEF ShapeInv, WS, Readers, Pending, Due
<1> DEFINE n == client[c].seen
           a == conn[c].out
           b == conn[c].backlog
<1>4. /\ n \in Int /\ a \in Seq(Frames) /\ b \in Seq(Frames) /\ conn[c].ph = "open"
      /\ Front(c) = a /\ Behind(c) = b
  BY <1>1, <1>3, Here DEF Open, Front, Behind
<1>5. CASE b = <<>> /\ conn' = [conn EXCEPT ![c].reader = "idle"]
  <2> DEFINE k == [conn[c] EXCEPT !.reader = "idle"]
  <2>1. /\ k.out = a /\ k.backlog = b /\ k.ph = conn[c].ph /\ k.sub = conn[c].sub
        /\ k.reader = "idle" /\ k.writer = conn[c].writer /\ k.kicked = conn[c].kicked
        /\ k.dropped = conn[c].dropped /\ k.up = conn[c].up
    BY <1>1 DEF ConnType
  <2>2. conn' = [conn EXCEPT ![c] = k]
    BY <1>5
  <2> HIDE DEF k
  <2>3. conn'[c] = k
    BY <1>1, <2>2
  <2>4. QueuesInv(c)'
    BY <1>1, <1>2, <1>3, <1>4, <1>5, <2>1, <2>3 DEF QueuesInv
  <2>5. Front(c)' = a /\ Behind(c)' = b
    BY <1>3, <2>1, <2>3 DEF Front, Behind
  <2>6. StreamInv(c)'
    BY <1>1, <1>2, <1>3, <1>4, <2>1, <2>3, <2>5 DEF StreamInv
  <2>7. \A f \in Within(conn'[c].out) \cup Within(conn'[c].backlog) : f <= head /\ (c \notin matched => f = Resync)
    BY <1>1, <2>1, <2>3 DEF CursorInv
  <2> QED BY <1>1, <1>2, <2>2, <2>4, <2>6, <2>7, Local
<1>6. CASE /\ b # <<>> /\ Room(c)
           /\ conn' = [conn EXCEPT ![c] = [conn[c] EXCEPT !.out = Append(a, Head(b)), !.backlog = Tail(b)]]
  <2> DEFINE q == Append(a, Head(b))
             k == [conn[c] EXCEPT !.out = q, !.backlog = Tail(b)]
  <2>1. /\ k.out = q /\ k.backlog = Tail(b) /\ k.ph = conn[c].ph /\ k.sub = conn[c].sub
        /\ k.reader = "backlog" /\ k.writer = conn[c].writer /\ k.kicked = conn[c].kicked
        /\ k.dropped = conn[c].dropped /\ k.up = conn[c].up
    BY <1>1, <1>2 DEF ConnType
  <2>2. conn' = [conn EXCEPT ![c] = k]
    BY <1>6
  <2> HIDE DEF k
  <2>3. conn'[c] = k
    BY <1>1, <2>2
  <2>4. Head(b) = b[1] /\ b[1] \in Frames
    BY <1>4, <1>6, TailWithin DEF Frames
  <2>5. q = Append(a, b[1])
    BY <2>4
  <2> HIDE DEF q
  <2>6. Within(q) \cup Within(Tail(b)) = Within(a) \cup Within(b)
    <3>1. Within(q) = Within(a) \cup {b[1]} /\ Within(b) = {b[1]} \cup Within(Tail(b))
      BY <1>4, <1>6, <2>4, <2>5, AppendWithin, TailWithin
    <3> QED BY <3>1
  <2>7. ASSUME Line(n, a, b) PROVE Line(n, q, Tail(b))
    BY <1>4, <1>6, <2>5, <2>7, LineShift
  <2>8. ASSUME Has(n, a, b, Due(c)) PROVE Has(n, q, Tail(b), Due(c))
    BY <2>6, <2>8 DEF Has
  <2>9. a # <<>> => q # <<>> /\ q[1] = a[1]
    BY <1>4, <2>4, <2>5, AppendFirst
  <2>10. QueuesInv(c)'
    BY <1>1, <1>2, <1>3, <1>4, <2>1, <2>3 DEF QueuesInv
  <2>11. Front(c)' = q /\ Behind(c)' = Tail(b)
    BY <1>3, <2>1, <2>3 DEF Front, Behind
  <2>12. StreamInv(c)'
    BY <1>1, <1>2, <1>3, <1>4, <2>1, <2>3, <2>7, <2>8, <2>9, <2>11 DEF StreamInv
  <2>13. \A f \in Within(conn'[c].out) \cup Within(conn'[c].backlog) : f <= head /\ (c \notin matched => f = Resync)
    BY <1>1, <2>1, <2>3, <2>6 DEF CursorInv
  <2> QED BY <1>1, <1>2, <2>2, <2>10, <2>12, <2>13, Local
<1>7. CASE /\ b # <<>> /\ ~Room(c)
           /\ conn' = [conn EXCEPT ![c] = [Kicked(c) EXCEPT !.reader = "idle", !.backlog = <<>>]]
  <2> DEFINE k == [Kicked(c) EXCEPT !.reader = "idle", !.backlog = <<>>]
  <2>1. /\ k.out = a /\ k.backlog = <<>> /\ k.ph = conn[c].ph /\ k.sub = conn[c].sub
        /\ k.reader = "idle" /\ k.writer = conn[c].writer /\ k.kicked = TRUE
        /\ k.dropped = TRUE /\ k.up = conn[c].up
    BY <1>1 DEF ConnType, Kicked
  <2>2. conn' = [conn EXCEPT ![c] = k]
    BY <1>7
  <2> HIDE DEF k
  <2>3. conn'[c] = k
    BY <1>1, <2>2
  <2>4. QueuesInv(c)'
    BY <1>1, <1>2, <1>3, <1>4, <2>1, <2>3 DEF QueuesInv
  <2>5. a # <<>>
    <3>1. Len(a) >= SendBuffer /\ SendBuffer >= 1
      BY <1>4, <1>7, BuffersAssumption DEF Room
    <3> QED BY <3>1, BuffersAssumption
  <2>6. ASSUME conn[c].up, c \notin excused, conn[c].writer = "select"
        PROVE  a[1] = Resync \/ a[1] <= n + 1
    <3>1. ASSUME Line(n, a, b) PROVE a[1] = Resync \/ a[1] <= n + 1
      BY <1>4, <2>5, <3>1, LineFirst
    <3> QED BY <1>1, <1>3, <1>4, <2>6, <3>1 DEF StreamInv
  <2>7. StreamInv(c)'
    BY <1>1, <1>2, <1>3, <2>1, <2>3, <2>5, <2>6 DEF StreamInv
  <2>8. \A f \in Within(conn'[c].out) \cup Within(conn'[c].backlog) : f <= head /\ (c \notin matched => f = Resync)
    BY <1>1, <2>1, <2>3, NoneWithin DEF CursorInv
  <2> QED BY <1>1, <1>2, <2>2, <2>4, <2>7, <2>8, Local
<1> QED BY <1>5, <1>6, <1>7 DEF EnqueueBacklog

-----------------------------------------------------------------------------
(* The steps of the hub.                                                     *)

\* Steps of the hub that leave the queues alone.
LEMMA HubGap ==
  ASSUME IInv, IInv', GapInv, Fanout \/ ServerDrains \/ SignalClients \/ Close \/ Drained \/ UNCHANGED vars
  PROVE  GapInv'
<1>1. /\ TypeOK /\ TypeOK' /\ ShapeInv
      /\ UNCHANGED <<matched, epoch, clients, client, lost, excused>>
  BY DEF IInv, Fanout, ServerDrains, SignalClients, Close, Drained, vars, hub, counts, known
<1>2. NoSilentGap'
  BY <1>1 DEF GapInv, NoSilentGap
<1> SUFFICES ASSUME NEW c \in Clients PROVE CursorInv(c)' /\ QueuesInv(c)' /\ StreamInv(c)'
  BY <1>2 DEF GapInv
<1>3. /\ CursorInv(c) /\ QueuesInv(c) /\ StreamInv(c) /\ conn[c] \in ConnType
      /\ head \in Nat /\ epoch \in Nat /\ (Fresh(c)' <=> Fresh(c)) /\ head' \in Nat /\ client[c].seen \in Int
  BY <1>1, Here DEF GapInv, Fresh, TypeOK
<1>4. /\ conn'[c].out = conn[c].out /\ conn'[c].backlog = conn[c].backlog /\ conn'[c].ph = conn[c].ph
      /\ conn'[c].reader = conn[c].reader /\ conn'[c].writer = conn[c].writer /\ conn'[c].sub = conn[c].sub
      /\ conn'[c].dropped = conn[c].dropped /\ (conn[c].kicked => conn'[c].kicked)
      /\ conn'[c].up => conn[c].up
  <2>1. CASE conn' = conn
    BY <2>1
  <2>2. CASE conn' = Signalled
    <3>1. conn'[c] = CASE c \in clients \cap WS -> [conn[c] EXCEPT !.closed = TRUE, !.up = FALSE]
                       [] c \in clients \cap SSE -> [conn[c] EXCEPT !.kicked = TRUE]
                       [] OTHER -> conn[c]
      BY <2>2 DEF Signalled
    <3>2. \/ conn'[c] = [conn[c] EXCEPT !.closed = TRUE, !.up = FALSE]
          \/ conn'[c] = [conn[c] EXCEPT !.kicked = TRUE]
          \/ conn'[c] = conn[c]
      BY <3>1
    <3> QED BY <1>3, <3>2 DEF ConnType
  <2> QED BY <2>1, <2>2 DEF Fanout, ServerDrains, SignalClients, Close, Drained, vars, hub, counts, known
<1>5. head <= head' /\ (conn[c].up /\ conn[c].sub => Due(c)' = Due(c))
  <2>1. CASE Fanout
    <3>1. head' = head + 1 /\ todo = {} /\ todo' = clients
      BY <2>1 DEF Fanout
    <3>2. conn[c].up /\ conn[c].sub => c \in clients
      BY <1>3 DEF QueuesInv
    <3> QED BY <1>3, <3>1, <3>2 DEF Due
  <2>2. CASE ~Fanout
    <3>1. head' = head /\ todo' = todo
      BY <2>2 DEF ServerDrains, SignalClients, Close, Drained, vars, hub
    <3> QED BY <1>3, <3>1 DEF Due
  <2> QED BY <2>1, <2>2
<1>6. CursorInv(c)'
  <2>1. \A f \in Within(conn[c].out) \cup Within(conn[c].backlog) : f \in Nat
    <3>1. conn[c].out \in Seq(Frames) /\ conn[c].backlog \in Seq(Frames)
      BY <1>1, Here
    <3> QED BY <3>1, InWithin DEF Within
  <2> QED BY <1>1, <1>3, <1>4, <1>5, <2>1 DEF CursorInv
<1>7. QueuesInv(c)'
  BY <1>1, <1>3, <1>4 DEF QueuesInv
<1>8. Front(c)' = Front(c) /\ Behind(c)' = Behind(c) /\ (Pending(c)' <=> Pending(c))
  BY <1>3, <1>4 DEF Front, Behind, Pending
<1>9. StreamInv(c)'
  BY <1>1, <1>3, <1>4, <1>5, <1>8 DEF StreamInv
<1> QED BY <1>6, <1>7, <1>9

LEMMA RestartGap == ASSUME IInv, IInv', GapInv, Restart PROVE GapInv'
<1>1. /\ TypeOK /\ TypeOK' /\ epoch' = epoch + 1 /\ head' = 0 /\ lost' = lost /\ excused' = excused
      /\ conn' = [c \in Clients |-> Off]
      /\ client' = [c \in Clients |-> [client[c] EXCEPT !.seen = Unknown]]
  BY DEF IInv, Restart
<1>2. NoSilentGap'
  BY <1>1 DEF GapInv, NoSilentGap
<1> SUFFICES ASSUME NEW c \in Clients PROVE CursorInv(c)' /\ QueuesInv(c)' /\ StreamInv(c)'
  BY <1>2 DEF GapInv
<1>3. client[c] \in ClientType /\ CursorInv(c) /\ epoch \in Nat
  BY <1>1, Here DEF GapInv, TypeOK
<1>4. conn'[c] = Off /\ client'[c].cur = client[c].cur /\ client'[c].seen = Unknown
  BY <1>1, <1>3 DEF ClientType
<1>5. client[c].cur.epoch \in Nat /\ client[c].cur.epoch <= epoch
  BY <1>3 DEF ClientType, CursorInv
<1>6. CursorInv(c)'
  BY <1>1, <1>3, <1>4, <1>5, NoneWithin DEF CursorInv, Unknown, Off
<1>7. QueuesInv(c)' /\ StreamInv(c)'
  BY <1>4 DEF QueuesInv, StreamInv, Off
<1> QED BY <1>6, <1>7

LEMMA InitGap == ASSUME Init PROVE GapInv
<1>1. NoSilentGap
  BY DEF Init, NoSilentGap
<1> SUFFICES ASSUME NEW c \in Clients PROVE CursorInv(c) /\ QueuesInv(c) /\ StreamInv(c)
  BY <1>1 DEF GapInv
<1>2. /\ conn[c] = Off /\ client[c] = [cur |-> NoCursor, seen |-> 0] /\ head = 0 /\ epoch = 1
  BY DEF Init
<1>3. CursorInv(c)
  BY <1>2, NoneWithin DEF CursorInv, Off, NoCursor, Unknown
<1>4. QueuesInv(c) /\ StreamInv(c)
  BY <1>2 DEF QueuesInv, StreamInv, Off
<1> QED BY <1>3, <1>4

LEMMA NextGap == ASSUME IInv, IInv', GapInv, [Next]_vars PROVE GapInv'
<1>1. ASSUME NEW c \in Clients, Step(c) PROVE GapInv'
  <2>1. TypeOK'
    BY DEF IInv
  <2>2. Acts(c)
    BY <1>1, <2>1, EndingGap, ComingUpGap, DeliverGap, ReplaySSEGap, ReplayWSGap, WriterWritesGap,
       RunWritesGap, WriteBacklogGap, SubscribeGap, ReaderGap, EnqueueGap DEF Step
  <2> QED BY <2>2, ActsGap
<1>2. CASE Restart
  BY <1>2, RestartGap
<1>3. CASE Fanout \/ ServerDrains \/ SignalClients \/ Close \/ Drained \/ UNCHANGED vars
  BY <1>3, HubGap
<1> QED BY <1>1, <1>2, <1>3 DEF Next

\* No client gets past an event it did not get without being told to resync, through
\* disconnects, kicks, evictions and restarts, outside of the three windows of
\* excused (realtime.md: "instead of silently missing events").
THEOREM NoGapIsSilent == Spec => []NoSilentGap
<1>1. Init => GapInv
  BY InitGap
<1>2. IInv /\ IInv' /\ GapInv /\ [Next]_vars => GapInv'
  BY NextGap
<1>3. GapInv => NoSilentGap
  BY DEF GapInv
<1> QED BY <1>1, <1>2, <1>3, Invariant, PTL DEF Spec
=============================================================================

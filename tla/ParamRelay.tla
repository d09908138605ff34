------------------------------ MODULE ParamRelay ------------------------------
(***************************************************************************)
(* How parameter values travel through the backend (handleParamBatch of    *)
(* room-manager.ts and ws-handlers.ts, the rate tracker, the throttle      *)
(* buffer and its flush timer), in one room.                               *)
(*                                                                         *)
(* Batches are numbered as the server gets them, and the number stands for *)
(* every value in the batch.  A handler is the Redis command it waits for; *)
(* the reply's action runs the code up to the next command.  Replies to    *)
(* the same command come in order; a long chain of awaits may let a reply  *)
(* to another command pass, so nothing more is assumed.  A value is with   *)
(* a member when it is sent to it: a socket keeps the order.               *)
(***************************************************************************)
EXTENDS Naturals, FiniteSets, SequencesExt, Functions

CONSTANTS
  Members,      \* sessions
  Founders,     \* those in the room from the start; the others join once
  Avatar,       \* parameters under /avatar
  Input,        \* parameters under /input
  Window,       \* RATE_WINDOW_MS, in ticks of the clock
  Threshold,    \* RAPID_CHANGE_THRESHOLD
  Interval,     \* RAPID_PARAM_THROTTLE_MS, in ticks
  Prompt,       \* TRUE: Redis answers before the clock ticks
  MaxBatches    \* bound: batches sent

ASSUME RelayAssumption ==
  /\ IsFiniteSet(Members) /\ Founders \subseteq Members
  /\ Avatar \cap Input = {}
  /\ Window \in Nat /\ Threshold \in Nat \ {0} /\ Interval \in Nat \ {0}
  /\ Prompt \in BOOLEAN /\ MaxBatches \in Nat

Paths == Avatar \cup Input
None  == 0    \* no value

VARIABLES
  batches,  \* the batches the server has got, in order
  redis,    \* the commands that handlers, joins and flushes wait for
  present,  \* the members, as the participants key has them
  left,     \* those who have left the room
  joined,   \* those who have been sent the room's snapshot
  stored,   \* stored[p]: the room's state key
  hist,     \* hist[p][a]: the batches whose update of p is a ticks old
  buf,      \* buf[m][p]: the value of m in the throttle buffer
  since,    \* ticks since the flush timer fired
  got,      \* got[m][p]: the values of p that were sent to m
  snap,     \* snap[m][p]: the value of p in the snapshot m joined with
  taken,    \* the batches that passed the server's checks
  lost,     \* <<n, p>>: neither stable nor rapid
  again     \* <<m, n, p>>: sent to m a second time

server == <<present, left, joined, stored, hist, buf, since>>
seen   == <<got, snap, taken, lost, again>>
vars   == <<batches, redis, server, seen>>

Batch == [src : Members, paths : SUBSET Paths]
Value == 0 .. MaxBatches
Entry == [src : Members, vals : [Paths -> Value]]

Awaiting ==
  [step : {"session", "room", "state", "inputs"}, n : Value] \cup
  [step : {"relay"}, n : Value, paths : SUBSET Paths] \cup
  [step : {"flush"}, entries : Seq(Entry)] \cup
  [step : {"enter", "snapshot"}, who : Members]

TypeOK ==
  /\ batches \in Seq(Batch) /\ Len(batches) <= MaxBatches
  /\ redis \in Seq(Awaiting)
  /\ joined \subseteq present /\ present \subseteq Members /\ left \subseteq Members
  /\ stored \in [Paths -> Value]
  /\ hist \in [Paths -> [0 .. Window -> SUBSET Value]]
  /\ buf \in [Members -> [Paths -> Value]]
  /\ since \in 0 .. Interval
  /\ got \in [Members -> [Paths -> SUBSET Value]]
  /\ snap \in [Members -> [Paths -> Value]]
  /\ taken \subseteq Value
  /\ lost \subseteq Value \X Paths
  /\ again \subseteq Members \X Value \X Paths

NoValues == [p \in Paths |-> None]
NoUpdates == [p \in Paths |-> [a \in 0 .. Window |-> {}]]

Init ==
  /\ batches = <<>> /\ redis = <<>>
  /\ present = Founders /\ joined = Founders /\ left = {}
  /\ stored = NoValues
  /\ hist = NoUpdates
  /\ buf = [m \in Members |-> NoValues]
  /\ got = [m \in Members |-> [p \in Paths |-> {}]]
  /\ snap = [m \in Members |-> NoValues]
  /\ since = 0 /\ taken = {} /\ lost = {} /\ again = {}

-----------------------------------------------------------------------------
(* The rate tracker: isRapidParam counts the updates that are no older     *)
(* than the window.                                                        *)

Aged(h) ==
  [p \in Paths |-> [a \in 0 .. Window |-> IF a = 0 THEN {} ELSE h[p][a - 1]]]

IsRapid(h, p) == Cardinality(UNION Range(h[p])) >= Threshold

MayTick == since < Interval /\ (Prompt => redis = <<>>)

\* Time passes, but not past the next flush.
Tick ==
  /\ MayTick
  /\ since' = since + 1
  /\ hist' = Aged(hist)
  /\ UNCHANGED <<batches, redis, present, left, joined, stored, buf, seen>>

-----------------------------------------------------------------------------

Src(n) == batches[n].src

\* broadcastToRoom after its hKeys: vals[p] of everyone's parameter p that has
\* one goes to the members but src.
Deliver(src, vals) ==
  LET to == present \ {src}
  IN /\ got' = [m \in Members |-> [p \in Paths |->
                  IF m \in to /\ vals[p] # None THEN got[m][p] \cup {vals[p]} ELSE got[m][p]]]
     /\ again' = again \cup {t \in to \X Value \X Paths :
                  t[2] = vals[t[3]] /\ t[2] \in got[t[1]][t[3]]}

\* Replace command i, which has been answered, by the commands that follow it.
Continue(i, cmds) == redis' = RemoveAt(redis, i) \o cmds

\* A batch arrives.  OscSync sends one /input parameter at a time or a batch of
\* /avatar parameters, but sendAllParams whatever is in the list, which
\* applyLocalParamBatch puts the sent inputs in too.
Receive(m, paths) ==
  /\ m \in joined /\ Len(batches) < MaxBatches
  /\ batches' = Append(batches, [src |-> m, paths |-> paths])
  /\ redis' = Append(redis, [step |-> "session", n |-> Len(batches) + 1])
  /\ UNCHANGED <<server, seen>>

\* requireSession
SessionRead(i) ==
  /\ redis[i].step = "session"
  /\ LET n == redis[i].n
     IN Continue(i, IF Src(n) \in present THEN <<[step |-> "room", n |-> n]>> ELSE <<>>)
  /\ UNCHANGED <<batches, server, seen>>

ThrottledInputsToo(paths) == paths

\* The parameters the throttle applies to; the others are relayed at once, or
\* after those of the same batch.
Throttled(paths) == paths \ Input

Inputs(n) == batches[n].paths \ Throttled(batches[n].paths)

\* The broadcast of inputOutboundPayload.
InputsNext(n) == IF Inputs(n) = {} THEN <<>> ELSE <<[step |-> "inputs", n |-> n]>>

\* hGetAll of the room, and recordUpdates.
RoomRead(i) ==
  /\ redis[i].step = "room"
  /\ LET n  == redis[i].n
         ps == Throttled(batches[n].paths)
     IN IF present = {}
        THEN Continue(i, <<>>) /\ UNCHANGED <<hist, taken>>
        ELSE /\ hist' = [p \in Paths |->
                          IF p \in ps THEN [hist[p] EXCEPT ![0] = @ \cup {n}] ELSE hist[p]]
             /\ taken' = taken \cup {n}
             /\ Continue(i, IF ps # {} THEN <<[step |-> "state", n |-> n]>>
                         ELSE <<[step |-> "relay", n |-> n, paths |-> batches[n].paths]>>)
  /\ UNCHANGED <<batches, present, left, joined, stored, buf, since, got, snap, lost, again>>

SavedIfStable(ps, stable) == stable

\* The parameters that hSet writes to the room's state.
Saved(ps, stable) == ps

\* hSet of the state, and the split.  Each filter asks for the time itself, so
\* the clock may tick between them: an update that leaves the window then makes
\* a parameter that was too rapid for the first filter too slow for the second.
StateWritten(i) ==
  /\ redis[i].step = "state"
  /\ LET n      == redis[i].n
         ps     == Throttled(batches[n].paths)
         stable == {p \in ps : ~ IsRapid(hist, p)}
     IN \E ticks \in IF MayTick THEN {0, 1} ELSE {0} :
          LET later == IF ticks = 0 THEN hist ELSE Aged(hist)
              rapid == {p \in ps : IsRapid(later, p)}
          IN /\ stored' = [p \in Paths |-> IF p \in Saved(ps, stable) THEN n ELSE stored[p]]
             /\ since' = since + ticks /\ hist' = later
             /\ buf' = [buf EXCEPT ![Src(n)] = [p \in Paths |-> IF p \in rapid THEN n ELSE @[p]]]
             /\ lost' = lost \cup {<<n, p>> : p \in ps \ (stable \cup rapid)}
             /\ Continue(i, IF stable = {} THEN InputsNext(n)
                         ELSE <<[step |-> "relay", n |-> n, paths |-> stable]>>)
  /\ UNCHANGED <<batches, present, left, joined, got, snap, taken, again>>

Sending(n, paths) == [p \in Paths |-> IF p \in paths THEN n ELSE None]

\* hKeys of the handler's first broadcast; the inputs follow the avatar parameters.
Relayed(i) ==
  /\ redis[i].step = "relay"
  /\ LET n == redis[i].n
     IN /\ Deliver(Src(n), Sending(n, redis[i].paths))
        /\ Continue(i, IF redis[i].paths \cap Input = {} THEN InputsNext(n) ELSE <<>>)
  /\ UNCHANGED <<batches, server, snap, taken, lost>>

\* hKeys of the broadcast of the inputs that came with avatar parameters
InputsRelayed(i) ==
  /\ redis[i].step = "inputs"
  /\ LET n == redis[i].n IN Deliver(Src(n), Sending(n, Inputs(n)))
  /\ Continue(i, <<>>)
  /\ UNCHANGED <<batches, server, snap, taken, lost>>

-----------------------------------------------------------------------------
(* The throttle buffer.                                                    *)

Buffering == {m \in Members : buf[m] # NoValues}

Drained(order) ==
  [k \in DOMAIN order |-> [src |-> order[k], vals |-> buf[order[k]]]]

DrainKeeping ==
  /\ \E order \in SetToSeqs(Buffering) :
       redis' = IF order = <<>> THEN redis
                ELSE Append(redis, [step |-> "flush", entries |-> Drained(order)])
  /\ UNCHANGED buf

DrainCleared ==
  /\ UNCHANGED redis
  /\ buf' = [m \in Members |-> NoValues]

\* flush() of the buffer: one entry for each sender, which the timer's callback
\* relays one after the other; a later flush does not wait for an earlier one.
Drain ==
  /\ \E order \in SetToSeqs(Buffering) :
       redis' = IF order = <<>> THEN redis
                ELSE Append(redis, [step |-> "flush", entries |-> Drained(order)])
  /\ buf' = [m \in Members |-> NoValues]

Flush ==
  /\ since = Interval
  /\ Drain
  /\ since' = 0
  /\ UNCHANGED <<batches, present, left, joined, stored, hist, seen>>

\* hKeys of the broadcast of a flushed entry
Flushed(i) ==
  /\ redis[i].step = "flush"
  /\ LET e    == Head(redis[i].entries)
         rest == Tail(redis[i].entries)
     IN /\ Deliver(e.src, e.vals)
        /\ Continue(i, IF rest = <<>> THEN <<>> ELSE <<[step |-> "flush", entries |-> rest]>>)
  /\ UNCHANGED <<batches, server, snap, taken, lost>>

-----------------------------------------------------------------------------
(* Members who come and go; module RoomServer has the details.             *)

Join(m) ==
  /\ m \notin present \cup left /\ present # {}
  /\ \A i \in DOMAIN redis : redis[i].step = "enter" => redis[i].who # m
  /\ redis' = Append(redis, [step |-> "enter", who |-> m])
  /\ UNCHANGED <<batches, server, seen>>

\* joinRoom has seated the member, and goes on to read the room.
Entered(i) ==
  /\ redis[i].step = "enter"
  /\ LET m == redis[i].who
     IN IF present = {} THEN Continue(i, <<>>) /\ UNCHANGED present
        ELSE present' = present \cup {m} /\ Continue(i, <<[step |-> "snapshot", who |-> m]>>)
  /\ UNCHANGED <<batches, left, joined, stored, hist, buf, since, seen>>

\* The state has been read and room_joined is sent.
Snapshot(i) ==
  /\ redis[i].step = "snapshot"
  /\ joined' = joined \cup {redis[i].who}
  /\ snap' = [snap EXCEPT ![redis[i].who] = stored]
  /\ Continue(i, <<>>)
  /\ UNCHANGED <<batches, present, left, stored, hist, buf, since, got, taken, lost, again>>

\* leaveRoom; the last member takes the state, the tracker and the buffer along.
Leave(m) ==
  /\ m \in joined
  /\ present' = present \ {m} /\ joined' = joined \ {m}
  /\ left' = left \cup {m}
  /\ IF present = {m}
     THEN /\ stored' = NoValues
          /\ hist' = NoUpdates
          /\ buf' = [k \in Members |-> NoValues]
     ELSE UNCHANGED <<stored, hist, buf>>
  /\ UNCHANGED <<batches, redis, since, seen>>

-----------------------------------------------------------------------------

\* The replies that may come next: the first to each command.  Relays and
\* flushes run the same broadcastToRoom.
AwaitOf(i) == IF redis[i].step \in {"relay", "inputs", "flush"} THEN "hKeys" ELSE redis[i].step

Answered == {i \in DOMAIN redis : \A j \in 1 .. i - 1 : AwaitOf(j) # AwaitOf(i)}

Reply(i) ==
  \/ SessionRead(i) \/ RoomRead(i) \/ StateWritten(i) \/ Relayed(i)
  \/ InputsRelayed(i) \/ Flushed(i) \/ Entered(i) \/ Snapshot(i)

Next ==
  \/ \E m \in Members : \/ \E ps \in (SUBSET Paths) \ {{}} : Receive(m, ps)
                        \/ Join(m) \/ Leave(m)
  \/ \E i \in Answered : Reply(i)
  \/ Flush
  \/ Tick

Spec == Init /\ [][Next]_vars

\* Redis answers the oldest command, time passes and the interval timer fires.
Fairness == WF_vars(redis # <<>> /\ Reply(1)) /\ WF_vars(Tick) /\ WF_vars(Flush)

FairSpec == Spec /\ Fairness

-----------------------------------------------------------------------------
(* Properties.                                                             *)

\* A value reaches a member at most once, by the relay or by a flush, and never
\* comes back to its sender, which would play it to VRChat as a remote one.
OnceToOthers ==
  /\ again = {}
  /\ \A m \in Members, p \in Paths : \A n \in got[m][p] : Src(n) # m

\* Once no handler is before its write, the snapshot for the next one to join
\* holds the newest value of every avatar parameter, buffered or not.
StoredIsNewest ==
  present # {} /\ (\A i \in DOMAIN redis : redis[i].step \notin {"session", "room", "state"}) =>
    \A p \in Avatar : LET ns == {n \in taken : p \in batches[n].paths}
                      IN /\ stored[p] \in ns \cup {None}
                         /\ \A n \in ns : n <= stored[p]

\* The values of a parameter in ps that a step sends to a member who has a newer
\* one of the same sender.
Late(ps) ==
  {n \in Value : \E m \in Members, p \in ps :
     n \in got'[m][p] \ got[m][p] /\ \E k \in got[m][p] : Src(k) = Src(n) /\ n < k}

WithAvatar(n) == batches[n].paths \cap Avatar # {}

\* An input a member is sent late, after a newer one of the same sender, came in
\* one batch with avatar parameters, and so from sendAllParams.  What OscSync
\* sends by itself keeps its order: a button's release is not overtaken by its
\* press, not even by the copies of both that a sendAllParams in between sends.
InputsInOrder == [][\A n \in Late(Input) : WithAvatar(n)]_vars

\* "Only the latest value per param path is kept": a member is not sent an
\* older value of a parameter after a newer one of the same sender.
NewestLast == [][Late(Avatar) = {}]_vars

\* The server owes value n of p to a member in the room: avatar parameters also
\* to one who joins later, an input only to those who are there when it passes.
Owed(n, p) ==
  /\ n \in taken /\ p \in batches[n].paths
  /\ p \in Input => \E i \in DOMAIN redis : redis[i].step \in {"relay", "inputs"} /\ redis[i].n = n

\* What the server owes a member who stays, or a newer value of its sender,
\* arrives, with the snapshot or after it, unless the split has lost it.
EveryValueArrives ==
  \A n \in 1 .. MaxBatches, m \in Members, p \in Paths :
    (Owed(n, p) /\ m \in joined /\ Src(n) # m)
      ~> \/ m \notin joined
         \/ snap[m][p] >= n
         \/ <<n, p>> \in lost
         \/ \E k \in got[m][p] : k >= n /\ Src(k) = Src(n)
=============================================================================

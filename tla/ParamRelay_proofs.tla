--------------------------- MODULE ParamRelay_proofs ---------------------------
(***************************************************************************)
(* A value is in one place on its way through the server, whatever number  *)
(* of members, parameters and batches there is, and however replies of     *)
(* Redis, the clock and the flush timer interleave.                        *)
(***************************************************************************)
EXTENDS ParamRelay, FiniteSetTheorems, TLAPS

\* The part of the types the invariant needs.
Typed ==
  /\ batches \in Seq(Batch) /\ Len(batches) <= MaxBatches
  /\ redis \in Seq(Awaiting)
  /\ joined \subseteq Members /\ present \subseteq Members
  /\ stored \in [Paths -> Value]
  /\ hist \in [Paths -> [0 .. Window -> SUBSET Value]]
  /\ buf \in [Members -> [Paths -> Value]]
  /\ got \in [Members -> [Paths -> SUBSET Value]]
  /\ taken \subseteq Value

Received == 1 .. Len(batches)

\* Command c is of a handler or a flush that may still have value n of p to pass
\* on; after a relay, the inputs of the batch.
Holds(c, n, p) ==
  \/ c.step \in {"session", "room", "state"} /\ c.n = n
  \/ c.step = "relay" /\ c.n = n /\ p \in c.paths \cup Input
  \/ c.step = "inputs" /\ c.n = n /\ p \in Input
  \/ c.step = "flush" /\ \E k \in DOMAIN c.entries : c.entries[k].vals[p] = n

\* The values of a command have been received, those of a flush from the
\* sender of their entry, and there is one entry for each sender.
CommandOK(c) ==
  /\ c.step \in {"session", "room", "state", "relay", "inputs"} => c.n \in Received
  /\ c.step = "flush" =>
       /\ c.entries # <<>>
       /\ \A k \in DOMAIN c.entries, p \in Paths :
            c.entries[k].vals[p] # None =>
              /\ c.entries[k].vals[p] \in Received
              /\ Src(c.entries[k].vals[p]) = c.entries[k].src
       /\ \A k, l \in DOMAIN c.entries : c.entries[k].src = c.entries[l].src => k = l

Commands == \A j \in DOMAIN redis : CommandOK(redis[j])

\* No two commands hold the same value.
Apart ==
  \A j, k \in DOMAIN redis, n \in Received, p \in Paths :
    Holds(redis[j], n, p) /\ Holds(redis[k], n, p) => j = k

\* A value a command holds is neither in the buffer nor with a member.
HeldOnce ==
  \A j \in DOMAIN redis, n \in Received, p \in Paths :
    Holds(redis[j], n, p) => \A m \in Members : buf[m][p] # n /\ n \notin got[m][p]

\* A value in the buffer is its sender's, and with no member.
Buffered ==
  \A m \in Members, p \in Paths :
    buf[m][p] # None =>
      /\ buf[m][p] \in Received /\ Src(buf[m][p]) = m
      /\ \A k \in Members : buf[m][p] \notin got[k][p]

\* No member has a value of its own.
Sent == \A m \in Members, p \in Paths : \A n \in got[m][p] : n \in Received /\ Src(n) # m

Once == Commands /\ Apart /\ HeldOnce /\ Buffered /\ Sent /\ again = {}

Inv == Typed /\ Once

-----------------------------------------------------------------------------
(* The queue of commands.                                                  *)

\* Where command j of the next state was, if command i has been answered.
Old(i, j) == IF j < i THEN j ELSE j + 1

\* Continue takes command i out and puts at most one at the end.
LEMMA ContinueSeq ==
  ASSUME NEW S, redis \in Seq(S), NEW i \in DOMAIN redis, NEW cmds \in Seq(S),
         Continue(i, cmds)
  PROVE  /\ redis' \in Seq(S)
         /\ Len(redis') = Len(redis) - 1 + Len(cmds)
         /\ \A j \in 1 .. Len(redis) - 1 : redis'[j] = redis[Old(i, j)]
         /\ \A j \in 1 .. Len(cmds) : redis'[Len(redis) - 1 + j] = cmds[j]
<1> DEFINE a == SubSeq(redis, 1, i - 1)
           b == SubSeq(redis, i + 1, Len(redis))
<1>1. redis' = (a \o b) \o cmds
  BY DEF Continue, RemoveAt
<1>2. /\ a \in Seq(S) /\ Len(a) = i - 1
      /\ \A j \in 1 .. i - 1 : a[j] = redis[j]
  OBVIOUS
<1>3. /\ b \in Seq(S) /\ Len(b) = Len(redis) - i
      /\ \A j \in 1 .. Len(redis) - i : b[j] = redis[i + j]
  OBVIOUS
<1> HIDE DEF a, b
<1>4. /\ a \o b \in Seq(S) /\ Len(a \o b) = Len(redis) - 1
      /\ \A j \in 1 .. Len(redis) - 1 : (a \o b)[j] = redis[Old(i, j)]
  BY <1>2, <1>3 DEF Old
<1> QED
  BY <1>1, <1>4

\* The two forms in which replies use it.
LEMMA Ended ==
  ASSUME NEW S, redis \in Seq(S), NEW i \in DOMAIN redis, Continue(i, <<>>)
  PROVE  /\ redis' \in Seq(S) /\ DOMAIN redis' = 1 .. Len(redis) - 1
         /\ \A j \in DOMAIN redis' : /\ Old(i, j) \in DOMAIN redis /\ Old(i, j) # i
                                     /\ redis'[j] = redis[Old(i, j)]
<1> DEFINE cmds == <<>>
<1>1. cmds \in Seq(S) /\ Len(cmds) = 0 /\ Continue(i, cmds)
  OBVIOUS
<1> HIDE DEF cmds
<1>2. /\ redis' \in Seq(S) /\ Len(redis') = Len(redis) - 1 + Len(cmds)
      /\ \A j \in 1 .. Len(redis) - 1 : redis'[j] = redis[Old(i, j)]
  BY <1>1, ContinueSeq
<1>3. DOMAIN redis' = 1 .. Len(redis) - 1 /\ Len(redis) \in Nat /\ DOMAIN redis = 1 .. Len(redis)
  BY <1>1, <1>2
<1>4. \A j \in 1 .. Len(redis) - 1 : Old(i, j) \in DOMAIN redis /\ Old(i, j) # i
  BY <1>3 DEF Old
<1> QED
  BY <1>2, <1>3, <1>4

LEMMA GoneOn ==
  ASSUME NEW S, redis \in Seq(S), NEW i \in DOMAIN redis, NEW c \in S, Continue(i, <<c>>)
  PROVE  /\ redis' \in Seq(S) /\ DOMAIN redis' = DOMAIN redis
         /\ \A j \in 1 .. Len(redis) - 1 : /\ Old(i, j) \in DOMAIN redis /\ Old(i, j) # i
                                           /\ redis'[j] = redis[Old(i, j)]
         /\ redis'[Len(redis)] = c
<1> DEFINE cmds == <<c>>
<1>1. cmds \in Seq(S) /\ Len(cmds) = 1 /\ cmds[1] = c /\ Continue(i, cmds)
  OBVIOUS
<1> HIDE DEF cmds
<1>2. /\ redis' \in Seq(S) /\ Len(redis') = Len(redis) - 1 + Len(cmds)
      /\ \A j \in 1 .. Len(redis) - 1 : redis'[j] = redis[Old(i, j)]
      /\ \A j \in 1 .. Len(cmds) : redis'[Len(redis) - 1 + j] = cmds[j]
  BY <1>1, ContinueSeq
<1>3. /\ DOMAIN redis' = DOMAIN redis /\ Len(redis) \in Nat /\ DOMAIN redis = 1 .. Len(redis)
      /\ redis'[Len(redis)] = c
  BY <1>1, <1>2
<1>4. \A j \in 1 .. Len(redis) - 1 : Old(i, j) \in DOMAIN redis /\ Old(i, j) # i
  BY <1>3 DEF Old
<1> QED
  BY <1>2, <1>3, <1>4

\* They exclude each other.
LEMMA EndsOrGoesOn ==
  ASSUME NEW S, redis \in Seq(S), NEW i \in DOMAIN redis, NEW c
  PROVE  ~ (Continue(i, <<>>) /\ Continue(i, <<c>>))
<1> SUFFICES ASSUME Continue(i, <<>>), Continue(i, <<c>>) PROVE FALSE
  OBVIOUS
<1>1. Len(redis') = Len(redis) - 1 /\ Len(redis') = Len(redis)
  BY DEF Continue, RemoveAt
<1> QED
  BY <1>1

\* What a command that is replaced by one that holds no more leaves of the
\* invariant's first two parts.
LEMMA QueueEnded ==
  ASSUME Inv, NEW i \in DOMAIN redis, Continue(i, <<>>), UNCHANGED batches
  PROVE  /\ redis' \in Seq(Awaiting) /\ Commands' /\ Apart'
         /\ \A j \in DOMAIN redis' : \E k \in DOMAIN redis : k # i /\ redis'[j] = redis[k]
<1>1. redis \in Seq(Awaiting)
  BY DEF Inv, Typed
<1>2. /\ redis' \in Seq(Awaiting) /\ DOMAIN redis' = 1 .. Len(redis) - 1
      /\ \A j \in DOMAIN redis' : /\ Old(i, j) \in DOMAIN redis /\ Old(i, j) # i
                                  /\ redis'[j] = redis[Old(i, j)]
  BY <1>1, Ended
<1>3. Commands'
  BY <1>2 DEF Inv, Once, Commands, CommandOK, Received, Src
<1>4. Apart'
  <2> SUFFICES ASSUME NEW j \in DOMAIN redis', NEW k \in DOMAIN redis', NEW n \in Received,
                      NEW p \in Paths, Holds(redis'[j], n, p), Holds(redis'[k], n, p)
               PROVE  j = k
    BY DEF Apart, Received
  <2>1. Old(i, j) = Old(i, k)
    BY <1>2 DEF Inv, Once, Apart
  <2> QED
    BY <1>2, <2>1 DEF Old
<1> QED
  BY <1>2, <1>3, <1>4

LEMMA QueueGoneOn ==
  ASSUME Inv, NEW i \in DOMAIN redis, NEW c \in Awaiting, Continue(i, <<c>>), CommandOK(c),
         \A n \in Received, p \in Paths : Holds(c, n, p) => Holds(redis[i], n, p),
         UNCHANGED batches
  PROVE  /\ redis' \in Seq(Awaiting) /\ Commands' /\ Apart'
         /\ \A j \in DOMAIN redis' :
              redis'[j] = c \/ \E k \in DOMAIN redis : k # i /\ redis'[j] = redis[k]
<1>1. redis \in Seq(Awaiting)
  BY DEF Inv, Typed
<1>2. /\ redis' \in Seq(Awaiting) /\ DOMAIN redis' = DOMAIN redis
      /\ \A j \in 1 .. Len(redis) - 1 : /\ Old(i, j) \in DOMAIN redis /\ Old(i, j) # i
                                        /\ redis'[j] = redis[Old(i, j)]
      /\ redis'[Len(redis)] = c
  BY <1>1, GoneOn
<1>3. Len(redis) \in Nat /\ DOMAIN redis = 1 .. Len(redis)
  BY <1>1
<1>4. \A j \in DOMAIN redis' : j = Len(redis) \/ j \in 1 .. Len(redis) - 1
  BY <1>2, <1>3
<1>5. Commands'
  BY <1>2, <1>4 DEF Inv, Once, Commands, CommandOK, Received, Src
<1>6. Apart'
  <2> SUFFICES ASSUME NEW j \in DOMAIN redis', NEW k \in DOMAIN redis', NEW n \in Received,
                      NEW p \in Paths, Holds(redis'[j], n, p), Holds(redis'[k], n, p)
               PROVE  j = k
    BY DEF Apart, Received
  <2>1. ASSUME NEW x \in 1 .. Len(redis) - 1, Holds(redis'[x], n, p), Holds(c, n, p) PROVE FALSE
    BY <1>2, <2>1 DEF Inv, Once, Apart
  <2>2. CASE j = Len(redis) \/ k = Len(redis)
    BY <1>2, <1>4, <2>1, <2>2
  <2>3. CASE j \in 1 .. Len(redis) - 1 /\ k \in 1 .. Len(redis) - 1
    <3>1. Old(i, j) = Old(i, k)
      BY <1>2, <2>3 DEF Inv, Once, Apart
    <3> QED
      BY <1>3, <2>3, <3>1 DEF Old
  <2> QED
    BY <1>4, <2>2, <2>3
<1> QED
  BY <1>2, <1>4, <1>5, <1>6

\* A reply that moves no value but those of its own command keeps the invariant.
LEMMA MovedOn ==
  ASSUME Inv, NEW i \in DOMAIN redis, UNCHANGED <<batches, got, again>>,
         \A m \in Members, p \in Paths : buf'[m][p] \in {buf[m][p], None},
         \/ Continue(i, <<>>)
         \/ \E c \in Awaiting :
              /\ Continue(i, <<c>>) /\ CommandOK(c)
              /\ \A n \in Received, p \in Paths : Holds(c, n, p) => Holds(redis[i], n, p)
  PROVE  redis' \in Seq(Awaiting) /\ Once'
<1>1. /\ redis' \in Seq(Awaiting) /\ Commands' /\ Apart'
      /\ \A j \in DOMAIN redis', n \in Received, p \in Paths :
           Holds(redis'[j], n, p) => \E k \in DOMAIN redis : Holds(redis[k], n, p)
  <2>1. CASE Continue(i, <<>>)
    BY <2>1, QueueEnded
  <2>2. ASSUME NEW c \in Awaiting, Continue(i, <<c>>), CommandOK(c),
               \A n \in Received, p \in Paths : Holds(c, n, p) => Holds(redis[i], n, p)
        PROVE  /\ redis' \in Seq(Awaiting) /\ Commands' /\ Apart'
               /\ \A j \in DOMAIN redis', n \in Received, p \in Paths :
                    Holds(redis'[j], n, p) => \E k \in DOMAIN redis : Holds(redis[k], n, p)
    BY <2>2, QueueGoneOn
  <2> QED
    BY <2>1, <2>2
<1>2. \A n \in Received : n # None
  BY DEF Received, None
<1>3. HeldOnce'
  BY <1>1, <1>2 DEF Inv, Once, HeldOnce, Received
<1>4. Buffered'
  BY DEF Inv, Once, Buffered, Received, Src
<1>5. Sent'
  BY DEF Inv, Once, Sent, Received, Src
<1> QED
  BY <1>1, <1>3, <1>4, <1>5 DEF Inv, Once

\* A new command of a join, or of a batch that has just come, keeps it too.
LEMMA AskedOnce ==
  ASSUME Inv, NEW c \in Awaiting, redis' = Append(redis, c), UNCHANGED <<buf, got, again>>,
         batches' \in Seq(Batch), Len(batches) <= Len(batches'),
         \A n \in Received : batches'[n] = batches[n],
         CommandOK(c)',
         \A n \in Received, p \in Paths : ~ Holds(c, n, p)
  PROVE  redis' \in Seq(Awaiting) /\ Once'
<1>1. redis \in Seq(Awaiting) /\ batches \in Seq(Batch)
  BY DEF Inv, Typed
<1>2. /\ redis' \in Seq(Awaiting) /\ DOMAIN redis' = 1 .. Len(redis) + 1
      /\ \A j \in DOMAIN redis : j \in DOMAIN redis' /\ redis'[j] = redis[j]
      /\ redis'[Len(redis) + 1] = c /\ Len(redis) \in Nat /\ DOMAIN redis = 1 .. Len(redis)
  BY <1>1
<1>3. \A j \in DOMAIN redis' : j = Len(redis) + 1 \/ j \in DOMAIN redis
  BY <1>2
<1>4. \A n \in Received : n \in Received' /\ Src(n)' = Src(n)
  BY <1>1 DEF Received, Src
<1>5. \A d : CommandOK(d) => CommandOK(d)'
  BY <1>4 DEF CommandOK
<1>6. Commands'
  BY <1>2, <1>3, <1>5 DEF Inv, Once, Commands
<1>7. \A j \in DOMAIN redis, n \in Received', p \in Paths :
        Holds(redis[j], n, p) => n \in Received
  BY DEF Inv, Once, Commands, CommandOK, Holds, Received, None
<1>8. Apart'
  <2> SUFFICES ASSUME NEW j \in DOMAIN redis', NEW k \in DOMAIN redis', NEW n \in Received',
                      NEW p \in Paths, Holds(redis'[j], n, p), Holds(redis'[k], n, p)
               PROVE  j = k
    BY DEF Apart
  <2>1. ASSUME NEW x \in DOMAIN redis, Holds(redis'[x], n, p), Holds(c, n, p) PROVE FALSE
    BY <1>2, <1>7, <2>1
  <2>2. CASE j \in DOMAIN redis /\ k \in DOMAIN redis
    BY <1>2, <1>7, <2>2 DEF Inv, Once, Apart
  <2> QED
    BY <1>2, <1>3, <2>1, <2>2
<1>9. HeldOnce'
  <2> SUFFICES ASSUME NEW j \in DOMAIN redis', NEW n \in Received', NEW p \in Paths,
                      NEW m \in Members, Holds(redis'[j], n, p)
               PROVE  buf[m][p] # n /\ n \notin got[m][p]
    BY DEF HeldOnce
  <2>1. CASE n \in Received
    BY <1>2, <1>3, <2>1 DEF Inv, Once, HeldOnce
  <2>2. CASE n \notin Received
    BY <2>2 DEF Inv, Once, Buffered, Sent, Received, None
  <2> QED
    BY <2>1, <2>2
<1>10. Buffered' /\ Sent'
  BY <1>4 DEF Inv, Once, Buffered, Sent
<1> QED
  BY <1>2, <1>6, <1>8, <1>9, <1>10 DEF Inv, Once

\* Ageing leaves fewer updates in the window, so a parameter that is rapid after
\* it was rapid before.
LEMMA AgedSlower ==
  ASSUME hist \in [Paths -> [0 .. Window -> SUBSET Value]], NEW p \in Paths,
         IsRapid(Aged(hist), p)
  PROVE  IsRapid(hist, p)
<1> DEFINE A == UNION Range(Aged(hist)[p])
           H == UNION Range(hist[p])
<1>1. Window \in Nat /\ MaxBatches \in Nat /\ Threshold \in Nat
  BY RelayAssumption
<1>2. Aged(hist)[p] = [a \in 0 .. Window |-> IF a = 0 THEN {} ELSE hist[p][a - 1]]
  BY DEF Aged
<1>3. ASSUME NEW x \in A PROVE x \in H
  <2>1. PICK a \in 0 .. Window : x \in Aged(hist)[p][a]
    BY <1>2, <1>3 DEF Range
  <2>2. a - 1 \in 0 .. Window /\ x \in hist[p][a - 1]
    BY <1>1, <1>2, <2>1
  <2> QED
    BY <2>2 DEF Range
<1>4. ASSUME NEW x \in H PROVE x \in Value
  <2>1. PICK a \in DOMAIN hist[p] : x \in hist[p][a]
    BY <1>4 DEF Range
  <2> QED
    BY <2>1
<1>5. IsFiniteSet(H)
  <2>1. IsFiniteSet(Value)
    BY <1>1, FS_Interval DEF Value
  <2>2. H \in SUBSET Value
    BY <1>4
  <2> HIDE DEF H
  <2> QED
    BY <2>1, <2>2, FS_Subset
<1>6. A \in SUBSET H
  BY <1>3
<1> HIDE DEF A, H
<1>7. Cardinality(A) <= Cardinality(H) /\ Cardinality(A) \in Nat /\ Cardinality(H) \in Nat
  BY <1>5, <1>6, FS_Subset, FS_CardinalityType
<1>8. Cardinality(A) >= Threshold
  BY DEF IsRapid, A
<1>9. Cardinality(H) >= Threshold
  BY <1>1, <1>7, <1>8
<1> QED
  BY <1>9 DEF IsRapid, H

-----------------------------------------------------------------------------
(* Replies.                                                                *)

LEMMA ReceivedValue == Typed => Received \subseteq Value /\ \A n \in Received : batches[n] \in Batch
BY RelayAssumption DEF Typed, Received, Value

\* requireSession's reply moves the batch on.
LEMMA SessionReadInv ==
  ASSUME Inv, NEW i \in DOMAIN redis, SessionRead(i) PROVE Inv'
<1> DEFINE n == redis[i].n
           c == [step |-> "room", n |-> n]
<1>1. n \in Received
  BY DEF SessionRead, Inv, Once, Commands, CommandOK
<1>2. c \in Awaiting /\ CommandOK(c)
  BY <1>1, ReceivedValue DEF Awaiting, CommandOK, Inv
<1>3. \A k \in Received, p \in Paths : Holds(c, k, p) => Holds(redis[i], k, p)
  BY DEF SessionRead, Holds
<1>4. Continue(i, <<>>) \/ Continue(i, <<c>>)
  BY DEF SessionRead
<1> HIDE DEF n, c
<1>5. redis' \in Seq(Awaiting) /\ Once'
  BY <1>2, <1>3, <1>4, MovedOn DEF SessionRead, server, seen, Inv, Typed
<1>6. Typed'
  BY <1>5 DEF Inv, Typed, SessionRead, server, seen
<1> QED
  BY <1>5, <1>6 DEF Inv

\* So does the room's, with the batch taken and its updates recorded.
LEMMA RoomReadInv ==
  ASSUME Inv, NEW i \in DOMAIN redis, RoomRead(i) PROVE Inv'
<1> DEFINE n == redis[i].n
           c == [step |-> "state", n |-> n]
           d == [step |-> "relay", n |-> n, paths |-> batches[n].paths]
<1>1. n \in Received
  BY DEF RoomRead, Inv, Once, Commands, CommandOK
<1>2. /\ n \in Value /\ batches[n].paths \in SUBSET Paths
      /\ c \in Awaiting /\ CommandOK(c) /\ d \in Awaiting /\ CommandOK(d)
  BY <1>1, ReceivedValue DEF Awaiting, CommandOK, Inv, Batch
<1>3. \A k \in Received, p \in Paths :
        (Holds(c, k, p) => Holds(redis[i], k, p)) /\ (Holds(d, k, p) => Holds(redis[i], k, p))
  BY DEF RoomRead, Holds
<1>4. Continue(i, <<>>) \/ Continue(i, <<c>>) \/ Continue(i, <<d>>)
  BY DEF RoomRead
<1>5. hist' \in [Paths -> [0 .. Window -> SUBSET Value]] /\ taken' \subseteq Value
  <2>1. CASE present = {}
    BY <2>1 DEF RoomRead, Inv, Typed
  <2>2. CASE present # {}
    <3>1. \A p \in Paths : [hist[p] EXCEPT ![0] = @ \cup {n}] \in [0 .. Window -> SUBSET Value]
      BY <1>2 DEF Inv, Typed
    <3>2. \A p \in Paths : hist[p] \in [0 .. Window -> SUBSET Value]
      BY DEF Inv, Typed
    <3>3. taken' = taken \cup {n}
      BY <2>2 DEF RoomRead
    <3>4. hist' = [p \in Paths |-> IF p \in Throttled(batches[n].paths)
                                   THEN [hist[p] EXCEPT ![0] = @ \cup {n}] ELSE hist[p]]
      BY <2>2 DEF RoomRead
    <3> HIDE DEF n
    <3> QED
      BY <1>2, <3>1, <3>2, <3>3, <3>4 DEF Inv, Typed
  <2> QED
    BY <2>1, <2>2
<1> HIDE DEF n, c, d
<1>6. redis' \in Seq(Awaiting) /\ Once'
  BY <1>2, <1>3, <1>4, MovedOn DEF RoomRead, Inv, Typed
<1>7. Typed'
  BY <1>5, <1>6 DEF Inv, Typed, RoomRead
<1> QED
  BY <1>6, <1>7 DEF Inv

\* The split gives each value to the relay or to the buffer, never to both.
LEMMA StateWrittenInv ==
  ASSUME Inv, NEW i \in DOMAIN redis, StateWritten(i) PROVE Inv'
<1> DEFINE n      == redis[i].n
           ps     == Throttled(batches[n].paths)
           stable == {p \in ps : ~ IsRapid(hist, p)}
           c      == [step |-> "relay", n |-> n, paths |-> stable]
           d      == [step |-> "inputs", n |-> n]
<1>1. /\ n \in Received /\ n \in Value /\ n # None /\ batches[n] \in Batch
      /\ Src(n) \in Members /\ ps \subseteq Paths
      /\ \A p \in Paths : Holds(redis[i], n, p)
  BY ReceivedValue
  DEF StateWritten, Inv, Once, Commands, CommandOK, Batch, Src, Throttled, Holds, Received, None
<1>2. PICK ticks \in IF MayTick THEN {0, 1} ELSE {0} :
        LET later == IF ticks = 0 THEN hist ELSE Aged(hist)
            rapid == {p \in ps : IsRapid(later, p)}
        IN /\ stored' = [p \in Paths |-> IF p \in Saved(ps, stable) THEN n ELSE stored[p]]
           /\ since' = since + ticks /\ hist' = later
           /\ buf' = [buf EXCEPT ![Src(n)] = [p \in Paths |-> IF p \in rapid THEN n ELSE @[p]]]
           /\ lost' = lost \cup {<<n, p>> : p \in ps \ (stable \cup rapid)}
           /\ Continue(i, IF stable = {} THEN InputsNext(n) ELSE <<c>>)
  BY Zenon DEF StateWritten
<1>0. Continue(i, <<>>) \/ Continue(i, <<c>>) \/ Continue(i, <<d>>)
  BY <1>2 DEF InputsNext
<1> DEFINE later == IF ticks = 0 THEN hist ELSE Aged(hist)
           rapid == {p \in ps : IsRapid(later, p)}
<1>3. UNCHANGED <<batches, present, left, joined, got, snap, taken, again>>
  BY DEF StateWritten
<1>4. \A p \in rapid : p \in Paths /\ p \notin stable \cup Input
  <2>1. \A p \in rapid : p \notin Input
    BY DEF Throttled
  <2> QED
    BY <1>1, <2>1, AgedSlower DEF Inv, Typed
<1>5. later \in [Paths -> [0 .. Window -> SUBSET Value]]
  BY RelayAssumption DEF Aged, Inv, Typed
<1>6. c \in Awaiting /\ CommandOK(c) /\ d \in Awaiting /\ CommandOK(d)
  BY <1>1 DEF Awaiting, CommandOK
<1>7. \A k \in Received, p \in Paths :
        Holds(c, k, p) \/ Holds(d, k, p) => k = n /\ p \in stable \cup Input
  BY DEF Holds
<1> HIDE DEF n, ps, stable, c, d, later, rapid
<1>8. /\ redis' \in Seq(Awaiting) /\ Commands' /\ Apart'
      /\ \A j \in DOMAIN redis' :
           redis'[j] \in {c, d} \/ \E k \in DOMAIN redis : k # i /\ redis'[j] = redis[k]
  <2>1. CASE Continue(i, <<>>)
    BY <1>3, <2>1, QueueEnded
  <2>2. CASE Continue(i, <<c>>)
    BY <1>1, <1>3, <1>6, <1>7, <2>2, QueueGoneOn
  <2>3. CASE Continue(i, <<d>>)
    BY <1>1, <1>3, <1>6, <1>7, <2>3, QueueGoneOn
  <2> QED
    BY <1>0, <2>1, <2>2, <2>3
<1>9. /\ buf' \in [Members -> [Paths -> Value]]
      /\ \A m \in Members, p \in Paths :
           buf'[m][p] = IF m = Src(n) /\ p \in rapid THEN n ELSE buf[m][p]
  BY <1>1, <1>2 DEF rapid, later, Inv, Typed
<1>10. HeldOnce'
  <2> SUFFICES ASSUME NEW j \in DOMAIN redis', NEW k \in Received, NEW p \in Paths,
                      NEW m \in Members, Holds(redis'[j], k, p)
               PROVE  buf'[m][p] # k /\ k \notin got[m][p]
    BY <1>3 DEF HeldOnce, Received
  <2>1. PICK x \in DOMAIN redis : Holds(redis[x], k, p) /\ (x = i => k = n /\ p \in stable \cup Input)
    BY <1>1, <1>7, <1>8
  <2>2. buf[m][p] # k /\ k \notin got[m][p]
    BY <2>1 DEF Inv, Once, HeldOnce
  <2>3. CASE p \in rapid /\ k = n
    <3>1. x # i
      BY <1>4, <2>1, <2>3
    <3> QED
      BY <1>1, <2>1, <2>3, <3>1 DEF Inv, Once, Apart
  <2> QED
    BY <1>9, <2>2, <2>3
<1>11. Buffered' /\ Sent'
  <2>1. \A m \in Members, p \in Paths : n \notin got[m][p]
    BY <1>1 DEF Inv, Once, HeldOnce
  <2> QED
    BY <1>1, <1>3, <1>9, <2>1 DEF Inv, Once, Buffered, Sent, Received, Src
<1>12. Once'
  BY <1>3, <1>8, <1>10, <1>11 DEF Inv, Once
<1>13. Typed'
  <2>1. stored' \in [Paths -> Value]
    BY <1>1, <1>2 DEF Inv, Typed
  <2>2. hist' = later
    BY <1>2 DEF later
  <2> QED
    BY <1>3, <1>5, <1>8, <1>9, <2>1, <2>2 DEF Inv, Typed
<1> QED
  BY <1>12, <1>13 DEF Inv

\* What a broadcast sends is then with the members, and nobody had it before.
LEMMA Delivered ==
  ASSUME Inv, NEW src \in Members, NEW vals \in [Paths -> Value], Deliver(src, vals),
         UNCHANGED <<batches, buf>>,
         \A p \in Paths : vals[p] # None =>
           /\ vals[p] \in Received /\ Src(vals[p]) = src
           /\ \A m \in Members : buf[m][p] # vals[p] /\ vals[p] \notin got[m][p]
  PROVE  /\ got' \in [Members -> [Paths -> SUBSET Value]] /\ again' = {}
         /\ Sent' /\ Buffered'
         /\ \A m \in Members, p \in Paths : got'[m][p] \subseteq got[m][p] \cup {vals[p]}
         /\ \A m \in Members, p \in Paths : vals[p] = None => got'[m][p] = got[m][p]
<1> DEFINE to == present \ {src}
<1>1. got' = [m \in Members |-> [p \in Paths |->
                IF m \in to /\ vals[p] # None THEN got[m][p] \cup {vals[p]} ELSE got[m][p]]]
  BY DEF Deliver
<1>2. \A m \in Members, p \in Paths :
        got'[m][p] = IF m \in to /\ vals[p] # None THEN got[m][p] \cup {vals[p]} ELSE got[m][p]
  BY <1>1
<1>3. got' \in [Members -> [Paths -> SUBSET Value]]
  BY <1>1 DEF Inv, Typed
<1>4. again' = {}
  <2> SUFFICES ASSUME NEW m \in to, NEW p \in Paths, vals[p] \in got[m][p] PROVE FALSE
    BY DEF Deliver, Inv, Once
  <2>1. m \in Members
    BY DEF Inv, Typed
  <2>2. vals[p] # None
    BY <2>1 DEF Inv, Once, Sent, Received, None
  <2> QED
    BY <2>1, <2>2
<1> HIDE DEF to
<1>5. ASSUME NEW m \in Members, NEW p \in Paths, NEW n \in got'[m][p], n \notin got[m][p]
      PROVE  m \in to /\ vals[p] # None /\ n = vals[p]
  <2>1. CASE m \in to /\ vals[p] # None
    <3>1. got'[m][p] = got[m][p] \cup {vals[p]}
      BY <1>2, <2>1
    <3> QED
      BY <1>5, <2>1, <3>1
  <2>2. CASE ~ (m \in to /\ vals[p] # None)
    <3>1. got'[m][p] = got[m][p]
      BY <1>2, <2>2
    <3> QED
      BY <1>5, <3>1
  <2> QED
    BY <2>1, <2>2
<1>6. Sent'
  <2> SUFFICES ASSUME NEW m \in Members, NEW p \in Paths, NEW n \in got'[m][p]
               PROVE  n \in Received /\ Src(n) # m
    BY DEF Sent, Received, Src
  <2>1. CASE n \in got[m][p]
    BY <2>1 DEF Inv, Once, Sent
  <2>2. CASE n \notin got[m][p]
    <3>1. m \in to /\ vals[p] # None /\ n = vals[p]
      BY <1>5, <2>2
    <3> QED
      BY <3>1 DEF to
  <2> QED
    BY <2>1, <2>2
<1>7. Buffered'
  <2> SUFFICES ASSUME NEW m \in Members, NEW p \in Paths, buf[m][p] # None
               PROVE  /\ buf[m][p] \in Received /\ Src(buf[m][p]) = m
                      /\ \A k \in Members : buf[m][p] \notin got'[k][p]
    BY DEF Buffered, Received, Src
  <2>1. /\ buf[m][p] \in Received /\ Src(buf[m][p]) = m
        /\ \A k \in Members : buf[m][p] \notin got[k][p]
    BY DEF Inv, Once, Buffered
  <2>2. vals[p] # None => buf[m][p] # vals[p]
    OBVIOUS
  <2> QED
    BY <1>5, <2>1, <2>2
<1> QED
  BY <1>2, <1>3, <1>4, <1>6, <1>7

\* A broadcast of value n of some parameters to all but its sender, by a handler
\* that held them and goes on to hold no more than the other inputs.
LEMMA SentOn ==
  ASSUME Inv, NEW i \in DOMAIN redis, NEW n \in Received, NEW paths \in SUBSET Paths,
         Deliver(Src(n), Sending(n, paths)), NEW c \in Awaiting,
         Continue(i, <<>>) \/ Continue(i, <<c>>),
         CommandOK(c),
         \A p \in paths : Holds(redis[i], n, p),
         \A x \in Received, p \in Paths :
           Holds(c, x, p) => Holds(redis[i], x, p) /\ (x = n => p \notin paths),
         UNCHANGED <<batches, server, snap, taken, lost>>
  PROVE  Inv'
<1> DEFINE vals == Sending(n, paths)
<1>1. n \in Value /\ Src(n) \in Members
  BY ReceivedValue DEF Inv, Batch, Src
<1>2. \A p \in Paths : vals[p] # None => vals[p] = n /\ p \in paths
  BY DEF Sending
<1>3. vals \in [Paths -> Value]
  BY <1>1, RelayAssumption DEF None, Value, Sending
<1> HIDE DEF vals
<1>4. \A p \in Paths : vals[p] # None =>
        /\ vals[p] \in Received /\ Src(vals[p]) = Src(n)
        /\ \A m \in Members : buf[m][p] # vals[p] /\ vals[p] \notin got[m][p]
  BY <1>2 DEF Inv, Once, HeldOnce
<1>5. Deliver(Src(n), vals)
  BY DEF vals
<1>6. /\ got' \in [Members -> [Paths -> SUBSET Value]] /\ again' = {} /\ Sent' /\ Buffered'
      /\ \A m \in Members, p \in Paths : got'[m][p] \subseteq got[m][p] \cup {vals[p]}
      /\ \A m \in Members, p \in Paths : vals[p] = None => got'[m][p] = got[m][p]
  BY <1>1, <1>3, <1>4, <1>5, Delivered DEF server
<1>7. /\ redis' \in Seq(Awaiting) /\ Commands' /\ Apart'
      /\ \A j \in DOMAIN redis' :
           redis'[j] = c \/ \E k \in DOMAIN redis : k # i /\ redis'[j] = redis[k]
  <2>1. CASE Continue(i, <<>>)
    BY <2>1, QueueEnded
  <2>2. CASE Continue(i, <<c>>)
    BY <2>2, QueueGoneOn
  <2> QED
    BY <2>1, <2>2
<1>8. HeldOnce'
  <2> SUFFICES ASSUME NEW j \in DOMAIN redis', NEW x \in Received, NEW p \in Paths,
                      NEW m \in Members, Holds(redis'[j], x, p)
               PROVE  buf[m][p] # x /\ x \notin got'[m][p]
    BY DEF HeldOnce, Received, server
  <2>1. PICK k \in DOMAIN redis : Holds(redis[k], x, p) /\ (k = i /\ x = n => p \notin paths)
    BY <1>7
  <2>2. buf[m][p] # x /\ x \notin got[m][p]
    BY <2>1 DEF Inv, Once, HeldOnce
  <2>3. vals[p] # None => x # n
    BY <1>2, <2>1 DEF Inv, Once, Apart
  <2> QED
    BY <1>2, <1>6, <2>2, <2>3
<1>9. Typed'
  BY <1>6, <1>7 DEF Inv, Typed, server
<1> QED
  BY <1>6, <1>7, <1>8, <1>9 DEF Inv, Once

\* A relay sends what its command held; the inputs it leaves come next.
LEMMA RelayedInv ==
  ASSUME Inv, NEW i \in DOMAIN redis, Relayed(i) PROVE Inv'
<1>0. PICK n, c : n = redis[i].n /\ c = [step |-> "inputs", n |-> n]
  OBVIOUS
<1>1. /\ redis[i].step = "relay" /\ n \in Received /\ n \in Value
      /\ redis[i].paths \in SUBSET Paths
  <2>1. redis[i].step = "relay" /\ redis[i] \in Awaiting /\ CommandOK(redis[i])
    BY DEF Relayed, Inv, Typed, Once, Commands
  <2> QED
    BY <1>0, <2>1, ReceivedValue DEF Awaiting, CommandOK, Inv
<1>2. c \in Awaiting /\ CommandOK(c)
  BY <1>0, <1>1 DEF Awaiting, CommandOK
<1>3. /\ Deliver(Src(n), Sending(n, redis[i].paths))
      /\ UNCHANGED <<batches, server, snap, taken, lost>>
  BY <1>0 DEF Relayed
<1>4. \/ Continue(i, <<>>)
      \/ Continue(i, <<c>>) /\ redis[i].paths \cap Input = {}
  BY <1>0 DEF Relayed, InputsNext
<1>5. \A p \in redis[i].paths : Holds(redis[i], n, p)
  BY <1>0, <1>1 DEF Holds
<1>6. /\ \A x \in Received, p \in Paths : Holds(c, x, p) => Holds(redis[i], x, p)
      /\ \A x, p : Holds(c, x, p) => p \in Input
  BY <1>0, <1>1 DEF Holds
<1> DEFINE paths == redis[i].paths
<1>7. paths \in SUBSET Paths /\ Deliver(Src(n), Sending(n, paths))
  BY <1>1, <1>3
<1>8. \A p \in paths : Holds(redis[i], n, p)
  BY <1>5
<1>9. CASE Continue(i, <<>>)
  <2>1. PICK d : d = [step |-> "enter", who |-> Src(n)]
    OBVIOUS
  <2>2. d \in Awaiting /\ CommandOK(d) /\ \A x, p : ~ Holds(d, x, p)
    <3>1. Src(n) \in Members
      BY <1>1, ReceivedValue DEF Inv, Batch, Src
    <3> QED
      BY <2>1, <3>1 DEF Awaiting, CommandOK, Holds
  <2> HIDE DEF paths
  <2> QED
    BY <1>1, <1>3, <1>7, <1>8, <1>9, <2>2, SentOn
<1>10. CASE Continue(i, <<c>>) /\ paths \cap Input = {}
  <2>1. \A x \in Received, p \in Paths :
          Holds(c, x, p) => Holds(redis[i], x, p) /\ (x = n => p \notin paths)
    BY <1>6, <1>10
  <2> HIDE DEF paths
  <2> QED
    BY <1>1, <1>2, <1>3, <1>7, <1>8, <1>10, <2>1, SentOn
<1> QED
  BY <1>4, <1>9, <1>10

\* The broadcast of the inputs ends the handler.
LEMMA InputsRelayedInv ==
  ASSUME Inv, NEW i \in DOMAIN redis, InputsRelayed(i) PROVE Inv'
<1>0. PICK n, d : n = redis[i].n /\ d = [step |-> "enter", who |-> Src(n)]
  OBVIOUS
<1>1. redis[i].step = "inputs" /\ redis[i].n = n /\ n \in Received
  BY <1>0 DEF InputsRelayed, Inv, Once, Commands, CommandOK
<1>2. d \in Awaiting /\ CommandOK(d) /\ \A x, p : ~ Holds(d, x, p)
  <2>1. Src(n) \in Members
    BY <1>1, ReceivedValue DEF Inv, Batch, Src
  <2> QED
    BY <1>0, <2>1 DEF Awaiting, CommandOK, Holds
<1>3. PICK paths : paths = Inputs(n)
  OBVIOUS
<1>4. paths \in SUBSET Paths /\ paths \subseteq Input
  BY <1>1, <1>3, ReceivedValue DEF Inputs, Throttled, Inv, Batch
<1>5. /\ Deliver(Src(n), Sending(n, paths)) /\ Continue(i, <<>>)
      /\ UNCHANGED <<batches, server, snap, taken, lost>>
  BY <1>1, <1>3 DEF InputsRelayed
<1>6. \A p \in paths : Holds(redis[i], n, p)
  BY <1>1, <1>4 DEF Holds
<1> QED
  BY <1>1, <1>2, <1>4, <1>5, <1>6, SentOn

\* A flush sends the values of its first sender and keeps those of the others.
LEMMA FlushedInv ==
  ASSUME Inv, NEW i \in DOMAIN redis, Flushed(i) PROVE Inv'
<1> DEFINE es   == redis[i].entries
           e    == Head(es)
           rest == Tail(es)
           c    == [step |-> "flush", entries |-> rest]
<1>1. redis[i].step = "flush" /\ redis[i] \in Awaiting /\ CommandOK(redis[i])
  BY DEF Flushed, Inv, Typed, Once, Commands
<1>2. es \in Seq(Entry) /\ es # <<>>
  BY <1>1 DEF Awaiting, CommandOK
<1>3. /\ e = es[1] /\ 1 \in DOMAIN es /\ e \in Entry
      /\ rest \in Seq(Entry)
      /\ \A k \in DOMAIN rest : k + 1 \in DOMAIN es /\ k + 1 # 1 /\ rest[k] = es[k + 1]
  BY <1>2
<1>4. e.src \in Members /\ e.vals \in [Paths -> Value]
  BY <1>3 DEF Entry
<1>5. /\ Deliver(e.src, e.vals) /\ UNCHANGED <<batches, server, snap, taken, lost>>
      /\ Continue(i, IF rest = <<>> THEN <<>> ELSE <<c>>)
  BY DEF Flushed
<1>6. /\ \A k \in DOMAIN es, p \in Paths :
           es[k].vals[p] # None => /\ es[k].vals[p] \in Received
                                   /\ Src(es[k].vals[p]) = es[k].src
                                   /\ Holds(redis[i], es[k].vals[p], p)
      /\ \A k, l \in DOMAIN es : es[k].src = es[l].src => k = l
  BY <1>1 DEF CommandOK, Holds
<1> HIDE DEF es, e, rest
<1>7. \A p \in Paths : e.vals[p] # None =>
        /\ e.vals[p] \in Received /\ Src(e.vals[p]) = e.src
        /\ \A m \in Members : buf[m][p] # e.vals[p] /\ e.vals[p] \notin got[m][p]
  BY <1>3, <1>6 DEF Inv, Once, HeldOnce
<1>8. /\ got' \in [Members -> [Paths -> SUBSET Value]] /\ again' = {} /\ Sent' /\ Buffered'
      /\ \A m \in Members, p \in Paths : got'[m][p] \subseteq got[m][p] \cup {e.vals[p]}
      /\ \A m \in Members, p \in Paths : e.vals[p] = None => got'[m][p] = got[m][p]
  BY <1>4, <1>5, <1>7, Delivered DEF server
<1>9. rest # <<>> => c \in Awaiting /\ CommandOK(c)
  BY <1>3, <1>6 DEF Awaiting, CommandOK
<1>10. ASSUME NEW x \in Received, NEW p \in Paths, Holds(c, x, p)
       PROVE  Holds(redis[i], x, p) /\ x # e.vals[p]
  <2>1. PICK k \in DOMAIN rest : rest[k].vals[p] = x
    BY <1>10 DEF Holds
  <2>2. es[k + 1].vals[p] = x /\ k + 1 \in DOMAIN es /\ k + 1 # 1 /\ x # None
    BY <1>3, <2>1 DEF Received, None
  <2> QED
    BY <1>3, <1>6, <2>2
<1> HIDE DEF c
<1>11. /\ redis' \in Seq(Awaiting) /\ Commands' /\ Apart'
       /\ \A j \in DOMAIN redis' :
            redis'[j] = c \/ \E k \in DOMAIN redis : k # i /\ redis'[j] = redis[k]
  <2>1. CASE rest = <<>>
    BY <1>5, <2>1, QueueEnded
  <2>2. CASE rest # <<>>
    BY <1>5, <1>9, <1>10, <2>2, QueueGoneOn
  <2> QED
    BY <2>1, <2>2
<1>12. HeldOnce'
  <2> SUFFICES ASSUME NEW j \in DOMAIN redis', NEW x \in Received, NEW p \in Paths,
                      NEW m \in Members, Holds(redis'[j], x, p)
               PROVE  buf[m][p] # x /\ x \notin got'[m][p]
    BY <1>5 DEF HeldOnce, Received, server
  <2>1. CASE redis'[j] = c
    BY <1>8, <1>10, <2>1 DEF Inv, Once, HeldOnce
  <2>2. ASSUME NEW k \in DOMAIN redis, k # i, redis'[j] = redis[k]
        PROVE  buf[m][p] # x /\ x \notin got'[m][p]
    <3>1. buf[m][p] # x /\ x \notin got[m][p]
      BY <2>2 DEF Inv, Once, HeldOnce
    <3>2. e.vals[p] # None => x # e.vals[p]
      BY <1>3, <1>6, <2>2 DEF Inv, Once, Apart
    <3> QED
      BY <1>8, <3>1, <3>2
  <2> QED
    BY <1>11, <2>1, <2>2
<1>13. Typed'
  BY <1>5, <1>8, <1>11 DEF Inv, Typed, server
<1> QED
  BY <1>8, <1>11, <1>12, <1>13 DEF Inv, Once

-----------------------------------------------------------------------------
(* The other steps.                                                        *)

LEMMA EnteredInv ==
  ASSUME Inv, NEW i \in DOMAIN redis, Entered(i) PROVE Inv'
<1> DEFINE m == redis[i].who
           c == [step |-> "snapshot", who |-> m]
<1>1. m \in Members
  <2>1. redis[i] \in Awaiting /\ redis[i].step = "enter"
    BY DEF Entered, Inv, Typed
  <2> QED
    BY <2>1 DEF Awaiting
<1>2. c \in Awaiting /\ CommandOK(c) /\ \A n \in Received, p \in Paths : ~ Holds(c, n, p)
  BY <1>1 DEF Awaiting, CommandOK, Holds
<1>3. Continue(i, <<>>) \/ Continue(i, <<c>>)
  BY DEF Entered
<1>4. present' \subseteq Members
  BY <1>1 DEF Entered, Inv, Typed
<1> HIDE DEF m, c
<1>5. redis' \in Seq(Awaiting) /\ Once'
  BY <1>2, <1>3, MovedOn DEF Entered, seen
<1> QED
  BY <1>4, <1>5 DEF Inv, Typed, Entered, seen

LEMMA SnapshotInv ==
  ASSUME Inv, NEW i \in DOMAIN redis, Snapshot(i) PROVE Inv'
<1>1. redis[i].who \in Members
  <2>1. redis[i] \in Awaiting /\ redis[i].step = "snapshot"
    BY DEF Snapshot, Inv, Typed
  <2> QED
    BY <2>1 DEF Awaiting
<1>2. redis' \in Seq(Awaiting) /\ Once'
  BY MovedOn DEF Snapshot
<1> QED
  BY <1>1, <1>2 DEF Inv, Typed, Snapshot

LEMMA ReceiveInv ==
  ASSUME Inv, NEW m \in Members, NEW paths \in SUBSET Paths, Receive(m, paths) PROVE Inv'
<1> DEFINE b == [src |-> m, paths |-> paths]
<1>1. PICK n : n = Len(batches) + 1
  OBVIOUS
<1> DEFINE c == [step |-> "session", n |-> n]
<1>2. batches \in Seq(Batch) /\ b \in Batch /\ Len(batches) < MaxBatches
  BY DEF Inv, Typed, Batch, Receive
<1>3. batches' = Append(batches, b) /\ redis' = Append(redis, c) /\ UNCHANGED <<server, seen>>
  BY <1>1 DEF Receive
<1> HIDE DEF b
<1>4. /\ batches' \in Seq(Batch) /\ Len(batches') = n /\ Len(batches) \in Nat
      /\ \A k \in Received : batches'[k] = batches[k]
  BY <1>1, <1>2, <1>3 DEF Received
<1>5. n \in Received' /\ n \notin Received /\ n \in Value
  BY <1>1, <1>2, <1>4, RelayAssumption DEF Received, Value
<1>6. c \in Awaiting
  BY <1>5 DEF Awaiting
<1>7. CommandOK(c)' /\ \A k \in Received, p \in Paths : ~ Holds(c, k, p)
  BY <1>5 DEF CommandOK, Holds
<1>8. Len(batches) <= Len(batches') /\ Len(batches') <= MaxBatches
  BY <1>1, <1>2, <1>4, RelayAssumption
<1> HIDE DEF c
<1>9. redis' \in Seq(Awaiting) /\ Once'
  BY <1>3, <1>4, <1>6, <1>7, <1>8, AskedOnce DEF server, seen
<1> QED
  BY <1>3, <1>4, <1>8, <1>9 DEF Inv, Typed, server, seen

LEMMA JoinInv ==
  ASSUME Inv, NEW m \in Members, Join(m) PROVE Inv'
<1> DEFINE c == [step |-> "enter", who |-> m]
<1>1. c \in Awaiting /\ CommandOK(c)' /\ \A n \in Received, p \in Paths : ~ Holds(c, n, p)
  BY DEF Awaiting, CommandOK, Holds
<1>2. redis' = Append(redis, c) /\ UNCHANGED <<batches, server, seen>>
  BY DEF Join
<1>3. batches \in Seq(Batch)
  BY DEF Inv, Typed
<1> HIDE DEF c
<1>4. redis' \in Seq(Awaiting) /\ Once'
  BY <1>1, <1>2, <1>3, AskedOnce DEF server, seen
<1> QED
  BY <1>2, <1>4 DEF Inv, Typed, server, seen

LEMMA LeaveInv ==
  ASSUME Inv, NEW m \in Members, Leave(m) PROVE Inv'
<1>1. NoValues \in [Paths -> Value] /\ NoUpdates \in [Paths -> [0 .. Window -> SUBSET Value]]
  BY RelayAssumption DEF NoValues, NoUpdates, Value, None
<1>2. /\ UNCHANGED <<batches, redis, got, again, taken>>
      /\ present' \subseteq Members /\ joined' \subseteq Members
      /\ stored' \in [Paths -> Value] /\ buf' \in [Members -> [Paths -> Value]]
      /\ hist' \in [Paths -> [0 .. Window -> SUBSET Value]]
  BY <1>1 DEF Leave, Inv, Typed, seen
<1>3. \A k \in Members, p \in Paths : buf'[k][p] \in {buf[k][p], None}
  BY DEF Leave, NoValues
<1>4. Commands' /\ Apart' /\ Sent'
  BY <1>2 DEF Inv, Once, Commands, CommandOK, Apart, Sent, Received, Src
<1>5. HeldOnce'
  BY <1>2, <1>3 DEF Inv, Once, HeldOnce, Received, None
<1>6. Buffered'
  BY <1>2, <1>3 DEF Inv, Once, Buffered, Received, Src
<1> QED
  BY <1>2, <1>4, <1>5, <1>6 DEF Inv, Typed, Once

LEMMA TickInv == Inv /\ Tick => Inv'
<1> SUFFICES ASSUME Inv, Tick PROVE Inv'
  OBVIOUS
<1>1. UNCHANGED <<batches, redis, present, joined, stored, buf, got, taken, again>> /\ hist' = Aged(hist)
  BY DEF Tick, seen
<1>2. Aged(hist) \in [Paths -> [0 .. Window -> SUBSET Value]]
  BY RelayAssumption DEF Aged, Inv, Typed
<1>3. Typed'
  BY <1>1, <1>2 DEF Inv, Typed
<1>4. Once'
  BY <1>1 DEF Inv, Once, Commands, CommandOK, Apart, HeldOnce, Buffered, Sent, Received, Src
<1> QED
  BY <1>3, <1>4 DEF Inv

\* A flush asks for the members with every value of the buffer in its command.
LEMMA FlushInv == Inv /\ Flush => Inv'
<1> SUFFICES ASSUME Inv, Flush PROVE Inv'
  OBVIOUS
<1>1. PICK order \in SetToSeqs(Buffering) :
        redis' = IF order = <<>> THEN redis
                 ELSE Append(redis, [step |-> "flush", entries |-> Drained(order)])
  BY DEF Flush, Drain
<1>2. UNCHANGED <<batches, present, joined, stored, hist, got, taken, again>>
  BY DEF Flush, seen
<1>3. /\ buf' \in [Members -> [Paths -> Value]]
      /\ \A m \in Members, p \in Paths : buf'[m][p] = None
  BY RelayAssumption DEF Flush, Drain, NoValues, Value, None
<1>4. /\ order \in Seq(Members)
      /\ \A k, l \in DOMAIN order : order[k] = order[l] => k = l
  <2>1. IsFiniteSet(Buffering)
    <3>1. Buffering \in SUBSET Members
      BY DEF Buffering
    <3> QED
      BY <3>1, RelayAssumption, FS_Subset
  <2>2. Cardinality(Buffering) \in Nat
    BY <2>1, FS_CardinalityType
  <2>3. /\ order \in [1 .. Cardinality(Buffering) -> Buffering]
        /\ \A k, l \in 1 .. Cardinality(Buffering) : k # l => order[k] # order[l]
    BY DEF SetToSeqs
  <2>4. Buffering \subseteq Members
    BY DEF Buffering
  <2> HIDE DEF Buffering
  <2>5. PICK N \in Nat : N = Cardinality(Buffering)
    BY <2>2
  <2>6. /\ order \in [1 .. N -> Members]
        /\ \A k, l \in 1 .. N : k # l => order[k] # order[l]
    BY <2>3, <2>4, <2>5
  <2> QED
    BY <2>6
<1>5. PICK es : es = Drained(order)
  OBVIOUS
<1>6. /\ DOMAIN es = DOMAIN order
      /\ \A k \in DOMAIN order : es[k] = [src |-> order[k], vals |-> buf[order[k]]]
  BY <1>5 DEF Drained
<1>7. es \in Seq(Entry) /\ (order # <<>> => es # <<>>)
  <2>1. \A k \in DOMAIN order : es[k] \in Entry
    BY <1>4, <1>6 DEF Entry, Inv, Typed
  <2>2. Len(order) \in Nat /\ DOMAIN order = 1 .. Len(order)
    BY <1>4
  <2>3. es = [k \in 1 .. Len(order) |-> es[k]]
    BY <1>5, <2>2 DEF Drained
  <2>4. es \in Seq(Entry)
    BY <2>1, <2>2, <2>3
  <2>5. order # <<>> => es # <<>>
    BY <1>4, <1>6, <2>4
  <2> QED
    BY <2>4, <2>5
<1>8. \A k \in DOMAIN es, p \in Paths :
        /\ es[k].src = order[k] /\ es[k].vals[p] = buf[order[k]][p]
        /\ order[k] \in Members
  BY <1>4, <1>6
<1> DEFINE c == [step |-> "flush", entries |-> es]
<1>9. c \in Awaiting
  BY <1>7 DEF Awaiting
<1>10. order # <<>> => CommandOK(c)
  <2>1. \A k \in DOMAIN es, p \in Paths :
          es[k].vals[p] # None => es[k].vals[p] \in Received /\ Src(es[k].vals[p]) = es[k].src
    BY <1>8 DEF Inv, Once, Buffered
  <2>2. \A k, l \in DOMAIN es : es[k].src = es[l].src => k = l
    BY <1>4, <1>6
  <2> QED
    BY <1>7, <2>1, <2>2 DEF CommandOK
<1>11. \A n, p : p \in Paths /\ Holds(c, n, p) => \E m \in Members : buf[m][p] = n
  BY <1>8 DEF Holds
<1> HIDE DEF c
<1>12. redis \in Seq(Awaiting)
  BY DEF Inv, Typed
<1>13. \/ redis' = redis
       \/ /\ order # <<>> /\ redis' = Append(redis, c)
  BY <1>1, <1>5 DEF c
<1>14. CASE redis' = redis
  <2>1. Once'
    BY <1>2, <1>3, <1>14
    DEF Inv, Once, Commands, CommandOK, Apart, HeldOnce, Buffered, Sent, Received, Src, None
  <2> QED
    BY <1>2, <1>3, <1>12, <1>14, <2>1 DEF Inv, Typed
<1>15. CASE order # <<>> /\ redis' = Append(redis, c)
  <2>1. /\ redis' \in Seq(Awaiting) /\ DOMAIN redis' = 1 .. Len(redis) + 1
        /\ \A j \in DOMAIN redis : j \in DOMAIN redis' /\ redis'[j] = redis[j]
        /\ redis'[Len(redis) + 1] = c /\ Len(redis) \in Nat /\ DOMAIN redis = 1 .. Len(redis)
    BY <1>9, <1>12, <1>15
  <2>2. \A j \in DOMAIN redis' : j = Len(redis) + 1 \/ j \in DOMAIN redis
    BY <2>1
  <2>3. Commands'
    BY <1>2, <1>10, <1>15, <2>1, <2>2 DEF Inv, Once, Commands, CommandOK, Received, Src
  <2>4. Apart'
    <3> SUFFICES ASSUME NEW j \in DOMAIN redis', NEW k \in DOMAIN redis', NEW n \in Received,
                        NEW p \in Paths, Holds(redis'[j], n, p), Holds(redis'[k], n, p)
                 PROVE  j = k
      BY <1>2 DEF Apart, Received
    <3>1. ASSUME NEW x \in DOMAIN redis, Holds(redis'[x], n, p), Holds(c, n, p) PROVE FALSE
      BY <1>11, <2>1, <3>1 DEF Inv, Once, HeldOnce
    <3>2. CASE j \in DOMAIN redis /\ k \in DOMAIN redis
      BY <2>1, <3>2 DEF Inv, Once, Apart
    <3> QED
      BY <2>1, <2>2, <3>1, <3>2
  <2>5. HeldOnce'
    <3> SUFFICES ASSUME NEW j \in DOMAIN redis', NEW n \in Received, NEW p \in Paths,
                        NEW m \in Members, Holds(redis'[j], n, p)
                 PROVE  buf'[m][p] # n /\ n \notin got[m][p]
      BY <1>2 DEF HeldOnce, Received
    <3>1. buf'[m][p] # n
      BY <1>3 DEF Received, None
    <3>2. CASE j \in DOMAIN redis
      BY <2>1, <3>1, <3>2 DEF Inv, Once, HeldOnce
    <3>3. CASE j = Len(redis) + 1
      <4>1. PICK x \in Members : buf[x][p] = n
        BY <1>11, <2>1, <3>3
      <4>2. n # None
        BY DEF Received, None
      <4> QED
        BY <3>1, <4>1, <4>2 DEF Inv, Once, Buffered
    <3> QED
      BY <2>2, <3>2, <3>3
  <2>6. Buffered' /\ Sent'
    BY <1>2, <1>3 DEF Inv, Once, Buffered, Sent, Received, Src
  <2>7. Once'
    BY <1>2, <2>3, <2>4, <2>5, <2>6 DEF Inv, Once
  <2> QED
    BY <1>2, <1>3, <2>1, <2>7 DEF Inv, Typed
<1> QED
  BY <1>13, <1>14, <1>15

-----------------------------------------------------------------------------

LEMMA InitInv == Init => Inv
<1> SUFFICES ASSUME Init PROVE Inv
  OBVIOUS
<1>1. Founders \subseteq Members /\ Window \in Nat /\ MaxBatches \in Nat /\ None \in Value
  BY RelayAssumption DEF None, Value
<1>2. Typed
  BY <1>1 DEF Init, Typed, NoValues, NoUpdates
<1>3. Once
  BY DEF Init, Once, Commands, Apart, HeldOnce, Buffered, Sent, NoValues
<1> QED
  BY <1>2, <1>3 DEF Inv

LEMMA InvNext == Inv /\ [Next]_vars => Inv'
<1> SUFFICES ASSUME Inv, [Next]_vars PROVE Inv'
  OBVIOUS
<1>1. ASSUME NEW m \in Members, NEW ps \in (SUBSET Paths) \ {{}}, Receive(m, ps) PROVE Inv'
  BY <1>1, ReceiveInv
<1>3. ASSUME NEW m \in Members, Join(m) \/ Leave(m) PROVE Inv'
  BY <1>3, JoinInv, LeaveInv
<1>4. ASSUME NEW i \in Answered, Reply(i) PROVE Inv'
  <2>1. i \in DOMAIN redis
    BY DEF Answered
  <2> QED
    BY <1>4, <2>1, SessionReadInv, RoomReadInv, StateWrittenInv, RelayedInv,
       InputsRelayedInv, FlushedInv, EnteredInv, SnapshotInv DEF Reply
<1>5. CASE Flush \/ Tick
  BY <1>5, FlushInv, TickInv
<1>6. CASE UNCHANGED vars
  BY <1>6 DEF vars, server, seen, Inv, Typed, Once, Commands, CommandOK, Apart, HeldOnce,
     Buffered, Sent, Received, Src
<1> QED
  BY <1>1, <1>3, <1>4, <1>5, <1>6 DEF Next

\* Every value is in one place: a command, the buffer or with the members.
THEOREM InOnePlace == Spec => []Inv
BY InitInv, InvNext, PTL DEF Spec

\* Whatever Redis, the clock and the flush timer do, the relay and the throttle
\* buffer send a member no value twice and none of its own.
THEOREM OnceOnly == Spec => []OnceToOthers
<1>1. Inv => OnceToOthers
  BY DEF Inv, Once, Sent, OnceToOthers
<1> QED
  BY <1>1, InOnePlace, PTL

-----------------------------------------------------------------------------
(* The order of batches on their way.                                      *)

InputRelay(c) == c.step = "relay" /\ c.paths \cap Input # {}

\* Command c is further on than command d.
Ahead(c, d) ==
  \/ c.step = "room" /\ d.step = "session"
  \/ (c.step = "state" \/ InputRelay(c)) /\ d.step \in {"session", "room"}

\* The first waits in the line of the second.
Alike(c, d) ==
  \/ c.step \in {"session", "room", "state"} /\ d.step = c.step
  \/ (c.step = "inputs" \/ InputRelay(c)) /\ InputRelay(d)

\* No handler overtakes another before the values are stored, or an input is sent.
Ordered ==
  \A j, k \in DOMAIN redis :
    Ahead(redis[j], redis[k]) \/ (j < k /\ Alike(redis[j], redis[k])) => redis[j].n < redis[k].n

\* An input a member has is older than those on their way.
Follows ==
  \A m \in Members, p \in Input : \A n \in got[m][p] : \A j \in DOMAIN redis :
    redis[j].step \in {"session", "room"} \/ InputRelay(redis[j]) => n < redis[j].n

\* The throttle buffer and its flushes hold no input.
AtOnce ==
  \A p \in Input :
    /\ \A m \in Members : buf[m][p] = None
    /\ \A j \in DOMAIN redis : redis[j].step = "flush" =>
         \A k \in DOMAIN redis[j].entries : redis[j].entries[k].vals[p] = None

\* The batches taken are older than those to be checked, and what is written and
\* sent at once is of one.
TakenOK ==
  /\ taken \subseteq Received
  /\ \A j \in DOMAIN redis :
       /\ redis[j].step \in {"session", "room"} => \A n \in taken : n < redis[j].n
       /\ redis[j].step \in {"state", "relay", "inputs"} => redis[j].n \in taken

\* What is written, and what is sent after a broadcast or a write, came with
\* avatar parameters.
LateOK ==
  \A j \in DOMAIN redis :
    /\ redis[j].step \in {"state", "inputs"} => WithAvatar(redis[j].n)
    /\ redis[j].step = "relay" /\ redis[j].paths \cap Input = {} =>
         Inputs(redis[j].n) = {} \/ WithAvatar(redis[j].n)

\* A stored value has been taken, and is older than those to be written.
StoredOK ==
  \A p \in Avatar :
    /\ stored[p] # None => stored[p] \in taken /\ p \in batches[stored[p]].paths
    /\ \A j \in DOMAIN redis : redis[j].step = "state" => stored[p] < redis[j].n

\* A newer one is still to be written.
Newest ==
  present # {} => \A n \in taken, p \in Avatar :
    p \in batches[n].paths =>
      n <= stored[p] \/ \E j \in DOMAIN redis : redis[j].step = "state" /\ redis[j].n = n

Order == Ordered /\ Follows /\ AtOnce /\ TakenOK /\ LateOK /\ StoredOK /\ Newest

\* What becomes of the lines when a command has been answered,
LEMMA TakenOut ==
  ASSUME redis \in Seq(Awaiting), Ordered, NEW i \in DOMAIN redis, Continue(i, <<>>)
  PROVE  /\ Ordered'
         /\ \A j \in DOMAIN redis' : \E k \in DOMAIN redis : k # i /\ redis'[j] = redis[k]
         /\ \A k \in DOMAIN redis : k # i => \E j \in DOMAIN redis' : redis'[j] = redis[k]
<1>1. Len(redis) \in Nat /\ DOMAIN redis = 1 .. Len(redis) /\ i \in 1 .. Len(redis)
  OBVIOUS
<1>2. \A x, y \in 1 .. Len(redis) - 1 : x < y => Old(i, x) < Old(i, y)
  BY <1>1 DEF Old
<1>3. \A k \in DOMAIN redis : k # i =>
        LET x == IF k < i THEN k ELSE k - 1 IN x \in 1 .. Len(redis) - 1 /\ Old(i, x) = k
  BY <1>1 DEF Old
<1>4. /\ DOMAIN redis' = 1 .. Len(redis) - 1
      /\ \A j \in DOMAIN redis' : /\ Old(i, j) \in DOMAIN redis /\ Old(i, j) # i
                                  /\ redis'[j] = redis[Old(i, j)]
  BY Ended
<1>5. Ordered'
  BY <1>2, <1>4 DEF Ordered, Ahead, Alike, InputRelay
<1> QED
  BY <1>3, <1>4, <1>5

\* and when it is followed by command c.
LEMMA Replaced ==
  ASSUME redis \in Seq(Awaiting), Ordered, NEW i \in DOMAIN redis, NEW c \in Awaiting,
         Continue(i, <<c>>),
         \A j \in DOMAIN redis : j # i =>
           /\ Ahead(redis[j], c) \/ Alike(redis[j], c) => redis[j].n < c.n
           /\ Ahead(c, redis[j]) => c.n < redis[j].n
  PROVE  /\ Ordered'
         /\ \A j \in DOMAIN redis' :
              redis'[j] = c \/ \E k \in DOMAIN redis : k # i /\ redis'[j] = redis[k]
         /\ \A k \in DOMAIN redis : k # i => \E j \in DOMAIN redis' : redis'[j] = redis[k]
         /\ \E j \in DOMAIN redis' : redis'[j] = c
<1>1. Len(redis) \in Nat /\ DOMAIN redis = 1 .. Len(redis) /\ i \in 1 .. Len(redis)
  OBVIOUS
<1>2. \A x, y \in 1 .. Len(redis) - 1 : x < y => Old(i, x) < Old(i, y)
  BY <1>1 DEF Old
<1>3. \A k \in DOMAIN redis : k # i =>
        LET x == IF k < i THEN k ELSE k - 1 IN x \in 1 .. Len(redis) - 1 /\ Old(i, x) = k
  BY <1>1 DEF Old
<1>4. /\ DOMAIN redis' = DOMAIN redis
      /\ \A j \in 1 .. Len(redis) - 1 : /\ Old(i, j) \in DOMAIN redis /\ Old(i, j) # i
                                        /\ redis'[j] = redis[Old(i, j)]
      /\ redis'[Len(redis)] = c
  BY GoneOn
<1>5. \A j \in DOMAIN redis' : j = Len(redis) \/ j \in 1 .. Len(redis) - 1
  BY <1>1, <1>4
<1>6. Ordered'
  <2> SUFFICES ASSUME NEW j \in DOMAIN redis', NEW k \in DOMAIN redis',
                      \/ Ahead(redis'[j], redis'[k])
                      \/ j < k /\ Alike(redis'[j], redis'[k])
               PROVE  redis'[j].n < redis'[k].n
    BY DEF Ordered, Ahead, Alike, InputRelay
  <2>1. CASE j = Len(redis) /\ k = Len(redis)
    BY <1>4, <2>1 DEF Ahead, InputRelay
  <2>2. CASE j = Len(redis) /\ k \in 1 .. Len(redis) - 1
    BY <1>1, <1>4, <2>2
  <2>3. CASE j \in 1 .. Len(redis) - 1 /\ k = Len(redis)
    BY <1>4, <2>3
  <2>4. CASE j \in 1 .. Len(redis) - 1 /\ k \in 1 .. Len(redis) - 1
    BY <1>2, <1>4, <2>4 DEF Ordered
  <2> QED
    BY <1>5, <2>1, <2>2, <2>3, <2>4
<1>7. \A k \in DOMAIN redis : k # i => \E j \in DOMAIN redis' : redis'[j] = redis[k]
  <2> SUFFICES ASSUME NEW k \in DOMAIN redis, k # i
               PROVE  \E j \in DOMAIN redis' : redis'[j] = redis[k]
    OBVIOUS
  <2>1. PICK x \in 1 .. Len(redis) - 1 : Old(i, x) = k
    BY <1>3
  <2> QED
    BY <1>1, <1>4, <2>1
<1>8. Len(redis) \in DOMAIN redis'
  BY <1>1, <1>4
<1> QED
  BY <1>4, <1>5, <1>6, <1>7, <1>8

\* A new command of a batch is the last, any other is in no line.
LEMMA Appended ==
  ASSUME redis \in Seq(Awaiting), Ordered, NEW c \in Awaiting, redis' = Append(redis, c),
         \A j \in DOMAIN redis :
           /\ Ahead(redis[j], c) \/ Alike(redis[j], c) => redis[j].n < c.n
           /\ ~ Ahead(c, redis[j])
  PROVE  /\ Ordered'
         /\ \A j \in DOMAIN redis' : redis'[j] = c \/ \E k \in DOMAIN redis : redis'[j] = redis[k]
         /\ \A k \in DOMAIN redis : \E j \in DOMAIN redis' : redis'[j] = redis[k]
<1>1. /\ DOMAIN redis' = 1 .. Len(redis) + 1
      /\ \A j \in DOMAIN redis : j \in DOMAIN redis' /\ redis'[j] = redis[j]
      /\ redis'[Len(redis) + 1] = c /\ Len(redis) \in Nat /\ DOMAIN redis = 1 .. Len(redis)
  OBVIOUS
<1>2. \A j \in DOMAIN redis' : j = Len(redis) + 1 \/ j \in DOMAIN redis
  BY <1>1
<1>3. Ordered'
  <2> SUFFICES ASSUME NEW j \in DOMAIN redis', NEW k \in DOMAIN redis',
                      \/ Ahead(redis'[j], redis'[k])
                      \/ j < k /\ Alike(redis'[j], redis'[k])
               PROVE  redis'[j].n < redis'[k].n
    BY DEF Ordered, Ahead, Alike, InputRelay
  <2>1. CASE j = Len(redis) + 1 /\ k = Len(redis) + 1
    BY <1>1, <2>1 DEF Ahead, InputRelay
  <2>2. CASE j = Len(redis) + 1 /\ k \in DOMAIN redis
    BY <1>1, <2>2
  <2>3. CASE j \in DOMAIN redis /\ k = Len(redis) + 1
    BY <1>1, <2>3
  <2>4. CASE j \in DOMAIN redis /\ k \in DOMAIN redis
    BY <1>1, <2>4 DEF Ordered
  <2> QED
    BY <1>2, <2>1, <2>2, <2>3, <2>4
<1> QED
  BY <1>1, <1>2, <1>3

-----------------------------------------------------------------------------
(* Replies keep the order.                                                 *)

\* The reply to a command in a line comes before those behind it.
LEMMA FirstInLine ==
  ASSUME redis \in Seq(Awaiting), NEW i \in Answered, NEW j \in DOMAIN redis, j # i,
         Alike(redis[i], redis[j]) \/ Alike(redis[j], redis[i])
  PROVE  i < j
<1>1. AwaitOf(i) = AwaitOf(j)
  BY DEF Alike, InputRelay, AwaitOf
<1>2. Len(redis) \in Nat /\ i \in 1 .. Len(redis) /\ j \in 1 .. Len(redis)
  BY DEF Answered
<1>3. j \notin 1 .. i - 1
  BY <1>1 DEF Answered
<1> QED
  BY <1>2, <1>3

LEMMA SessionReadOrder ==
  ASSUME Inv, Order, NEW i \in Answered, SessionRead(i) PROVE Order'
<1> DEFINE n == redis[i].n
           c == [step |-> "room", n |-> n]
<1>1. i \in DOMAIN redis /\ redis \in Seq(Awaiting)
  BY DEF Answered, Inv, Typed
<1>2. redis[i].step = "session" /\ n \in Value
  BY <1>1, ReceivedValue DEF SessionRead, Inv, Once, Commands, CommandOK
<1>3. PICK C : C \in SUBSET {c} /\ (\/ C = {} /\ Continue(i, <<>>)
                                    \/ C = {c} /\ Continue(i, <<c>>))
  BY DEF SessionRead
<1>4. C \in SUBSET Awaiting
  BY <1>2, <1>3 DEF Awaiting
<1>5. \A j \in DOMAIN redis : j # i =>
        /\ Ahead(redis[j], c) \/ Alike(redis[j], c) => redis[j].n < n
        /\ Ahead(c, redis[j]) => n < redis[j].n
  BY <1>1, <1>2, FirstInLine DEF Order, Ordered, Ahead, Alike, InputRelay
<1>6. c.step = "room" /\ c.n = n
  OBVIOUS
<1> HIDE DEF c
<1>7. /\ Ordered'
      /\ \A j \in DOMAIN redis' :
           redis'[j] = c \/ \E k \in DOMAIN redis : k # i /\ redis'[j] = redis[k]
      /\ \A k \in DOMAIN redis : k # i => \E j \in DOMAIN redis' : redis'[j] = redis[k]
  <2>1. CASE Continue(i, <<>>) /\ C = {}
    BY <1>1, <2>1, TakenOut DEF Order
  <2>2. CASE Continue(i, <<c>>) /\ C = {c}
    BY <1>1, <1>4, <1>5, <1>6, <2>2, Replaced DEF Order
  <2> QED
    BY <1>3, <2>1, <2>2
<1>8. UNCHANGED <<batches, present, stored, buf, got, taken>>
  BY DEF SessionRead, server, seen
<1>9. Follows'
  BY <1>1, <1>2, <1>6, <1>7, <1>8 DEF Order, Follows, InputRelay
<1>10. AtOnce'
  BY <1>6, <1>7, <1>8 DEF Order, AtOnce
<1>11. TakenOK'
  BY <1>1, <1>2, <1>6, <1>7, <1>8 DEF Order, TakenOK, Received
<1>12. StoredOK'
  BY <1>6, <1>7, <1>8 DEF Order, StoredOK
<1>13. Newest'
  BY <1>2, <1>7, <1>8 DEF Order, Newest
<1>14. LateOK'
  BY <1>6, <1>7, <1>8 DEF Order, LateOK, WithAvatar, Inputs
<1> QED
  BY <1>7, <1>9, <1>10, <1>11, <1>12, <1>13, <1>14 DEF Order

LEMMA RoomReadOrder ==
  ASSUME Inv, Order, NEW i \in Answered, RoomRead(i) PROVE Order'
<1> DEFINE n  == redis[i].n
           ps == Throttled(batches[n].paths)
           c  == [step |-> "state", n |-> n]
           d  == [step |-> "relay", n |-> n, paths |-> batches[n].paths]
<1>1. i \in DOMAIN redis /\ redis \in Seq(Awaiting)
  BY DEF Answered, Inv, Typed
<1>2. /\ redis[i].step = "room" /\ n \in Received /\ n \in Value
      /\ batches[n].paths \in SUBSET Paths
  BY <1>1, ReceivedValue DEF RoomRead, Inv, Once, Commands, CommandOK, Batch
<1>3. PICK C : \/ present = {} /\ C = {} /\ Continue(i, <<>>)
               \/ present # {} /\ ps # {} /\ C = {c} /\ Continue(i, <<c>>)
               \/ present # {} /\ ps = {} /\ C = {d} /\ Continue(i, <<d>>)
  BY DEF RoomRead
<1>4. C \in SUBSET Awaiting
  BY <1>2, <1>3 DEF Awaiting
<1>5. \A j \in DOMAIN redis : j # i =>
        /\ Ahead(redis[j], c) \/ Alike(redis[j], c) => redis[j].n < n
        /\ Ahead(c, redis[j]) => n < redis[j].n
        /\ Ahead(redis[j], d) \/ Alike(redis[j], d) => redis[j].n < n
        /\ Ahead(d, redis[j]) => n < redis[j].n
  BY <1>1, <1>2, FirstInLine DEF Order, Ordered, TakenOK, Ahead, Alike, InputRelay
<1>6. c.step = "state" /\ c.n = n /\ d.step = "relay" /\ d.n = n
  OBVIOUS
<1>7. UNCHANGED <<batches, present, stored, buf, got>>
  BY DEF RoomRead
<1>8. \/ present = {} /\ C = {} /\ taken' = taken
      \/ present # {} /\ ps # {} /\ C = {c} /\ taken' = taken \cup {n}
      \/ present # {} /\ ps = {} /\ C = {d} /\ taken' = taken \cup {n}
  BY <1>3 DEF RoomRead
<1>9. \A p \in Avatar : p \in batches[n].paths => ps # {}
  BY RelayAssumption DEF Throttled
<1>18. ps # {} => WithAvatar(n)
  BY <1>2 DEF Throttled, WithAvatar, Paths
<1>19. ps = {} => d.paths \cap Input # {} \/ Inputs(n) = {}
  BY <1>2 DEF Throttled, Inputs
<1> HIDE DEF c, d, n, ps
<1>10. /\ Ordered'
       /\ \A j \in DOMAIN redis' :
            redis'[j] \in C \/ \E k \in DOMAIN redis : k # i /\ redis'[j] = redis[k]
       /\ \A k \in DOMAIN redis : k # i => \E j \in DOMAIN redis' : redis'[j] = redis[k]
       /\ \A e \in C : \E j \in DOMAIN redis' : redis'[j] = e
  <2>1. CASE Continue(i, <<>>) /\ C = {}
    BY <1>1, <2>1, TakenOut DEF Order
  <2>2. CASE Continue(i, <<c>>) /\ C = {c}
    BY <1>1, <1>4, <1>5, <1>6, <2>2, Replaced DEF Order
  <2>3. CASE Continue(i, <<d>>) /\ C = {d}
    BY <1>1, <1>4, <1>5, <1>6, <2>3, Replaced DEF Order
  <2> QED
    BY <1>3, <2>1, <2>2, <2>3
<1>11. \A e \in C : e.step \in {"state", "relay"} /\ e.n = n
  BY <1>3, <1>6
<1>12. Follows'
  BY <1>1, <1>2, <1>7, <1>10, <1>11 DEF Order, Follows, InputRelay, n
<1>13. AtOnce'
  BY <1>7, <1>10, <1>11 DEF Order, AtOnce
<1>14. \A j \in DOMAIN redis : j # i /\ redis[j].step \in {"session", "room"} => n < redis[j].n
  BY <1>1, <1>2, FirstInLine DEF Order, Ordered, Ahead, Alike, InputRelay, n
<1>15. TakenOK'
  <2>1. taken' \subseteq Received'
    BY <1>2, <1>7, <1>8 DEF Order, TakenOK, Received
  <2>2. \A j \in DOMAIN redis' :
          redis'[j].step \in {"session", "room"} => \A x \in taken' : x < redis'[j].n
    BY <1>8, <1>10, <1>11, <1>14 DEF Order, TakenOK
  <2>3. \A j \in DOMAIN redis' :
          redis'[j].step \in {"state", "relay", "inputs"} => redis'[j].n \in taken'
    BY <1>3, <1>6, <1>8, <1>10 DEF Order, TakenOK
  <2> QED
    BY <2>1, <2>2, <2>3 DEF TakenOK
<1>16. StoredOK'
  <2> SUFFICES ASSUME NEW p \in Avatar
               PROVE  /\ stored[p] # None => stored[p] \in taken' /\ p \in batches[stored[p]].paths
                      /\ \A j \in DOMAIN redis' :
                           redis'[j].step = "state" => stored[p] < redis'[j].n
    BY <1>7 DEF StoredOK
  <2>1. stored[p] # None => stored[p] \in taken' /\ p \in batches[stored[p]].paths
    BY <1>8 DEF Order, StoredOK
  <2>2. stored[p] < n
    <3>1. CASE stored[p] = None
      BY <1>2, <3>1 DEF None, Received
    <3>2. CASE stored[p] # None
      BY <1>1, <1>2, <3>2 DEF Order, StoredOK, TakenOK, n
    <3> QED
      BY <3>1, <3>2
  <2>3. \A j \in DOMAIN redis' : redis'[j].step = "state" => stored[p] < redis'[j].n
    BY <1>10, <1>11, <2>2 DEF Order, StoredOK
  <2> QED
    BY <2>1, <2>3
<1>17. Newest'
  <2> SUFFICES ASSUME present # {}, NEW x \in taken', NEW p \in Avatar, p \in batches[x].paths
               PROVE  x <= stored[p] \/ \E j \in DOMAIN redis' : redis'[j].step = "state" /\ redis'[j].n = x
    BY <1>7 DEF Newest
  <2>1. CASE x \in taken
    BY <1>2, <1>10, <2>1 DEF Order, Newest
  <2>2. CASE x \notin taken
    <3>1. x = n /\ C = {c}
      BY <1>8, <1>9, <2>2
    <3> QED
      BY <1>6, <1>10, <3>1
  <2> QED
    BY <2>1, <2>2
<1>20. LateOK'
  BY <1>3, <1>6, <1>7, <1>10, <1>18, <1>19 DEF Order, LateOK, WithAvatar, Inputs
<1> QED
  BY <1>10, <1>12, <1>13, <1>15, <1>16, <1>17, <1>20 DEF Order

LEMMA StateWrittenOrder ==
  ASSUME Inv, Order, NEW i \in Answered, StateWritten(i) PROVE Order'
<1> DEFINE n      == redis[i].n
           ps     == Throttled(batches[n].paths)
           stable == {p \in ps : ~ IsRapid(hist, p)}
           c      == IF stable = {} THEN [step |-> "inputs", n |-> n]
                     ELSE [step |-> "relay", n |-> n, paths |-> stable]
<1>1. i \in DOMAIN redis /\ redis \in Seq(Awaiting)
  BY DEF Answered, Inv, Typed
<1>2. /\ redis[i].step = "state" /\ n \in Received /\ n \in Value
      /\ batches[n] \in Batch /\ Src(n) \in Members
  BY <1>1, ReceivedValue DEF StateWritten, Inv, Once, Commands, CommandOK, Batch, Src
<1>3. ps \subseteq Paths /\ ps \cap Input = {} /\ ps \subseteq batches[n].paths
  BY <1>2 DEF Throttled, Batch
<1>4. \A p \in Avatar : p \in batches[n].paths => p \in ps
  BY RelayAssumption DEF Throttled
<1>5. PICK later, rapid \in SUBSET ps :
        /\ stored' = [p \in Paths |-> IF p \in Saved(ps, stable) THEN n ELSE stored[p]]
        /\ buf' = [buf EXCEPT ![Src(n)] = [p \in Paths |-> IF p \in rapid THEN n ELSE @[p]]]
        /\ Continue(i, <<>>) \/ Continue(i, <<c>>)
  <2>1. PICK ticks \in IF MayTick THEN {0, 1} ELSE {0} :
          LET later == IF ticks = 0 THEN hist ELSE Aged(hist)
              rapid == {p \in ps : IsRapid(later, p)}
          IN /\ stored' = [p \in Paths |-> IF p \in Saved(ps, stable) THEN n ELSE stored[p]]
             /\ since' = since + ticks /\ hist' = later
             /\ buf' = [buf EXCEPT ![Src(n)] = [p \in Paths |-> IF p \in rapid THEN n ELSE @[p]]]
             /\ lost' = lost \cup {<<n, p>> : p \in ps \ (stable \cup rapid)}
             /\ Continue(i, IF stable = {} THEN InputsNext(n)
                            ELSE <<[step |-> "relay", n |-> n, paths |-> stable]>>)
    BY Zenon DEF StateWritten
  <2> DEFINE l == IF ticks = 0 THEN hist ELSE Aged(hist)
             r == {p \in ps : IsRapid(l, p)}
  <2>2. r \in SUBSET ps
    OBVIOUS
  <2>3. Continue(i, <<>>) \/ Continue(i, <<c>>)
    BY <2>1 DEF InputsNext
  <2> HIDE DEF c
  <2> QED
    BY <2>1, <2>2, <2>3
<1>6. UNCHANGED <<batches, present, got, taken>>
  BY DEF StateWritten
<1>7. c.step \in {"relay", "inputs"} /\ ~ InputRelay(c) /\ c.n = n
  BY <1>3 DEF InputRelay
<1>8. c \in Awaiting
  BY <1>2, <1>3 DEF Awaiting
<1> HIDE DEF c, n, ps, stable
<1>9. PICK C : C \in SUBSET {c} /\ (\/ C = {} /\ Continue(i, <<>>)
                                    \/ C = {c} /\ Continue(i, <<c>>))
  BY <1>5
<1>10. \A j \in DOMAIN redis : ~ Ahead(redis[j], c) /\ ~ Alike(redis[j], c) /\ ~ Ahead(c, redis[j])
  BY <1>7 DEF Ahead, Alike, InputRelay
<1>11. /\ Ordered'
       /\ \A j \in DOMAIN redis' :
            redis'[j] = c \/ \E k \in DOMAIN redis : k # i /\ redis'[j] = redis[k]
       /\ \A k \in DOMAIN redis : k # i => \E j \in DOMAIN redis' : redis'[j] = redis[k]
  <2>1. CASE Continue(i, <<>>) /\ C = {}
    BY <1>1, <2>1, TakenOut DEF Order
  <2>2. CASE Continue(i, <<c>>) /\ C = {c}
    BY <1>1, <1>8, <1>10, <2>2, Replaced DEF Order
  <2> QED
    BY <1>9, <2>1, <2>2
<1>12. Follows'
  BY <1>6, <1>7, <1>11 DEF Order, Follows, InputRelay
<1>13. AtOnce'
  <2>1. \A m \in Members, p \in Input : buf'[m][p] = None
    <3> SUFFICES ASSUME NEW m \in Members, NEW p \in Input PROVE buf'[m][p] = None
      OBVIOUS
    <3>1. p \notin rapid /\ p \in Paths /\ buf[m][p] = None
      BY <1>3, <1>5 DEF Order, AtOnce, Paths
    <3>2. buf \in [Members -> [Paths -> Value]]
      BY DEF Inv, Typed
    <3> QED
      BY <1>2, <1>5, <3>1, <3>2
  <2> QED
    BY <1>7, <1>11, <2>1 DEF Order, AtOnce
<1>15. n \in taken
  BY <1>1, <1>2 DEF Order, TakenOK, n
<1>14. TakenOK'
  BY <1>6, <1>7, <1>11, <1>15 DEF Order, TakenOK, Received
<1>16. \A p \in Avatar : /\ stored'[p] = IF p \in ps THEN n ELSE stored[p]
                         /\ stored[p] < n /\ stored[p] \in Value
  BY <1>1, <1>2, <1>5 DEF Order, StoredOK, Saved, Paths, Inv, Typed, n
<1>17. \A j \in DOMAIN redis : j # i /\ redis[j].step = "state" => n < redis[j].n
  BY <1>1, <1>2, FirstInLine DEF Order, Ordered, Alike, InputRelay, n
<1>18. StoredOK'
  <2> SUFFICES ASSUME NEW p \in Avatar
               PROVE  /\ stored'[p] # None => stored'[p] \in taken /\ p \in batches[stored'[p]].paths
                      /\ \A j \in DOMAIN redis' :
                           redis'[j].step = "state" => stored'[p] < redis'[j].n
    BY <1>6 DEF StoredOK
  <2>1. stored'[p] # None => stored'[p] \in taken /\ p \in batches[stored'[p]].paths
    BY <1>3, <1>15, <1>16 DEF Order, StoredOK
  <2>2. \A j \in DOMAIN redis' : redis'[j].step = "state" => stored'[p] < redis'[j].n
    BY <1>7, <1>11, <1>16, <1>17 DEF Order, StoredOK
  <2> QED
    BY <2>1, <2>2
<1>19. Newest'
  <2> SUFFICES ASSUME present # {}, NEW x \in taken, NEW p \in Avatar, p \in batches[x].paths
               PROVE  \/ x <= stored'[p]
                      \/ \E j \in DOMAIN redis' : redis'[j].step = "state" /\ redis'[j].n = x
    BY <1>6 DEF Newest
  <2>0. x \in Nat
    BY DEF Order, TakenOK, Received
  <2>1. CASE x <= stored[p]
    BY <1>2, <1>16, <2>0, <2>1, RelayAssumption DEF Value
  <2>2. CASE \E j \in DOMAIN redis : j # i /\ redis[j].step = "state" /\ redis[j].n = x
    BY <1>11, <2>2
  <2>3. CASE redis[i].n = x
    <3>1. stored'[p] = x
      BY <1>4, <1>16, <2>3 DEF n
    <3> QED
      BY <2>0, <3>1
  <2> QED
    BY <2>1, <2>2, <2>3 DEF Order, Newest
<1>20. LateOK'
  <2>1. WithAvatar(n)
    BY <1>1, <1>2 DEF Order, LateOK, n
  <2> QED
    BY <1>6, <1>7, <1>11, <2>1 DEF Order, LateOK, WithAvatar, Inputs
<1> QED
  BY <1>11, <1>12, <1>13, <1>14, <1>18, <1>19, <1>20 DEF Order

\* A broadcast of a value of a handler, which goes on to send inputs or ends,
\* leaves the order: an input that is sent is older than those that wait in line.
LEMMA SentOnOrder ==
  ASSUME Inv, Order, NEW i \in Answered, NEW n \in taken, NEW paths \in SUBSET Paths,
         redis[i].step \in {"relay", "inputs"}, redis[i].n = n,
         redis[i].step = "relay" => redis[i].paths = paths,
         Deliver(Src(n), Sending(n, paths)), NEW c \in Awaiting,
         Continue(i, <<>>) \/ Continue(i, <<c>>),
         c.step = "inputs" /\ c.n = n,
         Continue(i, <<c>>) => WithAvatar(n),
         UNCHANGED <<batches, server, snap, taken, lost>>
  PROVE  Order'
<1>1. i \in DOMAIN redis /\ redis \in Seq(Awaiting) /\ n \in Received
  BY DEF Answered, Inv, Typed, Order, TakenOK
<1>2. PICK C : /\ C \in SUBSET {c} /\ (C = {c} => WithAvatar(n))
               /\ (C = {} /\ Continue(i, <<>>)) \/ (C = {c} /\ Continue(i, <<c>>))
  <2>1. CASE Continue(i, <<>>)
    <3>1. {} # {c} /\ {} \in SUBSET {c}
      OBVIOUS
    <3> QED
      BY <2>1, <3>1
  <2>2. CASE Continue(i, <<c>>)
    <3>1. {c} \in SUBSET {c} /\ WithAvatar(n)
      BY <2>2
    <3> QED
      BY <2>2, <3>1
  <2> QED
    BY <2>1, <2>2
<1>3. \A j \in DOMAIN redis : ~ Ahead(redis[j], c) /\ ~ Alike(redis[j], c) /\ ~ Ahead(c, redis[j])
  BY DEF Ahead, Alike, InputRelay
<1>4. /\ Ordered'
      /\ \A j \in DOMAIN redis' :
           redis'[j] \in C \/ \E k \in DOMAIN redis : k # i /\ redis'[j] = redis[k]
      /\ \A k \in DOMAIN redis : k # i => \E j \in DOMAIN redis' : redis'[j] = redis[k]
  <2>1. CASE C = {} /\ Continue(i, <<>>)
    BY <1>1, <2>1, TakenOut DEF Order
  <2>2. CASE C = {c} /\ Continue(i, <<c>>)
    BY <1>1, <1>3, <2>2, Replaced DEF Order
  <2> QED
    BY <1>2, <2>1, <2>2
<1>5. UNCHANGED <<batches, present, stored, buf, taken>>
  BY DEF server
<1>6. \A m \in Members, p \in Paths :
        \/ got'[m][p] = got[m][p]
        \/ p \in paths /\ got'[m][p] = got[m][p] \cup {n}
  BY DEF Deliver, Sending
<1>7. \A e \in C : e.step = "inputs" /\ e.n = n
  BY <1>2
<1>8. Follows'
  <2> SUFFICES ASSUME NEW m \in Members, NEW p \in Input, NEW x \in got'[m][p],
                      NEW j \in DOMAIN redis',
                      redis'[j].step \in {"session", "room"} \/ InputRelay(redis'[j])
               PROVE  x < redis'[j].n
    BY DEF Follows, InputRelay
  <2>1. PICK k \in DOMAIN redis : k # i /\ redis'[j] = redis[k]
    BY <1>4, <1>7 DEF InputRelay
  <2>2. CASE x \in got[m][p]
    BY <2>1, <2>2 DEF Order, Follows
  <2>3. CASE x \notin got[m][p]
    <3>1. p \in paths /\ x = n
      BY <1>6, <2>3 DEF Paths
    <3>2. CASE redis[k].step \in {"session", "room"}
      BY <2>1, <3>1, <3>2 DEF Order, TakenOK
    <3>3. CASE InputRelay(redis[k])
      <4>1. Alike(redis[i], redis[k])
        BY <3>1, <3>3 DEF Alike, InputRelay
      <4> QED
        BY <1>1, <2>1, <3>1, <4>1, FirstInLine DEF Order, Ordered
    <3> QED
      BY <2>1, <3>2, <3>3
  <2> QED
    BY <2>2, <2>3
<1>9. AtOnce'
  BY <1>4, <1>5, <1>7 DEF Order, AtOnce
<1>10. TakenOK'
  BY <1>4, <1>5, <1>7 DEF Order, TakenOK, Received
<1>11. StoredOK'
  BY <1>4, <1>5, <1>7 DEF Order, StoredOK
<1>12. Newest'
  BY <1>4, <1>5 DEF Order, Newest
<1>13. LateOK'
  BY <1>2, <1>4, <1>5, <1>7 DEF Order, LateOK, WithAvatar, Inputs
<1> QED
  BY <1>4, <1>8, <1>9, <1>10, <1>11, <1>12, <1>13 DEF Order

\* Both broadcasts of a handler are such.
LEMMA RelayedOrder ==
  ASSUME Inv, Order, NEW i \in Answered, Relayed(i) PROVE Order'
<1>0. PICK n, c : n = redis[i].n /\ c = [step |-> "inputs", n |-> n]
  OBVIOUS
<1> DEFINE paths == redis[i].paths
<1>1. /\ i \in DOMAIN redis /\ redis[i].step = "relay" /\ redis[i].n = n
      /\ n \in taken /\ n \in Received /\ n \in Value /\ paths \in SUBSET Paths
  <2>1. i \in DOMAIN redis /\ redis[i].step = "relay" /\ redis[i] \in Awaiting /\ CommandOK(redis[i])
    BY DEF Answered, Relayed, Inv, Typed, Once, Commands
  <2> QED
    BY <1>0, <2>1, ReceivedValue DEF Awaiting, CommandOK, Inv, Order, TakenOK
<1>2. c \in Awaiting /\ c.step = "inputs" /\ c.n = n
  BY <1>0, <1>1 DEF Awaiting
<1>3. /\ Deliver(Src(n), Sending(n, paths)) /\ UNCHANGED <<batches, server, snap, taken, lost>>
  BY <1>0 DEF Relayed
<1>4. CASE Continue(i, <<c>>) /\ WithAvatar(n)
  BY <1>1, <1>2, <1>3, <1>4, SentOnOrder
<1>5. CASE Continue(i, <<>>) /\ ~ Continue(i, <<c>>)
  BY <1>1, <1>2, <1>3, <1>5, SentOnOrder
<1>6. \/ Continue(i, <<>>)
      \/ Continue(i, <<c>>) /\ paths \cap Input = {} /\ Inputs(n) # {}
  BY <1>0 DEF Relayed, InputsNext
<1>7. paths \cap Input = {} /\ Inputs(n) # {} => WithAvatar(n)
  BY <1>1 DEF Order, LateOK
<1>8. ~ (Continue(i, <<>>) /\ Continue(i, <<c>>))
  BY <1>1, EndsOrGoesOn DEF Inv, Typed
<1> QED
  BY <1>4, <1>5, <1>6, <1>7, <1>8

LEMMA InputsRelayedOrder ==
  ASSUME Inv, Order, NEW i \in Answered, InputsRelayed(i) PROVE Order'
<1>0. PICK n, c : n = redis[i].n /\ c = [step |-> "inputs", n |-> n]
  OBVIOUS
<1>1. /\ i \in DOMAIN redis /\ redis[i].step = "inputs" /\ redis[i].n = n
      /\ n \in taken /\ n \in Received /\ n \in Value
  <2>1. i \in DOMAIN redis /\ redis[i].step = "inputs" /\ CommandOK(redis[i])
    BY DEF Answered, InputsRelayed, Inv, Once, Commands
  <2> QED
    BY <1>0, <2>1, ReceivedValue DEF CommandOK, Inv, Order, TakenOK
<1>2. c \in Awaiting /\ c.step = "inputs" /\ c.n = n /\ WithAvatar(n)
  BY <1>0, <1>1 DEF Awaiting, Order, LateOK
<1>3. PICK paths : paths = Inputs(n)
  OBVIOUS
<1>4. /\ Deliver(Src(n), Sending(n, paths)) /\ Continue(i, <<>>)
      /\ UNCHANGED <<batches, server, snap, taken, lost>>
  BY <1>0, <1>3 DEF InputsRelayed
<1>5. paths \in SUBSET Paths
  BY <1>1, <1>3, ReceivedValue DEF Inputs, Inv, Batch
<1> QED
  BY <1>1, <1>2, <1>4, <1>5, SentOnOrder

LEMMA FlushedOrder ==
  ASSUME Inv, Order, NEW i \in Answered, Flushed(i) PROVE Order'
<1> DEFINE es == redis[i].entries
           c  == [step |-> "flush", entries |-> Tail(es)]
<1>1. i \in DOMAIN redis /\ redis \in Seq(Awaiting)
  BY DEF Answered, Inv, Typed
<1>2. redis[i].step = "flush" /\ redis[i] \in Awaiting /\ CommandOK(redis[i])
  BY <1>1 DEF Flushed, Inv, Once, Commands
<1>3. es \in Seq(Entry) /\ es # <<>>
  BY <1>2 DEF Awaiting, CommandOK
<1>4. /\ Head(es) = es[1] /\ 1 \in DOMAIN es /\ Tail(es) \in Seq(Entry)
      /\ \A k \in DOMAIN Tail(es) : k + 1 \in DOMAIN es /\ Tail(es)[k] = es[k + 1]
  BY <1>3
<1>5. c \in Awaiting
  BY <1>4 DEF Awaiting
<1>6. \A p \in Input : /\ Head(es).vals[p] = None
                       /\ \A k \in DOMAIN Tail(es) : Tail(es)[k].vals[p] = None
  BY <1>1, <1>2, <1>4 DEF Order, AtOnce
<1>7. /\ Deliver(Head(es).src, Head(es).vals)
      /\ UNCHANGED <<batches, present, stored, buf, taken>>
      /\ Continue(i, <<>>) \/ Continue(i, <<c>>)
  BY DEF Flushed, server
<1>8. c.step = "flush" /\ c.entries = Tail(es)
  OBVIOUS
<1>9. \A m \in Members, p \in Input : got'[m][p] = got[m][p]
  BY <1>6, <1>7 DEF Deliver, Paths
<1> HIDE DEF es, c
<1>10. \A j \in DOMAIN redis : ~ Ahead(redis[j], c) /\ ~ Alike(redis[j], c) /\ ~ Ahead(c, redis[j])
  BY <1>8 DEF Ahead, Alike, InputRelay
<1>11. /\ Ordered'
       /\ \A j \in DOMAIN redis' :
            redis'[j] = c \/ \E k \in DOMAIN redis : k # i /\ redis'[j] = redis[k]
       /\ \A k \in DOMAIN redis : k # i => \E j \in DOMAIN redis' : redis'[j] = redis[k]
  <2>1. CASE Continue(i, <<>>)
    BY <1>1, <2>1, TakenOut DEF Order
  <2>2. CASE Continue(i, <<c>>)
    BY <1>1, <1>5, <1>10, <2>2, Replaced DEF Order
  <2> QED
    BY <1>7, <2>1, <2>2
<1>12. Follows'
  BY <1>8, <1>9, <1>11 DEF Order, Follows, InputRelay
<1>13. AtOnce'
  <2> SUFFICES ASSUME NEW p \in Input, NEW j \in DOMAIN redis', redis'[j].step = "flush",
                      NEW k \in DOMAIN redis'[j].entries
               PROVE  redis'[j].entries[k].vals[p] = None
    BY <1>7 DEF Order, AtOnce
  <2>1. CASE redis'[j] = c
    BY <1>6, <1>8, <2>1
  <2>2. CASE \E x \in DOMAIN redis : redis'[j] = redis[x]
    BY <2>2 DEF Order, AtOnce
  <2> QED
    BY <1>11, <2>1, <2>2
<1>14. TakenOK'
  BY <1>7, <1>8, <1>11 DEF Order, TakenOK, Received
<1>15. StoredOK'
  BY <1>7, <1>8, <1>11 DEF Order, StoredOK
<1>17. LateOK'
  BY <1>7, <1>8, <1>11 DEF Order, LateOK, WithAvatar, Inputs
<1>16. Newest'
  BY <1>2, <1>7, <1>11 DEF Order, Newest
<1> QED
  BY <1>11, <1>12, <1>13, <1>14, <1>15, <1>16, <1>17 DEF Order

LEMMA EnteredOrder ==
  ASSUME Inv, Order, NEW i \in Answered, Entered(i) PROVE Order'
<1> DEFINE c == [step |-> "snapshot", who |-> redis[i].who]
<1>1. i \in DOMAIN redis /\ redis \in Seq(Awaiting)
  BY DEF Answered, Inv, Typed
<1>2. redis[i].step = "enter" /\ redis[i].who \in Members
  <2>1. redis[i] \in Awaiting /\ redis[i].step = "enter"
    BY <1>1 DEF Entered
  <2> QED
    BY <2>1 DEF Awaiting
<1>3. c \in Awaiting /\ c.step = "snapshot"
  BY <1>2 DEF Awaiting
<1>4. /\ UNCHANGED <<batches, stored, buf, got, taken>>
      /\ Continue(i, <<>>) \/ Continue(i, <<c>>)
      /\ present' # {} => present # {}
  BY DEF Entered, seen
<1> HIDE DEF c
<1>5. \A j \in DOMAIN redis : ~ Ahead(redis[j], c) /\ ~ Alike(redis[j], c) /\ ~ Ahead(c, redis[j])
  BY <1>3 DEF Ahead, Alike, InputRelay
<1>6. /\ Ordered'
      /\ \A j \in DOMAIN redis' :
           redis'[j] = c \/ \E k \in DOMAIN redis : k # i /\ redis'[j] = redis[k]
      /\ \A k \in DOMAIN redis : k # i => \E j \in DOMAIN redis' : redis'[j] = redis[k]
  <2>1. CASE Continue(i, <<>>)
    BY <1>1, <2>1, TakenOut DEF Order
  <2>2. CASE Continue(i, <<c>>)
    BY <1>1, <1>3, <1>5, <2>2, Replaced DEF Order
  <2> QED
    BY <1>4, <2>1, <2>2
<1>7. Follows' /\ AtOnce'
  BY <1>3, <1>4, <1>6 DEF Order, Follows, AtOnce, InputRelay
<1>8. TakenOK' /\ StoredOK'
  BY <1>3, <1>4, <1>6 DEF Order, TakenOK, StoredOK, Received
<1>9. Newest'
  BY <1>2, <1>4, <1>6 DEF Order, Newest
<1>10. LateOK'
  BY <1>3, <1>4, <1>6 DEF Order, LateOK, WithAvatar, Inputs
<1> QED
  BY <1>6, <1>7, <1>8, <1>9, <1>10 DEF Order

LEMMA SnapshotOrder ==
  ASSUME Inv, Order, NEW i \in Answered, Snapshot(i) PROVE Order'
<1>1. i \in DOMAIN redis /\ redis \in Seq(Awaiting) /\ redis[i].step = "snapshot"
  BY DEF Answered, Inv, Typed, Snapshot
<1>2. Continue(i, <<>>) /\ UNCHANGED <<batches, present, stored, buf, got, taken>>
  BY DEF Snapshot
<1>3. /\ Ordered'
      /\ \A j \in DOMAIN redis' : \E k \in DOMAIN redis : k # i /\ redis'[j] = redis[k]
      /\ \A k \in DOMAIN redis : k # i => \E j \in DOMAIN redis' : redis'[j] = redis[k]
  BY <1>1, <1>2, TakenOut DEF Order
<1>4. Follows' /\ AtOnce'
  BY <1>2, <1>3 DEF Order, Follows, AtOnce, InputRelay
<1>5. TakenOK' /\ StoredOK'
  BY <1>2, <1>3 DEF Order, TakenOK, StoredOK, Received
<1>6. Newest'
  BY <1>1, <1>2, <1>3 DEF Order, Newest
<1>7. LateOK'
  BY <1>2, <1>3 DEF Order, LateOK, WithAvatar, Inputs
<1> QED
  BY <1>3, <1>4, <1>5, <1>6, <1>7 DEF Order

-----------------------------------------------------------------------------
(* So do the other steps.                                                  *)

LEMMA ReceiveOrder ==
  ASSUME Inv, Order, NEW m \in Members, NEW paths \in SUBSET Paths, Receive(m, paths)
  PROVE  Order'
<1> DEFINE b == [src |-> m, paths |-> paths]
<1>1. PICK n : n = Len(batches) + 1
  OBVIOUS
<1> DEFINE c == [step |-> "session", n |-> n]
<1>2. batches \in Seq(Batch) /\ b \in Batch /\ Len(batches) < MaxBatches /\ redis \in Seq(Awaiting)
  BY DEF Inv, Typed, Batch, Receive
<1>3. batches' = Append(batches, b) /\ redis' = Append(redis, c) /\ UNCHANGED <<server, seen>>
  BY <1>1 DEF Receive
<1> HIDE DEF b
<1>4. /\ Len(batches') = n /\ Len(batches) \in Nat
      /\ \A k \in Received : batches'[k] = batches[k] /\ k \in Received' /\ k < n
  BY <1>1, <1>2, <1>3 DEF Received
<1>5. n \in Value /\ c \in Awaiting /\ c.step = "session" /\ c.n = n
  BY <1>1, <1>2, <1>4, RelayAssumption DEF Value, Awaiting
<1>6. UNCHANGED <<present, stored, buf, got, taken>>
  BY <1>3 DEF server, seen
<1> HIDE DEF c
<1>7. \A j \in DOMAIN redis :
        /\ Ahead(redis[j], c) \/ Alike(redis[j], c) => redis[j].n < c.n
        /\ ~ Ahead(c, redis[j])
  <2>1. \A j \in DOMAIN redis : redis[j].step \in {"session", "room", "state", "relay", "inputs"} => redis[j].n < n
    BY <1>4 DEF Inv, Once, Commands, CommandOK
  <2> QED
    BY <1>5, <2>1 DEF Ahead, Alike, InputRelay
<1>8. /\ Ordered'
      /\ \A j \in DOMAIN redis' : redis'[j] = c \/ \E k \in DOMAIN redis : redis'[j] = redis[k]
      /\ \A k \in DOMAIN redis : \E j \in DOMAIN redis' : redis'[j] = redis[k]
  BY <1>2, <1>3, <1>5, <1>7, Appended DEF Order
<1>9. \A x \in taken : x < n /\ x \in Received' /\ batches'[x] = batches[x]
  BY <1>4 DEF Order, TakenOK
<1>10. Follows'
  <2>1. \A k \in Members, p \in Input : \A x \in got[k][p] : x < n
    BY <1>4 DEF Inv, Once, Sent, Paths
  <2> QED
    BY <1>5, <1>6, <1>8, <2>1 DEF Order, Follows, InputRelay
<1>11. AtOnce'
  BY <1>5, <1>6, <1>8 DEF Order, AtOnce
<1>12. TakenOK'
  BY <1>5, <1>6, <1>8, <1>9 DEF Order, TakenOK
<1>13. StoredOK'
  BY <1>5, <1>6, <1>8, <1>9 DEF Order, StoredOK
<1>14. Newest'
  BY <1>6, <1>8, <1>9 DEF Order, Newest
<1>15. LateOK'
  <2>1. \A j \in DOMAIN redis : redis[j].step \in {"state", "relay", "inputs"} => redis[j].n \in Received
    BY DEF Inv, Once, Commands, CommandOK
  <2>2. \A x \in Received : (WithAvatar(x)' <=> WithAvatar(x)) /\ Inputs(x)' = Inputs(x)
    BY <1>4 DEF WithAvatar, Inputs
  <2>3. \A j \in DOMAIN redis' :
          redis'[j].step \in {"state", "relay", "inputs"} => \E k \in DOMAIN redis : redis'[j] = redis[k]
    BY <1>5, <1>8
  <2> QED
    BY <2>1, <2>2, <2>3 DEF Order, LateOK
<1> QED
  BY <1>8, <1>10, <1>11, <1>12, <1>13, <1>14, <1>15 DEF Order

LEMMA JoinOrder ==
  ASSUME Inv, Order, NEW m \in Members, Join(m) PROVE Order'
<1> DEFINE c == [step |-> "enter", who |-> m]
<1>1. c \in Awaiting /\ c.step = "enter"
  BY DEF Awaiting
<1>2. redis' = Append(redis, c) /\ UNCHANGED <<batches, present, stored, buf, got, taken>>
  BY DEF Join, server, seen
<1>3. redis \in Seq(Awaiting)
  BY DEF Inv, Typed
<1> HIDE DEF c
<1>4. \A j \in DOMAIN redis : ~ Ahead(redis[j], c) /\ ~ Alike(redis[j], c) /\ ~ Ahead(c, redis[j])
  BY <1>1 DEF Ahead, Alike, InputRelay
<1>5. /\ Ordered'
      /\ \A j \in DOMAIN redis' : redis'[j] = c \/ \E k \in DOMAIN redis : redis'[j] = redis[k]
      /\ \A k \in DOMAIN redis : \E j \in DOMAIN redis' : redis'[j] = redis[k]
  BY <1>1, <1>2, <1>3, <1>4, Appended DEF Order
<1>6. Follows' /\ AtOnce'
  BY <1>1, <1>2, <1>5 DEF Order, Follows, AtOnce, InputRelay
<1>7. TakenOK' /\ StoredOK'
  BY <1>1, <1>2, <1>5 DEF Order, TakenOK, StoredOK, Received
<1>8. Newest'
  BY <1>2, <1>5 DEF Order, Newest
<1>9. LateOK'
  <2>1. \A j \in DOMAIN redis' :
          redis'[j].step \in {"state", "relay", "inputs"} => \E k \in DOMAIN redis : redis'[j] = redis[k]
    BY <1>1, <1>5
  <2> QED
    BY <1>2, <2>1 DEF Order, LateOK, WithAvatar, Inputs
<1> QED
  BY <1>5, <1>6, <1>7, <1>8, <1>9 DEF Order

\* The last member takes the stored values along.
LEMMA LeaveOrder ==
  ASSUME Inv, Order, NEW m \in Members, Leave(m) PROVE Order'
<1>1. UNCHANGED <<batches, redis, got, taken>>
  BY DEF Leave, seen
<1>2. /\ \A p \in Paths : stored'[p] \in {stored[p], None}
      /\ \A k \in Members, p \in Paths : buf'[k][p] \in {buf[k][p], None}
      /\ present' # {} => present # {} /\ stored' = stored
  BY DEF Leave, NoValues
<1>3. Ordered' /\ Follows' /\ TakenOK'
  BY <1>1 DEF Order, Ordered, Follows, TakenOK, Ahead, Alike, InputRelay, Received
<1>4. AtOnce'
  BY <1>1, <1>2 DEF Order, AtOnce, Paths
<1>5. StoredOK'
  <2>1. \A j \in DOMAIN redis : redis[j].step = "state" => None < redis[j].n
    BY DEF Inv, Once, Commands, CommandOK, Received, None
  <2> QED
    BY <1>1, <1>2, <2>1 DEF Order, StoredOK, Paths
<1>6. Newest'
  BY <1>1, <1>2 DEF Order, Newest
<1>7. LateOK'
  BY <1>1 DEF Order, LateOK, WithAvatar, Inputs
<1> QED
  BY <1>3, <1>4, <1>5, <1>6, <1>7 DEF Order

LEMMA TickOrder == Order /\ Tick => Order'
BY DEF Order, Tick, seen, Ordered, Follows, AtOnce, TakenOK, LateOK, StoredOK, Newest, Ahead, Alike,
   InputRelay, Received, WithAvatar, Inputs

LEMMA FlushOrder == Inv /\ Order /\ Flush => Order'
<1> SUFFICES ASSUME Inv, Order, Flush PROVE Order'
  OBVIOUS
<1>1. PICK order \in SetToSeqs(Buffering) :
        redis' = IF order = <<>> THEN redis
                 ELSE Append(redis, [step |-> "flush", entries |-> Drained(order)])
  BY DEF Flush, Drain
<1>2. UNCHANGED <<batches, present, stored, got, taken>>
  BY DEF Flush, seen
<1>3. \A m \in Members, p \in Paths : buf'[m][p] = None
  BY DEF Flush, Drain, NoValues
<1>4. CASE redis' = redis
  <2>1. Ordered' /\ Follows' /\ TakenOK' /\ LateOK' /\ StoredOK' /\ Newest'
    BY <1>2, <1>4 DEF Order, Ordered, Follows, TakenOK, LateOK, StoredOK, Newest, Ahead, Alike,
       InputRelay, Received, WithAvatar, Inputs
  <2>2. AtOnce'
    BY <1>3, <1>4 DEF Order, AtOnce, Paths
  <2> QED
    BY <2>1, <2>2 DEF Order
<1>5. CASE redis' # redis
  <2>1. PICK es : es = Drained(order)
    OBVIOUS
  <2> DEFINE c == [step |-> "flush", entries |-> es]
  <2>2. redis' = Append(redis, c)
    BY <1>1, <1>5, <2>1
  <2>3. c \in Awaiting
    <3>1. redis \in Seq(Awaiting) /\ redis' \in Seq(Awaiting)
      BY FlushInv DEF Inv, Typed
    <3>2. redis'[Len(redis) + 1] = c /\ Len(redis) + 1 \in DOMAIN redis'
      BY <2>2, <3>1
    <3> QED
      BY <3>1, <3>2
  <2>4. \A k \in DOMAIN es, p \in Input : es[k].vals[p] = None
    <3> SUFFICES ASSUME NEW k \in DOMAIN es, NEW p \in Input PROVE es[k].vals[p] = None
      OBVIOUS
    <3>1. k \in DOMAIN order /\ es[k].vals = buf[order[k]]
      BY <2>1 DEF Drained
    <3>2. order[k] \in Members
      BY <3>1 DEF SetToSeqs, Buffering
    <3> QED
      BY <3>1, <3>2 DEF Order, AtOnce
  <2>5. c.step = "flush" /\ c.entries = es /\ redis \in Seq(Awaiting)
    BY DEF Inv, Typed
  <2> HIDE DEF c
  <2>6. \A j \in DOMAIN redis : ~ Ahead(redis[j], c) /\ ~ Alike(redis[j], c) /\ ~ Ahead(c, redis[j])
    BY <2>5 DEF Ahead, Alike, InputRelay
  <2>7. /\ Ordered'
        /\ \A j \in DOMAIN redis' : redis'[j] = c \/ \E k \in DOMAIN redis : redis'[j] = redis[k]
        /\ \A k \in DOMAIN redis : \E j \in DOMAIN redis' : redis'[j] = redis[k]
    BY <2>2, <2>3, <2>5, <2>6, Appended DEF Order
  <2>8. Follows' /\ TakenOK' /\ LateOK' /\ StoredOK'
    BY <1>2, <2>5, <2>7 DEF Order, Follows, TakenOK, LateOK, StoredOK, InputRelay, Received,
       WithAvatar, Inputs
  <2>9. AtOnce'
    <3>1. \A m \in Members, p \in Input : buf'[m][p] = None
      BY <1>3 DEF Paths
    <3>2. ASSUME NEW p \in Input, NEW j \in DOMAIN redis', redis'[j].step = "flush",
                 NEW k \in DOMAIN redis'[j].entries
          PROVE  redis'[j].entries[k].vals[p] = None
      <4>1. CASE redis'[j] = c
        BY <2>4, <2>5, <3>2, <4>1
      <4>2. CASE \E x \in DOMAIN redis : redis'[j] = redis[x]
        BY <3>2, <4>2 DEF Order, AtOnce
      <4> QED
        BY <2>7, <4>1, <4>2
    <3> QED
      BY <3>1, <3>2 DEF AtOnce
  <2>10. Newest'
    BY <1>2, <2>7 DEF Order, Newest
  <2> QED
    BY <2>7, <2>8, <2>9, <2>10 DEF Order
<1> QED
  BY <1>4, <1>5

LEMMA OrderNext == Inv /\ Order /\ [Next]_vars => Order'
<1> SUFFICES ASSUME Inv, Order, [Next]_vars PROVE Order'
  OBVIOUS
<1>1. ASSUME NEW m \in Members, NEW ps \in (SUBSET Paths) \ {{}}, Receive(m, ps) PROVE Order'
  BY <1>1, ReceiveOrder
<1>3. ASSUME NEW m \in Members, Join(m) \/ Leave(m) PROVE Order'
  BY <1>3, JoinOrder, LeaveOrder
<1>4. ASSUME NEW i \in Answered, Reply(i) PROVE Order'
  BY <1>4, SessionReadOrder, RoomReadOrder, StateWrittenOrder, RelayedOrder,
     InputsRelayedOrder, FlushedOrder, EnteredOrder, SnapshotOrder DEF Reply
<1>5. CASE Flush \/ Tick
  BY <1>5, FlushOrder, TickOrder
<1>6. CASE UNCHANGED vars
  BY <1>6 DEF vars, server, seen, Order, Ordered, Follows, AtOnce, TakenOK, LateOK, StoredOK,
     Newest, Ahead, Alike, InputRelay, Received, WithAvatar, Inputs
<1> QED
  BY <1>1, <1>3, <1>4, <1>5, <1>6 DEF Next

LEMMA OrderAlways == Spec => [](Inv /\ Order)
<1>1. Init => Order
  BY DEF Init, Order, Ordered, Follows, AtOnce, TakenOK, LateOK, StoredOK, Newest, NoValues, Paths
<1> QED
  BY <1>1, InitInv, InvNext, OrderNext, PTL DEF Spec

\* Once no handler is before its write, the room's state has the newest value of
\* every avatar parameter, whichever the split has kept back.
THEOREM SnapshotIsNewest == Spec => []StoredIsNewest
<1>1. Inv /\ Order => StoredIsNewest
  <2> SUFFICES ASSUME Inv, Order, present # {}, NEW p \in Avatar,
                      \A i \in DOMAIN redis : redis[i].step \notin {"session", "room", "state"}
               PROVE  LET ns == {n \in taken : p \in batches[n].paths}
                      IN /\ stored[p] \in ns \cup {None}
                         /\ \A n \in ns : n <= stored[p]
    BY DEF StoredIsNewest
  <2> QED
    BY DEF Order, StoredOK, Newest
<1> QED
  BY <1>1, OrderAlways, PTL

\* An input that a member is sent after a newer one of the same sender came with
\* avatar parameters, whatever number of members, inputs and batches there is:
\* the inputs that OscSync sends by themselves keep their order.
THEOREM InputsKeepOrder == Spec => InputsInOrder
<1>1. Inv /\ Order /\ [Next]_vars => [\A n \in Late(Input) : WithAvatar(n)]_vars
  <2> SUFFICES ASSUME Inv, Order, Next, NEW m \in Members, NEW p \in Input,
                      NEW n \in got'[m][p] \ got[m][p], NEW k \in got[m][p], n < k
               PROVE  WithAvatar(n)
    BY DEF Late
  <2>1. CASE got' = got
    BY <2>1
  <2>2. ASSUME NEW i \in Answered, Relayed(i) PROVE FALSE
    <3>1. i \in DOMAIN redis /\ redis[i].step = "relay"
      BY <2>2 DEF Answered, Relayed
    <3>2. n = redis[i].n /\ p \in redis[i].paths
      BY <2>2 DEF Relayed, Deliver, Sending, Paths
    <3>3. k < n
      BY <3>1, <3>2 DEF Order, Follows, InputRelay
    <3>4. n \in Nat /\ k \in Nat
      BY <3>1, <3>2 DEF Inv, Once, Commands, CommandOK, Sent, Received, Paths
    <3> QED
      BY <3>3, <3>4
  <2>3. ASSUME NEW i \in Answered, Flushed(i) PROVE FALSE
    <3> DEFINE es == redis[i].entries
    <3>1. i \in DOMAIN redis /\ redis[i].step = "flush"
      BY <2>3 DEF Answered, Flushed
    <3>2. es \in Seq(Entry) /\ es # <<>>
      <4>1. redis[i] \in Awaiting /\ CommandOK(redis[i])
        BY <3>1 DEF Inv, Typed, Once, Commands
      <4> QED
        BY <3>1, <4>1 DEF Awaiting, CommandOK
    <3>3. Head(es) = es[1] /\ 1 \in DOMAIN es
      BY <3>2
    <3>4. Head(es).vals[p] = None
      BY <3>1, <3>3 DEF Order, AtOnce
    <3> QED
      BY <2>3, <3>4 DEF Flushed, Deliver, Paths
  <2>4. ASSUME NEW i \in Answered, InputsRelayed(i) PROVE WithAvatar(n)
    <3>1. i \in DOMAIN redis /\ redis[i].step = "inputs"
      BY <2>4 DEF Answered, InputsRelayed
    <3>2. n = redis[i].n
      BY <2>4 DEF InputsRelayed, Deliver, Sending, Paths
    <3> QED
      BY <3>1, <3>2 DEF Order, LateOK
  <2> QED
    BY <2>1, <2>2, <2>3, <2>4 DEF Next, Reply, Receive, Join, Leave, Flush, Tick, SessionRead,
       RoomRead, StateWritten, Entered, Snapshot, seen
<1> QED
  BY <1>1, OrderAlways, PTL DEF Spec, InputsInOrder

-----------------------------------------------------------------------------
(* No avatar value is forgotten: the safety part of EveryValueArrives.     *)

\* Value k of p is with m, or will be with the members when what has it passes.
Coming(m, k, p) ==
  \/ k \in got[m][p]
  \/ buf[Src(k)][p] = k
  \/ \E j \in DOMAIN redis : redis[j].step \in {"relay", "flush"} /\ Holds(redis[j], k, p)

\* The handler of n is at its write, the split is still to come.
Waiting(n) == \E j \in DOMAIN redis : redis[j].step = "state" /\ redis[j].n = n

\* For every avatar value taken, a member has it or a newer one of its sender, or
\* will get one, unless the split has lost it.
NoneForgotten ==
  \A m \in joined, n \in taken, p \in Avatar :
    p \in batches[n].paths /\ Src(n) # m =>
      \/ snap[m][p] >= n
      \/ <<n, p>> \in lost
      \/ Waiting(n)
      \/ \E k \in Received : k >= n /\ Src(k) = Src(n) /\ Coming(m, k, p)

\* What the buffer has is older than what is still to be written: a value that
\* takes another's place in it is a newer one.
BufferedBefore ==
  \A m \in Members, p \in Avatar :
    /\ buf[m][p] # None => buf[m][p] \in taken
    /\ \A j \in DOMAIN redis : redis[j].step = "state" => buf[m][p] < redis[j].n

\* Who has the snapshot is a member, to whom every broadcast goes; who waits for
\* it is a member too.
Seated ==
  /\ joined \subseteq present
  /\ \A j \in DOMAIN redis :
       /\ redis[j].step = "enter" => redis[j].who \notin present
       /\ redis[j].step = "snapshot" => redis[j].who \in present \ joined

\* Nobody joins twice.
Alone ==
  \A j, k \in DOMAIN redis :
    /\ redis[j].step \in {"enter", "snapshot"} /\ redis[j].step = redis[k].step
    /\ redis[j].who = redis[k].who
    => j = k

Snapshots == snap \in [Members -> [Paths -> Value]]

Memory == Snapshots /\ Seated /\ Alone /\ BufferedBefore /\ NoneForgotten

\* Nobody joins twice when a command has been answered,
LEMMA AloneEnded ==
  ASSUME redis \in Seq(Awaiting), Alone, NEW i \in DOMAIN redis, Continue(i, <<>>)
  PROVE  Alone'
<1>1. \A x, y \in 1 .. Len(redis) - 1 : Old(i, x) = Old(i, y) => x = y
  BY DEF Old
<1>2. /\ DOMAIN redis' = 1 .. Len(redis) - 1
      /\ \A j \in DOMAIN redis' : Old(i, j) \in DOMAIN redis /\ redis'[j] = redis[Old(i, j)]
  BY Ended
<1> QED
  BY <1>1, <1>2 DEF Alone

\* is followed by one that no other is like,
LEMMA AloneGoneOn ==
  ASSUME redis \in Seq(Awaiting), Alone, NEW i \in DOMAIN redis, NEW c \in Awaiting,
         Continue(i, <<c>>),
         \A j \in DOMAIN redis : j # i =>
           ~ (/\ c.step \in {"enter", "snapshot"}
              /\ redis[j].step = c.step /\ redis[j].who = c.who)
  PROVE  Alone'
<1>1. Len(redis) \in Nat /\ DOMAIN redis = 1 .. Len(redis)
  OBVIOUS
<1>2. \A x, y \in 1 .. Len(redis) - 1 : Old(i, x) = Old(i, y) => x = y
  BY <1>1 DEF Old
<1>3. /\ DOMAIN redis' = DOMAIN redis
      /\ \A j \in 1 .. Len(redis) - 1 : /\ Old(i, j) \in DOMAIN redis /\ Old(i, j) # i
                                        /\ redis'[j] = redis[Old(i, j)]
      /\ redis'[Len(redis)] = c
  BY GoneOn
<1>4. \A j \in DOMAIN redis' : j = Len(redis) \/ j \in 1 .. Len(redis) - 1
  BY <1>1, <1>3
<1> SUFFICES ASSUME NEW j \in DOMAIN redis', NEW k \in DOMAIN redis',
                    redis'[j].step \in {"enter", "snapshot"},
                    redis'[j].step = redis'[k].step, redis'[j].who = redis'[k].who
             PROVE  j = k
  BY DEF Alone
<1>5. CASE j = Len(redis) /\ k \in 1 .. Len(redis) - 1
  BY <1>3, <1>5
<1>6. CASE j \in 1 .. Len(redis) - 1 /\ k = Len(redis)
  BY <1>3, <1>6
<1>7. CASE j \in 1 .. Len(redis) - 1 /\ k \in 1 .. Len(redis) - 1
  BY <1>2, <1>3, <1>7 DEF Alone
<1> QED
  BY <1>4, <1>5, <1>6, <1>7

\* and when such a one comes.
LEMMA AloneAppended ==
  ASSUME redis \in Seq(Awaiting), Alone, NEW c \in Awaiting, redis' = Append(redis, c),
         \A j \in DOMAIN redis :
           ~ (/\ c.step \in {"enter", "snapshot"}
              /\ redis[j].step = c.step /\ redis[j].who = c.who)
  PROVE  Alone'
<1>1. /\ DOMAIN redis' = 1 .. Len(redis) + 1
      /\ \A j \in DOMAIN redis : j \in DOMAIN redis' /\ redis'[j] = redis[j]
      /\ redis'[Len(redis) + 1] = c /\ Len(redis) \in Nat /\ DOMAIN redis = 1 .. Len(redis)
  OBVIOUS
<1>2. \A j \in DOMAIN redis' : j = Len(redis) + 1 \/ j \in DOMAIN redis
  BY <1>1
<1> QED
  BY <1>1, <1>2 DEF Alone

\* What every step leaves of NoneForgotten: a value that has been waiting for the
\* split is lost or on its way, a value on its way stays so or gives way to a
\* newer one, and a new member's snapshot has what is no longer waiting.
LEMMA Remembered ==
  ASSUME Inv, Order, NoneForgotten, lost \subseteq lost', taken' \subseteq Received,
         \A k \in Received : k \in Received' /\ batches'[k] = batches[k],
         \A n \in taken', p \in Avatar :
           n \in taken \/ p \notin batches[n].paths \/ Waiting(n)',
         \A m \in joined' :
           \/ m \in joined /\ snap'[m] = snap[m]
           \/ \A n \in taken', p \in Avatar :
                p \in batches[n].paths => snap'[m][p] >= n \/ Waiting(n)',
         \A n \in taken : Waiting(n) =>
           \/ Waiting(n)'
           \/ \A p \in Avatar : p \in batches[n].paths =>
                <<n, p>> \in lost' \/ \A m \in joined' : Coming(m, n, p)',
         \A m \in joined \cap joined', p \in Avatar, k \in Received :
           Src(k) # m /\ Coming(m, k, p) =>
             \E l \in Received : l >= k /\ Src(l) = Src(k) /\ Coming(m, l, p)'
  PROVE  NoneForgotten'
<1> SUFFICES ASSUME NEW m \in joined', NEW n \in taken', NEW p \in Avatar,
                    p \in batches[n].paths, Src(n) # m,
                    ~ Waiting(n)', ~ snap'[m][p] >= n, <<n, p>> \notin lost'
             PROVE  \E k \in Received' : k >= n /\ Src(k)' = Src(n)' /\ Coming(m, k, p)'
  BY DEF NoneForgotten, Src
<1>1. n \in taken /\ m \in joined /\ snap'[m] = snap[m] /\ n \in Received
  OBVIOUS
<1>2. Received \subseteq Nat
  BY DEF Received
<1>3. CASE Waiting(n)
  <2>1. Coming(m, n, p)'
    BY <1>1, <1>3
  <2> QED
    BY <1>1, <1>2, <2>1
<1>4. CASE \E k \in Received : k >= n /\ Src(k) = Src(n) /\ Coming(m, k, p)
  <2>1. PICK k \in Received : k >= n /\ Src(k) = Src(n) /\ Coming(m, k, p)
    BY <1>4
  <2>2. PICK l \in Received : l >= k /\ Src(l) = Src(k) /\ Coming(m, l, p)'
    BY <1>1, <2>1
  <2>3. l \in Received' /\ l >= n /\ Src(l)' = Src(n)'
    BY <1>1, <1>2, <2>1, <2>2 DEF Src
  <2> QED
    BY <2>2, <2>3
<1> QED
  BY <1>1, <1>3, <1>4 DEF NoneForgotten

\* A step that writes, relays and buffers nothing.
LEMMA Undisturbed ==
  ASSUME Inv, Order, NoneForgotten, BufferedBefore, UNCHANGED <<got, buf, taken, lost, snap>>,
         joined' \subseteq joined,
         \A k \in Received : k \in Received' /\ batches'[k] = batches[k],
         \A k \in DOMAIN redis : redis[k].step \in {"state", "relay", "flush"} =>
           \E j \in DOMAIN redis' : redis'[j] = redis[k],
         \A j \in DOMAIN redis' : redis'[j].step = "state" =>
           \E k \in DOMAIN redis : redis'[j] = redis[k]
  PROVE  NoneForgotten' /\ BufferedBefore'
<1>1. taken' \subseteq Received /\ lost \subseteq lost' /\ taken' = taken /\ snap' = snap
  BY DEF Order, TakenOK
<1>2. \A n \in taken : Waiting(n) => Waiting(n)'
  BY DEF Waiting
<1>3. \A m \in joined \cap joined', p \in Avatar, k \in Received :
        Coming(m, k, p) => k >= k /\ Src(k) = Src(k) /\ Coming(m, k, p)'
  BY DEF Coming, Holds, Received, Src
<1>4. NoneForgotten'
  <2>1. \A m \in joined' : m \in joined /\ snap'[m] = snap[m]
    BY <1>1
  <2>2. \A n \in taken', p \in Avatar : n \in taken
    BY <1>1
  <2> HIDE DEF NoneForgotten
  <2> QED
    BY <1>1, <1>2, <1>3, <2>1, <2>2, Remembered
<1>5. BufferedBefore'
  BY DEF BufferedBefore
<1> QED
  BY <1>4, <1>5

LEMMA SessionReadMemory ==
  ASSUME Inv, Order, Memory, NEW i \in Answered, SessionRead(i) PROVE Memory'
<1> DEFINE n == redis[i].n
           c == [step |-> "room", n |-> n]
<1>1. i \in DOMAIN redis /\ redis \in Seq(Awaiting)
  BY DEF Answered, Inv, Typed
<1>2. redis[i].step = "session" /\ n \in Value
  BY <1>1, ReceivedValue DEF SessionRead, Inv, Once, Commands, CommandOK
<1>3. c \in Awaiting /\ c.step = "room"
  BY <1>2 DEF Awaiting
<1>4. Continue(i, <<>>) \/ Continue(i, <<c>>)
  BY DEF SessionRead
<1>5. \A j \in DOMAIN redis : j # i =>
        /\ Ahead(redis[j], c) \/ Alike(redis[j], c) => redis[j].n < n
        /\ Ahead(c, redis[j]) => n < redis[j].n
  BY <1>1, <1>2, FirstInLine DEF Order, Ordered, Ahead, Alike, InputRelay
<1>6. c.n = n
  OBVIOUS
<1> HIDE DEF c
<1>7. /\ \A j \in DOMAIN redis' :
           redis'[j] = c \/ \E k \in DOMAIN redis : k # i /\ redis'[j] = redis[k]
      /\ \A k \in DOMAIN redis : k # i => \E j \in DOMAIN redis' : redis'[j] = redis[k]
      /\ Alone'
  <2>1. CASE Continue(i, <<>>)
    BY <1>1, <2>1, TakenOut, AloneEnded DEF Order, Memory
  <2>2. CASE Continue(i, <<c>>)
    BY <1>1, <1>3, <1>5, <1>6, <2>2, Replaced, AloneGoneOn DEF Order, Memory
  <2> QED
    BY <1>4, <2>1, <2>2
<1>8. UNCHANGED <<batches, present, joined, buf, got, snap, taken, lost>>
  BY DEF SessionRead, server, seen
<1>9. NoneForgotten' /\ BufferedBefore'
  BY <1>2, <1>3, <1>7, <1>8, Undisturbed DEF Memory, Received
<1>10. Seated' /\ Snapshots'
  BY <1>3, <1>7, <1>8 DEF Memory, Seated, Snapshots
<1> QED
  BY <1>7, <1>9, <1>10 DEF Memory

LEMMA RoomReadMemory ==
  ASSUME Inv, Order, Memory, NEW i \in Answered, RoomRead(i) PROVE Memory'
<1>0. PICK n : n = redis[i].n
  OBVIOUS
<1> DEFINE ps == Throttled(batches[n].paths)
<1>1. i \in DOMAIN redis /\ redis \in Seq(Awaiting)
  BY DEF Answered, Inv, Typed
<1>2. /\ redis[i].step = "room" /\ redis[i].n = n
      /\ n \in Value /\ n \in Received /\ batches[n] \in Batch
  BY <1>0, <1>1, ReceivedValue DEF RoomRead, Inv, Once, Commands, CommandOK
<1>3. UNCHANGED <<batches, present, joined, buf, got, snap, lost>>
  BY DEF RoomRead
<1>4. CASE taken' = taken /\ Continue(i, <<>>)
  <2>1. /\ \A j \in DOMAIN redis' : \E k \in DOMAIN redis : k # i /\ redis'[j] = redis[k]
        /\ \A k \in DOMAIN redis : k # i => \E j \in DOMAIN redis' : redis'[j] = redis[k]
        /\ Alone'
    BY <1>1, <1>4, TakenOut, AloneEnded DEF Order, Memory
  <2>2. NoneForgotten' /\ BufferedBefore'
    BY <1>2, <1>3, <1>4, <2>1, Undisturbed DEF Memory, Received
  <2>3. Seated' /\ Snapshots'
    BY <1>3, <2>1 DEF Memory, Seated, Snapshots
  <2> QED
    BY <2>1, <2>2, <2>3 DEF Memory
<1>5. CASE taken' = taken \cup {n} /\ ~ Continue(i, <<>>)
  <2>1. PICK c : /\ c = IF ps # {} THEN [step |-> "state", n |-> n]
                        ELSE [step |-> "relay", n |-> n, paths |-> batches[n].paths]
                 /\ Continue(i, <<c>>)
    BY <1>0, <1>5 DEF RoomRead
  <2>2. /\ c \in Awaiting /\ c.step \in {"state", "relay"} /\ c.n = n
        /\ ps # {} => c.step = "state"
    <3>1. batches[n].paths \in SUBSET Paths
      BY <1>2 DEF Batch
    <3> QED
      BY <1>2, <2>1, <3>1 DEF Awaiting
  <2>3. \A j \in DOMAIN redis : j # i =>
          /\ Ahead(redis[j], c) \/ Alike(redis[j], c) => redis[j].n < n
          /\ Ahead(c, redis[j]) => n < redis[j].n
    <3>1. ASSUME NEW j \in DOMAIN redis, j # i PROVE Ahead(c, redis[j]) => n < redis[j].n
      <4>1. CASE redis[j].step = "session"
        BY <1>1, <1>2, <4>1 DEF Order, Ordered, Ahead
      <4>2. CASE redis[j].step = "room"
        BY <1>1, <1>2, <3>1, <4>2, FirstInLine DEF Order, Ordered, Alike
      <4> QED
        BY <2>2, <4>1, <4>2 DEF Ahead, InputRelay
    <3>2. ASSUME NEW j \in DOMAIN redis, j # i
          PROVE  Ahead(redis[j], c) \/ Alike(redis[j], c) => redis[j].n < n
      BY <1>1, <1>2, <2>2, <3>2 DEF Order, Ordered, TakenOK, Ahead, Alike, InputRelay
    <3> QED
      BY <3>1, <3>2
  <2>4. /\ \A j \in DOMAIN redis' :
             redis'[j] = c \/ \E k \in DOMAIN redis : k # i /\ redis'[j] = redis[k]
        /\ \A k \in DOMAIN redis : k # i => \E j \in DOMAIN redis' : redis'[j] = redis[k]
        /\ \E j \in DOMAIN redis' : redis'[j] = c
        /\ Alone'
    BY <1>1, <2>1, <2>2, <2>3, Replaced, AloneGoneOn DEF Order, Memory
  <2>5. taken' \subseteq Received /\ lost \subseteq lost'
    BY <1>2, <1>3, <1>5 DEF Order, TakenOK
  <2>6. \A x \in taken', p \in Avatar : x \in taken \/ p \notin batches[x].paths \/ Waiting(x)'
    <3> SUFFICES ASSUME NEW p \in Avatar, p \in batches[n].paths PROVE Waiting(n)'
      BY <1>5
    <3>1. p \in ps
      BY RelayAssumption DEF Throttled
    <3> QED
      BY <2>2, <2>4, <3>1 DEF Waiting
  <2>7. \A x \in taken : Waiting(x) => Waiting(x)'
    BY <1>2, <2>4 DEF Waiting
  <2>8. \A m \in joined \cap joined', p \in Avatar, k \in Received :
          Coming(m, k, p) => k >= k /\ Src(k) = Src(k) /\ Coming(m, k, p)'
    BY <1>2, <1>3, <2>4 DEF Coming, Holds, Received, Src
  <2>9. NoneForgotten'
    <3>1. \A m \in joined' : m \in joined /\ snap'[m] = snap[m]
      BY <1>3
    <3>2. \A k \in Received : k \in Received' /\ batches'[k] = batches[k]
      BY <1>3 DEF Received
    <3>3. NoneForgotten
      BY DEF Memory
    <3> QED
      BY <2>5, <2>6, <2>7, <2>8, <3>1, <3>2, <3>3, Remembered
  <2>10. BufferedBefore'
    <3>1. \A x \in taken : x < n
      BY <1>1, <1>2 DEF Order, TakenOK
    <3>2. \A m \in Members, p \in Avatar : buf[m][p] < n
      BY <1>2, <3>1 DEF Memory, BufferedBefore, Received, None
    <3> QED
      BY <1>3, <1>5, <2>2, <2>4, <3>2 DEF Memory, BufferedBefore
  <2>11. Seated' /\ Snapshots'
    BY <1>3, <2>2, <2>4 DEF Memory, Seated, Snapshots
  <2> QED
    BY <2>4, <2>9, <2>10, <2>11 DEF Memory
<1>6. (taken' = taken /\ Continue(i, <<>>)) \/ taken' = taken \cup {n}
  BY <1>0 DEF RoomRead
<1>7. ASSUME Continue(i, <<>>) PROVE taken' = taken
  <2> SUFFICES ASSUME present # {} PROVE FALSE
    BY DEF RoomRead
  <2>1. PICK c : Continue(i, <<c>>)
    BY DEF RoomRead
  <2>2. Len(redis') = Len(redis) - 1 /\ Len(redis') = Len(redis)
    BY <1>1, <1>7, <2>1 DEF Continue, RemoveAt
  <2> QED
    BY <1>1, <2>2
<1> QED
  BY <1>4, <1>5, <1>6, <1>7

\* The split sends a value on, puts it in the place of an older one, or loses it.
LEMMA StateWrittenMemory ==
  ASSUME Inv, Order, Memory, NEW i \in Answered, StateWritten(i) PROVE Memory'
<1>0. PICK n : n = redis[i].n
  OBVIOUS
<1>1. i \in DOMAIN redis /\ redis \in Seq(Awaiting)
  BY DEF Answered, Inv, Typed
<1>2. /\ redis[i].step = "state" /\ redis[i].n = n /\ n \in Received /\ n \in Value
      /\ batches[n] \in Batch /\ Src(n) \in Members
  BY <1>0, <1>1, ReceivedValue DEF StateWritten, Inv, Once, Commands, CommandOK, Batch, Src
<1>3. PICK ps : ps = Throttled(batches[n].paths)
  OBVIOUS
<1>4. ps \subseteq Paths /\ \A p \in Avatar : p \in batches[n].paths => p \in ps
  BY <1>2, <1>3, RelayAssumption DEF Throttled, Batch
<1>5. PICK stable : stable = {p \in ps : ~ IsRapid(hist, p)}
  OBVIOUS
<1>6. PICK c : c = IF stable = {} THEN [step |-> "inputs", n |-> n]
                   ELSE [step |-> "relay", n |-> n, paths |-> stable]
  OBVIOUS
<1>7. PICK rapid \in SUBSET ps :
        /\ buf' = [buf EXCEPT ![Src(n)] = [p \in Paths |-> IF p \in rapid THEN n ELSE @[p]]]
        /\ lost' = lost \cup {<<n, p>> : p \in ps \ (stable \cup rapid)}
        /\ Continue(i, <<c>>) \/ (stable = {} /\ Continue(i, <<>>))
  <2> DEFINE x == redis[i].n
             q == Throttled(batches[x].paths)
             s == {p \in q : ~ IsRapid(hist, p)}
             d == IF s = {} THEN [step |-> "inputs", n |-> x]
                  ELSE [step |-> "relay", n |-> x, paths |-> s]
  <2>1. PICK ticks \in IF MayTick THEN {0, 1} ELSE {0} :
          LET later == IF ticks = 0 THEN hist ELSE Aged(hist)
              rapid == {p \in q : IsRapid(later, p)}
          IN /\ stored' = [p \in Paths |-> IF p \in Saved(q, s) THEN x ELSE stored[p]]
             /\ since' = since + ticks /\ hist' = later
             /\ buf' = [buf EXCEPT ![Src(x)] = [p \in Paths |-> IF p \in rapid THEN x ELSE @[p]]]
             /\ lost' = lost \cup {<<x, p>> : p \in q \ (s \cup rapid)}
             /\ Continue(i, IF s = {} THEN InputsNext(x)
                            ELSE <<[step |-> "relay", n |-> x, paths |-> s]>>)
    BY Zenon DEF StateWritten
  <2> DEFINE l == IF ticks = 0 THEN hist ELSE Aged(hist)
             r == {p \in q : IsRapid(l, p)}
  <2>2. r \in SUBSET q
    OBVIOUS
  <2>3. x = n /\ q = ps /\ s = stable /\ d = c
    BY <1>0, <1>3, <1>5, <1>6
  <2>4. /\ buf' = [buf EXCEPT ![Src(x)] = [p \in Paths |-> IF p \in r THEN x ELSE @[p]]]
        /\ lost' = lost \cup {<<x, p>> : p \in q \ (s \cup r)}
        /\ Continue(i, <<d>>) \/ (s = {} /\ Continue(i, <<>>))
    BY <2>1 DEF InputsNext
  <2> HIDE DEF x, q, s, d, r
  <2> QED
    BY <2>2, <2>3, <2>4
<1>8. UNCHANGED <<batches, present, joined, got, snap, taken>>
  BY DEF StateWritten
<1>9. /\ c.step \in {"relay", "inputs"} /\ c.n = n /\ c \in Awaiting
      /\ stable # {} => c.step = "relay" /\ c.paths = stable
  <2>1. stable \in SUBSET Paths
    BY <1>4, <1>5
  <2> QED
    BY <1>2, <1>6, <2>1 DEF Awaiting
<1>10. \A p \in Avatar : p \in Paths
  BY DEF Paths
<1>11. ~ InputRelay(c)
  BY <1>3, <1>5, <1>6, <1>9 DEF InputRelay, Throttled
<1>12. \A j \in DOMAIN redis : ~ Ahead(redis[j], c) /\ ~ Alike(redis[j], c) /\ ~ Ahead(c, redis[j])
  BY <1>9, <1>11 DEF Ahead, Alike, InputRelay
<1>13. /\ \A j \in DOMAIN redis' :
            redis'[j] = c \/ \E k \in DOMAIN redis : k # i /\ redis'[j] = redis[k]
       /\ \A k \in DOMAIN redis : k # i => \E j \in DOMAIN redis' : redis'[j] = redis[k]
       /\ stable # {} => \E j \in DOMAIN redis' : redis'[j] = c
       /\ Alone'
  <2>1. CASE stable = {} /\ Continue(i, <<>>)
    BY <1>1, <2>1, TakenOut, AloneEnded DEF Order, Memory
  <2>2. CASE Continue(i, <<c>>)
    BY <1>1, <1>9, <1>12, <2>2, Replaced, AloneGoneOn DEF Order, Memory
  <2> QED
    BY <1>7, <2>1, <2>2
<1>14. \A m \in Members, p \in Paths :
         buf'[m][p] = IF m = Src(n) /\ p \in rapid THEN n ELSE buf[m][p]
  BY <1>2, <1>7 DEF Inv, Typed
<1>15. n \in taken /\ taken \subseteq Received
  BY <1>1, <1>2 DEF Order, TakenOK
<1>16. \A m \in Members, p \in Avatar : buf[m][p] < n
  BY <1>1, <1>2 DEF Memory, BufferedBefore
<1>17. \A j \in DOMAIN redis : j # i /\ redis[j].step = "state" => n < redis[j].n
  BY <1>1, <1>2, FirstInLine DEF Order, Ordered, Alike, InputRelay
<1>18. BufferedBefore'
  <2>1. \A m \in Members, p \in Avatar : buf'[m][p] # None => buf'[m][p] \in taken'
    BY <1>8, <1>10, <1>14, <1>15 DEF Memory, BufferedBefore
  <2>2. \A m \in Members, p \in Avatar, j \in DOMAIN redis' :
          redis'[j].step = "state" => buf'[m][p] < redis'[j].n
    <3> SUFFICES ASSUME NEW m \in Members, NEW p \in Avatar, NEW j \in DOMAIN redis',
                        redis'[j].step = "state"
                 PROVE  buf'[m][p] < redis'[j].n
      OBVIOUS
    <3>1. PICK k \in DOMAIN redis : k # i /\ redis'[j] = redis[k]
      BY <1>9, <1>13
    <3>2. buf[m][p] < redis[k].n /\ n < redis[k].n
      BY <1>17, <3>1 DEF Memory, BufferedBefore
    <3> QED
      BY <1>10, <1>14, <3>1, <3>2
  <2> QED
    BY <2>1, <2>2 DEF BufferedBefore
<1>19. \A x \in taken : Waiting(x) =>
         \/ Waiting(x)'
         \/ \A p \in Avatar : p \in batches[x].paths =>
              <<x, p>> \in lost' \/ \A m \in joined' : Coming(m, x, p)'
  <2> SUFFICES ASSUME NEW x \in taken, Waiting(x), ~ Waiting(x)',
                      NEW p \in Avatar, p \in batches[x].paths, <<x, p>> \notin lost',
                      NEW m \in joined'
               PROVE  Coming(m, x, p)'
    OBVIOUS
  <2>1. x = n
    BY <1>2, <1>13 DEF Waiting
  <2>2. p \in ps /\ p \in Paths
    BY <1>4, <1>10, <2>1
  <2>3. p \in stable \/ p \in rapid
    BY <1>7, <2>1, <2>2
  <2>4. CASE p \in stable
    BY <1>9, <1>13, <2>1, <2>4 DEF Coming, Holds
  <2>5. CASE p \in rapid
    <3>1. buf'[Src(n)][p] = n /\ Src(n)' = Src(n)
      BY <1>2, <1>8, <1>14, <2>2, <2>5 DEF Src
    <3> QED
      BY <2>1, <3>1 DEF Coming
  <2> QED
    BY <2>3, <2>4, <2>5
<1>20. \A m \in joined \cap joined', p \in Avatar, k \in Received :
         Src(k) # m /\ Coming(m, k, p) =>
           \E l \in Received : l >= k /\ Src(l) = Src(k) /\ Coming(m, l, p)'
  <2> SUFFICES ASSUME NEW m \in joined, NEW p \in Avatar, NEW k \in Received, Coming(m, k, p)
               PROVE  \E l \in Received : l >= k /\ Src(l) = Src(k) /\ Coming(m, l, p)'
    OBVIOUS
  <2>0. k >= k /\ k \in Nat /\ n \in Nat /\ Src(k)' = Src(k) /\ Src(n)' = Src(n)
    BY <1>2, <1>8 DEF Received, Src
  <2>1. CASE k \in got[m][p]
    <3>1. Coming(m, k, p)'
      BY <1>8, <2>1 DEF Coming
    <3> QED
      BY <2>0, <3>1
  <2>2. CASE \E j \in DOMAIN redis : redis[j].step \in {"relay", "flush"} /\ Holds(redis[j], k, p)
    <3>1. Coming(m, k, p)'
      BY <1>2, <1>13, <2>2 DEF Coming, Holds
    <3> QED
      BY <2>0, <3>1
  <2>3. CASE buf[Src(k)][p] = k
    <3>1. Src(k) \in Members
      BY ReceivedValue DEF Inv, Batch, Src
    <3>2. CASE Src(k) = Src(n) /\ p \in rapid
      <4>1. buf'[Src(n)][p] = n
        BY <1>2, <1>10, <1>14, <3>2
      <4>2. Coming(m, n, p)'
        BY <2>0, <4>1 DEF Coming
      <4>3. n >= k
        BY <1>16, <2>0, <2>3, <3>1
      <4> QED
        BY <1>2, <3>2, <4>2, <4>3
    <3>3. CASE ~ (Src(k) = Src(n) /\ p \in rapid)
      <4>1. buf'[Src(k)][p] = k
        BY <1>10, <1>14, <2>3, <3>1, <3>3
      <4>2. Coming(m, k, p)'
        BY <2>0, <4>1 DEF Coming
      <4> QED
        BY <2>0, <4>2
    <3> QED
      BY <3>2, <3>3
  <2> QED
    BY <2>1, <2>2, <2>3 DEF Coming
<1>21. NoneForgotten'
  <2>1. \A m \in joined' : m \in joined /\ snap'[m] = snap[m]
    BY <1>8
  <2>2. \A k \in Received : k \in Received' /\ batches'[k] = batches[k]
    BY <1>8 DEF Received
  <2>3. NoneForgotten /\ lost \subseteq lost' /\ taken' \subseteq Received
    BY <1>7, <1>8, <1>15 DEF Memory
  <2>4. \A x \in taken', p \in Avatar : x \in taken
    BY <1>8
  <2> QED
    BY <1>19, <1>20, <2>1, <2>2, <2>3, <2>4, Remembered
<1>22. Seated' /\ Snapshots'
  BY <1>8, <1>9, <1>13 DEF Memory, Seated, Snapshots
<1> QED
  BY <1>13, <1>18, <1>21, <1>22 DEF Memory

\* A broadcast reaches everyone who has the snapshot.
LEMMA SentOnMemory ==
  ASSUME Inv, Order, Memory, NEW i \in Answered, NEW n \in Received, NEW paths \in SUBSET Paths,
         redis[i].step \in {"relay", "inputs"}, redis[i].n = n,
         redis[i].step = "relay" => redis[i].paths = paths,
         Deliver(Src(n), Sending(n, paths)), NEW c \in Awaiting,
         Continue(i, <<>>) \/ Continue(i, <<c>>),
         c.step = "inputs" /\ c.n = n,
         UNCHANGED <<batches, server, snap, taken, lost>>
  PROVE  Memory'
<1>1. i \in DOMAIN redis /\ redis \in Seq(Awaiting)
  BY DEF Answered, Inv, Typed
<1>2. n # None
  BY DEF Received, None
<1>3. UNCHANGED <<batches, present, joined, buf, snap, taken, lost>>
  BY DEF server
<1>10. \A j \in DOMAIN redis : ~ Ahead(redis[j], c) /\ ~ Alike(redis[j], c) /\ ~ Ahead(c, redis[j])
  BY DEF Ahead, Alike, InputRelay
<1>4. /\ \A j \in DOMAIN redis' :
           redis'[j] = c \/ \E k \in DOMAIN redis : k # i /\ redis'[j] = redis[k]
      /\ \A k \in DOMAIN redis : k # i => \E j \in DOMAIN redis' : redis'[j] = redis[k]
      /\ Alone'
  <2>1. CASE Continue(i, <<>>)
    BY <1>1, <2>1, TakenOut, AloneEnded DEF Order, Memory
  <2>2. CASE Continue(i, <<c>>)
    BY <1>1, <1>10, <2>2, Replaced, AloneGoneOn DEF Order, Memory
  <2> QED
    BY <2>1, <2>2
<1>5. \A m \in Members, p \in Paths :
        /\ got[m][p] \subseteq got'[m][p]
        /\ m \in present /\ m # Src(n) /\ p \in paths => n \in got'[m][p]
  BY <1>2 DEF Deliver, Sending
<1>6. \A m \in joined \cap joined', p \in Avatar, k \in Received :
        Src(k) # m /\ Coming(m, k, p) => k >= k /\ Src(k) = Src(k) /\ Coming(m, k, p)'
  <2> SUFFICES ASSUME NEW m \in joined, NEW p \in Avatar, NEW k \in Received,
                      Src(k) # m, Coming(m, k, p)
               PROVE  Coming(m, k, p)'
    BY DEF Received
  <2>1. m \in Members /\ m \in present /\ p \in Paths /\ Src(k)' = Src(k)
    BY <1>3 DEF Memory, Seated, Inv, Typed, Paths, Src
  <2>2. CASE k \in got[m][p]
    BY <1>5, <2>1, <2>2 DEF Coming
  <2>3. CASE buf[Src(k)][p] = k
    BY <1>3, <2>1, <2>3 DEF Coming
  <2>4. CASE redis[i].step = "relay" /\ Holds(redis[i], k, p)
    <3>1. p \notin Input
      BY RelayAssumption
    <3>2. k = n /\ p \in paths
      BY <2>4, <3>1 DEF Holds
    <3> QED
      BY <1>5, <2>1, <3>2 DEF Coming
  <2>5. CASE \E j \in DOMAIN redis :
               j # i /\ redis[j].step \in {"relay", "flush"} /\ Holds(redis[j], k, p)
    BY <1>4, <2>5 DEF Coming, Holds
  <2> QED
    BY <2>2, <2>3, <2>4, <2>5 DEF Coming
<1>7. NoneForgotten'
  <2>1. \A m \in joined' : m \in joined /\ snap'[m] = snap[m]
    BY <1>3
  <2>2. \A k \in Received : k \in Received' /\ batches'[k] = batches[k]
    BY <1>3 DEF Received
  <2>3. NoneForgotten /\ lost \subseteq lost' /\ taken' \subseteq Received
    BY <1>3 DEF Memory, Order, TakenOK
  <2>4. \A x \in taken', p \in Avatar : x \in taken
    BY <1>3
  <2>5. \A x \in taken : Waiting(x) => Waiting(x)'
    BY <1>2, <1>4 DEF Waiting
  <2> QED
    BY <1>6, <2>1, <2>2, <2>3, <2>4, <2>5, Remembered
<1>8. BufferedBefore'
  BY <1>3, <1>4 DEF Memory, BufferedBefore
<1>9. Seated' /\ Snapshots'
  BY <1>3, <1>4 DEF Memory, Seated, Snapshots
<1> QED
  BY <1>4, <1>7, <1>8, <1>9 DEF Memory

\* Both broadcasts of a handler are such.
LEMMA RelayedMemory ==
  ASSUME Inv, Order, Memory, NEW i \in Answered, Relayed(i) PROVE Memory'
<1>0. PICK n, c : n = redis[i].n /\ c = [step |-> "inputs", n |-> n]
  OBVIOUS
<1> DEFINE paths == redis[i].paths
<1>1. /\ redis[i].step = "relay" /\ redis[i].n = n
      /\ n \in Received /\ n \in Value /\ paths \in SUBSET Paths
  <2>1. i \in DOMAIN redis /\ redis[i].step = "relay" /\ redis[i] \in Awaiting /\ CommandOK(redis[i])
    BY DEF Answered, Relayed, Inv, Typed, Once, Commands
  <2> QED
    BY <1>0, <2>1, ReceivedValue DEF Awaiting, CommandOK, Inv
<1>2. c \in Awaiting /\ c.step = "inputs" /\ c.n = n
  BY <1>0, <1>1 DEF Awaiting
<1>3. /\ Deliver(Src(n), Sending(n, paths)) /\ UNCHANGED <<batches, server, snap, taken, lost>>
  BY <1>0 DEF Relayed
<1>4. Continue(i, <<>>) \/ Continue(i, <<c>>)
  BY <1>0 DEF Relayed, InputsNext
<1> HIDE DEF paths
<1>5. redis[i].step = "relay" => redis[i].paths = paths
  BY DEF paths
<1> QED
  BY <1>1, <1>2, <1>3, <1>4, <1>5, SentOnMemory

LEMMA InputsRelayedMemory ==
  ASSUME Inv, Order, Memory, NEW i \in Answered, InputsRelayed(i) PROVE Memory'
<1>0. PICK n, c : n = redis[i].n /\ c = [step |-> "inputs", n |-> n]
  OBVIOUS
<1>1. redis[i].step = "inputs" /\ redis[i].n = n /\ n \in Received /\ n \in Value
  <2>1. i \in DOMAIN redis /\ redis[i].step = "inputs" /\ CommandOK(redis[i])
    BY DEF Answered, InputsRelayed, Inv, Once, Commands
  <2> QED
    BY <1>0, <2>1, ReceivedValue DEF CommandOK, Inv
<1>2. c \in Awaiting /\ c.step = "inputs" /\ c.n = n
  BY <1>0, <1>1 DEF Awaiting
<1>3. PICK paths : paths = Inputs(n)
  OBVIOUS
<1>4. /\ Deliver(Src(n), Sending(n, paths)) /\ Continue(i, <<>>)
      /\ UNCHANGED <<batches, server, snap, taken, lost>>
  BY <1>0, <1>3 DEF InputsRelayed
<1>5. paths \in SUBSET Paths
  BY <1>1, <1>3, ReceivedValue DEF Inputs, Inv, Batch
<1> QED
  BY <1>1, <1>2, <1>4, <1>5, SentOnMemory

\* A flush sends the values of one sender on, and keeps those of the others.
LEMMA FlushedMemory ==
  ASSUME Inv, Order, Memory, NEW i \in Answered, Flushed(i) PROVE Memory'
<1>0. PICK es : es = redis[i].entries
  OBVIOUS
<1>1. i \in DOMAIN redis /\ redis \in Seq(Awaiting)
  BY DEF Answered, Inv, Typed
<1>2. /\ redis[i].step = "flush" /\ redis[i].entries = es
      /\ redis[i] \in Awaiting /\ CommandOK(redis[i])
  BY <1>0, <1>1 DEF Flushed, Inv, Once, Commands
<1>3. es \in Seq(Entry) /\ es # <<>>
  BY <1>2 DEF Awaiting, CommandOK
<1>4. /\ Head(es) = es[1] /\ Tail(es) \in Seq(Entry)
      /\ \A k \in DOMAIN es : k = 1 \/ (k - 1 \in DOMAIN Tail(es) /\ Tail(es)[k - 1] = es[k])
  BY <1>3
<1>5. PICK c : c = [step |-> "flush", entries |-> Tail(es)]
  OBVIOUS
<1>6. c \in Awaiting /\ c.step = "flush" /\ c.entries = Tail(es)
  BY <1>4, <1>5 DEF Awaiting
<1>7. /\ Deliver(Head(es).src, Head(es).vals)
      /\ Continue(i, IF Tail(es) = <<>> THEN <<>> ELSE <<c>>)
      /\ UNCHANGED <<batches, present, joined, buf, snap, taken, lost>>
  BY <1>0, <1>5 DEF Flushed, server
<1>8. \A j \in DOMAIN redis : ~ Ahead(redis[j], c) /\ ~ Alike(redis[j], c) /\ ~ Ahead(c, redis[j])
  BY <1>6 DEF Ahead, Alike, InputRelay
<1>9. /\ \A j \in DOMAIN redis' :
           redis'[j] = c \/ \E k \in DOMAIN redis : k # i /\ redis'[j] = redis[k]
      /\ \A k \in DOMAIN redis : k # i => \E j \in DOMAIN redis' : redis'[j] = redis[k]
      /\ Tail(es) # <<>> => \E j \in DOMAIN redis' : redis'[j] = c
      /\ Alone'
  <2>1. CASE Tail(es) = <<>>
    BY <1>1, <1>7, <2>1, TakenOut, AloneEnded DEF Order, Memory
  <2>2. CASE Tail(es) # <<>>
    <3>1. Continue(i, <<c>>)
      BY <1>7, <2>2
    <3> QED
      BY <1>1, <1>6, <1>8, <3>1, Replaced, AloneGoneOn DEF Order, Memory
  <2> QED
    BY <2>1, <2>2
<1>10. \A m \in Members, p \in Paths :
         /\ got[m][p] \subseteq got'[m][p]
         /\ m \in present /\ m # es[1].src /\ es[1].vals[p] # None => es[1].vals[p] \in got'[m][p]
  BY <1>4, <1>7 DEF Deliver
<1>11. \A m \in joined \cap joined', p \in Avatar, k \in Received :
         Src(k) # m /\ Coming(m, k, p) => k >= k /\ Src(k) = Src(k) /\ Coming(m, k, p)'
  <2> SUFFICES ASSUME NEW m \in joined, NEW p \in Avatar, NEW k \in Received,
                      Src(k) # m, Coming(m, k, p)
               PROVE  Coming(m, k, p)'
    BY DEF Received
  <2>1. /\ m \in Members /\ m \in present /\ p \in Paths /\ Src(k)' = Src(k)
        /\ k # None
    BY <1>7 DEF Memory, Seated, Inv, Typed, Paths, Src, Received, None
  <2>2. CASE k \in got[m][p]
    BY <1>10, <2>1, <2>2 DEF Coming
  <2>3. CASE buf[Src(k)][p] = k
    BY <1>7, <2>1, <2>3 DEF Coming
  <2>4. CASE Holds(redis[i], k, p)
    <3>1. PICK x \in DOMAIN es : es[x].vals[p] = k
      BY <1>2, <2>4 DEF Holds
    <3>2. Src(k) = es[x].src
      BY <1>2, <2>1, <3>1 DEF CommandOK
    <3>3. CASE x = 1
      BY <1>10, <2>1, <3>1, <3>2, <3>3 DEF Coming
    <3>4. CASE x # 1
      <4>1. x - 1 \in DOMAIN Tail(es) /\ Tail(es)[x - 1].vals[p] = k
        BY <1>4, <3>1, <3>4
      <4>2. Tail(es) # <<>>
        BY <4>1
      <4>3. Holds(c, k, p)
        BY <1>6, <4>1 DEF Holds
      <4> QED
        BY <1>6, <1>9, <4>2, <4>3 DEF Coming, Holds
    <3> QED
      BY <3>3, <3>4
  <2>5. CASE \E j \in DOMAIN redis :
               j # i /\ redis[j].step \in {"relay", "flush"} /\ Holds(redis[j], k, p)
    BY <1>9, <2>5 DEF Coming, Holds
  <2> QED
    BY <2>2, <2>3, <2>4, <2>5 DEF Coming
<1>12. NoneForgotten'
  <2>1. \A m \in joined' : m \in joined /\ snap'[m] = snap[m]
    BY <1>7
  <2>2. \A k \in Received : k \in Received' /\ batches'[k] = batches[k]
    BY <1>7 DEF Received
  <2>3. NoneForgotten /\ lost \subseteq lost' /\ taken' \subseteq Received
    BY <1>7 DEF Memory, Order, TakenOK
  <2>4. \A x \in taken', p \in Avatar : x \in taken
    BY <1>7
  <2>5. \A x \in taken : Waiting(x) => Waiting(x)'
    BY <1>2, <1>9 DEF Waiting
  <2> QED
    BY <1>11, <2>1, <2>2, <2>3, <2>4, <2>5, Remembered
<1>13. BufferedBefore'
  BY <1>6, <1>7, <1>9 DEF Memory, BufferedBefore
<1>14. Seated' /\ Snapshots'
  BY <1>6, <1>7, <1>9 DEF Memory, Seated, Snapshots
<1> QED
  BY <1>9, <1>12, <1>13, <1>14 DEF Memory

LEMMA EnteredMemory ==
  ASSUME Inv, Order, Memory, NEW i \in Answered, Entered(i) PROVE Memory'
<1>1. i \in DOMAIN redis /\ redis \in Seq(Awaiting) /\ redis[i].step = "enter"
  BY DEF Answered, Inv, Typed, Entered
<1>2. PICK m : m = redis[i].who
  OBVIOUS
<1>3. m \in Members /\ m \notin present /\ redis[i].who = m
  <2>1. redis[i] \in Awaiting
    BY <1>1
  <2> QED
    BY <1>1, <1>2, <2>1 DEF Awaiting, Memory, Seated
<1>4. PICK c : c = [step |-> "snapshot", who |-> m]
  OBVIOUS
<1>5. c \in Awaiting /\ c.step = "snapshot" /\ c.who = m
  BY <1>3, <1>4 DEF Awaiting
<1>6. /\ UNCHANGED <<batches, joined, buf, got, snap, taken, lost>>
      /\ \/ Continue(i, <<>>) /\ present' = present
         \/ Continue(i, <<c>>) /\ present' = present \cup {m}
  BY <1>2, <1>4 DEF Entered, seen
<1>7. \A j \in DOMAIN redis : ~ Ahead(redis[j], c) /\ ~ Alike(redis[j], c) /\ ~ Ahead(c, redis[j])
  BY <1>5 DEF Ahead, Alike, InputRelay
<1>8. \A j \in DOMAIN redis : j # i =>
        ~ (c.step \in {"enter", "snapshot"} /\ redis[j].step = c.step /\ redis[j].who = c.who)
  BY <1>3, <1>5 DEF Memory, Seated
<1>9. /\ \A j \in DOMAIN redis' :
           \/ redis'[j] = c /\ present' = present \cup {m}
           \/ \E k \in DOMAIN redis : k # i /\ redis'[j] = redis[k]
      /\ \A k \in DOMAIN redis : k # i => \E j \in DOMAIN redis' : redis'[j] = redis[k]
      /\ Alone'
  <2>1. CASE Continue(i, <<>>)
    BY <1>1, <2>1, TakenOut, AloneEnded DEF Order, Memory
  <2>2. CASE Continue(i, <<c>>) /\ present' = present \cup {m}
    BY <1>1, <1>5, <1>7, <1>8, <2>2, Replaced, AloneGoneOn DEF Order, Memory
  <2> QED
    BY <1>6, <2>1, <2>2
<1>10. NoneForgotten' /\ BufferedBefore'
  BY <1>1, <1>5, <1>6, <1>9, Undisturbed DEF Memory, Received
<1>11. \A k \in DOMAIN redis : k # i /\ redis[k].step = "enter" => redis[k].who # m
  BY <1>1, <1>3 DEF Memory, Alone
<1>12. Seated'
  BY <1>3, <1>5, <1>6, <1>9, <1>11 DEF Memory, Seated
<1> QED
  BY <1>6, <1>9, <1>10, <1>12 DEF Memory, Snapshots

\* The snapshot has the newest value of all that are not waiting for the split.
LEMMA SnapshotMemory ==
  ASSUME Inv, Order, Memory, NEW i \in Answered, Snapshot(i) PROVE Memory'
<1>1. i \in DOMAIN redis /\ redis \in Seq(Awaiting) /\ redis[i].step = "snapshot"
  BY DEF Answered, Inv, Typed, Snapshot
<1>2. PICK m : m = redis[i].who
  OBVIOUS
<1>3. redis[i].who = m /\ m \in present /\ m \in Members
  BY <1>1, <1>2 DEF Memory, Seated, Inv, Typed
<1>4. /\ joined' = joined \cup {m} /\ snap' = [snap EXCEPT ![m] = stored]
      /\ Continue(i, <<>>) /\ UNCHANGED <<batches, present, buf, got, taken, lost>>
  BY <1>2 DEF Snapshot
<1>5. /\ \A j \in DOMAIN redis' : \E k \in DOMAIN redis : k # i /\ redis'[j] = redis[k]
      /\ \A k \in DOMAIN redis : k # i => \E j \in DOMAIN redis' : redis'[j] = redis[k]
      /\ Alone'
  BY <1>1, <1>4, TakenOut, AloneEnded DEF Order, Memory
<1>6. Snapshots' /\ snap'[m] = stored /\ \A k \in joined : k # m => snap'[k] = snap[k]
  BY <1>3, <1>4 DEF Memory, Snapshots, Inv, Typed
<1>7. \A x \in taken : Waiting(x) => Waiting(x)'
  BY <1>1, <1>5 DEF Waiting
<1>8. \A x \in taken', p \in Avatar : p \in batches[x].paths => snap'[m][p] >= x \/ Waiting(x)'
  <2> SUFFICES ASSUME NEW x \in taken, NEW p \in Avatar, p \in batches[x].paths
               PROVE  stored[p] >= x \/ Waiting(x)
    BY <1>4, <1>6, <1>7
  <2>1. x \in Nat /\ p \in Paths
    BY DEF Order, TakenOK, Received, Paths
  <2>2. stored[p] \in Nat
    BY <2>1, RelayAssumption DEF Inv, Typed, Value
  <2> QED
    BY <1>3, <2>1, <2>2 DEF Order, Newest, Waiting
<1>9. NoneForgotten'
  <2>1. \A k \in joined' :
          \/ k \in joined /\ snap'[k] = snap[k]
          \/ \A x \in taken', p \in Avatar :
               p \in batches[x].paths => snap'[k][p] >= x \/ Waiting(x)'
    BY <1>4, <1>6, <1>8
  <2>2. \A k \in Received : k \in Received' /\ batches'[k] = batches[k]
    BY <1>4 DEF Received
  <2>3. NoneForgotten /\ lost \subseteq lost' /\ taken' \subseteq Received
    BY <1>4 DEF Memory, Order, TakenOK
  <2>4. \A x \in taken', p \in Avatar : x \in taken
    BY <1>4
  <2>5. \A k \in joined \cap joined', p \in Avatar, x \in Received :
          Src(x) # k /\ Coming(k, x, p) => x >= x /\ Src(x) = Src(x) /\ Coming(k, x, p)'
    BY <1>1, <1>4, <1>5 DEF Coming, Holds, Received, Src
  <2> QED
    BY <1>7, <2>1, <2>2, <2>3, <2>4, <2>5, Remembered
<1>10. BufferedBefore'
  BY <1>4, <1>5 DEF Memory, BufferedBefore
<1>11. \A k \in DOMAIN redis : k # i /\ redis[k].step = "snapshot" => redis[k].who # m
  BY <1>1, <1>3 DEF Memory, Alone
<1>12. Seated'
  BY <1>3, <1>4, <1>5, <1>11 DEF Memory, Seated
<1> QED
  BY <1>5, <1>6, <1>9, <1>10, <1>12 DEF Memory

LEMMA ReceiveMemory ==
  ASSUME Inv, Order, Memory, NEW m \in Members, NEW paths \in SUBSET Paths, Receive(m, paths)
  PROVE  Memory'
<1>1. PICK n : n = Len(batches) + 1
  OBVIOUS
<1>2. PICK b, c : b = [src |-> m, paths |-> paths] /\ c = [step |-> "session", n |-> n]
  OBVIOUS
<1>3. batches \in Seq(Batch) /\ b \in Batch /\ Len(batches) < MaxBatches /\ redis \in Seq(Awaiting)
  BY <1>2 DEF Inv, Typed, Batch, Receive
<1>4. batches' = Append(batches, b) /\ redis' = Append(redis, c) /\ UNCHANGED <<server, seen>>
  BY <1>1, <1>2 DEF Receive
<1>5. n \in Nat /\ \A k \in Received : batches'[k] = batches[k] /\ k \in Received' /\ k < n
  BY <1>1, <1>3, <1>4 DEF Received
<1>6. c \in Awaiting /\ c.step = "session" /\ c.n = n
  BY <1>1, <1>2, <1>3, RelayAssumption DEF Value, Awaiting
<1>7. \A j \in DOMAIN redis :
        /\ Ahead(redis[j], c) \/ Alike(redis[j], c) => redis[j].n < c.n
        /\ ~ Ahead(c, redis[j])
  <2>1. \A j \in DOMAIN redis : redis[j].step \in {"session", "room", "state", "relay", "inputs"} => redis[j].n < n
    BY <1>5 DEF Inv, Once, Commands, CommandOK
  <2> QED
    BY <1>6, <2>1 DEF Ahead, Alike, InputRelay
<1>8. /\ \A j \in DOMAIN redis' : redis'[j] = c \/ \E k \in DOMAIN redis : redis'[j] = redis[k]
      /\ \A k \in DOMAIN redis : \E j \in DOMAIN redis' : redis'[j] = redis[k]
      /\ Alone'
  BY <1>3, <1>4, <1>6, <1>7, Appended, AloneAppended DEF Order, Memory
<1>9. UNCHANGED <<present, joined, buf, got, snap, taken, lost>>
  BY <1>4 DEF server, seen
<1>10. NoneForgotten' /\ BufferedBefore'
  BY <1>5, <1>6, <1>8, <1>9, Undisturbed DEF Memory
<1>11. Seated' /\ Snapshots'
  BY <1>6, <1>8, <1>9 DEF Memory, Seated, Snapshots
<1> QED
  BY <1>8, <1>10, <1>11 DEF Memory

LEMMA JoinMemory ==
  ASSUME Inv, Order, Memory, NEW m \in Members, Join(m) PROVE Memory'
<1>1. PICK c : c = [step |-> "enter", who |-> m]
  OBVIOUS
<1>2. c \in Awaiting /\ c.step = "enter" /\ c.who = m /\ redis \in Seq(Awaiting) /\ m \notin present
  BY <1>1 DEF Awaiting, Inv, Typed, Join
<1>3. redis' = Append(redis, c) /\ UNCHANGED <<batches, present, joined, buf, got, snap, taken, lost>>
  BY <1>1 DEF Join, server, seen
<1>4. \A j \in DOMAIN redis : ~ Ahead(redis[j], c) /\ ~ Alike(redis[j], c) /\ ~ Ahead(c, redis[j])
  BY <1>2 DEF Ahead, Alike, InputRelay
<1>5. \A j \in DOMAIN redis :
        ~ (c.step \in {"enter", "snapshot"} /\ redis[j].step = c.step /\ redis[j].who = c.who)
  BY <1>2 DEF Join
<1>6. /\ \A j \in DOMAIN redis' : redis'[j] = c \/ \E k \in DOMAIN redis : redis'[j] = redis[k]
      /\ \A k \in DOMAIN redis : \E j \in DOMAIN redis' : redis'[j] = redis[k]
      /\ Alone'
  BY <1>2, <1>3, <1>4, <1>5, Appended, AloneAppended DEF Order, Memory
<1>7. NoneForgotten' /\ BufferedBefore'
  BY <1>2, <1>3, <1>6, Undisturbed DEF Memory, Received
<1>8. Seated' /\ Snapshots'
  BY <1>2, <1>3, <1>6 DEF Memory, Seated, Snapshots
<1> QED
  BY <1>6, <1>7, <1>8 DEF Memory

\* With the last member there is nobody left who could miss a value.
LEMMA LeaveMemory ==
  ASSUME Inv, Order, Memory, NEW m \in Members, Leave(m) PROVE Memory'
<1>1. /\ UNCHANGED <<batches, redis, got, snap, taken, lost>>
      /\ present' = present \ {m} /\ joined' = joined \ {m} /\ m \in joined
  BY DEF Leave, seen
<1>2. Seated' /\ Alone' /\ Snapshots'
  BY <1>1 DEF Memory, Seated, Alone, Snapshots
<1>3. CASE present = {m}
  <2>1. joined' = {}
    BY <1>1, <1>3 DEF Memory, Seated
  <2>2. NoneForgotten'
    BY <2>1 DEF NoneForgotten
  <2>3. \A k \in Members, p \in Avatar : buf'[k][p] = None
    BY <1>3 DEF Leave, NoValues, Paths
  <2>4. \A j \in DOMAIN redis : redis[j].step = "state" => None < redis[j].n
    BY DEF Inv, Once, Commands, CommandOK, Received, None
  <2>5. BufferedBefore'
    BY <1>1, <2>3, <2>4 DEF BufferedBefore
  <2> QED
    BY <1>2, <2>2, <2>5 DEF Memory
<1>4. CASE present # {m}
  <2>1. UNCHANGED buf /\ joined' \subseteq joined
    BY <1>1, <1>4 DEF Leave
  <2>2. NoneForgotten' /\ BufferedBefore'
    BY <1>1, <2>1, Undisturbed DEF Memory, Received
  <2> QED
    BY <1>2, <2>2 DEF Memory
<1> QED
  BY <1>3, <1>4

LEMMA StillMemory ==
  ASSUME Inv, Order, Memory, UNCHANGED <<batches, redis, present, joined, buf, got, snap, taken, lost>>
  PROVE  Memory'
<1>1. NoneForgotten' /\ BufferedBefore'
  BY Undisturbed DEF Memory, Received
<1> QED
  BY <1>1 DEF Memory, Seated, Alone, Snapshots

\* A flush takes along whatever the buffer has: its order has every sender.
LEMMA EverySender ==
  ASSUME NEW S, IsFiniteSet(S), NEW order \in SetToSeqs(S)
  PROVE  \A m \in S : \E k \in DOMAIN order : order[k] = m
<1>1. PICK D : D = 1 .. Cardinality(S)
  OBVIOUS
<1>2. order \in [D -> S] /\ \A j, k \in D : order[j] = order[k] => j = k
  BY <1>1 DEF SetToSeqs
<1>3. order \in Injection(D, S)
  BY <1>2 DEF Injection, IsInjective
<1>4. Cardinality(D) = Cardinality(S)
  BY <1>1, FS_CardinalityType, FS_Interval
<1>5. order \in Surjection(D, S)
  BY <1>3, <1>4, FS_Injection
<1> QED
  BY <1>2, <1>5 DEF Surjection

LEMMA FlushMemory == Inv /\ Order /\ Memory /\ Flush => Memory'
<1> SUFFICES ASSUME Inv, Order, Memory, Flush PROVE Memory'
  OBVIOUS
<1>1. PICK order \in SetToSeqs(Buffering) :
        redis' = IF order = <<>> THEN redis
                 ELSE Append(redis, [step |-> "flush", entries |-> Drained(order)])
  BY DEF Flush, Drain
<1>2. UNCHANGED <<batches, present, joined, got, snap, taken, lost>>
  BY DEF Flush, seen
<1>3. \A m \in Members, p \in Paths : buf'[m][p] = None
  BY DEF Flush, Drain, NoValues
<1>4. \A m \in Buffering : \E k \in DOMAIN order : order[k] = m
  <2>1. IsFiniteSet(Buffering)
    BY RelayAssumption, FS_Subset DEF Buffering
  <2> QED
    BY <2>1, EverySender
<1>5. PICK c : c = [step |-> "flush", entries |-> Drained(order)]
  OBVIOUS
<1>6. /\ \A j \in DOMAIN redis' : redis'[j] = c \/ \E k \in DOMAIN redis : redis'[j] = redis[k]
      /\ \A k \in DOMAIN redis : \E j \in DOMAIN redis' : redis'[j] = redis[k]
      /\ order # <<>> => \E j \in DOMAIN redis' : redis'[j] = c
      /\ Alone'
  <2>1. CASE redis' = redis /\ order = <<>>
    BY <2>1 DEF Memory, Alone
  <2>2. CASE redis' # redis \/ order # <<>>
    <3>1. redis' = Append(redis, c) /\ redis \in Seq(Awaiting)
      BY <1>1, <1>5, <2>2 DEF Inv, Typed
    <3>2. redis'[Len(redis) + 1] = c /\ Len(redis) + 1 \in DOMAIN redis'
      BY <3>1
    <3>3. c \in Awaiting
      BY <3>2, FlushInv DEF Inv, Typed
    <3>4. c.step = "flush"
      BY <1>5
    <3>5. \A j \in DOMAIN redis : ~ Ahead(redis[j], c) /\ ~ Alike(redis[j], c) /\ ~ Ahead(c, redis[j])
      BY <3>4 DEF Ahead, Alike, InputRelay
    <3> QED
      BY <3>1, <3>2, <3>3, <3>4, <3>5, Appended, AloneAppended DEF Order, Memory
  <2> QED
    BY <1>1, <2>1, <2>2
<1>7. c.step = "flush" /\ c.entries = Drained(order)
  BY <1>5
<1>8. \A m \in joined \cap joined', p \in Avatar, k \in Received :
        Src(k) # m /\ Coming(m, k, p) => k >= k /\ Src(k) = Src(k) /\ Coming(m, k, p)'
  <2> SUFFICES ASSUME NEW m \in joined, NEW p \in Avatar, NEW k \in Received, Coming(m, k, p)
               PROVE  Coming(m, k, p)'
    BY DEF Received
  <2>1. CASE k \in got[m][p] \/ \E j \in DOMAIN redis :
               redis[j].step \in {"relay", "flush"} /\ Holds(redis[j], k, p)
    BY <1>2, <1>6, <2>1 DEF Coming, Holds
  <2>2. CASE buf[Src(k)][p] = k
    <3>1. Src(k) \in Members /\ p \in Paths /\ k # None
      BY ReceivedValue DEF Inv, Batch, Src, Paths, Received, None
    <3>2. buf[Src(k)] # NoValues
      BY <2>2, <3>1 DEF NoValues
    <3>3. PICK x \in DOMAIN order : order[x] = Src(k)
      BY <1>4, <3>1, <3>2 DEF Buffering
    <3>4. x \in DOMAIN c.entries /\ c.entries[x].vals[p] = k
      BY <1>7, <2>2, <3>3 DEF Drained
    <3>5. order # <<>>
      BY <3>3
    <3> QED
      BY <1>6, <1>7, <3>4, <3>5 DEF Coming, Holds
  <2> QED
    BY <2>1, <2>2 DEF Coming
<1>9. NoneForgotten'
  <2>1. \A m \in joined' : m \in joined /\ snap'[m] = snap[m]
    BY <1>2
  <2>2. \A k \in Received : k \in Received' /\ batches'[k] = batches[k]
    BY <1>2 DEF Received
  <2>3. NoneForgotten /\ lost \subseteq lost' /\ taken' \subseteq Received
    BY <1>2 DEF Memory, Order, TakenOK
  <2>4. \A x \in taken', p \in Avatar : x \in taken
    BY <1>2
  <2>5. \A x \in taken : Waiting(x) => Waiting(x)'
    BY <1>6 DEF Waiting
  <2> QED
    BY <1>8, <2>1, <2>2, <2>3, <2>4, <2>5, Remembered
<1>10. BufferedBefore'
  <2>1. \A j \in DOMAIN redis : redis[j].step = "state" => None < redis[j].n
    BY DEF Inv, Once, Commands, CommandOK, Received, None
  <2> QED
    BY <1>2, <1>3, <1>6, <1>7, <2>1 DEF BufferedBefore, Paths
<1>11. Seated' /\ Snapshots'
  BY <1>2, <1>6, <1>7 DEF Memory, Seated, Snapshots
<1> QED
  BY <1>6, <1>9, <1>10, <1>11 DEF Memory

LEMMA MemoryNext == Inv /\ Order /\ Memory /\ [Next]_vars => Memory'
<1> SUFFICES ASSUME Inv, Order, Memory, [Next]_vars PROVE Memory'
  OBVIOUS
<1>1. ASSUME NEW m \in Members, NEW ps \in (SUBSET Paths) \ {{}}, Receive(m, ps) PROVE Memory'
  BY <1>1, ReceiveMemory
<1>3. ASSUME NEW m \in Members, Join(m) \/ Leave(m) PROVE Memory'
  BY <1>3, JoinMemory, LeaveMemory
<1>4. ASSUME NEW i \in Answered, Reply(i) PROVE Memory'
  BY <1>4, SessionReadMemory, RoomReadMemory, StateWrittenMemory, RelayedMemory,
     InputsRelayedMemory, FlushedMemory, EnteredMemory, SnapshotMemory DEF Reply
<1>5. CASE Flush
  BY <1>5, FlushMemory
<1>6. CASE Tick \/ UNCHANGED vars
  BY <1>6, StillMemory DEF Tick, vars, server, seen
<1> QED
  BY <1>1, <1>3, <1>4, <1>5, <1>6 DEF Next

\* The server forgets no avatar value on its way, whatever number of members,
\* parameters and batches there is: who is in the room has it or a newer one of
\* its sender, or what will bring one is on its way, or the split's two looks at
\* the clock have lost it.  That what is on its way arrives is left to fairness.
THEOREM NoValueIsForgotten == Spec => []NoneForgotten
<1>1. Init => Memory
  <2> SUFFICES ASSUME Init PROVE Memory
    OBVIOUS
  <2>1. Snapshots
    BY RelayAssumption DEF Init, Snapshots, NoValues, Value, None
  <2>2. Seated /\ Alone /\ BufferedBefore /\ NoneForgotten
    BY DEF Init, Seated, Alone, BufferedBefore, NoneForgotten, NoValues, Paths
  <2> QED
    BY <2>1, <2>2 DEF Memory
<1>2. Memory => NoneForgotten
  BY DEF Memory
<1> QED
  BY <1>1, <1>2, MemoryNext, OrderAlways, PTL DEF Spec

=============================================================================

--------------------------- MODULE TrackerPipe_proofs ---------------------------
(***************************************************************************)
(* The pipe that is open is the one the client writes to, for any number   *)
(* of sockets, retries and messages.                                       *)
(***************************************************************************)
EXTENDS TrackerPipe, TLAPS

States == {"unused", "opening", "open", "ended", "destroyed"}

\* The part of the types the invariant needs.
Typed ==
  /\ ready \in [Socks -> States]
  /\ socket \in Socks \cup {Nil}
  /\ connected \in BOOLEAN /\ connecting \in BOOLEAN

\* An open socket is the client's and the one the driver serves.
OpenServed ==
  \A k \in Socks : ready[k] = "open" =>
    socket = k /\ served = k /\ phase \in {"accepted", "serve"}

\* A socket whose end the client has not been told of is still the client's.
EndedHeld == \A k \in Socks : ready[k] = "ended" => socket = k

\* At most one attempt at a time, and none while there is a connection.
OneAttempt ==
  /\ socket = Nil <=> ~ connected
  /\ \A k \in Socks : ready[k] = "opening" => connecting /\ ~ connected
  /\ \A j, k \in Socks : ready[j] = "opening" /\ ready[k] = "opening" => j = k

\* No connection begins before the sockets the client has destroyed have
\* reported it.
OldFirst ==
  \A j, k \in Socks : ready[j] = "destroyed" => ready[k] \notin {"open", "ended"}

Inv == Typed /\ OpenServed /\ EndedHeld /\ OneAttempt /\ OldFirst

-----------------------------------------------------------------------------

\* A new attempt keeps the invariant.
LEMMA AttemptInv ==
  ASSUME Inv, NEW w, Attempt(w), ~ connected, ~ connecting,
         socket' = socket, connected' = connected, served' = served, phase' = phase
  PROVE  Inv'
<1>1. PICK k \in Socks : ready[k] = "unused" /\ ready' = [ready EXCEPT ![k] = "opening"]
  BY DEF Attempt
<1>2. connecting' = TRUE
  BY DEF Attempt
<1>3. \A j \in Socks : ready[j] # "opening"
  BY DEF Inv, OneAttempt
<1>4. \A j \in Socks : ready'[j] = IF j = k THEN "opening" ELSE ready[j]
  BY <1>1 DEF Inv, Typed
<1>5. Typed' /\ OpenServed' /\ EndedHeld' /\ OldFirst'
  BY <1>1, <1>2, <1>4 DEF Inv, Typed, OpenServed, EndedHeld, OldFirst, States
<1>6. OneAttempt'
  BY <1>2, <1>3, <1>4 DEF Inv, OneAttempt
<1> QED
  BY <1>5, <1>6 DEF Inv

\* So does everything that leaves the connection alone.
LEMMA QuietInv ==
  ASSUME Inv, NoAttempt,
         socket' = socket, connected' = connected, served' = served, phase' = phase
  PROVE  Inv'
BY DEF NoAttempt, Inv, Typed, OpenServed, EndedHeld, OneAttempt, OldFirst

\* connectWithRetry keeps the invariant.
LEMMA RetryInv ==
  ASSUME Inv, NEW i, NEW n, Retry(i, n),
         socket' = socket, connected' = connected, served' = served, phase' = phase
  PROVE  Inv'
<1>1. NoAttempt \/ (~ connected /\ ~ connecting /\ Attempt(i))
  BY DEF Retry
<1> QED
  BY <1>1, QuietInv, AttemptInv

\* The client's own steps keep the invariant.
LEMMA ClientInv ==
  ASSUME ~ LateClose, Inv,
         ClientStep \/ SwitchOn \/ SwitchOff \/ Restart
  PROVE  Inv'
<1>1. ASSUME NEW i \in Loops, RetryAgain(i) PROVE Inv'
  BY <1>1, RetryInv DEF RetryAgain, driver
<1>2. CASE TimerFires
  <2>1. NoAttempt \/ (~ connected /\ ~ connecting /\ Attempt("timer"))
    BY <1>2 DEF TimerFires
  <2> QED
    BY <1>2, <2>1, QuietInv, AttemptInv DEF TimerFires, driver
<1>3. ASSUME NEW k \in Socks, Connects(k) PROVE Inv'
  <2>1. /\ ready[k] = "opening" /\ phase = "listen"
        /\ \A j \in Socks : ready[j] # "destroyed"
        /\ ready' = [ready EXCEPT ![k] = "open"]
        /\ socket' = k /\ connected' = TRUE /\ connecting' = FALSE
        /\ phase' = "accepted" /\ served' = k
    BY <1>3 DEF Connects
  <2>2. \A j \in Socks : ready'[j] = IF j = k THEN "open" ELSE ready[j]
    BY <2>1 DEF Inv, Typed
  <2>3. \A j \in Socks : ready[j] \notin {"open", "ended"}
    BY <2>1, PipeAssumption DEF Inv, Typed, OpenServed, EndedHeld, OneAttempt
  <2>4. \A j \in Socks : j # k => ready[j] # "opening"
    BY <2>1 DEF Inv, OneAttempt
  <2>5. Typed'
    BY <2>1 DEF Inv, Typed, States
  <2>6. OpenServed' /\ EndedHeld' /\ OldFirst'
    BY <2>1, <2>2, <2>3 DEF OpenServed, EndedHeld, OldFirst
  <2>7. OneAttempt'
    BY <2>1, <2>2, <2>4, PipeAssumption DEF OneAttempt
  <2> QED
    BY <2>5, <2>6, <2>7 DEF Inv
<1>4. ASSUME NEW k \in Socks, Refused(k) PROVE Inv'
  <2>1. /\ ready[k] = "opening" /\ ready' = [ready EXCEPT ![k] = "unused"]
        /\ connecting' = FALSE /\ connected' = connected /\ socket' = socket
        /\ served' = served /\ phase' = phase
    BY <1>4 DEF Refused, driver
  <2>2. \A j \in Socks : ready'[j] = IF j = k THEN "unused" ELSE ready[j]
    BY <2>1 DEF Inv, Typed
  <2> QED
    BY <2>1, <2>2 DEF Inv, Typed, OpenServed, EndedHeld, OneAttempt, OldFirst, States
<1>5. ASSUME NEW k \in Socks, Closed(k) PROVE Inv'
  <2>1. /\ ready[k] \in {"ended", "destroyed"} /\ ready' = [ready EXCEPT ![k] = "unused"]
        /\ connected' = FALSE /\ socket' = Nil /\ connecting' = connecting
        /\ served' = served /\ phase' = phase
    BY <1>5 DEF Closed, driver
  <2>2. \A j \in Socks : ready'[j] = IF j = k THEN "unused" ELSE ready[j]
    BY <2>1 DEF Inv, Typed
  <2>3. \A j \in Socks : ready'[j] \notin {"open", "ended"}
    BY <2>1, <2>2 DEF Inv, OpenServed, EndedHeld, OldFirst
  <2> QED
    BY <2>1, <2>2, <2>3 DEF Inv, Typed, OpenServed, EndedHeld, OneAttempt, OldFirst, States
<1>6. CASE SwitchOn
  BY <1>6, RetryInv DEF SwitchOn, driver
<1>7. CASE SwitchOff
  <2>1. connecting' = connecting /\ served' = served /\ phase' = phase
    BY <1>7 DEF SwitchOff, driver
  <2>2. CASE socket = Nil
    BY <1>7, <2>1, <2>2 DEF SwitchOff, Inv, Typed, OpenServed, EndedHeld, OneAttempt, OldFirst
  <2>3. CASE socket # Nil
    <3>1. socket' = Nil /\ connected' = FALSE /\ ready' = [ready EXCEPT ![socket] = "destroyed"]
      BY <1>7, <2>3 DEF SwitchOff
    <3>2. \A j \in Socks : ready'[j] = IF j = socket THEN "destroyed" ELSE ready[j]
      BY <2>3, <3>1 DEF Inv, Typed
    <3>3. \A j \in Socks : ready'[j] \notin {"open", "ended"}
      BY <3>2 DEF Inv, OpenServed, EndedHeld
    <3>4. Typed'
      BY <2>1, <3>1 DEF Inv, Typed, States
    <3>5. OneAttempt'
      BY <2>1, <3>1, <3>2 DEF Inv, OneAttempt
    <3> QED
      BY <3>3, <3>4, <3>5 DEF Inv, OpenServed, EndedHeld, OldFirst
  <2> QED
    BY <2>2, <2>3
<1>8. CASE Restart
  BY <1>8 DEF Restart, Inv, Typed, OpenServed, EndedHeld, OneAttempt, OldFirst, States
<1> QED
  BY <1>1, <1>2, <1>3, <1>4, <1>5, <1>6, <1>7, <1>8 DEF ClientStep

\* The driver's closing of its end keeps the invariant.
LEMMA HangupInv ==
  ASSUME Inv, Hangup, served' = Nil, socket' = socket,
         connected' = connected, connecting' = connecting
  PROVE  Inv'
<1>1. \A k \in Socks : ready'[k] = IF k = served /\ ready[k] = "open" THEN "ended" ELSE ready[k]
  BY DEF Hangup
<1>2. \A k \in Socks : ready[k] = "open" => k = served /\ socket = k
  BY DEF Inv, OpenServed
<1>3. Typed'
  BY <1>1 DEF Hangup, Inv, Typed, States
<1>4. OpenServed' /\ EndedHeld'
  BY <1>1, <1>2 DEF Inv, OpenServed, EndedHeld
<1>5. OneAttempt' /\ OldFirst'
  BY <1>1 DEF Inv, OneAttempt, OldFirst
<1> QED
  BY <1>3, <1>4, <1>5 DEF Inv

\* The driver's steps keep the invariant.
LEMMA DriverInv ==
  ASSUME Inv, DriverStep \/ Started \/ Stop \/ Dummy \/ Join \/ Dies PROVE Inv'
<1>1. CASE CheckRunning \/ CreatePipe \/ Started \/ Stop \/ Dummy \/ Join
  <2>1. /\ ready' = ready /\ socket' = socket /\ connected' = connected
        /\ connecting' = connecting /\ served' = served
        /\ phase \in {"accepted", "serve"} => phase' = phase
    BY <1>1 DEF CheckRunning, CreatePipe, Started, Stop, Dummy, Join, client
  <2> QED
    BY <2>1 DEF Inv, Typed, OpenServed, EndedHeld, OneAttempt, OldFirst
<1>2. CASE Accept
  <2>1. socket' = socket /\ connected' = connected /\ connecting' = connecting
    BY <1>2 DEF Accept, client
  <2>2. CASE running
    BY <1>2, <2>1, <2>2 DEF Accept, Inv, Typed, OpenServed, EndedHeld, OneAttempt, OldFirst
  <2>3. CASE ~ running
    BY <1>2, <2>1, <2>3, HangupInv DEF Accept
  <2> QED
    BY <2>2, <2>3
<1>3. CASE ReadMessage
  <2>1. socket' = socket /\ connected' = connected /\ connecting' = connecting
    BY <1>3 DEF ReadMessage, client
  <2>2. CASE running
    BY <1>3, <2>1, <2>2 DEF ReadMessage, Inv, Typed, OpenServed, EndedHeld, OneAttempt, OldFirst
  <2>3. CASE ~ running
    BY <1>3, <2>1, <2>3, HangupInv DEF ReadMessage, EndClient
  <2> QED
    BY <2>2, <2>3
<1>4. CASE ReadFails
  BY <1>4, HangupInv DEF ReadFails, EndClient, client
<1>5. CASE Dies
  BY <1>5, HangupInv DEF Dies, client
<1> QED
  BY <1>1, <1>2, <1>3, <1>4, <1>5 DEF DriverStep

\* The invariant holds for ever, as long as close events come in order.
LEMMA InvAlways == ~ LateClose => (Spec => []Inv)
<1> SUFFICES ASSUME ~ LateClose PROVE Spec => []Inv
  OBVIOUS
<1>1. Init => Inv
  BY PipeAssumption DEF Init, Inv, Typed, OpenServed, EndedHeld, OneAttempt, OldFirst, States
<1>2. Inv /\ [Next]_vars => Inv'
  <2> SUFFICES ASSUME Inv, [Next]_vars PROVE Inv'
    OBVIOUS
  <2>1. ASSUME NEW m, NEW e, NEW k, Write(m, e, k) PROVE Inv'
    BY <2>1 DEF Write, client, driver, Inv, Typed, OpenServed, EndedHeld, OneAttempt, OldFirst
  <2>2. CASE (\E s \in SUBSET Slots : SendTrackers(s)) \/ SendOrigin
    BY <2>1, <2>2 DEF SendTrackers, SendOrigin
  <2>3. CASE UNCHANGED vars
    BY <2>3 DEF vars, client, driver, Inv, Typed, OpenServed, EndedHeld, OneAttempt, OldFirst
  <2> QED
    BY <2>2, <2>3, ClientInv, DriverInv DEF Next
<1> QED
  BY <1>1, <1>2, PTL DEF Spec

-----------------------------------------------------------------------------

\* However often receiving is switched, retries overlap, SteamVR ends or the
\* application does: an open pipe is the client's (attemptConnect, disconnect,
\* handleDisconnect), so none is leaked.
THEOREM NoPipeLeaked == ~ LateClose => (Spec => []OpenIsHeld)
<1>1. Inv => OpenIsHeld
  BY DEF Inv, OpenServed, OpenIsHeld
<1> QED
  BY <1>1, InvAlways, PTL

-----------------------------------------------------------------------------
(* What the driver shows.                                                  *)

Messages == Pose \cup {Reset}

\* The trackers the driver is to show.
expected == newest \cup spared

\* A message that the driver handles, and what it makes of the trackers.
Shows(m) == m.kind = "reset" \/ m.slots # {}
Shown(m) == IF m.kind = "reset" THEN {} ELSE m.slots

\* The newest message handled, or in the pipe and to be handled, is the one
\* expected tells of.
Newest ==
  /\ (\A i \in 1..Len(pipe) : ~ Shows(pipe[i])) => valid = expected
  /\ \A i \in 1..Len(pipe) :
       Shows(pipe[i]) /\ (\A j \in 1..Len(pipe) : i < j => ~ Shows(pipe[j]))
         => expected = Shown(pipe[i])

\* While nobody is served no tracker has a pose; the served end is a socket,
\* unless Cleanup has come with its dummy connection.
Serving ==
  /\ pipe \in Seq(Messages)
  /\ phase # "serve" => valid = {}
  /\ phase = "serve" \/ (phase = "accepted" /\ running) => served \in Socks
  /\ cleanup # Nil => ~ running /\ phase # "down"

OpenNewest == \A k \in Socks : ready[k] = "open" => Newest

Follow == Inv /\ Serving /\ OpenNewest

\* Writing a message keeps the newest one.
LEMMA AppendNewest ==
  ASSUME pipe \in Seq(Messages), Newest, NEW m \in Messages, pipe' = Append(pipe, m),
         valid' = valid, expected' = IF Shows(m) THEN Shown(m) ELSE expected
  PROVE  Newest'
<1>1. Len(pipe') = Len(pipe) + 1 /\ pipe'[Len(pipe) + 1] = m /\ Len(pipe) \in Nat
      /\ \A i \in 1..Len(pipe) : pipe'[i] = pipe[i]
  OBVIOUS
<1>2. CASE Shows(m)
  BY <1>1, <1>2 DEF Newest
<1>3. CASE ~ Shows(m)
  BY <1>1, <1>3 DEF Newest
<1> QED
  BY <1>2, <1>3

\* So does handling one.
LEMMA TailNewest ==
  ASSUME pipe \in Seq(Messages), Newest, pipe # <<>>, pipe' = Tail(pipe),
         valid' = Handled(Head(pipe)), expected' = expected
  PROVE  Newest'
<1>1. /\ Len(pipe) \in Nat \ {0} /\ Len(pipe') = Len(pipe) - 1 /\ Head(pipe) = pipe[1]
      /\ \A i \in 1..Len(pipe') : pipe'[i] = pipe[i + 1]
  OBVIOUS
<1>2. \A i \in 2..Len(pipe) : i - 1 \in 1..Len(pipe') /\ pipe'[i - 1] = pipe[i]
  BY <1>1
<1>3. ASSUME \A i \in 1..Len(pipe') : ~ Shows(pipe'[i]) PROVE valid' = expected'
  <2>1. \A i \in 2..Len(pipe) : ~ Shows(pipe[i])
    BY <1>2, <1>3
  <2>2. CASE Shows(pipe[1])
    <3>1. expected = Shown(pipe[1])
      BY <1>1, <2>1, <2>2 DEF Newest
    <3> QED
      BY <1>1, <2>2, <3>1 DEF Shows, Shown, Handled
  <2>3. CASE ~ Shows(pipe[1])
    <3>1. \A i \in 1..Len(pipe) : ~ Shows(pipe[i])
      BY <1>1, <2>1, <2>3
    <3> QED
      BY <1>1, <2>3, <3>1 DEF Newest, Shows, Handled
  <2> QED
    BY <2>2, <2>3
<1>4. ASSUME NEW i \in 1..Len(pipe'), Shows(pipe'[i]),
             \A j \in 1..Len(pipe') : i < j => ~ Shows(pipe'[j])
      PROVE  expected' = Shown(pipe'[i])
  <2>1. i + 1 \in 1..Len(pipe) /\ Shows(pipe[i + 1])
    BY <1>1, <1>4
  <2>2. ASSUME NEW j \in 1..Len(pipe), i + 1 < j PROVE ~ Shows(pipe[j])
    <3>1. j \in 2..Len(pipe) /\ i < j - 1
      BY <1>1, <2>2
    <3> QED
      BY <1>2, <1>4, <3>1
  <2> QED
    BY <1>1, <2>1, <2>2 DEF Newest
<1> QED
  BY <1>3, <1>4 DEF Newest

\* The client's steps.
LEMMA ClientFollow ==
  ASSUME ~ LateClose, Follow, ClientStep \/ SwitchOn \/ SwitchOff \/ Restart
  PROVE  Serving' /\ OpenNewest'
<1> USE DEF Follow
<1>1. ASSUME UNCHANGED <<driver, pipe, history>>,
             \A k \in Socks : ready'[k] = "open" => ready[k] = "open"
      PROVE  Serving' /\ OpenNewest'
  BY <1>1 DEF driver, history, expected, Serving, OpenNewest, Newest
<1>2. ASSUME NEW w, Attempt(w) PROVE \A k \in Socks : ready'[k] = "open" => ready[k] = "open"
  BY <1>2 DEF Attempt, Inv, Typed
<1>3. ASSUME NEW i, NEW n, Retry(i, n) PROVE \A k \in Socks : ready'[k] = "open" => ready[k] = "open"
  BY <1>2, <1>3 DEF Retry, NoAttempt
<1>4. ASSUME NEW i \in Loops, RetryAgain(i) PROVE Serving' /\ OpenNewest'
  BY <1>1, <1>3, <1>4 DEF RetryAgain
<1>5. CASE TimerFires
  BY <1>1, <1>2, <1>5 DEF TimerFires, NoAttempt
<1>6. ASSUME NEW k \in Socks, Connects(k) PROVE Serving' /\ OpenNewest'
  <2>1. /\ phase = "listen" /\ phase' = "accepted" /\ served' = k /\ pipe' = <<>>
        /\ expected' = {} /\ valid' = valid /\ running' = running /\ cleanup' = cleanup
    BY <1>6 DEF Connects, expected
  <2> QED
    BY <2>1 DEF Serving, OpenNewest, Newest
<1>7. ASSUME NEW k \in Socks, Refused(k) PROVE Serving' /\ OpenNewest'
  BY <1>1, <1>7 DEF Refused, Inv, Typed
<1>8. ASSUME NEW k \in Socks, Closed(k) PROVE Serving' /\ OpenNewest'
  BY <1>1, <1>8 DEF Closed, Inv, Typed
<1>9. CASE SwitchOn
  BY <1>1, <1>3, <1>9 DEF SwitchOn
<1>10. CASE SwitchOff
  <2>1. CASE socket = Nil
    BY <1>1, <1>10, <2>1 DEF SwitchOff
  <2>2. CASE socket # Nil
    <3>1. \A k \in Socks : ready'[k] # "open"
      BY <1>10, <2>2 DEF SwitchOff, Inv, Typed, OpenServed
    <3>2. pipe' \in Seq(Messages)
      BY <1>10, <2>2 DEF SwitchOff, Serving, Messages
    <3> QED
      BY <1>10, <3>1, <3>2 DEF SwitchOff, driver, Serving, OpenNewest
  <2> QED
    BY <2>1, <2>2
<1>11. CASE Restart
  BY <1>1, <1>11 DEF Restart
<1> QED
  BY <1>4, <1>5, <1>6, <1>7, <1>8, <1>9, <1>10, <1>11 DEF ClientStep

\* A message written by the client.
LEMMA WriteFollow ==
  ASSUME Follow, NEW m \in Messages, NEW shown, NEW kept, Write(m, shown, kept),
         (shown \cup kept) = IF Shows(m) THEN Shown(m) ELSE expected
  PROVE  Serving' /\ OpenNewest'
<1>1. UNCHANGED <<ready, driver>>
  BY DEF Write
<1>2. CASE UNCHANGED <<pipe, history>>
  BY <1>1, <1>2 DEF Follow, driver, history, expected, Serving, OpenNewest, Newest
<1>3. CASE /\ socket \in Socks /\ ready[socket] = "open" /\ pipe' = Append(pipe, m)
           /\ newest' = shown /\ spared' = kept
  <2>1. Newest /\ pipe \in Seq(Messages)
    BY <1>3 DEF Follow, OpenNewest, Serving
  <2>2. expected' = IF Shows(m) THEN Shown(m) ELSE expected
    BY <1>3 DEF expected
  <2>3. Newest'
    BY <1>1, <1>3, <2>1, <2>2, AppendNewest DEF driver
  <2> QED
    BY <1>1, <1>3, <2>1, <2>3 DEF Follow, driver, Serving, OpenNewest
<1> QED
  BY <1>2, <1>3 DEF Write, Follow, Inv, Typed

\* The driver's steps.
LEMMA DriverFollow ==
  ASSUME Follow, DriverStep \/ Started \/ Stop \/ Dummy \/ Join \/ Dies
  PROVE  Serving' /\ OpenNewest'
<1> USE DEF Follow
<1>1. ASSUME Hangup PROVE \A k \in Socks : ready'[k] # "open"
  BY <1>1 DEF Hangup, Inv, OpenServed
<1>2. CASE CheckRunning \/ CreatePipe \/ Started \/ Stop \/ Dummy \/ Join
  <2>1. /\ ready' = ready /\ pipe' = pipe /\ expected' = expected /\ valid' = valid
        /\ served' = served
    BY <1>2 DEF CheckRunning, CreatePipe, Started, Stop, Dummy, Join, history, expected
  <2>2. OpenNewest'
    BY <2>1 DEF OpenNewest, Newest
  <2>3. Serving'
    BY <1>2, <2>1, PipeAssumption
    DEF CheckRunning, CreatePipe, Started, Stop, Dummy, Join, Serving
  <2> QED
    BY <2>2, <2>3
<1>3. CASE Accept
  <2>1. CASE running
    BY <1>3, <2>1 DEF Accept, history, expected, Serving, OpenNewest, Newest
  <2>2. CASE ~ running
    BY <1>1, <1>3, <2>2 DEF Accept, Serving, OpenNewest
  <2> QED
    BY <2>1, <2>2
<1>4. ASSUME EndClient, UNCHANGED <<running, cleanup>> PROVE Serving' /\ OpenNewest'
  BY <1>1, <1>4 DEF EndClient, Serving, OpenNewest
<1>5. CASE ReadMessage
  <2>1. CASE running
    <3>1. /\ pipe # <<>> /\ pipe' = Tail(pipe) /\ valid' = Handled(Head(pipe))
          /\ phase = "serve"
          /\ UNCHANGED <<expected, phase, served, ready, running, cleanup>>
      BY <1>5, <2>1 DEF ReadMessage, history, expected
    <3>2. Serving'
      BY <3>1 DEF Serving
    <3>3. Newest => Newest'
      BY <3>1, TailNewest DEF Serving
    <3> QED
      BY <3>1, <3>2, <3>3 DEF OpenNewest
  <2>2. CASE ~ running
    BY <1>4, <1>5, <2>2 DEF ReadMessage
  <2> QED
    BY <2>1, <2>2
<1>6. CASE ReadFails
  BY <1>4, <1>6 DEF ReadFails
<1>7. CASE Dies
  BY <1>1, <1>7 DEF Dies, Serving, OpenNewest
<1> QED
  BY <1>2, <1>3, <1>5, <1>6, <1>7 DEF DriverStep

\* What the driver shows and is about to show is right for ever, as long as
\* close events come in order.
LEMMA FollowAlways == ~ LateClose => (Spec => []Follow)
<1> SUFFICES ASSUME ~ LateClose PROVE Spec => []Follow
  OBVIOUS
<1>1. Init => Serving /\ OpenNewest
  BY DEF Init, Serving, OpenNewest, Messages
<1>2. Follow /\ [Next]_vars => (Serving /\ OpenNewest)'
  <2> SUFFICES ASSUME Follow, [Next]_vars PROVE (Serving /\ OpenNewest)'
    OBVIOUS
  <2>1. ASSUME NEW s \in SUBSET Slots, SendTrackers(s) PROVE (Serving /\ OpenNewest)'
    <3> DEFINE m    == [kind |-> "pose", slots |-> s]
               kept == IF s = {} THEN expected ELSE {}
    <3>1. m \in Messages /\ (s \cup kept) = IF Shows(m) THEN Shown(m) ELSE expected
      BY DEF Messages, Pose, Shows, Shown
    <3>2. Write(m, s, kept)
      BY <2>1 DEF SendTrackers, expected
    <3> QED
      BY <3>1, <3>2, WriteFollow
  <2>2. CASE SendOrigin
    <3>1. Reset \in Messages /\ ({} \cup {}) = IF Shows(Reset) THEN Shown(Reset) ELSE expected
      BY DEF Messages, Reset, Shows, Shown
    <3> QED
      BY <2>2, <3>1, WriteFollow DEF SendOrigin
  <2>3. CASE UNCHANGED vars
    BY <2>3 DEF vars, client, driver, history, expected, Follow, Serving, OpenNewest, Newest
  <2> QED
    BY <2>1, <2>2, <2>3, ClientFollow, DriverFollow DEF Next
<1>3. Spec => []Inv
  BY InvAlways
<1> QED
  BY <1>1, <1>2, <1>3, PTL DEF Spec, Follow

\* Whatever interleaves writing and reading, switching and restarts: when the
\* driver (HandleClient) has read everything, its trackers are those of the
\* newest message since the last reset, and those that only messages without
\* poses have left out since, as it passes over these.
THEOREM DriverShowsNewest == ~ LateClose => (Spec => []DriverFollows)
<1>1. Follow => DriverFollows
  <2> SUFFICES ASSUME Follow, phase = "serve", pipe = <<>>, ready[served] = "open"
               PROVE  valid = expected
    BY DEF DriverFollows, expected
  <2>1. Newest
    BY DEF Follow, Serving, OpenNewest
  <2> QED
    BY <2>1 DEF Newest
<1> QED
  BY <1>1, FollowAlways, PTL

-----------------------------------------------------------------------------
(* Nobody gives up.                                                        *)

ClientTyped ==
  /\ ready \in [Socks -> States]
  /\ waiter \in [Socks -> Loops \cup {"timer", Nil}]
  /\ loop \in [Loops -> [at : {"idle", "trying", "sleeping"}, left : 0..MaxAttempts]]
  /\ {should, timer, connected, connecting} \subseteq BOOLEAN

\* Somebody waits for every attempt, and the client's socket is not one.
Awaited ==
  /\ \A k \in Socks : ready[k] = "opening" => waiter[k] # Nil
  /\ \A k \in Socks : socket = k => ready[k] \in {"open", "ended"}

Alert == ClientTyped /\ Awaited /\ NeverGivesUp

\* The state of a loop that does nothing.
LEMMA IdleLoop ==
  Idle \in [at : {"idle", "trying", "sleeping"}, left : 0..MaxAttempts]
  BY PipeAssumption DEF Idle

\* A new attempt.
LEMMA AttemptAlert ==
  ASSUME Alert, NEW w \in Loops \cup {"timer"}, Attempt(w), ~ connected,
         socket' = socket, connected' = connected, should' \in BOOLEAN, timer' \in BOOLEAN,
         loop' \in [Loops -> [at : {"idle", "trying", "sleeping"}, left : 0..MaxAttempts]]
  PROVE  Alert'
<1>1. PICK k \in Socks : /\ ready[k] = "unused" /\ ready' = [ready EXCEPT ![k] = "opening"]
                         /\ waiter' = [waiter EXCEPT ![k] = w]
  BY DEF Attempt
<1>2. connecting' = TRUE /\ w # Nil
  BY PipeAssumption DEF Attempt
<1>3. /\ ready'[k] = "opening" /\ waiter'[k] = w
      /\ \A j \in Socks : j # k => ready'[j] = ready[j] /\ waiter'[j] = waiter[j]
  BY <1>1 DEF Alert, ClientTyped
<1>4. ClientTyped'
  BY <1>1, <1>2 DEF Alert, ClientTyped, States
<1>5. Awaited'
  BY <1>1, <1>2, <1>3 DEF Alert, Awaited
<1>6. NeverGivesUp'
  BY <1>2, <1>3 DEF NeverGivesUp
<1> QED
  BY <1>4, <1>5, <1>6 DEF Alert

\* connectWithRetry: it waits, it tries, or it leaves it to the timer, unless
\* there is a connection already.
LEMMA RetryAlert ==
  ASSUME Alert, NEW i \in Loops, NEW n \in 0..MaxAttempts, Retry(i, n), should' \in BOOLEAN,
         socket' = socket, connected' = connected,
         n = 0 => should' = should
  PROVE  Alert'
<1> DEFINE Loop == [at : {"idle", "trying", "sleeping"}, left : 0..MaxAttempts]
<1>1. ASSUME NoAttempt PROVE /\ connecting' = connecting /\ ready' = ready /\ waiter' = waiter
                             /\ Awaited'
  BY <1>1 DEF NoAttempt, Alert, Awaited
<1>2. Idle \in Loop /\ MaxAttempts \in Nat
  BY PipeAssumption DEF Idle
<1>3. CASE n = 0 /\ loop' = [loop EXCEPT ![i] = Idle] /\ NoAttempt /\ scheduleReconnect
  <2>1. timer' = (timer \/ should)
    BY <1>3 DEF scheduleReconnect
  <2>2. ClientTyped'
    BY <1>1, <1>2, <1>3, <2>1 DEF Alert, ClientTyped
  <2>3. NeverGivesUp'
    BY <1>1, <1>3, <2>1 DEF Alert, NeverGivesUp
  <2> QED
    BY <1>1, <1>3, <2>2, <2>3 DEF Alert
<1>4. CASE /\ n > 0 /\ UNCHANGED timer /\ (~ should' \/ connected)
           /\ loop' = [loop EXCEPT ![i] = Idle] /\ NoAttempt
  <2>1. ClientTyped'
    BY <1>1, <1>2, <1>4 DEF Alert, ClientTyped
  <2>2. NeverGivesUp'
    BY <1>1, <1>4 DEF Alert, NeverGivesUp
  <2> QED
    BY <1>1, <1>4, <2>1, <2>2 DEF Alert
<1>5. CASE /\ n > 0 /\ UNCHANGED timer /\ NoAttempt
           /\ loop' = [loop EXCEPT ![i] = [at |-> "sleeping", left |-> n - 1]]
  <2>1. [at |-> "sleeping", left |-> n - 1] \in Loop
    BY <1>2, <1>5
  <2>2. ClientTyped' /\ loop'[i].at = "sleeping"
    BY <1>1, <1>5, <2>1 DEF Alert, ClientTyped
  <2>3. \E j \in Loops : loop'[j].at = "sleeping"
    BY <2>2
  <2>4. connecting' => \E k \in Socks : ready'[k] = "opening"
    BY <1>1, <1>5 DEF Alert, NeverGivesUp
  <2>5. NeverGivesUp'
    BY <2>3, <2>4 DEF NeverGivesUp
  <2> QED
    BY <1>1, <1>5, <2>2, <2>5 DEF Alert
<1>6. CASE /\ n > 0 /\ UNCHANGED timer /\ ~ connected /\ Attempt(i)
           /\ loop' = [loop EXCEPT ![i] = [at |-> "trying", left |-> n - 1]]
  <2>1. [at |-> "trying", left |-> n - 1] \in Loop
    BY <1>2, <1>6
  <2>2. loop' \in [Loops -> Loop] /\ timer' \in BOOLEAN
    BY <1>6, <2>1 DEF Alert, ClientTyped
  <2> HIDE DEF Loop
  <2> QED
    BY <1>6, <2>2, AttemptAlert DEF Loop
<1> QED
  BY <1>3, <1>4, <1>5, <1>6 DEF Retry

\* Steps after which the client and its attempts are as before.
LEMMA SameAlert ==
  ASSUME Alert, client' = client, ready' \in [Socks -> States],
         \A k \in Socks : ready'[k] = ready[k] \/ (ready[k] = "open" /\ ready'[k] = "ended")
  PROVE  Alert'
<1>1. /\ should' = should /\ connected' = connected /\ socket' = socket
      /\ connecting' = connecting /\ timer' = timer /\ loop' = loop /\ waiter' = waiter
  BY DEF client
<1>2. ClientTyped'
  BY <1>1 DEF Alert, ClientTyped
<1>3. Awaited'
  BY <1>1 DEF Alert, Awaited
<1>4. NeverGivesUp'
  BY <1>1 DEF Alert, NeverGivesUp
<1> QED
  BY <1>2, <1>3, <1>4 DEF Alert

\* Every step keeps it, in whatever order close events come.
LEMMA StepAlert == ASSUME Alert, [Next]_vars PROVE Alert'
<1>1. ASSUME NEW i \in Loops, RetryAgain(i) PROVE Alert'
  <2>1. loop[i].left \in 0..MaxAttempts /\ should \in BOOLEAN
    BY DEF Alert, ClientTyped
  <2> QED
    BY <1>1, <2>1, RetryAlert DEF RetryAgain
<1>2. CASE TimerFires
  <2>1. /\ should' = should /\ connected' = connected /\ socket' = socket /\ loop' = loop
    BY <1>2 DEF TimerFires
  <2>2. CASE ~ connected /\ timer' = FALSE /\ Attempt("timer")
    BY <2>1, <2>2, AttemptAlert DEF Alert, ClientTyped
  <2>3. CASE NoAttempt /\ timer' \in BOOLEAN /\ (~ should \/ connected \/ timer')
    <3>1. connecting' = connecting /\ ready' = ready /\ waiter' = waiter
      BY <2>3 DEF NoAttempt
    <3>2. ClientTyped'
      BY <2>1, <2>3, <3>1 DEF Alert, ClientTyped
    <3>3. Awaited' /\ NeverGivesUp'
      BY <2>1, <2>3, <3>1 DEF Alert, Awaited, NeverGivesUp
    <3> QED
      BY <3>2, <3>3 DEF Alert
  <2> QED
    BY <1>2, <2>2, <2>3 DEF TimerFires
<1>3. ASSUME NEW k \in Socks, Connects(k) PROVE Alert'
  <2>1. /\ ready' = [ready EXCEPT ![k] = "open"] /\ waiter' = [waiter EXCEPT ![k] = Nil]
        /\ socket' = k /\ connected' = TRUE /\ connecting' = FALSE
        /\ loop' = [i \in Loops |-> IF waiter[k] = i THEN Idle ELSE loop[i]]
        /\ should' = should /\ timer' = timer
    BY <1>3 DEF Connects
  <2>2. /\ ready'[k] = "open"
        /\ \A j \in Socks : j # k => ready'[j] = ready[j] /\ waiter'[j] = waiter[j]
    BY <2>1 DEF Alert, ClientTyped
  <2>3. ClientTyped'
    BY <2>1, IdleLoop DEF Alert, ClientTyped, States
  <2>4. Awaited' /\ NeverGivesUp'
    BY <2>1, <2>2 DEF Alert, Awaited, NeverGivesUp
  <2> QED
    BY <2>3, <2>4 DEF Alert
<1>4. ASSUME NEW k \in Socks, Refused(k) PROVE Alert'
  <2>1. /\ ready[k] = "opening" /\ ready' = [ready EXCEPT ![k] = "unused"]
        /\ waiter' = [waiter EXCEPT ![k] = Nil]
        /\ connecting' = FALSE /\ connected' = connected /\ socket' = socket /\ should' = should
        /\ timer' = IF waiter[k] = "timer" THEN timer \/ should ELSE timer
    BY <1>4 DEF Refused, scheduleReconnect
  <2>2. loop' = [i \in Loops |-> IF waiter[k] = i THEN [loop[i] EXCEPT !.at = "sleeping"] ELSE loop[i]]
    BY <1>4 DEF Refused
  <2>3. /\ \A i \in Loops : loop'[i] \in [at : {"idle", "trying", "sleeping"}, left : 0..MaxAttempts]
        /\ \A i \in Loops : loop'[i].at = IF waiter[k] = i THEN "sleeping" ELSE loop[i].at
    BY <2>2 DEF Alert, ClientTyped
  <2>4. loop' \in [Loops -> [at : {"idle", "trying", "sleeping"}, left : 0..MaxAttempts]]
    BY <2>2, <2>3
  <2>5. ClientTyped'
    BY <2>1, <2>4 DEF Alert, ClientTyped, States
  <2>6. /\ ready'[k] = "unused"
        /\ \A j \in Socks : j # k => ready'[j] = ready[j] /\ waiter'[j] = waiter[j]
    BY <2>1 DEF Alert, ClientTyped
  <2>7. waiter[k] \in Loops \cup {"timer"}
    BY <2>1 DEF Alert, ClientTyped, Awaited
  <2>8. Awaited'
    BY <2>1, <2>6 DEF Alert, Awaited
  <2>9. NeverGivesUp'
    <3>1. CASE waiter[k] = "timer"
      BY <2>1, <3>1 DEF NeverGivesUp
    <3>2. CASE waiter[k] \in Loops
      BY <2>1, <2>3, <3>2 DEF NeverGivesUp
    <3> QED
      BY <2>7, <3>1, <3>2
  <2> QED
    BY <2>5, <2>8, <2>9 DEF Alert
<1>5. ASSUME NEW k \in Socks, Closed(k) PROVE Alert'
  <2>1. /\ ready[k] # "opening" /\ ready' = [ready EXCEPT ![k] = "unused"] /\ waiter' = waiter
        /\ connecting' = connecting /\ connected' = FALSE /\ socket' = Nil /\ should' = should
        /\ timer' = (timer \/ should) /\ loop' = loop
    BY <1>5 DEF Closed, scheduleReconnect
  <2>2. \A j \in Socks : ready'[j] = IF j = k THEN "unused" ELSE ready[j]
    BY <2>1 DEF Alert, ClientTyped
  <2>3. ClientTyped'
    BY <2>1 DEF Alert, ClientTyped, States
  <2>4. Awaited'
    BY <2>1, <2>2, PipeAssumption DEF Alert, Awaited
  <2>5. should' => timer'
    BY <2>1
  <2>6. connecting' => \E j \in Socks : ready'[j] = "opening"
    BY <2>1, <2>2 DEF Alert, NeverGivesUp
  <2> QED
    BY <2>3, <2>4, <2>5, <2>6 DEF Alert, NeverGivesUp
<1>6. CASE SwitchOn
  <2>1. PICK i \in Loops : Retry(i, MaxAttempts)
    BY <1>6 DEF SwitchOn
  <2>2. MaxAttempts \in 0..MaxAttempts /\ MaxAttempts # 0
    BY PipeAssumption
  <2> QED
    BY <1>6, <2>1, <2>2, RetryAlert DEF SwitchOn
<1>7. CASE SwitchOff
  <2>1. /\ should' = FALSE /\ timer' = FALSE /\ connecting' = connecting
        /\ loop' = loop /\ waiter' = waiter
        /\ \/ UNCHANGED <<connected, socket, ready>>
           \/ /\ socket \in Socks \cup {socket} /\ socket # Nil /\ socket' = Nil /\ connected' = FALSE
              /\ ready' = [ready EXCEPT ![socket] = "destroyed"]
    BY <1>7 DEF SwitchOff
  <2>2. /\ ready' \in [Socks -> States] /\ connected' \in BOOLEAN
        /\ \A k \in Socks : ready'[k] = "opening" <=> ready[k] = "opening"
        /\ \A k \in Socks : socket' = k => ready'[k] = ready[k] /\ socket = k
    BY <2>1, PipeAssumption DEF Alert, ClientTyped, Awaited, States
  <2>3. ClientTyped'
    BY <2>1, <2>2 DEF Alert, ClientTyped
  <2>4. Awaited' /\ NeverGivesUp'
    BY <2>1, <2>2 DEF Alert, Awaited, NeverGivesUp
  <2> QED
    BY <2>3, <2>4 DEF Alert
<1>8. CASE Restart
  <2>1. ClientTyped'
    BY <1>8, IdleLoop DEF Restart, ClientTyped, States
  <2>2. Awaited' /\ NeverGivesUp'
    BY <1>8, PipeAssumption DEF Restart, Awaited, NeverGivesUp
  <2> QED
    BY <2>1, <2>2 DEF Alert
<1>9. ASSUME client' = client, Hangup \/ ready' = ready PROVE Alert'
  <2>1. /\ ready' \in [Socks -> States]
        /\ \A k \in Socks : ready'[k] = ready[k] \/ (ready[k] = "open" /\ ready'[k] = "ended")
    BY <1>9 DEF Hangup, Alert, ClientTyped, States
  <2> QED
    BY <1>9, <2>1, SameAlert
<1>10. CASE DriverStep \/ Started \/ Stop \/ Dummy \/ Join \/ Dies
  <2>1. client' = client /\ (Hangup \/ ready' = ready)
    BY <1>10 DEF DriverStep, CheckRunning, CreatePipe, Accept, ReadMessage, ReadFails, EndClient,
       Started, Stop, Dummy, Join, Dies
  <2> QED
    BY <1>9, <2>1
<1>11. CASE (\E s \in SUBSET Slots : SendTrackers(s)) \/ SendOrigin \/ UNCHANGED vars
  <2>1. client' = client /\ ready' = ready
    BY <1>11 DEF SendTrackers, SendOrigin, Write, vars
  <2> QED
    BY <1>9, <2>1
<1> QED
  BY <1>1, <1>2, <1>3, <1>4, <1>5, <1>6, <1>7, <1>8, <1>10, <1>11 DEF Next, ClientStep

\* However attempts fail, pipes break and switches are flicked: while receiving
\* is on the client is connected, tries to connect or is going to.
THEOREM ReceivingNeverGivesUp == Spec => []NeverGivesUp
<1>1. Init => Alert
  <2> SUFFICES ASSUME Init PROVE Alert
    OBVIOUS
  <2>1. ClientTyped
    BY IdleLoop DEF Init, ClientTyped, States
  <2>2. Awaited /\ NeverGivesUp
    BY PipeAssumption DEF Init, Awaited, NeverGivesUp
  <2> QED
    BY <2>1, <2>2 DEF Alert
<1>2. Alert /\ [Next]_vars => Alert'
  BY StepAlert
<1>3. Alert => NeverGivesUp
  BY DEF Alert
<1> QED
  BY <1>1, <1>2, <1>3, PTL DEF Spec

-----------------------------------------------------------------------------
(* Poses of a client that does not receive.                                *)

\* While receiving is off, an open pipe carries resets only, and the driver
\* shows nothing.
OffIsEmpty ==
  ~ on => \A k \in Socks : ready[k] = "open" =>
            valid = {} /\ \A i \in 1..Len(pipe) : pipe[i].kind = "reset"

\* Every step keeps that.
LEMMA StepOff ==
  ASSUME Follow, OffIsEmpty, [Next]_vars PROVE OffIsEmpty'
<1>1. ASSUME \A k \in Socks : ready'[k] # "open" PROVE OffIsEmpty'
  BY <1>1 DEF OffIsEmpty
<1>2. ASSUME on' = on, valid' = valid, pipe' = pipe,
             \A k \in Socks : ready'[k] = "open" => ready[k] = "open"
      PROVE  OffIsEmpty'
  BY <1>2 DEF OffIsEmpty
<1>3. ASSUME NEW w, Attempt(w) PROVE \A k \in Socks : ready'[k] = "open" => ready[k] = "open"
  BY <1>3 DEF Attempt, Follow, Inv, Typed
<1>4. ASSUME NEW i, NEW n, Retry(i, n) PROVE \A k \in Socks : ready'[k] = "open" => ready[k] = "open"
  BY <1>3, <1>4 DEF Retry, NoAttempt
<1>5. ASSUME NEW i \in Loops, RetryAgain(i) PROVE OffIsEmpty'
  BY <1>2, <1>4, <1>5 DEF RetryAgain, driver
<1>6. CASE TimerFires
  BY <1>2, <1>3, <1>6 DEF TimerFires, NoAttempt, driver
<1>7. ASSUME NEW k \in Socks, Connects(k) PROVE OffIsEmpty'
  <2>1. valid' = {} /\ pipe' = <<>>
    BY <1>7 DEF Connects, Follow, Serving
  <2> QED
    BY <2>1 DEF OffIsEmpty
<1>8. ASSUME NEW k \in Socks, Refused(k) \/ Closed(k) PROVE OffIsEmpty'
  BY <1>2, <1>8 DEF Refused, Closed, driver, Follow, Inv, Typed
<1>9. CASE SwitchOn
  BY <1>9 DEF SwitchOn, OffIsEmpty
<1>10. CASE SwitchOff
  <2>1. CASE socket = Nil
    <3>1. \A k \in Socks : ready'[k] # "open"
      BY <1>10, <2>1, PipeAssumption DEF SwitchOff, Follow, Inv, OpenServed
    <3> QED
      BY <1>1, <3>1
  <2>2. CASE socket # Nil
    <3>1. \A k \in Socks : ready'[k] # "open"
      BY <1>10, <2>2 DEF SwitchOff, Follow, Inv, Typed, OpenServed
    <3> QED
      BY <1>1, <3>1
  <2> QED
    BY <2>1, <2>2
<1>11. CASE Restart
  BY <1>1, <1>11 DEF Restart
<1>12. ASSUME NEW s \in SUBSET Slots, SendTrackers(s) PROVE OffIsEmpty'
  BY <1>12 DEF SendTrackers, Write, client, OffIsEmpty
<1>13. CASE SendOrigin
  <2>1. on' = on /\ valid' = valid /\ ready' = ready /\ (pipe' = pipe \/ pipe' = Append(pipe, Reset))
    BY <1>13 DEF SendOrigin, Write, client, driver
  <2>2. CASE pipe' = pipe
    BY <1>2, <2>1, <2>2
  <2>3. CASE pipe' = Append(pipe, Reset)
    <3>1. Len(pipe') = Len(pipe) + 1 /\ pipe'[Len(pipe) + 1] = Reset /\ Len(pipe) \in Nat
          /\ \A i \in 1..Len(pipe) : pipe'[i] = pipe[i]
      BY <2>3 DEF Follow, Serving
    <3>2. Reset.kind = "reset"
      BY DEF Reset
    <3> QED
      BY <2>1, <3>1, <3>2 DEF OffIsEmpty
  <2> QED
    BY <2>1, <2>2, <2>3
<1>14. ASSUME Hangup PROVE OffIsEmpty'
  <2>1. \A k \in Socks : ready'[k] # "open"
    BY <1>14 DEF Hangup, Follow, Inv, OpenServed
  <2> QED
    BY <1>1, <2>1
<1>15. CASE ReadMessage
  <2>1. CASE running
    <3>1. /\ pipe # <<>> /\ pipe' = Tail(pipe) /\ valid' = Handled(Head(pipe))
          /\ on' = on /\ ready' = ready
      BY <1>15, <2>1 DEF ReadMessage, client
    <3>2. /\ Head(pipe) = pipe[1] /\ 1 \in 1..Len(pipe) /\ Len(pipe') = Len(pipe) - 1
          /\ \A i \in 1..Len(pipe') : i + 1 \in 1..Len(pipe) /\ pipe'[i] = pipe[i + 1]
      BY <3>1 DEF Follow, Serving
    <3> QED
      BY <3>1, <3>2 DEF OffIsEmpty, Handled
  <2>2. CASE ~ running
    BY <1>14, <1>15, <2>2 DEF ReadMessage, EndClient
  <2> QED
    BY <2>1, <2>2
<1>16. CASE Accept
  <2>1. CASE running
    BY <1>2, <1>16, <2>1 DEF Accept, client
  <2>2. CASE ~ running
    BY <1>14, <1>16, <2>2 DEF Accept
  <2> QED
    BY <2>1, <2>2
<1>17. CASE ReadFails \/ Dies
  BY <1>14, <1>17 DEF ReadFails, EndClient, Dies
<1>18. CASE CheckRunning \/ CreatePipe \/ Started \/ Stop \/ Dummy \/ Join \/ UNCHANGED vars
  <2>1. on' = on /\ valid' = valid /\ pipe' = pipe /\ ready' = ready
    BY <1>18 DEF CheckRunning, CreatePipe, Started, Stop, Dummy, Join, client, driver, vars
  <2> QED
    BY <1>2, <2>1
<1> QED
  BY <1>5, <1>6, <1>7, <1>8, <1>9, <1>10, <1>11, <1>12, <1>13, <1>15, <1>16, <1>17, <1>18
  DEF Next, ClientStep, DriverStep

\* Switched off, receiving leaves no pose behind: a tracker that has one is fed
\* by a client that receives, or its client is gone and the driver is about to
\* find out (disconnect, HandleClient, InvalidateAll).
THEOREM PosesAlwaysHaveAClient == ~ LateClose => (Spec => []PosesHaveAClient)
<1> SUFFICES ASSUME ~ LateClose PROVE Spec => []PosesHaveAClient
  OBVIOUS
<1>1. Init => OffIsEmpty
  BY DEF Init, OffIsEmpty
<1>2. Follow /\ OffIsEmpty /\ [Next]_vars => OffIsEmpty'
  BY StepOff
<1>3. Follow /\ OffIsEmpty => PosesHaveAClient
  <2> SUFFICES ASSUME Follow, OffIsEmpty, valid # {}
               PROVE  phase = "serve" /\ (on \/ ready[served] # "open")
    BY DEF PosesHaveAClient
  <2>1. phase = "serve" /\ served \in Socks
    BY DEF Follow, Serving
  <2> QED
    BY <2>1 DEF OffIsEmpty
<1> QED
  BY <1>1, <1>2, <1>3, FollowAlways, PTL DEF Spec
=============================================================================

------------------------------ MODULE TrackerPipe ------------------------------
(***************************************************************************)
(* The pipe by which a receiver's poses reach SteamVR: TrackerPipeClient   *)
(* (tracker-pipe-client.ts) in the application and the pipe thread of the  *)
(* driver (driver.cpp) in SteamVR's server.                                *)
(*                                                                         *)
(* An action of the client is one task of its event loop.  An action of    *)
(* the driver is one step of its pipe thread, or of the thread that calls  *)
(* Init and Cleanup.                                                       *)
(***************************************************************************)
EXTENDS Naturals, Sequences

CONSTANTS
  Slots,        \* trackers of the driver
  Socks,        \* sockets of the client
  Loops,        \* bound: calls of connectWithRetry at a time
  MaxAttempts,  \* INITIAL_RETRY_MAX_ATTEMPTS
  MaxMsgs,      \* bound: messages in the pipe
  LateClose,    \* TRUE: a close event may come after a later connect event
  Nil

ASSUME PipeAssumption ==
  /\ MaxAttempts \in Nat \ {0} /\ MaxMsgs \in Nat
  /\ LateClose \in BOOLEAN
  /\ Nil \notin Socks \cup Loops \cup {"timer", "dummy", "join"}
  /\ "timer" \notin Loops

VARIABLES
  on,          \* isTrackingReceiveEnabled
  should,      \* shouldBeConnected
  connected,   \* _connected
  socket,      \* socket
  connecting,  \* connecting
  timer,       \* reconnectTimer is set
  loop,        \* calls of connectWithRetry: where they are, attempts left
  ready,       \* state of each net.Socket
  waiter,      \* who waits for the attempt with a socket
  phase,       \* where the pipe thread is
  running,     \* m_running
  cleanup,     \* where Cleanup is
  served,      \* the socket at the other end of the pipe
  pipe,        \* what has been written to it and not read
  valid,       \* trackers whose pose is valid
  newest,      \* history: trackers of the newest pose message, none after a reset
  spared       \* history: trackers that newer messages without poses have left alone

client  == <<on, should, connected, socket, connecting, timer, loop, waiter>>
driver  == <<phase, running, cleanup, served, valid>>
history == <<newest, spared>>
vars    == <<client, ready, driver, pipe, history>>

Idle  == [at |-> "idle", left |-> 0]
Pose  == [kind : {"pose"}, slots : SUBSET Slots]
Reset == [kind |-> "reset"]

TypeOK ==
  /\ {on, should, connected, connecting, timer, running} \subseteq BOOLEAN
  /\ socket \in Socks \cup {Nil} /\ served \in Socks \cup {Nil}
  /\ loop \in [Loops -> [at : {"idle", "trying", "sleeping"}, left : 0..MaxAttempts]]
  /\ ready \in [Socks -> {"unused", "opening", "open", "ended", "destroyed"}]
  /\ waiter \in [Socks -> Loops \cup {"timer", Nil}]
  /\ phase \in {"down", "check", "create", "listen", "accepted", "serve", "ended"}
  /\ cleanup \in {Nil, "dummy", "join"}
  /\ pipe \in Seq(Pose \cup {Reset}) /\ Len(pipe) <= MaxMsgs + 1
  /\ {valid, newest, spared} \subseteq SUBSET Slots

Init ==
  /\ on = FALSE /\ should = FALSE /\ connected = FALSE /\ socket = Nil
  /\ connecting = FALSE /\ timer = FALSE
  /\ loop = [i \in Loops |-> Idle]
  /\ ready = [k \in Socks |-> "unused"] /\ waiter = [k \in Socks |-> Nil]
  /\ phase = "down" /\ running = FALSE /\ cleanup = Nil /\ served = Nil
  /\ pipe = <<>> /\ valid = {} /\ newest = {} /\ spared = {}

-----------------------------------------------------------------------------
(* TrackerPipeClient.                                                      *)

\* attemptConnect, if it has to connect.
Attempt(w) ==
  /\ connecting' = TRUE
  /\ \E k \in Socks :
       /\ ready[k] = "unused" /\ served # k
       /\ ready' = [ready EXCEPT ![k] = "opening"]
       /\ waiter' = [waiter EXCEPT ![k] = w]

NoAttempt == UNCHANGED <<connecting, ready, waiter>>

\* scheduleReconnect
scheduleReconnect == timer' = (timer \/ should)

\* connectWithRetry with n attempts left, up to its next await.
Retry(i, n) ==
  LET Goto(at) == loop' = [loop EXCEPT ![i] = [at |-> at, left |-> n - 1]]
      Return   == loop' = [loop EXCEPT ![i] = Idle]
  IN \/ n = 0 /\ Return /\ NoAttempt /\ scheduleReconnect
     \/ /\ n > 0 /\ UNCHANGED timer
        /\ \/ (~ should' \/ connected) /\ Return /\ NoAttempt
           \/ should' /\ ~ connected /\ connecting /\ Goto("sleeping") /\ NoAttempt
           \/ should' /\ ~ connected /\ ~ connecting /\ Goto("trying") /\ Attempt(i)

\* toggleTrackingReceive(true): ends in connectWithRetry.
SwitchOn ==
  /\ ~ on
  /\ on' = TRUE /\ should' = TRUE
  /\ \E i \in Loops : loop[i].at = "idle" /\ Retry(i, MaxAttempts)
  /\ UNCHANGED <<connected, socket, driver, pipe, history>>

RetryAgain(i) ==
  /\ loop[i].at = "sleeping"
  /\ UNCHANGED should
  /\ Retry(i, loop[i].left)
  /\ UNCHANGED <<on, connected, socket, driver, pipe, history>>

\* The callback of scheduleReconnect's timer.
TimerFires ==
  /\ timer
  /\ IF ~ should THEN timer' = FALSE /\ NoAttempt
     ELSE \/ connected /\ timer' = FALSE /\ NoAttempt
          \/ ~ connected /\ connecting /\ timer' = TRUE /\ NoAttempt
          \/ ~ connected /\ ~ connecting /\ timer' = FALSE /\ Attempt("timer")
  /\ UNCHANGED <<on, should, connected, socket, loop, driver, pipe, history>>

\* The "connect" event.
Connects(k) ==
  /\ ready[k] = "opening" /\ phase = "listen"
  /\ LateClose \/ \A j \in Socks : ready[j] # "destroyed"
  /\ ready' = [ready EXCEPT ![k] = "open"]
  /\ socket' = k /\ connected' = TRUE /\ connecting' = FALSE
  /\ loop' = [i \in Loops |-> IF waiter[k] = i THEN Idle ELSE loop[i]]
  /\ waiter' = [waiter EXCEPT ![k] = Nil]
  /\ phase' = "accepted" /\ served' = k /\ pipe' = <<>>
  /\ newest' = {} /\ spared' = {}
  /\ UNCHANGED <<on, should, timer, running, cleanup, valid>>

RefusedForGood(k) ==
  /\ ready[k] = "opening" /\ phase # "listen"
  /\ ready' = [ready EXCEPT ![k] = "unused"]
  /\ connecting' = FALSE
  /\ loop' = [i \in Loops |-> IF waiter[k] = i THEN [loop[i] EXCEPT !.at = "sleeping"]
                                               ELSE loop[i]]
  /\ waiter' = [waiter EXCEPT ![k] = Nil]
  /\ UNCHANGED <<on, should, connected, socket, timer, driver, pipe, history>>

\* The "error" event of an attempt: there is no pipe, or it is in use.
Refused(k) ==
  /\ ready[k] = "opening" /\ phase # "listen"
  /\ ready' = [ready EXCEPT ![k] = "unused"]
  /\ connecting' = FALSE
  /\ loop' = [i \in Loops |-> IF waiter[k] = i THEN [loop[i] EXCEPT !.at = "sleeping"]
                                               ELSE loop[i]]
  /\ IF waiter[k] = "timer" THEN scheduleReconnect ELSE UNCHANGED timer
  /\ waiter' = [waiter EXCEPT ![k] = Nil]
  /\ UNCHANGED <<on, should, connected, socket, driver, pipe, history>>

ClosedForGood(k) ==
  /\ ready[k] \in {"ended", "destroyed"}
  /\ ready' = [ready EXCEPT ![k] = "unused"]
  /\ connected' = FALSE /\ socket' = Nil
  /\ UNCHANGED <<on, should, timer, connecting, loop, waiter, driver, pipe, history>>

\* handleDisconnect, after an "error" or a "close" event of a socket that has
\* been connected.
Closed(k) ==
  /\ ready[k] \in {"ended", "destroyed"}
  /\ ready' = [ready EXCEPT ![k] = "unused"]
  /\ connected' = FALSE /\ socket' = Nil
  /\ scheduleReconnect
  /\ UNCHANGED <<on, should, connecting, loop, waiter, driver, pipe, history>>

SwitchOffForgetting ==
  /\ on
  /\ on' = FALSE /\ should' = FALSE /\ timer' = FALSE
  /\ socket' = Nil /\ connected' = FALSE
  /\ UNCHANGED <<connecting, loop, waiter, ready, driver, pipe, history>>

\* toggleTrackingReceive(false): disconnect.  The reset may be lost with the
\* socket.
SwitchOff ==
  /\ on
  /\ on' = FALSE /\ should' = FALSE /\ timer' = FALSE
  /\ IF socket = Nil THEN UNCHANGED <<connected, socket, ready, pipe, history>>
     ELSE /\ socket' = Nil /\ connected' = FALSE
          /\ ready' = [ready EXCEPT ![socket] = "destroyed"]
          /\ IF ready[socket] = "open" /\ connected THEN pipe' \in {pipe, Append(pipe, Reset)}
                                                    ELSE UNCHANGED pipe
          /\ newest' = {} /\ spared' = {}
  /\ UNCHANGED <<connecting, loop, waiter, driver>>

\* The application ends, or is killed, and starts again.
Restart ==
  /\ on' = FALSE /\ should' = FALSE /\ connected' = FALSE /\ socket' = Nil
  /\ connecting' = FALSE /\ timer' = FALSE
  /\ loop' = [i \in Loops |-> Idle]
  /\ ready' = [k \in Socks |-> "unused"] /\ waiter' = [k \in Socks |-> Nil]
  /\ UNCHANGED <<driver, pipe, history>>

\* A message of the client; the driver's end may be gone.
Write(m, shown, kept) ==
  /\ connected /\ socket # Nil
  /\ Len(pipe) < MaxMsgs
  /\ IF ready[socket] = "open"
     THEN pipe' = Append(pipe, m) /\ newest' = shown /\ spared' = kept
     ELSE UNCHANGED <<pipe, history>>
  /\ UNCHANGED <<client, ready, driver>>

\* onRemoteTrackingBatch: the poses of the enabled slots, perhaps none.  The
\* driver does not handle a message without poses.
SendTrackers(s) ==
  /\ on
  /\ Write([kind |-> "pose", slots |-> s], s, IF s = {} THEN newest \cup spared ELSE {})

\* calibrateReceiveOrigin, which may come after receiving was switched off.
SendOrigin == Write(Reset, {}, {})

-----------------------------------------------------------------------------
(* The driver's pipe thread.                                               *)

CheckRunning ==
  /\ phase = "check"
  /\ phase' = IF running THEN "create" ELSE "ended"
  /\ UNCHANGED <<client, ready, running, cleanup, served, valid, pipe, history>>

CreatePipe ==
  /\ phase = "create"
  /\ phase' = "listen"
  /\ UNCHANGED <<client, ready, running, cleanup, served, valid, pipe, history>>

\* The client's end, when the driver closes its own.
Hangup == ready' = [k \in Socks |-> IF k = served /\ ready[k] = "open" THEN "ended" ELSE ready[k]]

\* After ConnectNamedPipe.
Accept ==
  /\ phase = "accepted"
  /\ IF running THEN phase' = "serve" /\ UNCHANGED <<ready, served, pipe>>
                ELSE phase' = "ended" /\ served' = Nil /\ pipe' = <<>> /\ Hangup
  /\ UNCHANGED <<client, running, cleanup, valid, history>>

HandledAdding(m) == IF m.kind = "reset" THEN {} ELSE valid \cup m.slots

\* HandleClient: what a message makes of the trackers.
Handled(m) ==
  IF m.kind = "reset" THEN {} ELSE IF m.slots = {} THEN valid ELSE m.slots

EndClientKeepingPoses ==
  /\ phase' = "check" /\ served' = Nil /\ pipe' = <<>>
  /\ Hangup
  /\ UNCHANGED valid

\* The end of HandleClient, then InvalidateAll and CloseHandle.
EndClient ==
  /\ phase' = "check" /\ served' = Nil
  /\ valid' = {} /\ pipe' = <<>>
  /\ Hangup

\* A message is read and handled, unless the driver has been stopped.
ReadMessage ==
  /\ phase = "serve" /\ pipe # <<>>
  /\ IF running
     THEN /\ valid' = Handled(Head(pipe)) /\ pipe' = Tail(pipe)
          /\ UNCHANGED <<phase, served, ready>>
     ELSE EndClient
  /\ UNCHANGED <<client, running, cleanup, history>>

\* ReadExact fails: the other end is closed and nothing is left to be read.
ReadFails ==
  /\ phase = "serve" /\ pipe = <<>> /\ ready[served] # "open"
  /\ EndClient
  /\ UNCHANGED <<client, running, cleanup, history>>

-----------------------------------------------------------------------------
(* SteamVR.                                                                *)

\* Init of the provider.
Started ==
  /\ phase = "down"
  /\ phase' = "check" /\ running' = TRUE
  /\ UNCHANGED <<client, ready, cleanup, served, valid, pipe, history>>

\* Cleanup.
Stop ==
  /\ phase # "down" /\ cleanup = Nil
  /\ running' = FALSE /\ cleanup' = "dummy"
  /\ UNCHANGED <<client, ready, phase, served, valid, pipe, history>>

\* CreateFileA, to get the pipe thread out of ConnectNamedPipe.
Dummy ==
  /\ cleanup = "dummy"
  /\ phase' = IF phase = "listen" THEN "accepted" ELSE phase
  /\ cleanup' = "join"
  /\ UNCHANGED <<client, ready, running, served, valid, pipe, history>>

Join ==
  /\ cleanup = "join" /\ phase = "ended"
  /\ phase' = "down" /\ cleanup' = Nil
  /\ UNCHANGED <<client, ready, running, served, valid, pipe, history>>

\* SteamVR ends without Cleanup.
Dies ==
  /\ phase # "down"
  /\ phase' = "down" /\ running' = FALSE /\ cleanup' = Nil
  /\ served' = Nil /\ valid' = {} /\ pipe' = <<>>
  /\ Hangup
  /\ UNCHANGED <<client, history>>

-----------------------------------------------------------------------------

ClientStep ==
  \/ \E i \in Loops : RetryAgain(i)
  \/ TimerFires
  \/ \E k \in Socks : Connects(k) \/ Refused(k) \/ Closed(k)

DriverStep == CheckRunning \/ CreatePipe \/ Accept \/ ReadMessage \/ ReadFails

Next ==
  \/ ClientStep \/ SwitchOn \/ SwitchOff \/ Restart
  \/ (\E s \in SUBSET Slots : SendTrackers(s)) \/ SendOrigin
  \/ DriverStep
  \/ Started \/ Stop \/ Dummy \/ Join \/ Dies

\* Timers fire, sockets report, the pipe thread goes on.  Nothing is assumed of
\* the user, of the sender of poses and of SteamVR.
Fairness ==
  /\ \A i \in Loops : WF_vars(RetryAgain(i))
  /\ WF_vars(TimerFires)
  /\ \A k \in Socks : WF_vars(Connects(k) \/ Refused(k)) /\ WF_vars(Closed(k))
  /\ WF_vars(DriverStep)

Spec == Init /\ [][Next]_vars /\ Fairness

-----------------------------------------------------------------------------
(* Properties.                                                             *)

\* However often receiving is switched and retries overlap: a pipe that is open
\* is the one the client writes to and the driver reads (no socket is leaked).
OpenIsHeld == \A k \in Socks : ready[k] = "open" => socket = k /\ served = k

\* When the driver has read everything, the trackers with a valid pose are those
\* of the newest message since the last reset, and those that only messages
\* without poses have left out since.  "Driver auto-invalidates slots not in the
\* batch" (onRemoteTrackingBatch) holds of every message but these: the driver
\* passes over them (count > 0 in HandleClient).
DriverFollows ==
  phase = "serve" /\ pipe = <<>> /\ ready[served] = "open" => valid = newest \cup spared

\* While receiving is on and there is no connection, another attempt is under
\* way or scheduled, and connecting is set for an attempt only (connectWithRetry,
\* attemptConnect, scheduleReconnect).
NeverGivesUp ==
  /\ should /\ ~ connected =>
       \/ timer \/ \E i \in Loops : loop[i].at = "sleeping"
       \/ \E k \in Socks : ready[k] = "opening" /\ waiter[k] # Nil
  /\ connecting => \E k \in Socks : ready[k] = "opening"

\* A tracker has a valid pose only while the driver serves a client that is
\* receiving, or one that is gone, as it finds when it has read the pipe to its
\* end (disconnect, HandleClient, InvalidateAll).
PosesHaveAClient ==
  valid # {} => phase = "serve" /\ (on \/ ready[served] # "open")

\* If receiving stays on and SteamVR stays up, the client connects for good.
ReceiveConnects == <>[](on /\ running) => <>[]connected

\* If receiving stays off, no tracker keeps a valid pose.
OffClears == <>[](~ on) => <>[](valid = {})
=============================================================================

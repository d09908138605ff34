-------------------------------- MODULE Tracking --------------------------------
(***************************************************************************)
(* Full-body tracking between two members: the switches and slots of the   *)
(* main process (index.ts, app-state.ts), the child process that reads     *)
(* SteamVR's poses (tracker-bridge.ts holds it, main.rs is its program)    *)
(* and the calibration that asks that process for one pose.                *)
(*                                                                         *)
(* An action of the main process is one task of its event loop.  Positions *)
(* and rotations, and what is written to the driver's pipe, are left out:  *)
(* a batch is the set of addresses it carries.                             *)
(***************************************************************************)
EXTENDS Naturals, Sequences

CONSTANTS
  Procs,        \* identifiers of child processes
  Addrs,        \* addresses of trackers, a batch may hold others too,
  LocalAddrs,   \* those that SteamVR tracks here, and
  HeadAddr,     \* that of the head
  MaxCmds,      \* bound: commands a process has not read
  MaxPoses,     \* bound: poses the main process has not read
  MaxKills,     \* bound: timers of destroy
  MaxConnects,  \* bound: calls of connectWithRetry
  Nil

ASSUME TrackingAssumption ==
  /\ {MaxCmds, MaxPoses, MaxKills, MaxConnects} \subseteq Nat
  /\ HeadAddr \in Addrs /\ LocalAddrs \subseteq Addrs /\ Nil \notin Procs

Sides == {"send", "receive"}

VARIABLES
  send, receive,  \* state.trackingSendEnabled, state.trackingReceiveEnabled
  vr,             \* vrTrackingActive
  sender,         \* lastSenderHmdPose is set
  connects,       \* calls of connectWithRetry that have not returned
  process,        \* TrackerBridge.process
  state,          \* of each process: gone = dead, its exit or error event to come
  cmds,           \* what is in its stdin
  tracking,       \* its tracking_active
  poses,          \* hmd_pose lines in stdout
  query,          \* who set hmdPoseResolve: a calibration that spawned, or another
  kills,          \* timers of destroy
  slots,          \* state.trackingSendSlots and trackingReceiveSlots
  disabled,       \* _cachedDisabledSend and _cachedDisabledRecv
  orphans,        \* history: the processes an exit of another took from process
  stalled         \* history: what "start" began has ended, see SenderTracks

switches == <<send, receive, vr, sender, connects>>
bridge   == <<process, state, cmds, tracking, poses, query, kills>>
lists    == <<slots, disabled>>
history  == <<orphans, stalled>>
vars     == <<switches, bridge, lists, history>>

TypeOK ==
  /\ {send, receive, vr, sender, stalled} \subseteq BOOLEAN
  /\ connects \in 0..MaxConnects
  /\ process \in Procs \cup {Nil}
  /\ state \in [Procs -> {"unused", "live", "gone"}]
  /\ cmds \in [Procs -> Seq({"start", "stop", "get_hmd_pose", "exit"})]
  /\ tracking \in [Procs -> BOOLEAN]
  /\ poses \in 0..MaxPoses
  /\ query \in {"none", "own", "shared"}
  /\ kills \in Nat
  /\ slots \in [Sides -> [Addrs -> {"absent", "on", "off"}]]
  /\ disabled \in [Sides -> {Nil} \cup SUBSET Addrs]
  /\ orphans \subseteq Procs

Init ==
  /\ send = FALSE /\ receive = FALSE /\ vr = FALSE /\ sender = FALSE /\ connects = 0
  /\ process = Nil
  /\ state = [p \in Procs |-> "unused"] /\ cmds = [p \in Procs |-> <<>>]
  /\ tracking = [p \in Procs |-> FALSE]
  /\ poses = 0 /\ query = "none" /\ kills = 0
  /\ slots = [s \in Sides |-> [a \in Addrs |-> "absent"]]
  /\ disabled = [s \in Sides |-> Nil]
  /\ orphans = {} /\ stalled = FALSE

-----------------------------------------------------------------------------
(* TrackerBridge.                                                          *)

\* spawn: the process there is, a new one, or none.
Spawn(p) ==
  \/ process # Nil /\ p = process /\ UNCHANGED state
  \/ /\ process = Nil
     /\ \/ p = Nil /\ UNCHANGED state
        \/ p \in Procs /\ state[p] = "unused" /\ state' = [state EXCEPT ![p] = "live"]

\* sendCommand to process p, if there is one.
SendCommand(p, cmd) ==
  cmds' = IF p \in Procs /\ state'[p] = "live" THEN [cmds EXCEPT ![p] = Append(@, cmd)]
                                               ELSE cmds

\* There is an exit for p to read.
Ending(p) == \E i \in DOMAIN cmds[p] : cmds[p][i] = "exit"

\* Process p is dead: its stdin is closed, its exit or error event is to come.
Ended(p) ==
  /\ state' = [state EXCEPT ![p] = "gone"]
  /\ cmds' = [cmds EXCEPT ![p] = <<>>]
  /\ tracking' = [tracking EXCEPT ![p] = FALSE]

HasRoom == \A p \in Procs : Len(cmds[p]) < MaxCmds

\* spawn and startTracking, in vain if there is no process or it is about to end.
Start ==
  /\ HasRoom
  /\ \E p \in Procs \cup {Nil} :
       /\ Spawn(p) /\ process' = p /\ SendCommand(p, "start")
       /\ stalled' = (p = Nil \/ state'[p] # "live" \/ Ending(p))
  /\ UNCHANGED <<tracking, poses, query, kills, orphans>>

\* stopTracking
Stop ==
  /\ HasRoom
  /\ UNCHANGED <<process, state, tracking, poses, query, kills>>
  /\ SendCommand(process, "stop")

\* destroy
Destroy(p) == SendCommand(p, "exit") /\ kills' = kills + 1

\* What calibrateReceiveOrigin does once getHmdPose has settled.
Settled(p, own) ==
  IF own /\ ~ send THEN Destroy(p) ELSE UNCHANGED <<cmds, kills>>

-----------------------------------------------------------------------------
(* The switches.                                                           *)

\* toggleTrackingSend
SendOn ==
  /\ send' = TRUE /\ Start
  /\ UNCHANGED <<receive, vr, sender, connects, lists>>

SendOff ==
  /\ send' = FALSE /\ Stop
  /\ UNCHANGED <<receive, vr, sender, connects, lists, history>>

\* toggleTrackingReceive
ReceiveOn ==
  /\ receive' = TRUE /\ Start
  /\ connects < MaxConnects /\ connects' = connects + 1
  /\ UNCHANGED <<send, vr, sender, lists>>

ReceiveOffKeeps ==
  /\ receive' = FALSE
  /\ UNCHANGED <<send, vr, sender, connects, bridge, lists, history>>

ReceiveOffStops ==
  /\ receive' = FALSE /\ Stop
  /\ UNCHANGED <<send, vr, sender, connects, lists, history>>

ReceiveOff ==
  /\ receive' = FALSE
  /\ IF ~ send /\ process # Nil THEN Stop ELSE UNCHANGED bridge
  /\ UNCHANGED <<send, vr, sender, connects, lists, history>>

\* checkVRTrackingWindow and onVRTrackingDetected
VRDetected ==
  /\ ~ vr /\ vr' = TRUE
  /\ IF send THEN Start ELSE UNCHANGED <<bridge, history>>
  /\ UNCHANGED <<send, receive, sender, connects, lists>>

\* VRMode 0 and onVRTrackingLost
VRLost ==
  /\ vr /\ vr' = FALSE
  /\ Stop /\ stalled' = TRUE
  /\ UNCHANGED <<send, receive, sender, connects, lists, orphans>>

-----------------------------------------------------------------------------
(* Calibration.                                                            *)

\* calibrateReceiveOrigin up to its await, and past it if no process runs.
CalibrateReceiveOrigin ==
  /\ kills < MaxKills /\ HasRoom
  /\ \E p \in Procs \cup {Nil} :
       /\ Spawn(p) /\ process' = p
       /\ stalled' = (stalled \/ process = Nil)
       /\ \/ p = Nil /\ Settled(p, TRUE) /\ UNCHANGED query
          \/ /\ p # Nil
             /\ SendCommand(p, "get_hmd_pose")
             /\ query' = IF process = Nil THEN "own" ELSE "shared"
             /\ UNCHANGED kills
  /\ UNCHANGED <<tracking, poses, orphans>>

\* The end of a toggleTrackingReceive's connectWithRetry.
Connected ==
  /\ connects > 0 /\ connects' = connects - 1
  /\ IF sender THEN CalibrateReceiveOrigin ELSE UNCHANGED <<bridge, history>>
  /\ UNCHANGED <<send, receive, vr, sender, lists>>

NotConnected ==
  /\ connects > 0 /\ connects' = connects - 1
  /\ UNCHANGED <<send, receive, vr, sender, bridge, lists, history>>

\* Recalibrate, continuous calibration on, or T-pose off, here or at the sender.
Recalibrate ==
  /\ receive /\ sender
  /\ CalibrateReceiveOrigin
  /\ UNCHANGED <<switches, lists>>

\* An hmd_pose line.
PoseRead ==
  /\ poses > 0 /\ poses' = poses - 1
  /\ query' = "none"
  /\ UNCHANGED state
  /\ Settled(process, query = "own")
  /\ UNCHANGED <<switches, process, tracking, lists, history>>

PoseTimeoutReturns ==
  /\ query # "none" /\ query' = "none"
  /\ UNCHANGED <<switches, process, state, cmds, tracking, poses, kills, lists, history>>

\* The timer of getHmdPose.
PoseTimeout ==
  /\ query # "none" /\ query' = "none"
  /\ UNCHANGED state
  /\ Settled(process, query = "own")
  /\ UNCHANGED <<switches, process, tracking, poses, lists, history>>

\* The exit or error event of process p, which forgets whatever process there is.
Exited(p) ==
  /\ state[p] = "gone"
  /\ state' = [state EXCEPT ![p] = "unused"]
  /\ process' = Nil /\ query' = "none"
  /\ kills' = IF query = "own" /\ ~ send THEN kills + 1 ELSE kills
  /\ orphans' = (orphans \cup {process}) \ {p, Nil}
  /\ stalled' = (stalled \/ process # Nil)
  /\ UNCHANGED <<switches, cmds, tracking, poses, lists>>

KillTimerForgets ==
  /\ kills > 0 /\ kills' = kills - 1
  /\ process' = Nil
  /\ stalled' = (stalled \/ process # Nil)
  /\ UNCHANGED <<switches, state, cmds, tracking, poses, query, lists, orphans>>

\* The timer of destroy.
KillTimer ==
  /\ kills > 0 /\ kills' = kills - 1
  /\ process' = Nil
  /\ IF process # Nil THEN Ended(process) ELSE UNCHANGED <<state, cmds, tracking>>
  /\ stalled' = (stalled \/ process # Nil)
  /\ UNCHANGED <<switches, poses, query, lists, orphans>>

-----------------------------------------------------------------------------
(* The child process.                                                      *)

\* A command in the main loop of main.rs.
Handle(p) ==
  /\ state[p] = "live" /\ cmds[p] # <<>>
  /\ LET cmd == Head(cmds[p]) IN
     \/ cmd = "exit" /\ Ended(p) /\ UNCHANGED poses
     \/ /\ cmd # "exit"
        /\ cmds' = [cmds EXCEPT ![p] = Tail(@)]
        /\ tracking' = [tracking EXCEPT ![p] = cmd = "start" \/ (cmd # "stop" /\ @)]
        /\ UNCHANGED state
        /\ \/ UNCHANGED poses
           \/ cmd = "get_hmd_pose" /\ poses < MaxPoses /\ poses' = poses + 1
  /\ UNCHANGED <<switches, process, query, kills, lists, history>>

\* It ends by itself: there is no SteamVR.
Dies(p) ==
  /\ state[p] = "live"
  /\ Ended(p)
  /\ stalled' = (stalled \/ p = process)
  /\ UNCHANGED <<switches, process, poses, query, kills, lists, orphans>>
-----------------------------------------------------------------------------
(* The slots.                                                              *)

\* updateTrackingSendSlots or updateTrackingReceiveSlots, then
\* getDisabledSendSlotAddresses or getDisabledReceiveSlotAddresses.
UpdateSlots(s, batch) ==
  LET new == [a \in Addrs |-> IF a \notin batch THEN "absent"
                              ELSE IF slots[s][a] = "absent" THEN "on" ELSE slots[s][a]]
  IN /\ slots' = [slots EXCEPT ![s] = new]
     /\ disabled' = IF disabled[s] # Nil THEN disabled
                    ELSE [disabled EXCEPT ![s] = {a \in Addrs : new[a] = "off"}]

\* The process writes a batch.
Produces(p) == state[p] = "live" /\ tracking[p]

\* onBatch; without send it only keeps the local pose of the head.
LocalBatch(p) ==
  /\ Produces(p) /\ send
  /\ \E batch \in SUBSET LocalAddrs : UpdateSlots("send", batch)
  /\ UNCHANGED <<switches, bridge, history>>

\* onRemoteTrackingBatch
RemoteBatch ==
  /\ receive
  /\ \E batch \in SUBSET Addrs :
       UpdateSlots("receive", batch) /\ sender' = (sender \/ HeadAddr \in batch)
  /\ UNCHANGED <<send, receive, vr, connects, bridge, history>>

ToggleSlotOnly(s, a) ==
  /\ slots[s][a] # "absent"
  /\ \E v \in {"on", "off"} : slots' = [slots EXCEPT ![s][a] = v]
  /\ UNCHANGED <<switches, bridge, disabled, history>>

\* toggleTrackingSendSlot, toggleTrackingReceiveSlot
ToggleSlot(s, a) ==
  /\ slots[s][a] # "absent"
  /\ \E v \in {"on", "off"} : slots' = [slots EXCEPT ![s][a] = v]
  /\ disabled' = [disabled EXCEPT ![s] = Nil]
  /\ UNCHANGED <<switches, bridge, history>>

-----------------------------------------------------------------------------
Next ==
  \/ SendOn \/ SendOff \/ ReceiveOn \/ ReceiveOff \/ VRDetected \/ VRLost
  \/ Connected \/ NotConnected \/ Recalibrate \/ PoseRead \/ PoseTimeout \/ KillTimer
  \/ \E p \in Procs : Exited(p) \/ Handle(p) \/ Dies(p) \/ LocalBatch(p)
  \/ RemoteBatch
  \/ \E s \in Sides, a \in Addrs : ToggleSlot(s, a)

\* A live process reads its stdin, its end is noticed, timers fire.
Fairness ==
  /\ WF_vars(PoseTimeout) /\ WF_vars(KillTimer)
  /\ \A p \in Procs : WF_vars(Handle(p)) /\ WF_vars(Exited(p))

Spec == Init /\ [][Next]_vars /\ Fairness

-----------------------------------------------------------------------------
\* Whether a process with commands s to read and tracking_active t will track.
WillTrack(s, t) ==
  \/ \E i \in DOMAIN s : s[i] = "start" /\ \A j \in DOMAIN s : i < j => s[j] # "stop"
  \/ t /\ \A i \in DOMAIN s : s[i] # "stop"

Tracks(p) == WillTrack(cmds[p], tracking[p])

\* Nothing but a late exit event loses a process: a live one is the one that
\* TrackerBridge holds, so the next stop or exit reaches it, kills and timers of
\* destroy notwithstanding, unless the exit of an earlier one, read after it was
\* spawned, has taken it from TrackerBridge.
LiveIsHeld == \A p \in Procs : state[p] = "live" => process = p \/ p \in orphans

\* With both switches off no process goes on reading SteamVR's poses, in
\* whichever order they, VR detection and calibrations have come, but one that
\* a late exit event has taken from TrackerBridge.
IdleWhenUnneeded ==
  ~ send /\ ~ receive =>
    \A p \in Procs \ orphans : state[p] = "live" => ~ Tracks(p) \/ Ending(p)

\* While send is on a process is held, lives and tracks.  What ends that
\* (stalled) is: the loss of VR; the end of the process, by itself, by an exit a
\* calibration had written before send came on, or by the timer of that exit,
\* whatever process it hits; an exit event; and a start that finds no process,
\* or one about to end.  Nothing else does: no switch of receive, and no
\* calibration while send is on.
SenderTracks ==
  send /\ ~ stalled =>
    process # Nil /\ state[process] = "live" /\ ~ Ending(process) /\ Tracks(process)

\* A tracker the list shows as switched off is left out of the batches.
SwitchedOffStaysOff ==
  \A s \in Sides : disabled[s] = Nil \/ {a \in Addrs : slots[s][a] = "off"} \subseteq disabled[s]

\* A process spawned for a calibration ends, however the query for a pose ends,
\* unless send needs it, a later calibration has taken the query over, or a late
\* exit event has taken the process from TrackerBridge.
BorrowedBridgeEnds ==
  \A p \in Procs :
    query = "own" /\ process = p ~>
      state[p] # "live" \/ send \/ query = "shared" \/ p \in orphans
===============================================================================

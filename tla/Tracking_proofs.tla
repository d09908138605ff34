---------------------------- MODULE Tracking_proofs ----------------------------
(***************************************************************************)
(* What the switches promise of the tracker bridge and its slots, for any  *)
(* number of processes, commands, timers and calibrations.                 *)
(***************************************************************************)
EXTENDS Tracking, TLAPS

Cmd == {"start", "stop", "get_hmd_pose", "exit"}
States == {"unused", "live", "gone"}

\* TrackerBridge has a process of its own, dead or alive, and no other is alive
\* that a late exit event has not taken from it.
Held == (process # Nil => state[process] # "unused") /\ LiveIsHeld

\* A process that is dead or to come has nothing to read and does nothing.
Fresh == \A p \in Procs : state[p] # "live" => cmds[p] = <<>> /\ ~ tracking[p]

Inv ==
  TypeOK /\ Held /\ Fresh /\ IdleWhenUnneeded /\ SenderTracks /\ SwitchedOffStaysOff

-----------------------------------------------------------------------------
(* What a process will do with its commands.                               *)

\* A command written last decides, if it is "start" or "stop".
LEMMA AppendTracks ==
  ASSUME NEW s \in Seq(Cmd), NEW t \in BOOLEAN, NEW c \in Cmd
  PROVE  /\ c = "start" => WillTrack(Append(s, c), t)
         /\ c = "stop" => ~ WillTrack(Append(s, c), t)
         /\ c \notin {"start", "stop"} => (WillTrack(Append(s, c), t) <=> WillTrack(s, t))
<1> DEFINE r == Append(s, c)
<1>1. /\ Len(s) \in Nat /\ DOMAIN s = 1..Len(s) /\ DOMAIN r = 1..Len(s) + 1
      /\ r[Len(s) + 1] = c /\ \A i \in 1..Len(s) : r[i] = s[i]
  OBVIOUS
<1> HIDE DEF r
<1>2. ASSUME c = "start" PROVE WillTrack(r, t)
  BY <1>1, <1>2 DEF WillTrack
<1>3. ASSUME c = "stop" PROVE ~ WillTrack(r, t)
  BY <1>1, <1>3 DEF WillTrack
<1>4. ASSUME c \notin {"start", "stop"} PROVE WillTrack(r, t) <=> WillTrack(s, t)
  BY <1>1, <1>4 DEF WillTrack
<1> QED
  BY <1>2, <1>3, <1>4 DEF r

\* Reading a command changes nothing of what the process will do.
LEMMA TailTracks ==
  ASSUME NEW s \in Seq(Cmd), NEW t \in BOOLEAN, s # <<>>
  PROVE  /\ WillTrack(Tail(s), Head(s) = "start" \/ (Head(s) # "stop" /\ t)) <=> WillTrack(s, t)
         /\ Head(s) # "exit" =>
              ((\E i \in DOMAIN Tail(s) : Tail(s)[i] = "exit") <=> \E i \in DOMAIN s : s[i] = "exit")
<1> DEFINE r == Tail(s)
           n == Len(s)
<1>1. /\ n \in Nat \ {0} /\ DOMAIN s = 1..n /\ DOMAIN r = 1..n - 1
      /\ Head(s) = s[1] /\ \A i \in 1..n - 1 : r[i] = s[i + 1]
  OBVIOUS
<1> HIDE DEF r, n
<1>2. /\ \A i \in DOMAIN s : i = 1 \/ (i - 1 \in DOMAIN r /\ r[i - 1] = s[i])
      /\ \A i \in DOMAIN r : i + 1 \in DOMAIN s /\ s[i + 1] = r[i]
      /\ 1 \in DOMAIN s /\ DOMAIN s \subseteq Nat /\ DOMAIN r \subseteq Nat \ {0}
  BY <1>1
<1>3. (\A i \in DOMAIN s : s[i] # "stop") <=> s[1] # "stop" /\ \A i \in DOMAIN r : r[i] # "stop"
  BY <1>2
<1>4. (\E i \in DOMAIN s : s[i] = "start" /\ \A j \in DOMAIN s : i < j => s[j] # "stop") <=>
        \/ s[1] = "start" /\ \A i \in DOMAIN r : r[i] # "stop"
        \/ \E i \in DOMAIN r : r[i] = "start" /\ \A j \in DOMAIN r : i < j => r[j] # "stop"
  <2>1. ASSUME NEW i \in DOMAIN s, s[i] = "start", \A j \in DOMAIN s : i < j => s[j] # "stop"
        PROVE  \/ s[1] = "start" /\ \A k \in DOMAIN r : r[k] # "stop"
               \/ \E k \in DOMAIN r : r[k] = "start" /\ \A j \in DOMAIN r : k < j => r[j] # "stop"
    <3>1. CASE i = 1
      BY <1>2, <2>1, <3>1
    <3>2. CASE i # 1
      <4>1. i - 1 \in DOMAIN r /\ r[i - 1] = "start"
        BY <1>2, <2>1, <3>2
      <4>2. ASSUME NEW j \in DOMAIN r, i - 1 < j PROVE r[j] # "stop"
        BY <1>2, <2>1, <4>2
      <4> QED
        BY <4>1, <4>2
    <3> QED
      BY <3>1, <3>2
  <2>2. ASSUME s[1] = "start", \A i \in DOMAIN r : r[i] # "stop"
        PROVE  \E i \in DOMAIN s : s[i] = "start" /\ \A j \in DOMAIN s : i < j => s[j] # "stop"
    BY <1>2, <2>2
  <2>3. ASSUME NEW k \in DOMAIN r, r[k] = "start", \A j \in DOMAIN r : k < j => r[j] # "stop"
        PROVE  \E i \in DOMAIN s : s[i] = "start" /\ \A j \in DOMAIN s : i < j => s[j] # "stop"
    <3>1. k + 1 \in DOMAIN s /\ s[k + 1] = "start"
      BY <1>2, <2>3
    <3>2. ASSUME NEW j \in DOMAIN s, k + 1 < j PROVE s[j] # "stop"
      <4>1. j # 1 /\ k < j - 1 /\ j - 1 \in DOMAIN r /\ r[j - 1] = s[j]
        BY <1>2, <3>2
      <4> QED
        BY <2>3, <4>1
    <3> QED
      BY <3>1, <3>2
  <2> QED
    BY <2>1, <2>2, <2>3
<1>5. WillTrack(r, s[1] = "start" \/ (s[1] # "stop" /\ t)) <=> WillTrack(s, t)
  BY <1>3, <1>4 DEF WillTrack
<1>6. ASSUME s[1] # "exit"
      PROVE  (\E i \in DOMAIN r : r[i] = "exit") <=> \E i \in DOMAIN s : s[i] = "exit"
  BY <1>2, <1>6
<1> QED
  BY <1>1, <1>5, <1>6 DEF r

-----------------------------------------------------------------------------
(* spawn and sendCommand.                                                  *)

\* spawn keeps the process there is, or starts one when no other lives.
LEMMA SpawnFacts ==
  ASSUME TypeOK, Held, NEW p \in Procs \cup {Nil}, Spawn(p), process' = p, orphans' = orphans
  PROVE  /\ state' \in [Procs -> States] /\ Held'
         /\ process # Nil => p = process /\ state' = state
         /\ \A q \in Procs : state'[q] = state[q]
                             \/ (process = Nil /\ q = p /\ state[q] = "unused" /\ state'[q] = "live")
<1>0. state \in [Procs -> States] /\ Nil \notin Procs
  BY TrackingAssumption DEF TypeOK, States
<1>1. CASE p = process /\ state' = state
  BY <1>0, <1>1 DEF Held, LiveIsHeld
<1>2. CASE process = Nil /\ p = Nil /\ state' = state
  BY <1>0, <1>2 DEF Held, LiveIsHeld
<1>3. CASE /\ process = Nil /\ p \in Procs /\ state[p] = "unused"
           /\ state' = [state EXCEPT ![p] = "live"]
  <2>1. \A q \in Procs : state'[q] = IF q = p THEN "live" ELSE state[q]
    BY <1>0, <1>3
  <2>2. state' \in [Procs -> States]
    BY <1>0, <1>3 DEF States
  <2>3. Held'
    BY <1>0, <1>3, <2>1 DEF Held, LiveIsHeld
  <2> QED
    BY <1>0, <1>3, <2>1, <2>2, <2>3
<1> QED
  BY <1>1, <1>2, <1>3 DEF Spawn

\* sendCommand adds the command to what a live process has to read.
LEMMA SendFacts ==
  ASSUME TypeOK, NEW p \in Procs \cup {Nil}, NEW c \in Cmd, SendCommand(p, c),
         state' \in [Procs -> States], tracking' = tracking
  PROVE  /\ cmds' \in [Procs -> Seq(Cmd)]
         /\ \A q \in Procs : cmds'[q] = IF q = p /\ state'[q] = "live"
                                        THEN Append(cmds[q], c) ELSE cmds[q]
         /\ \A q \in Procs :
              IF q = p /\ state'[q] = "live"
              THEN /\ c = "start" => Tracks(q)'
                   /\ c = "stop" => ~ Tracks(q)'
                   /\ c \notin {"start", "stop"} => (Tracks(q)' <=> Tracks(q))
                   /\ Ending(q)' <=> Ending(q) \/ c = "exit"
              ELSE (Tracks(q)' <=> Tracks(q)) /\ (Ending(q)' <=> Ending(q))
<1>0. cmds \in [Procs -> Seq(Cmd)] /\ tracking \in [Procs -> BOOLEAN] /\ Nil \notin Procs
  BY TrackingAssumption DEF TypeOK, Cmd
<1>1. \A q \in Procs : cmds'[q] = IF q = p /\ state'[q] = "live"
                                  THEN Append(cmds[q], c) ELSE cmds[q]
  BY <1>0 DEF SendCommand
<1>2. cmds' \in [Procs -> Seq(Cmd)]
  <2>1. \A q \in Procs : Append(cmds[q], c) \in Seq(Cmd)
    BY <1>0
  <2> QED
    BY <1>0, <2>1 DEF SendCommand
<1>3. ASSUME NEW q \in Procs, q = p, state'[q] = "live"
      PROVE  /\ c = "start" => Tracks(q)'
             /\ c = "stop" => ~ Tracks(q)'
             /\ c \notin {"start", "stop"} => (Tracks(q)' <=> Tracks(q))
             /\ Ending(q)' <=> Ending(q) \/ c = "exit"
  <2>1. cmds'[q] = Append(cmds[q], c) /\ tracking'[q] = tracking[q]
    BY <1>1, <1>3
  <2>2. cmds[q] \in Seq(Cmd) /\ tracking[q] \in BOOLEAN
    BY <1>0
  <2>3. /\ c = "start" => WillTrack(Append(cmds[q], c), tracking[q])
        /\ c = "stop" => ~ WillTrack(Append(cmds[q], c), tracking[q])
        /\ c \notin {"start", "stop"} =>
             (WillTrack(Append(cmds[q], c), tracking[q]) <=> WillTrack(cmds[q], tracking[q]))
    BY <2>2, AppendTracks
  <2>4. (\E i \in DOMAIN Append(cmds[q], c) : Append(cmds[q], c)[i] = "exit") <=>
          (\E i \in DOMAIN cmds[q] : cmds[q][i] = "exit") \/ c = "exit"
    <3> DEFINE s == cmds[q]
               r == Append(s, c)
    <3>1. /\ Len(s) \in Nat /\ DOMAIN s = 1..Len(s) /\ DOMAIN r = 1..Len(s) + 1
          /\ r[Len(s) + 1] = c /\ \A i \in 1..Len(s) : r[i] = s[i]
      BY <2>2
    <3> HIDE DEF s, r
    <3>2. (\E i \in DOMAIN r : r[i] = "exit") <=> (\E i \in DOMAIN s : s[i] = "exit") \/ c = "exit"
      BY <3>1
    <3> QED
      BY <3>2 DEF s, r
  <2> QED
    BY <2>1, <2>3, <2>4 DEF Tracks, Ending
<1>4. ASSUME NEW q \in Procs, ~ (q = p /\ state'[q] = "live")
      PROVE  (Tracks(q)' <=> Tracks(q)) /\ (Ending(q)' <=> Ending(q))
  <2>1. cmds'[q] = cmds[q] /\ tracking'[q] = tracking[q]
    BY <1>1, <1>4
  <2> QED
    BY <2>1 DEF Tracks, Ending
<1> QED
  BY <1>1, <1>2, <1>3, <1>4

-----------------------------------------------------------------------------
(* One lemma for each group of steps.                                      *)

\* The part of the invariant about processes.
Bridge == TypeOK /\ Held /\ Fresh /\ IdleWhenUnneeded /\ SenderTracks

\* A start, whoever asks for it: one of the switches is on after it.
LEMMA StartInv ==
  ASSUME Bridge, Start, TypeOK', send' \/ receive'
  PROVE  Bridge'
<1>1. PICK p \in Procs \cup {Nil} :
        /\ Spawn(p) /\ process' = p /\ SendCommand(p, "start")
        /\ stalled' = (p = Nil \/ state'[p] # "live" \/ Ending(p))
  BY DEF Start
<1>2. tracking' = tracking /\ orphans' = orphans
  BY DEF Start
<1>3. /\ state' \in [Procs -> States] /\ Held'
      /\ process # Nil => p = process /\ state' = state
      /\ \A q \in Procs : state'[q] = state[q]
                          \/ (process = Nil /\ q = p /\ state[q] = "unused" /\ state'[q] = "live")
  BY <1>1, <1>2, SpawnFacts DEF Bridge
<1>4. /\ \A q \in Procs : cmds'[q] = IF q = p /\ state'[q] = "live"
                                     THEN Append(cmds[q], "start") ELSE cmds[q]
      /\ \A q \in Procs : q = p /\ state'[q] = "live" => Tracks(q)' /\ (Ending(q)' <=> Ending(q))
  BY <1>1, <1>2, <1>3, SendFacts DEF Bridge, Cmd
<1>5. Fresh'
  BY <1>2, <1>3, <1>4 DEF Fresh, Bridge
<1>6. IdleWhenUnneeded'
  BY DEF IdleWhenUnneeded
<1>7. SenderTracks'
  <2> SUFFICES ASSUME ~ stalled'
               PROVE  p # Nil /\ state'[p] = "live" /\ ~ Ending(p)' /\ Tracks(p)'
    BY <1>1 DEF SenderTracks
  <2> QED
    BY <1>1, <1>4
<1> QED
  BY <1>3, <1>5, <1>6, <1>7 DEF Bridge

\* A stop to the process there is, when send is off after it or VR is lost.
LEMMA StopInv ==
  ASSUME Bridge, Stop, TypeOK', send' => stalled', orphans' = orphans
  PROVE  Bridge'
<1>1. /\ process' = process /\ state' = state /\ tracking' = tracking
      /\ SendCommand(process, "stop")
  BY DEF Stop
<1>2. process \in Procs \cup {Nil} /\ state' \in [Procs -> States]
  BY <1>1 DEF Bridge, TypeOK, States
<1>3. /\ \A q \in Procs : cmds'[q] = IF q = process /\ state'[q] = "live"
                                     THEN Append(cmds[q], "stop") ELSE cmds[q]
      /\ \A q \in Procs : q = process /\ state'[q] = "live" => ~ Tracks(q)'
  BY <1>1, <1>2, SendFacts DEF Bridge, Cmd
<1>4. Held' /\ Fresh'
  BY <1>1, <1>3 DEF Bridge, Held, LiveIsHeld, Fresh
<1>5. IdleWhenUnneeded'
  BY <1>1, <1>3 DEF Bridge, Held, LiveIsHeld, IdleWhenUnneeded
<1>6. SenderTracks'
  BY DEF SenderTracks
<1> QED
  BY <1>4, <1>5, <1>6 DEF Bridge

\* A query for a pose or an exit, after a spawn or to the process there is.
LEMMA WriteInv ==
  ASSUME Bridge, TypeOK', NEW p \in Procs \cup {Nil}, NEW c \in {"get_hmd_pose", "exit"},
         SendCommand(p, c), process' = p, tracking' = tracking,
         state' \in [Procs -> States], Held',
         process # Nil => p = process /\ state' = state,
         \A q \in Procs : state'[q] = state[q]
            \/ (process = Nil /\ q = p /\ state[q] = "unused" /\ state'[q] = "live"),
         send' = send, receive' = receive, orphans' = orphans, c = "exit" => ~ send,
         stalled => stalled', process = Nil => stalled'
  PROVE  Bridge'
<1>1. /\ \A q \in Procs : cmds'[q] = IF q = p /\ state'[q] = "live"
                                     THEN Append(cmds[q], c) ELSE cmds[q]
      /\ \A q \in Procs : /\ (Tracks(q)' <=> Tracks(q)) /\ (Ending(q) => Ending(q)')
                          /\ c = "exit" \/ (Ending(q)' => Ending(q))
  <2>1. c \in Cmd /\ c \notin {"start", "stop"}
    BY DEF Cmd
  <2> QED
    BY <2>1, SendFacts DEF Bridge
<1>2. Fresh'
  BY <1>1 DEF Bridge, Fresh
<1>3. IdleWhenUnneeded'
  <2> SUFFICES ASSUME ~ send, ~ receive, NEW q \in Procs \ orphans, state'[q] = "live"
               PROVE  ~ Tracks(q)' \/ Ending(q)'
    BY DEF IdleWhenUnneeded
  <2>1. CASE state[q] = "live"
    BY <1>1, <2>1 DEF Bridge, IdleWhenUnneeded
  <2>2. CASE state[q] # "live"
    <3>1. cmds[q] = <<>> /\ ~ tracking[q]
      BY <2>2 DEF Bridge, Fresh
    <3>2. ~ Tracks(q)
      BY <3>1 DEF Tracks, WillTrack
    <3> QED
      BY <1>1, <3>2
  <2> QED
    BY <2>1, <2>2
<1>4. SenderTracks'
  <2> SUFFICES ASSUME send', ~ stalled'
               PROVE  p # Nil /\ state'[p] = "live" /\ ~ Ending(p)' /\ Tracks(p)'
    BY DEF SenderTracks
  <2>1. process = p /\ state' = state /\ p \in Procs /\ send /\ ~ stalled /\ c # "exit"
    OBVIOUS
  <2> QED
    BY <1>1, <2>1 DEF Bridge, SenderTracks
<1> QED
  BY <1>2, <1>3, <1>4 DEF Bridge

\* A step that leaves the processes alone and switches neither off.
LEMMA QuietInv ==
  ASSUME Bridge, TypeOK', process' = process, state' = state, cmds' = cmds,
         tracking' = tracking, orphans' = orphans, send' = send, stalled => stalled',
         receive => receive' \/ send \/ process = Nil
  PROVE  Bridge'
<1>1. \A q \in Procs : (Tracks(q)' <=> Tracks(q)) /\ (Ending(q)' <=> Ending(q))
  BY DEF Tracks, Ending
<1>2. Held' /\ Fresh'
  BY DEF Bridge, Held, LiveIsHeld, Fresh
<1>3. IdleWhenUnneeded' /\ SenderTracks'
  <2>1. IdleWhenUnneeded'
    <3> SUFFICES ASSUME ~ send, ~ receive', NEW q \in Procs \ orphans, state[q] = "live"
                 PROVE  ~ Tracks(q) \/ Ending(q)
      BY <1>1 DEF IdleWhenUnneeded
    <3>1. process = q /\ process # Nil
      BY TrackingAssumption DEF Bridge, Held, LiveIsHeld
    <3> QED
      BY <3>1 DEF Bridge, IdleWhenUnneeded
  <2>2. SenderTracks'
    <3> SUFFICES ASSUME send, ~ stalled' PROVE SenderTracks'
      BY DEF SenderTracks
    <3>1. process \in Procs /\ state[process] = "live" /\ ~ Ending(process) /\ Tracks(process)
      BY DEF Bridge, TypeOK, SenderTracks
    <3> QED
      BY <1>1, <3>1 DEF Bridge, SenderTracks
  <2> QED
    BY <2>1, <2>2
<1> QED
  BY <1>2, <1>3 DEF Bridge

\* The end of a query, answered or not.
LEMMA SettledInv ==
  ASSUME Bridge, TypeOK', NEW own, Settled(process, own), process' = process, state' = state,
         tracking' = tracking, send' = send, receive' = receive, UNCHANGED history
  PROVE  Bridge'
<1>0. stalled' = stalled /\ orphans' = orphans
  BY DEF history
<1>1. CASE cmds' = cmds
  BY <1>0, <1>1, QuietInv
<1>2. CASE SendCommand(process, "exit") /\ ~ send
  <2>1. process \in Procs \cup {Nil} /\ state' \in [Procs -> States]
    BY DEF Bridge, TypeOK, States
  <2>2. Held'
    BY <1>0 DEF Bridge, Held, LiveIsHeld
  <2>3. CASE process # Nil
    BY <1>0, <1>2, <2>1, <2>2, <2>3, WriteInv
  <2>4. CASE process = Nil
    <3>1. cmds' = cmds
      BY <1>2, <2>4, TrackingAssumption DEF SendCommand
    <3> QED
      BY <1>0, <3>1, QuietInv
  <2> QED
    BY <2>3, <2>4
<1> QED
  BY <1>1, <1>2 DEF Settled, Destroy

\* A calibration up to its await.
LEMMA CalibrateInv ==
  ASSUME Bridge, TypeOK', CalibrateReceiveOrigin, send' = send, receive' = receive
  PROVE  Bridge'
<1>1. PICK p \in Procs \cup {Nil} :
        /\ Spawn(p) /\ process' = p /\ stalled' = (stalled \/ process = Nil)
        /\ \/ p = Nil /\ Settled(p, TRUE)
           \/ p # Nil /\ SendCommand(p, "get_hmd_pose")
  BY DEF CalibrateReceiveOrigin
<1>2. tracking' = tracking /\ orphans' = orphans
  BY DEF CalibrateReceiveOrigin
<1>3. /\ state' \in [Procs -> States] /\ Held'
      /\ process # Nil => p = process /\ state' = state
      /\ \A q \in Procs : state'[q] = state[q]
                          \/ (process = Nil /\ q = p /\ state[q] = "unused" /\ state'[q] = "live")
  BY <1>1, <1>2, SpawnFacts DEF Bridge
<1>4. CASE p = Nil
  <2>1. process = Nil /\ state' = state
    BY <1>1, <1>4, TrackingAssumption DEF Spawn
  <2>2. cmds' = cmds
    BY <1>1, <1>4, TrackingAssumption DEF Settled, Destroy, SendCommand
  <2>3. stalled => stalled'
    BY <1>1
  <2> QED
    BY <1>1, <1>2, <1>4, <2>1, <2>2, <2>3, QuietInv
<1>5. CASE p # Nil
  <2>1. SendCommand(p, "get_hmd_pose") /\ process' = p
    BY <1>1, <1>5
  <2>2. (stalled => stalled') /\ (process = Nil => stalled')
    BY <1>1
  <2> QED
    BY <1>2, <1>3, <2>1, <2>2, WriteInv
<1> QED
  BY <1>4, <1>5

-----------------------------------------------------------------------------
(* Types.                                                                  *)

\* The part of the types that concerns processes.
BridgeTypes ==
  /\ process \in Procs \cup {Nil}
  /\ state \in [Procs -> States]
  /\ cmds \in [Procs -> Seq(Cmd)]
  /\ tracking \in [Procs -> BOOLEAN]
  /\ poses \in 0..MaxPoses
  /\ query \in {"none", "own", "shared"}
  /\ kills \in Nat

\* spawn and sendCommand keep them.
LEMMA RunTypes ==
  ASSUME BridgeTypes, NEW p \in Procs \cup {Nil}, NEW c \in Cmd, Spawn(p), SendCommand(p, c)
  PROVE  state' \in [Procs -> States] /\ cmds' \in [Procs -> Seq(Cmd)]
<1>1. state' \in [Procs -> States]
  BY DEF BridgeTypes, Spawn, States
<1>2. \A q \in Procs : Append(cmds[q], c) \in Seq(Cmd)
  BY DEF BridgeTypes
<1>3. cmds' \in [Procs -> Seq(Cmd)]
  BY <1>2 DEF BridgeTypes, SendCommand
<1> QED
  BY <1>1, <1>3

\* A command to the process there is keeps them.
LEMMA CommandTypes ==
  ASSUME BridgeTypes, NEW p, NEW c \in Cmd, SendCommand(p, c)
  PROVE  cmds' \in [Procs -> Seq(Cmd)]
<1>1. \A q \in Procs : Append(cmds[q], c) \in Seq(Cmd)
  BY DEF BridgeTypes
<1> QED
  BY <1>1 DEF BridgeTypes, SendCommand

\* So do a start,
LEMMA StartTypes == ASSUME BridgeTypes, Start PROVE BridgeTypes' /\ stalled' \in BOOLEAN /\ orphans' = orphans
<1>1. PICK p \in Procs \cup {Nil} :
        /\ Spawn(p) /\ process' = p /\ SendCommand(p, "start")
        /\ stalled' = (p = Nil \/ state'[p] # "live" \/ Ending(p))
  BY DEF Start
<1>2. state' \in [Procs -> States] /\ cmds' \in [Procs -> Seq(Cmd)]
  BY <1>1, RunTypes DEF Cmd
<1> QED
  BY <1>1, <1>2 DEF Start, BridgeTypes

\* a stop,
LEMMA StopTypes == ASSUME BridgeTypes, Stop PROVE BridgeTypes'
<1>1. cmds' \in [Procs -> Seq(Cmd)]
  BY CommandTypes DEF Stop, Cmd
<1> QED
  BY <1>1 DEF Stop, BridgeTypes

\* the end of a query
LEMMA SettledTypes ==
  ASSUME BridgeTypes, NEW p, NEW own, Settled(p, own)
  PROVE  cmds' \in [Procs -> Seq(Cmd)] /\ kills' \in Nat
<1>1. CASE UNCHANGED <<cmds, kills>>
  BY <1>1 DEF BridgeTypes
<1>2. CASE Destroy(p)
  <2>1. cmds' \in [Procs -> Seq(Cmd)]
    BY <1>2, CommandTypes DEF Destroy, Cmd
  <2> QED
    BY <1>2, <2>1 DEF Destroy, BridgeTypes
<1> QED
  BY <1>1, <1>2 DEF Settled

\* and a calibration.
LEMMA CalibrateTypes ==
  ASSUME BridgeTypes, stalled \in BOOLEAN, CalibrateReceiveOrigin
  PROVE  BridgeTypes' /\ stalled' \in BOOLEAN /\ orphans' = orphans
<1>1. PICK p \in Procs \cup {Nil} :
        /\ Spawn(p) /\ process' = p /\ stalled' = (stalled \/ process = Nil)
        /\ \/ p = Nil /\ Settled(p, TRUE) /\ UNCHANGED query
           \/ /\ SendCommand(p, "get_hmd_pose")
              /\ query' = IF process = Nil THEN "own" ELSE "shared"
              /\ UNCHANGED kills
  BY DEF CalibrateReceiveOrigin
<1>2. state' \in [Procs -> States]
  BY <1>1 DEF BridgeTypes, Spawn, States
<1>3. cmds' \in [Procs -> Seq(Cmd)] /\ kills' \in Nat /\ query' \in {"none", "own", "shared"}
  <2>1. CASE Settled(p, TRUE) /\ UNCHANGED query
    BY <2>1, SettledTypes DEF BridgeTypes
  <2>2. CASE /\ SendCommand(p, "get_hmd_pose")
             /\ query' = IF process = Nil THEN "own" ELSE "shared"
             /\ UNCHANGED kills
    <3>1. cmds' \in [Procs -> Seq(Cmd)]
      BY <2>2, CommandTypes DEF Cmd
    <3> QED
      BY <2>2, <3>1 DEF BridgeTypes
  <2> QED
    BY <1>1, <2>1, <2>2
<1>4. UNCHANGED <<tracking, poses, orphans>>
  BY DEF CalibrateReceiveOrigin
<1> QED
  BY <1>1, <1>2, <1>3, <1>4 DEF BridgeTypes

\* A batch keeps those of the slots.
LEMMA SlotTypes ==
  ASSUME TypeOK, NEW s \in Sides, NEW batch \in SUBSET Addrs, UpdateSlots(s, batch)
  PROVE  /\ slots' \in [Sides -> [Addrs -> {"absent", "on", "off"}]]
         /\ disabled' \in [Sides -> {Nil} \cup SUBSET Addrs]
<1> DEFINE new == [a \in Addrs |-> IF a \notin batch THEN "absent"
                                    ELSE IF slots[s][a] = "absent" THEN "on" ELSE slots[s][a]]
<1>1. new \in [Addrs -> {"absent", "on", "off"}]
  BY DEF TypeOK
<1>2. slots' = [slots EXCEPT ![s] = new]
  BY DEF UpdateSlots
<1>3. \/ disabled' = disabled
      \/ disabled' = [disabled EXCEPT ![s] = {a \in Addrs : new[a] = "off"}]
  BY DEF UpdateSlots
<1>4. {a \in Addrs : new[a] = "off"} \in SUBSET Addrs
  OBVIOUS
<1> HIDE DEF new
<1> QED
  BY <1>1, <1>2, <1>3, <1>4 DEF TypeOK

\* A process that ends keeps them.
LEMMA EndedTypes ==
  ASSUME BridgeTypes, NEW p, Ended(p)
  PROVE  /\ state' \in [Procs -> States] /\ cmds' \in [Procs -> Seq(Cmd)]
         /\ tracking' \in [Procs -> BOOLEAN]
<1>1. <<>> \in Seq(Cmd)
  OBVIOUS
<1> QED
  BY <1>1 DEF Ended, BridgeTypes, States

\* Every step keeps the types.
LEMMA TypeInv == ASSUME TypeOK, [Next]_vars PROVE TypeOK'
<1> DEFINE Switched == /\ {send, receive, vr, sender, stalled} \subseteq BOOLEAN
                       /\ connects \in 0..MaxConnects /\ orphans \subseteq Procs
           Listed == /\ slots \in [Sides -> [Addrs -> {"absent", "on", "off"}]]
                     /\ disabled \in [Sides -> {Nil} \cup SUBSET Addrs]
<1>0. BridgeTypes /\ Switched /\ Listed
  BY DEF TypeOK, BridgeTypes, Cmd, States
<1>1. BridgeTypes' /\ Switched' /\ Listed' => TypeOK'
  BY DEF TypeOK, BridgeTypes, Cmd, States
<1>2. ASSUME UNCHANGED lists, BridgeTypes', Switched' PROVE TypeOK'
  BY <1>0, <1>1, <1>2 DEF lists
<1>3. MaxConnects \in Nat /\ MaxPoses \in Nat
  BY TrackingAssumption
<1>4. CASE SendOn
  BY <1>0, <1>2, <1>4, StartTypes DEF SendOn
<1>5. CASE SendOff
  BY <1>0, <1>2, <1>5, StopTypes DEF SendOff, history
<1>6. CASE ReceiveOn
  BY <1>0, <1>2, <1>3, <1>6, StartTypes DEF ReceiveOn
<1>7. CASE ReceiveOff
  <2>1. BridgeTypes'
    BY <1>0, <1>7, StopTypes DEF ReceiveOff, bridge, BridgeTypes
  <2> QED
    BY <1>0, <1>2, <1>7, <2>1 DEF ReceiveOff, history
<1>8. CASE VRDetected
  <2>1. BridgeTypes' /\ stalled' \in BOOLEAN /\ orphans' = orphans
    BY <1>0, <1>8, StartTypes DEF VRDetected, bridge, history, BridgeTypes
  <2> QED
    BY <1>0, <1>2, <1>8, <2>1 DEF VRDetected
<1>9. CASE VRLost
  BY <1>0, <1>2, <1>9, StopTypes DEF VRLost
<1>10. CASE Connected
  <2>1. BridgeTypes' /\ stalled' \in BOOLEAN /\ orphans' = orphans
    BY <1>0, <1>10, CalibrateTypes DEF Connected, bridge, history, BridgeTypes
  <2> QED
    BY <1>0, <1>2, <1>3, <1>10, <2>1 DEF Connected
<1>11. CASE NotConnected
  BY <1>0, <1>2, <1>3, <1>11 DEF NotConnected, bridge, history, BridgeTypes
<1>12. CASE Recalibrate
  BY <1>0, <1>2, <1>12, CalibrateTypes DEF Recalibrate, switches
<1>13. CASE PoseRead
  <2>1. BridgeTypes'
    BY <1>0, <1>3, <1>13, SettledTypes DEF PoseRead, switches, BridgeTypes
  <2> QED
    BY <1>0, <1>2, <1>13, <2>1 DEF PoseRead, switches, history
<1>14. CASE PoseTimeout
  <2>1. BridgeTypes'
    BY <1>0, <1>14, SettledTypes DEF PoseTimeout, switches, BridgeTypes
  <2> QED
    BY <1>0, <1>2, <1>14, <2>1 DEF PoseTimeout, switches, history
<1>15. CASE KillTimer
  <2>1. BridgeTypes'
    BY <1>0, <1>15, EndedTypes DEF KillTimer, BridgeTypes
  <2> QED
    BY <1>0, <1>2, <1>15, <2>1 DEF KillTimer, switches
<1>16. ASSUME NEW p \in Procs, Exited(p) PROVE TypeOK'
  <2>1. BridgeTypes'
    BY <1>0, <1>16 DEF Exited, BridgeTypes, States
  <2>2. Switched'
    <3>1. orphans' \subseteq Procs
      BY <1>0, <1>16 DEF Exited, BridgeTypes
    <3> QED
      BY <1>0, <1>16, <3>1 DEF Exited, switches
  <2> QED
    BY <1>2, <1>16, <2>1, <2>2 DEF Exited
<1>17. ASSUME NEW p \in Procs, Handle(p) PROVE TypeOK'
  <2>1. Tail(cmds[p]) \in Seq(Cmd)
    BY <1>0, <1>17 DEF Handle, BridgeTypes
  <2>2. CASE Ended(p) /\ UNCHANGED poses
    <3>1. BridgeTypes'
      BY <1>0, <1>17, <2>2, EndedTypes DEF Handle, BridgeTypes
    <3> QED
      BY <1>0, <1>2, <1>17, <3>1 DEF Handle, switches, history
  <2>3. CASE /\ cmds' = [cmds EXCEPT ![p] = Tail(@)] /\ UNCHANGED state
             /\ tracking' = [tracking EXCEPT ![p] = Head(cmds[p]) = "start"
                                                    \/ (Head(cmds[p]) # "stop" /\ @)]
             /\ poses' = poses \/ (poses < MaxPoses /\ poses' = poses + 1)
    <3>1. cmds' \in [Procs -> Seq(Cmd)]
      BY <1>0, <2>1, <2>3 DEF BridgeTypes
    <3>2. (Head(cmds[p]) = "start" \/ (Head(cmds[p]) # "stop" /\ tracking[p])) \in BOOLEAN
      OBVIOUS
    <3>3. tracking' \in [Procs -> BOOLEAN]
      BY <1>0, <2>3, <3>2 DEF BridgeTypes
    <3>4. poses' \in 0..MaxPoses
      BY <1>0, <1>3, <2>3 DEF BridgeTypes
    <3>5. BridgeTypes'
      BY <1>0, <1>17, <2>3, <3>1, <3>3, <3>4 DEF Handle, BridgeTypes
    <3> QED
      BY <1>0, <1>2, <1>17, <3>5 DEF Handle, switches, history
  <2> QED
    BY <1>17, <2>2, <2>3 DEF Handle
<1>18. ASSUME NEW p \in Procs, Dies(p) PROVE TypeOK'
  <2>1. BridgeTypes'
    BY <1>0, <1>18, EndedTypes DEF Dies, BridgeTypes
  <2> QED
    BY <1>0, <1>2, <1>18, <2>1 DEF Dies, switches
<1>19. ASSUME NEW p \in Procs, LocalBatch(p) PROVE TypeOK'
  <2>1. Listed'
    BY <1>19, SlotTypes, TrackingAssumption DEF LocalBatch, Sides
  <2> QED
    BY <1>0, <1>1, <1>19, <2>1 DEF LocalBatch, switches, bridge, history, BridgeTypes
<1>20. CASE RemoteBatch
  <2>1. PICK batch \in SUBSET Addrs :
          UpdateSlots("receive", batch) /\ sender' = (sender \/ HeadAddr \in batch)
    BY <1>20 DEF RemoteBatch
  <2>2. Listed'
    BY <2>1, SlotTypes DEF Sides
  <2>3. Switched' /\ BridgeTypes'
    BY <1>0, <1>20, <2>1 DEF RemoteBatch, bridge, history, BridgeTypes
  <2> QED
    BY <1>1, <2>2, <2>3
<1>21. ASSUME NEW s \in Sides, NEW a \in Addrs, ToggleSlot(s, a) PROVE TypeOK'
  <2>1. PICK v \in {"on", "off"} : slots' = [slots EXCEPT ![s] = [slots[s] EXCEPT ![a] = v]]
    BY <1>21 DEF ToggleSlot
  <2>2. Listed'
    BY <1>0, <1>21, <2>1 DEF ToggleSlot
  <2> QED
    BY <1>0, <1>1, <1>21, <2>2 DEF ToggleSlot, switches, bridge, history, BridgeTypes
<1>22. CASE UNCHANGED vars
  BY <1>0, <1>1, <1>22 DEF vars, switches, bridge, lists, history, BridgeTypes
<1> QED
  BY <1>4, <1>5, <1>6, <1>7, <1>8, <1>9, <1>10, <1>11, <1>12, <1>13, <1>14, <1>15,
     <1>16, <1>17, <1>18, <1>19, <1>20, <1>21, <1>22 DEF Next

-----------------------------------------------------------------------------
(* The invariant.                                                          *)

\* The steps of the main process keep the part about processes.
LEMMA MainInv ==
  ASSUME Bridge, TypeOK',
         \/ SendOn \/ SendOff \/ ReceiveOn \/ ReceiveOff \/ VRDetected \/ VRLost
         \/ Connected \/ NotConnected \/ Recalibrate \/ PoseRead \/ PoseTimeout
  PROVE  Bridge'
<1>1. CASE SendOn
  BY <1>1, StartInv DEF SendOn
<1>2. CASE SendOff
  BY <1>2, StopInv DEF SendOff, history
<1>3. CASE ReceiveOn
  BY <1>3, StartInv DEF ReceiveOn
<1>4. CASE ReceiveOff
  <2>1. CASE ~ send /\ process # Nil
    BY <1>4, <2>1, StopInv DEF ReceiveOff, history
  <2>2. CASE ~ (~ send /\ process # Nil)
    <3>1. /\ UNCHANGED bridge /\ UNCHANGED history
          /\ send' = send /\ (send \/ process = Nil)
      BY <1>4, <2>2 DEF ReceiveOff, Bridge, TypeOK
    <3> QED
      BY <3>1, QuietInv DEF bridge, history
  <2> QED
    BY <2>1, <2>2
<1>5. CASE VRDetected
  <2>1. CASE send
    BY <1>5, <2>1, StartInv DEF VRDetected
  <2>2. CASE ~ send
    BY <1>5, <2>2, QuietInv DEF VRDetected, bridge, history
  <2> QED
    BY <2>1, <2>2
<1>6. CASE VRLost
  BY <1>6, StopInv DEF VRLost
<1>7. CASE Connected
  <2>1. CASE sender
    BY <1>7, <2>1, CalibrateInv DEF Connected
  <2>2. CASE ~ sender
    BY <1>7, <2>2, QuietInv DEF Connected, bridge, history
  <2> QED
    BY <2>1, <2>2
<1>8. CASE NotConnected
  BY <1>8, QuietInv DEF NotConnected, bridge, history
<1>9. CASE Recalibrate
  BY <1>9, CalibrateInv DEF Recalibrate, switches
<1>10. CASE PoseRead
  <2>1. Settled(process, query = "own") /\ process' = process /\ state' = state
        /\ tracking' = tracking /\ send' = send /\ receive' = receive /\ UNCHANGED history
    BY <1>10 DEF PoseRead, switches
  <2> QED
    BY <2>1, SettledInv
<1>11. CASE PoseTimeout
  <2>1. Settled(process, query = "own") /\ process' = process /\ state' = state
        /\ tracking' = tracking /\ send' = send /\ receive' = receive /\ UNCHANGED history
    BY <1>11 DEF PoseTimeout, switches
  <2> QED
    BY <2>1, SettledInv
<1> QED
  BY <1>1, <1>2, <1>3, <1>4, <1>5, <1>6, <1>7, <1>8, <1>9, <1>10, <1>11

\* The end of a process is noticed: TrackerBridge has none, and loses what it had.
LEMMA ExitedInv == ASSUME Bridge, TypeOK', NEW p \in Procs, Exited(p) PROVE Bridge'
<1>1. /\ state[p] = "gone" /\ process' = Nil /\ cmds' = cmds /\ tracking' = tracking
      /\ send' = send /\ receive' = receive /\ stalled' = (stalled \/ process # Nil)
      /\ orphans' = (orphans \cup {process}) \ {p, Nil}
      /\ \A q \in Procs : state'[q] = IF q = p THEN "unused" ELSE state[q]
  BY DEF Exited, Bridge, TypeOK, switches
<1>2. \A q \in Procs : state'[q] = "live" => q \in orphans'
  BY <1>1, TrackingAssumption DEF Bridge, Held, LiveIsHeld
<1>3. Held'
  BY <1>1, <1>2 DEF Held, LiveIsHeld
<1>4. Fresh'
  BY <1>1 DEF Bridge, Fresh
<1>5. IdleWhenUnneeded'
  BY <1>2 DEF IdleWhenUnneeded
<1>6. SenderTracks'
  BY <1>1 DEF Bridge, SenderTracks
<1> QED
  BY <1>3, <1>4, <1>5, <1>6 DEF Bridge

\* A dead process reads and does nothing, and the others are left alone.
LEMMA EndedFacts ==
  ASSUME Bridge, NEW p \in Procs, Ended(p)
  PROVE  /\ state' \in [Procs -> States]
         /\ \A q \in Procs : state'[q] = IF q = p THEN "gone" ELSE state[q]
         /\ Fresh'
         /\ \A q \in Procs : q # p => (Tracks(q)' <=> Tracks(q)) /\ (Ending(q)' <=> Ending(q))
<1>1. \A q \in Procs : /\ state'[q] = IF q = p THEN "gone" ELSE state[q]
                       /\ cmds'[q] = IF q = p THEN <<>> ELSE cmds[q]
                       /\ tracking'[q] = IF q = p THEN FALSE ELSE tracking[q]
  BY DEF Ended, Bridge, TypeOK
<1>2. state' \in [Procs -> States]
  BY DEF Ended, Bridge, TypeOK, States
<1>3. Fresh'
  BY <1>1 DEF Bridge, Fresh
<1>4. ASSUME NEW q \in Procs, q # p
      PROVE  (Tracks(q)' <=> Tracks(q)) /\ (Ending(q)' <=> Ending(q))
  BY <1>1, <1>4 DEF Tracks, Ending
<1> QED
  BY <1>1, <1>2, <1>3, <1>4

\* destroy's timer leaves no process alive that it could reach.
LEMMA KillInv == ASSUME Bridge, TypeOK', KillTimer PROVE Bridge'
<1>1. /\ process' = Nil /\ orphans' = orphans
      /\ send' = send /\ receive' = receive /\ stalled' = (stalled \/ process # Nil)
      /\ IF process # Nil THEN Ended(process) ELSE UNCHANGED <<state, cmds, tracking>>
  BY DEF KillTimer, switches
<1>2. SenderTracks'
  BY <1>1 DEF Bridge, SenderTracks
<1>3. CASE process = Nil
  <2>1. Held' /\ Fresh'
    BY <1>1, <1>3 DEF Bridge, Held, LiveIsHeld, Fresh
  <2>2. IdleWhenUnneeded'
    BY <1>1, <1>3, <2>1, TrackingAssumption DEF IdleWhenUnneeded, Held, LiveIsHeld
  <2> QED
    BY <1>2, <2>1, <2>2 DEF Bridge
<1>4. CASE process # Nil
  <2>1. process \in Procs
    BY <1>4 DEF Bridge, TypeOK
  <2>2. Fresh' /\ \A q \in Procs : state'[q] = IF q = process THEN "gone" ELSE state[q]
    BY <1>1, <1>4, <2>1, EndedFacts
  <2>3. \A q \in Procs : state'[q] = "live" => q \in orphans'
    BY <1>1, <2>2 DEF Bridge, Held, LiveIsHeld
  <2>4. Held' /\ IdleWhenUnneeded'
    BY <1>1, <2>3 DEF Held, LiveIsHeld, IdleWhenUnneeded
  <2> QED
    BY <1>2, <2>2, <2>4 DEF Bridge
<1> QED
  BY <1>3, <1>4

\* A process ends in a step that leaves TrackerBridge and the switches alone.
LEMMA EndInv ==
  ASSUME Bridge, TypeOK', NEW p \in Procs, Ended(p), process' = process, send' = send,
         receive' = receive, orphans' = orphans, stalled => stalled',
         process # p \/ stalled' \/ Ending(p)
  PROVE  Bridge'
<1>1. /\ \A q \in Procs : state'[q] = IF q = p THEN "gone" ELSE state[q]
      /\ Fresh'
      /\ \A q \in Procs : q # p => (Tracks(q)' <=> Tracks(q)) /\ (Ending(q)' <=> Ending(q))
  BY EndedFacts
<1>2. process # Nil => process \in Procs
  BY DEF Bridge, TypeOK
<1>3. Held'
  BY <1>1, <1>2 DEF Bridge, Held, LiveIsHeld
<1>4. IdleWhenUnneeded'
  BY <1>1 DEF Bridge, IdleWhenUnneeded
<1>5. SenderTracks'
  <2> SUFFICES ASSUME send, ~ stalled' PROVE SenderTracks'
    BY DEF SenderTracks
  <2>1. PICK q \in Procs : q = process /\ q # p /\ state[q] = "live" /\ ~ Ending(q) /\ Tracks(q)
    BY <1>2 DEF Bridge, SenderTracks
  <2>2. /\ process' = q /\ q # Nil /\ state'[q] = "live"
        /\ ~ Ending(q)' /\ Tracks(q)'
    BY <1>1, <2>1, TrackingAssumption
  <2> QED
    BY <2>2 DEF SenderTracks, Ending, Tracks
<1> QED
  BY <1>1, <1>3, <1>4, <1>5 DEF Bridge

\* A process reads a command.
LEMMA HandleInv == ASSUME Bridge, TypeOK', NEW p \in Procs, Handle(p) PROVE Bridge'
<1> DEFINE h == Head(cmds[p])
<1>1. /\ state[p] = "live" /\ cmds[p] # <<>> /\ cmds[p] \in Seq(Cmd) /\ tracking[p] \in BOOLEAN
      /\ process' = process /\ send' = send /\ receive' = receive
      /\ stalled' = stalled /\ orphans' = orphans
  BY DEF Handle, Bridge, TypeOK, switches, history, Cmd
<1>2. CASE h = "exit" /\ Ended(p)
  <2>1. 1 \in DOMAIN cmds[p] /\ cmds[p][1] = "exit"
    BY <1>1, <1>2
  <2>2. Ending(p)
    BY <2>1 DEF Ending
  <2> QED
    BY <1>1, <1>2, <2>2, EndInv
<1>3. CASE /\ h # "exit" /\ UNCHANGED state
           /\ cmds' = [cmds EXCEPT ![p] = Tail(@)]
           /\ tracking' = [tracking EXCEPT ![p] = h = "start" \/ (h # "stop" /\ @)]
  <2>1. ASSUME NEW q \in Procs
        PROVE  (Tracks(q)' <=> Tracks(q)) /\ (Ending(q)' <=> Ending(q))
    <3>1. CASE q # p
      <4>1. cmds'[q] = cmds[q] /\ tracking'[q] = tracking[q]
        BY <1>3, <3>1 DEF Bridge, TypeOK
      <4> QED
        BY <4>1 DEF Tracks, Ending
    <3>2. CASE q = p
      <4>1. /\ WillTrack(Tail(cmds[p]), h = "start" \/ (h # "stop" /\ tracking[p]))
                 <=> WillTrack(cmds[p], tracking[p])
            /\ (\E i \in DOMAIN Tail(cmds[p]) : Tail(cmds[p])[i] = "exit")
                 <=> \E i \in DOMAIN cmds[p] : cmds[p][i] = "exit"
        BY <1>1, <1>3, TailTracks
      <4>2. /\ cmds'[p] = Tail(cmds[p])
            /\ tracking'[p] = (h = "start" \/ (h # "stop" /\ tracking[p]))
        BY <1>3 DEF Bridge, TypeOK
      <4> QED
        BY <3>2, <4>1, <4>2 DEF Tracks, Ending
    <3> QED
      BY <3>1, <3>2
  <2>2. Held'
    BY <1>1, <1>3 DEF Bridge, Held, LiveIsHeld
  <2>3. Fresh'
    <3>1. \A q \in Procs : q # p => cmds'[q] = cmds[q] /\ tracking'[q] = tracking[q]
      BY <1>3 DEF Bridge, TypeOK
    <3> QED
      BY <1>1, <1>3, <3>1 DEF Bridge, Fresh
  <2>4. IdleWhenUnneeded'
    BY <1>1, <1>3, <2>1 DEF Bridge, IdleWhenUnneeded
  <2>5. SenderTracks'
    <3> SUFFICES ASSUME send, ~ stalled PROVE SenderTracks'
      BY <1>1 DEF SenderTracks
    <3>1. PICK q \in Procs : q = process /\ state[q] = "live" /\ ~ Ending(q) /\ Tracks(q)
      BY DEF Bridge, TypeOK, SenderTracks
    <3>2. /\ process' = q /\ q # Nil /\ state'[q] = "live"
          /\ ~ Ending(q)' /\ Tracks(q)'
      BY <1>1, <1>3, <2>1, <3>1, TrackingAssumption
    <3> QED
      BY <3>2 DEF SenderTracks, Ending, Tracks
  <2> QED
    BY <2>2, <2>3, <2>4, <2>5 DEF Bridge
<1> QED
  BY <1>2, <1>3 DEF Handle

\* A process ends by itself.
LEMMA DiesInv == ASSUME Bridge, TypeOK', NEW p \in Procs, Dies(p) PROVE Bridge'
BY EndInv DEF Dies, switches

\* A batch leaves out what is off already, and what it rebuilds.
LEMMA SlotsInv ==
  ASSUME TypeOK, SwitchedOffStaysOff, NEW s \in Sides, NEW batch \in SUBSET Addrs,
         UpdateSlots(s, batch)
  PROVE  SwitchedOffStaysOff'
<1> DEFINE new == [a \in Addrs |-> IF a \notin batch THEN "absent"
                                    ELSE IF slots[s][a] = "absent" THEN "on" ELSE slots[s][a]]
<1>1. /\ slots' = [slots EXCEPT ![s] = new]
      /\ disabled' = IF disabled[s] # Nil THEN disabled
                     ELSE [disabled EXCEPT ![s] = {a \in Addrs : new[a] = "off"}]
  BY DEF UpdateSlots
<1>2. {a \in Addrs : new[a] = "off"} \subseteq {a \in Addrs : slots[s][a] = "off"}
  OBVIOUS
<1> HIDE DEF new
<1>3. ASSUME NEW r \in Sides
      PROVE  disabled'[r] = Nil \/ {a \in Addrs : slots'[r][a] = "off"} \subseteq disabled'[r]
  <2>1. slots'[r] = IF r = s THEN new ELSE slots[r]
    BY <1>1 DEF TypeOK
  <2>2. CASE r # s
    <3>1. disabled'[r] = disabled[r]
      BY <1>1, <2>2 DEF TypeOK
    <3> QED
      BY <2>1, <2>2, <3>1 DEF SwitchedOffStaysOff
  <2>3. CASE r = s /\ disabled[s] # Nil
    BY <1>1, <1>2, <2>1, <2>3 DEF SwitchedOffStaysOff
  <2>4. CASE r = s /\ disabled[s] = Nil
    <3>1. disabled'[s] = {a \in Addrs : new[a] = "off"}
      BY <1>1, <2>4 DEF TypeOK
    <3> QED
      BY <2>1, <2>4, <3>1
  <2> QED
    BY <2>2, <2>3, <2>4
<1> QED
  BY <1>3 DEF SwitchedOffStaysOff

\* Toggling a slot forgets the cached set of its side.
LEMMA ToggleInv ==
  ASSUME TypeOK, SwitchedOffStaysOff, NEW s \in Sides, NEW a \in Addrs, ToggleSlot(s, a)
  PROVE  SwitchedOffStaysOff'
<1>1. PICK v \in {"on", "off"} : slots' = [slots EXCEPT ![s] = [slots[s] EXCEPT ![a] = v]]
  BY DEF ToggleSlot
<1>2. \A r \in Sides : /\ disabled'[r] = IF r = s THEN Nil ELSE disabled[r]
                       /\ r # s => slots'[r] = slots[r]
  BY <1>1 DEF ToggleSlot, TypeOK
<1> QED
  BY <1>2 DEF SwitchedOffStaysOff

\* It holds at the start,
LEMMA InitInv == Init => Inv
<1> SUFFICES ASSUME Init PROVE Inv
  OBVIOUS
<1>1. BridgeTypes
  <2>1. <<>> \in Seq(Cmd)
    OBVIOUS
  <2> QED
    BY <2>1, TrackingAssumption DEF Init, BridgeTypes, States
<1>2. TypeOK
  <2>1. {send, receive, vr, sender, stalled} \subseteq BOOLEAN
    BY DEF Init
  <2>2. connects \in 0..MaxConnects /\ orphans \subseteq Procs
    <3>1. connects = 0 /\ MaxConnects \in Nat
      BY TrackingAssumption DEF Init
    <3> QED
      BY <3>1 DEF Init
  <2>3. /\ slots \in [Sides -> [Addrs -> {"absent", "on", "off"}]]
        /\ disabled \in [Sides -> {Nil} \cup SUBSET Addrs]
    BY DEF Init
  <2> QED
    BY <1>1, <2>1, <2>2, <2>3 DEF TypeOK, BridgeTypes, Cmd, States
<1>3. \A p \in Procs : state[p] = "unused" /\ cmds[p] = <<>> /\ ~ tracking[p]
  BY DEF Init
<1>4. Held /\ Fresh /\ IdleWhenUnneeded /\ SenderTracks
  BY <1>3 DEF Init, Held, LiveIsHeld, Fresh, IdleWhenUnneeded, SenderTracks
<1>5. SwitchedOffStaysOff
  BY DEF Init, SwitchedOffStaysOff
<1> QED
  BY <1>2, <1>4, <1>5 DEF Inv

\* every step keeps it,
LEMMA NextInv == Inv /\ [Next]_vars => Inv'
<1> SUFFICES ASSUME Inv, [Next]_vars PROVE Inv'
  OBVIOUS
<1>1. TypeOK'
  BY TypeInv DEF Inv
<1>2. Bridge
  BY DEF Inv, Bridge
<1>3. ASSUME Bridge', SwitchedOffStaysOff' PROVE Inv'
  BY <1>3 DEF Inv, Bridge
<1>4. ASSUME UNCHANGED lists PROVE SwitchedOffStaysOff'
  BY <1>4 DEF lists, Inv, SwitchedOffStaysOff
<1>5. ASSUME UNCHANGED <<send, receive, bridge, history>> PROVE Bridge'
  BY <1>1, <1>2, <1>5, QuietInv DEF bridge, history
<1>6. CASE \/ SendOn \/ SendOff \/ ReceiveOn \/ ReceiveOff \/ VRDetected \/ VRLost
           \/ Connected \/ NotConnected \/ Recalibrate \/ PoseRead \/ PoseTimeout
  <2>1. UNCHANGED lists
    BY <1>6 DEF SendOn, SendOff, ReceiveOn, ReceiveOff, VRDetected, VRLost, Connected,
                NotConnected, Recalibrate, PoseRead, PoseTimeout
  <2> QED
    BY <1>1, <1>2, <1>3, <1>4, <1>6, <2>1, MainInv
<1>7. CASE KillTimer
  BY <1>1, <1>2, <1>3, <1>4, <1>7, KillInv DEF KillTimer
<1>8. ASSUME NEW p \in Procs, Exited(p) \/ Handle(p) \/ Dies(p) PROVE Inv'
  <2>1. UNCHANGED lists
    BY <1>8 DEF Exited, Handle, Dies
  <2> QED
    BY <1>1, <1>2, <1>3, <1>4, <1>8, <2>1, ExitedInv, HandleInv, DiesInv
<1>9. ASSUME NEW p \in Procs, LocalBatch(p) PROVE Inv'
  BY <1>3, <1>5, <1>9, SlotsInv, TrackingAssumption DEF LocalBatch, switches, Inv, Sides
<1>10. CASE RemoteBatch
  BY <1>3, <1>5, <1>10, SlotsInv DEF RemoteBatch, Inv, Sides
<1>11. ASSUME NEW s \in Sides, NEW a \in Addrs, ToggleSlot(s, a) PROVE Inv'
  <2>1. UNCHANGED <<send, receive, bridge, history>>
    BY <1>11 DEF ToggleSlot, switches
  <2> QED
    BY <1>3, <1>5, <1>11, <2>1, ToggleInv DEF Inv
<1>12. CASE UNCHANGED vars
  BY <1>3, <1>4, <1>5, <1>12 DEF vars, switches
<1> QED
  BY <1>6, <1>7, <1>8, <1>9, <1>10, <1>11, <1>12 DEF Next

\* so it always holds.
LEMMA Invariance == Spec => []Inv
BY InitInv, NextInv, PTL DEF Spec

-----------------------------------------------------------------------------

\* The values of the switches, the bridge and the slots stay in their types.
THEOREM TypeCorrect == Spec => []TypeOK
<1>1. Inv => TypeOK
  BY DEF Inv
<1> QED
  BY <1>1, Invariance, PTL

\* TrackerBridge loses a live process only to the exit event of an earlier one that
\* comes after it was spawned, whichever order spawns, exits, kills and the timers
\* of destroy come in.
THEOREM NoProcessLost == Spec => []LiveIsHeld
<1>1. Inv => LiveIsHeld
  BY DEF Inv, Held, LiveIsHeld
<1> QED
  BY <1>1, Invariance, PTL

\* With both switches off nothing goes on reading poses that a stop could reach.
THEOREM UnneededIsIdle == Spec => []IdleWhenUnneeded
<1>1. Inv => IdleWhenUnneeded
  BY DEF Inv
<1> QED
  BY <1>1, Invariance, PTL

\* While send is on a process tracks, and what ends that is what sets stalled: the
\* loss of VR, the end of the process, an earlier calibration's exit or its timer,
\* an exit event, a start in vain.  No switch of receive and no later calibration does.
THEOREM SendingGoesOn == Spec => []SenderTracks
<1>1. Inv => SenderTracks
  BY DEF Inv
<1> QED
  BY <1>1, Invariance, PTL

\* No batch carries a tracker that its list shows as switched off.
THEOREM OffIsLeftOut == Spec => []SwitchedOffStaysOff
<1>1. Inv => SwitchedOffStaysOff
  BY DEF Inv
<1> QED
  BY <1>1, Invariance, PTL

-----------------------------------------------------------------------------
(* A process spawned for a calibration is given back: the safety part of   *)
(* BorrowedBridgeEnds, which leaves the fair reading of stdin.             *)

\* A calibration that has spawned its process stops waiting for it only with an
\* exit written to it, with the process dead, with send on, with a later calibration
\* that waits too, or with the process lost to a late exit event; and an exit that
\* is written stays to be read.
GivenBack ==
  \A p \in Procs :
    /\ query = "own" /\ process = p =>
         \/ query' = "own" /\ process' = p
         \/ state'[p] # "live" \/ Ending(p)' \/ send' \/ query' = "shared" \/ p \in orphans'
    /\ Ending(p) => state'[p] # "live" \/ Ending(p)'

\* A step that writes nothing to a process and leaves the query alone.
LEMMA QuietGivesBack ==
  ASSUME process' = process, query' = query, cmds' = cmds
  PROVE  GivenBack
BY DEF GivenBack, Ending

\* A command to the process there is, the query left alone.
LEMMA WriteGivesBack ==
  ASSUME TypeOK, NEW p \in Procs \cup {Nil}, NEW c \in Cmd, SendCommand(p, c),
         state' \in [Procs -> States], tracking' = tracking, process' = p,
         process # Nil => p = process,
         query = "own" => query' \in {"own", "shared"} \/ c = "exit"
  PROVE  GivenBack
<1>1. \A q \in Procs : /\ Ending(q) => Ending(q)'
                       /\ q = p /\ state'[q] = "live" /\ c = "exit" => Ending(q)'
  BY SendFacts
<1> QED
  BY <1>1, TrackingAssumption DEF GivenBack

LEMMA StartGivesBack == ASSUME Inv, Start PROVE GivenBack
<1>1. PICK p \in Procs \cup {Nil} : Spawn(p) /\ process' = p /\ SendCommand(p, "start")
  BY DEF Start
<1>2. state' \in [Procs -> States] /\ (process # Nil => p = process)
  BY <1>1, SpawnFacts DEF Inv, Start
<1>3. tracking' = tracking /\ query' = query /\ query \in {"none", "own", "shared"}
  BY DEF Start, Inv, TypeOK
<1> QED
  BY <1>1, <1>2, <1>3, WriteGivesBack DEF Inv, Cmd

LEMMA StopGivesBack == ASSUME Inv, Stop PROVE GivenBack
<1>1. /\ SendCommand(process, "stop") /\ process \in Procs \cup {Nil}
      /\ state' \in [Procs -> States]
      /\ process' = process /\ tracking' = tracking /\ query' = query
  BY DEF Stop, Inv, TypeOK, States
<1> QED
  BY <1>1, WriteGivesBack DEF Inv, Cmd

\* The answer to a calibration, or the end of its patience.
LEMMA SettledGivesBack ==
  ASSUME Inv, Settled(process, query = "own"), UNCHANGED <<process, state, tracking, send>>
  PROVE  GivenBack
<1>1. CASE query = "own" /\ ~ send
  <2>1. SendCommand(process, "exit") /\ process \in Procs \cup {Nil} /\ state' \in [Procs -> States]
    BY <1>1 DEF Settled, Destroy, Inv, TypeOK, States
  <2> QED
    BY <2>1, WriteGivesBack DEF Inv, Cmd
<1>2. CASE ~ (query = "own" /\ ~ send)
  <2>1. cmds' = cmds
    BY <1>2 DEF Settled
  <2> QED
    BY <1>2, <2>1 DEF GivenBack, Ending
<1> QED
  BY <1>1, <1>2

\* Another calibration shares the process and the query.
LEMMA CalibrateGivesBack == ASSUME Inv, CalibrateReceiveOrigin PROVE GivenBack
<1>1. PICK p \in Procs \cup {Nil} :
        /\ Spawn(p) /\ process' = p
        /\ \/ p = Nil /\ Settled(p, TRUE)
           \/ /\ p # Nil /\ SendCommand(p, "get_hmd_pose")
              /\ query' = IF process = Nil THEN "own" ELSE "shared"
  BY DEF CalibrateReceiveOrigin
<1>2. state' \in [Procs -> States] /\ (process # Nil => p = process) /\ tracking' = tracking
  BY <1>1, SpawnFacts DEF Inv, CalibrateReceiveOrigin
<1>3. CASE p = Nil
  <2>1. cmds' = cmds /\ process = Nil
    BY <1>1, <1>2, <1>3, TrackingAssumption DEF Settled, Destroy, SendCommand
  <2> QED
    BY <2>1, TrackingAssumption DEF GivenBack, Ending
<1>4. CASE p # Nil
  <2>1. SendCommand(p, "get_hmd_pose") /\ query' \in {"own", "shared"}
    BY <1>1, <1>4
  <2> QED
    BY <1>1, <1>2, <2>1, WriteGivesBack DEF Inv, Cmd
<1> QED
  BY <1>3, <1>4

\* The end of a process: its query is no longer waited for, or it is dead.
LEMMA EndGivesBack ==
  ASSUME Inv, NEW q \in Procs, Ended(q),
         (process' = process /\ query' = query) \/ process = q
  PROVE  GivenBack
<1>1. \A p \in Procs : /\ p = q => state'[p] = "gone"
                       /\ p # q => cmds'[p] = cmds[p]
  BY DEF Ended, Inv, TypeOK
<1> QED
  BY <1>1 DEF GivenBack, Ending

\* A process is given back in every step.
LEMMA StepGivesBack == ASSUME Inv, [Next]_vars PROVE GivenBack
<1>1. CASE SendOn \/ ReceiveOn
  BY <1>1, StartGivesBack DEF SendOn, ReceiveOn
<1>2. CASE SendOff \/ VRLost
  BY <1>2, StopGivesBack DEF SendOff, VRLost
<1>3. CASE ReceiveOff
  BY <1>3, StopGivesBack, QuietGivesBack DEF ReceiveOff, bridge
<1>4. CASE VRDetected
  BY <1>4, StartGivesBack, QuietGivesBack DEF VRDetected, bridge
<1>5. CASE Connected
  BY <1>5, CalibrateGivesBack, QuietGivesBack DEF Connected, bridge
<1>6. CASE Recalibrate
  BY <1>6, CalibrateGivesBack DEF Recalibrate
<1>7. CASE PoseRead \/ PoseTimeout
  BY <1>7, SettledGivesBack DEF PoseRead, PoseTimeout, switches
<1>8. CASE KillTimer
  <2>1. CASE process = Nil
    BY <1>8, <2>1, TrackingAssumption DEF KillTimer, GivenBack, Ending
  <2>2. CASE process # Nil
    BY <1>8, <2>2, EndGivesBack DEF KillTimer, Inv, TypeOK
  <2> QED
    BY <2>1, <2>2
<1>9. ASSUME NEW q \in Procs, Exited(q) PROVE GivenBack
  <2>1. /\ state'[q] = "unused" /\ cmds' = cmds /\ Nil \notin Procs
        /\ orphans' = (orphans \cup {process}) \ {q, Nil}
    BY <1>9, TrackingAssumption DEF Exited, Inv, TypeOK
  <2> QED
    BY <2>1 DEF GivenBack, Ending
<1>10. ASSUME NEW q \in Procs, Handle(q) PROVE GivenBack
  <2>1. process' = process /\ query' = query /\ cmds[q] \in Seq(Cmd) /\ cmds[q] # <<>>
        /\ tracking[q] \in BOOLEAN
    BY <1>10 DEF Handle, Inv, TypeOK, Cmd
  <2>2. CASE Ended(q)
    BY <2>1, <2>2, EndGivesBack
  <2>3. CASE Head(cmds[q]) # "exit" /\ cmds' = [cmds EXCEPT ![q] = Tail(@)]
    <3>1. (\E i \in DOMAIN Tail(cmds[q]) : Tail(cmds[q])[i] = "exit")
            <=> \E i \in DOMAIN cmds[q] : cmds[q][i] = "exit"
      BY <2>1, <2>3, TailTracks
    <3>2. \A p \in Procs : cmds'[p] = IF p = q THEN Tail(cmds[q]) ELSE cmds[p]
      BY <2>3 DEF Inv, TypeOK
    <3>3. \A p \in Procs : Ending(p) => Ending(p)'
      BY <3>1, <3>2 DEF Ending
    <3> QED
      BY <2>1, <3>3 DEF GivenBack
  <2> QED
    BY <1>10, <2>2, <2>3 DEF Handle
<1>11. CASE \/ NotConnected \/ RemoteBatch \/ UNCHANGED vars
            \/ \E q \in Procs : LocalBatch(q)
            \/ \E s \in Sides, a \in Addrs : ToggleSlot(s, a)
  <2>1. process' = process /\ query' = query /\ cmds' = cmds
    BY <1>11 DEF NotConnected, RemoteBatch, vars, LocalBatch, ToggleSlot, bridge
  <2> QED
    BY <2>1, QuietGivesBack
<1>12. ASSUME NEW q \in Procs, Dies(q) PROVE GivenBack
  BY <1>12, EndGivesBack DEF Dies
<1> QED
  BY <1>1, <1>2, <1>3, <1>4, <1>5, <1>6, <1>7, <1>8, <1>9, <1>10, <1>11, <1>12 DEF Next

\* No calibration keeps the process it has spawned, however it ends and whatever
\* the switches, VR detection and other calibrations do meanwhile: an exit is written
\* to it, unless it is dead, send or a later calibration has it, or a late exit event
\* has taken it from TrackerBridge.
THEOREM BorrowedIsGivenBack == Spec => [][GivenBack]_vars
<1>1. Inv /\ [Next]_vars => [GivenBack]_vars
  BY StepGivesBack
<1> QED
  BY <1>1, Invariance, PTL DEF Spec
===============================================================================
